------------------------------- MODULE Envelope -------------------------------
(***************************************************************************)
(* The relay envelope (src/crates/protocol/src/relay.rs): encode_packet and *)
(* decode_packet in both versions, and the way of one datagram from a       *)
(* client through the relay to another client: encode, decode, rewrite,     *)
(* encode again, decode.                                                    *)
(*                                                                         *)
(* Fields have their real widths.  Byte i of a field with value v is the    *)
(* pair <<v, i>>: no code looks into the bytes of a value, and bytes read   *)
(* at the wrong place show up as "garbled".  For the same reason one value  *)
(* per field is enough: a field has its own name for a value.               *)
(***************************************************************************)
EXTENDS Naturals, Sequences, SequencesExt, PartialSums

CONSTANTS MaxPayload,     \* MAX_CIV6_DATAGRAM_SIZE
          SafePayload,    \* safe_payload_size of the router
          Slack           \* room for ids and metadata: 64

ASSUME EnvelopeAssumption == {MaxPayload, SafePayload, Slack} \subseteq Nat

HeaderSize == 8
MaxBody    == 65535   \* body_len is a u16

IdField   == {"request_id", "host_session_id", "session_id"}
IpField   == {"source_virtual_ip", "host_virtual_ip"}
PortField == {"destination_port", "source_port"}
MetaField == {"sequence", "connection_epoch", "sent_at_ms"}

Width(f) == CASE f \in IdField   -> 16
              [] f \in IpField   -> 4
              [] f \in PortField -> 2
              [] f \in MetaField -> 8
              [] OTHER           -> 1   \* path_present, path_id

MetaFields == <<"sequence", "connection_epoch", "sent_at_ms",
                "path_present", "path_id">>

(* What encode_packet writes of a message, and what decode_packet reads of  *)
(* it: two tables, because the code says it twice.                          *)
WrittenFields_bug ==
  [DiscoveryRequest  |-> <<"request_id", "destination_port">>,
   DiscoveryToHost   |-> <<"request_id", "source_virtual_ip", "destination_port">>,
   DiscoveryResponse |-> <<"host_session_id", "request_id", "source_port">>,
   DiscoveryToClient |-> <<"request_id", "host_virtual_ip", "source_port">>,
   GameplayPacket    |-> <<"session_id", "source_port">>,
   GameplayToPeer    |-> <<"session_id", "source_virtual_ip", "destination_port">>,
   RelayProbe        |-> <<"request_id">>,
   RelayProbeAck     |-> <<"request_id">>]

WrittenFields ==
  [DiscoveryRequest  |-> <<"request_id", "destination_port">>,
   DiscoveryToHost   |-> <<"request_id", "source_virtual_ip", "destination_port">>,
   DiscoveryResponse |-> <<"request_id", "host_session_id", "source_port">>,
   DiscoveryToClient |-> <<"request_id", "host_virtual_ip", "source_port">>,
   GameplayPacket    |-> <<"session_id", "source_port">>,
   GameplayToPeer    |-> <<"session_id", "source_virtual_ip", "destination_port">>,
   RelayProbe        |-> <<"request_id">>,
   RelayProbeAck     |-> <<"request_id">>]

ReadFields ==
  [DiscoveryRequest  |-> <<"request_id", "destination_port">>,
   DiscoveryToHost   |-> <<"request_id", "source_virtual_ip", "destination_port">>,
   DiscoveryResponse |-> <<"request_id", "host_session_id", "source_port">>,
   DiscoveryToClient |-> <<"request_id", "host_virtual_ip", "source_port">>,
   GameplayPacket    |-> <<"session_id", "source_port">>,
   GameplayToPeer    |-> <<"session_id", "source_virtual_ip", "destination_port">>,
   RelayProbe        |-> <<"request_id">>,
   RelayProbeAck     |-> <<"request_id">>]

Kind       == DOMAIN WrittenFields
ProbeKind  == {"RelayProbe", "RelayProbeAck"}
FromClient == {"DiscoveryRequest", "DiscoveryResponse", "GameplayPacket", "RelayProbe"}

-----------------------------------------------------------------------------
(* Bytes.                                                                   *)

Bytes(v, n) == [i \in 1..n |-> <<v, i>>]

ValueOf(bytes) ==
  LET v == bytes[1][1] IN IF bytes = Bytes(v, Len(bytes)) THEN v ELSE "garbled"

(* Where every field ends.                                                  *)
Ends(fields) == Total([i \in DOMAIN fields |-> Width(fields[i])])
Size(fields) == Ends(fields)[Len(fields)]

(* As it would be without room for the metadata of version 2.               *)
MaxRelayDatagram_bug == HeaderSize + MaxPayload + (Slack - Size(MetaFields))

MaxRelayDatagram == HeaderSize + MaxPayload + Slack

Write(fields, value) ==
  FlattenSeq([i \in DOMAIN fields |-> Bytes(value[fields[i]], Width(fields[i]))])

Read(fields, bytes) ==
  LET index == [f \in ToSet(fields) |-> CHOOSE i \in DOMAIN fields : fields[i] = f]
      end   == Ends(fields)
  IN  [f \in ToSet(fields) |->
         ValueOf(SubSeq(bytes, end[index[f]] - Width(f) + 1, end[index[f]]))]

-----------------------------------------------------------------------------
(* The codec.  Its results are sets: {} is an error.                        *)

Meta == [sequence : STRING, connection_epoch : STRING, sent_at_ms : STRING,
         path : STRING]

DefaultMeta == [sequence |-> "0", connection_epoch |-> "0", sent_at_ms |-> "0",
                path |-> "none"]

(* write_meta and read_meta: no path is two zero bytes; without the marker  *)
(* the second byte is not looked at.                                        *)
WriteMeta(meta) ==
  Write(MetaFields,
        [sequence |-> meta.sequence, connection_epoch |-> meta.connection_epoch,
         sent_at_ms |-> meta.sent_at_ms,
         path_present |-> IF meta.path = "none" THEN "0" ELSE "1",
         path_id      |-> IF meta.path = "none" THEN "0" ELSE meta.path])

ReadMeta(bytes) ==
  LET value == Read(MetaFields, bytes)
  IN  {[sequence |-> value.sequence, connection_epoch |-> value.connection_epoch,
        sent_at_ms |-> value.sent_at_ms,
        path |-> IF p = "1" THEN value.path_id ELSE "none"] :
         p \in {value.path_present} \cap {"0", "1"}}

Encode(envelope, version) ==
  LET message == envelope.message
      body    == (IF version = 2 THEN WriteMeta(envelope.meta) ELSE <<>>)
                   \o Write(WrittenFields[message.kind], message.fields)
                   \o message.payload
  IN  {[magic |-> TRUE, version |-> version, kind |-> message.kind,
        declared |-> Len(b), body |-> b] :
         b \in {b \in {body} : Len(message.payload) <= MaxPayload /\ Len(b) <= MaxBody}}

(* The header.  Less than a header, and a wrong magic, is ~magic.  With the *)
(* old version retired, and with more declared than there is.               *)
WellFramed_bugLegacy(d) ==
  /\ HeaderSize + Len(d.body) <= MaxRelayDatagram
  /\ d.magic /\ d.version = 2
  /\ d.declared = Len(d.body)
WellFramed_bugLength(d) ==
  /\ HeaderSize + Len(d.body) <= MaxRelayDatagram
  /\ d.magic /\ d.version \in {1, 2}
  /\ d.declared >= Len(d.body)

WellFramed(d) ==
  /\ HeaderSize + Len(d.body) <= MaxRelayDatagram
  /\ d.magic /\ d.version \in {1, 2}
  /\ d.declared = Len(d.body)

(* read_payload takes what is left; a probe must leave nothing.             *)
PayloadFits(kind, payload) ==
  IF kind \in ProbeKind THEN payload = <<>> ELSE Len(payload) <= MaxPayload

Decode(d) ==
  LET metaSize == IF d.version = 2 THEN Size(MetaFields) ELSE 0
      metas    == IF d.version = 2 THEN ReadMeta(d.body) ELSE {DefaultMeta}
      fields   == ReadFields[d.kind]
      rest     == SubSeq(d.body, metaSize + 1, Len(d.body))
      payload  == SubSeq(rest, Size(fields) + 1, Len(rest))
  IN  IF /\ WellFramed(d) /\ d.kind \in Kind
         /\ Len(d.body) >= metaSize + Size(fields)
         /\ PayloadFits(d.kind, payload)
      THEN {[meta |-> m, message |-> [kind |-> d.kind, fields |-> Read(fields, rest),
                                      payload |-> payload]] : m \in metas}
      ELSE {}

-----------------------------------------------------------------------------
(* One datagram.  `datagram` is what arrives at the relay, `composed` the   *)
(* envelope it was made from (`genuine`, unless something else sent it),    *)
(* `accepted` what the relay reads, `forwarded` what it sends, `received`   *)
(* what the other client reads.                                             *)
VARIABLES stage, datagram, genuine, composed, accepted, forwarded, received
envelopeVars == <<stage, datagram, genuine, composed, accepted, forwarded, received>>

Nothing == [meta |-> DefaultMeta,
            message |-> [kind |-> "RelayProbe", fields |-> <<>>, payload |-> <<>>]]
Silence == [magic |-> FALSE, version |-> 0, kind |-> "none", declared |-> 0, body |-> <<>>]

EnvelopeInit ==
  /\ stage = "idle" /\ genuine = FALSE
  /\ datagram = Silence /\ forwarded = Silence
  /\ composed = Nothing /\ accepted = Nothing /\ received = Nothing

(* Named after themselves.                                                  *)
NamedFields(fields) == [f \in ToSet(fields) |-> f]

Messages ==
  {[kind |-> k, fields |-> NamedFields(WrittenFields[k]), payload |-> Bytes("payload", n)] :
     k \in Kind \ ProbeKind, n \in 0..MaxPayload + 1}
  \cup {[kind |-> k, fields |-> NamedFields(WrittenFields[k]), payload |-> <<>>] :
          k \in ProbeKind}

Metas == {[sequence |-> "sequence", connection_epoch |-> "connection_epoch",
           sent_at_ms |-> "sent_at_ms", path |-> p] : p \in {"none", "wireguard"}}

(* RelayClient::send makes version 1, send_envelope version 2; what does    *)
(* not encode is not sent.                                                  *)
Compose ==
  /\ stage = "idle"
  /\ \E message \in Messages, meta \in Metas \cup {DefaultMeta}, version \in {1, 2} :
       LET envelope == [meta |-> meta, message |-> message]
       IN  /\ version = 1 <=> meta = DefaultMeta
           /\ composed' = envelope
           /\ datagram' \in Encode(envelope, version)
  /\ stage' = "to_relay" /\ genuine' = TRUE
  /\ UNCHANGED <<accepted, forwarded, received>>

(* Whatever else may arrive: cut anywhere, longer than it says by up to     *)
(* what no buffer takes, of another kind or version, without the magic.     *)
Variants(d) ==
  {[d EXCEPT !.body = SubSeq(@, 1, n)] : n \in 0..Len(d.body) - 1}
  \cup {[d EXCEPT !.body = SubSeq(@, 1, n), !.declared = n] : n \in 0..Len(d.body) - 1}
  \cup {[d EXCEPT !.body = @ \o Bytes("padding", n)] : n \in 1..Slack + 2}
  \cup {[d EXCEPT !.body = @ \o Bytes("padding", n), !.declared = @ + n] : n \in 1..Slack + 2}
  \cup {[d EXCEPT !.kind = k] : k \in Kind \cup {"none"}}
  \cup {[d EXCEPT !.version = v] : v \in 0..3}
  \cup {[d EXCEPT !.magic = FALSE]}

Other ==
  /\ stage = "to_relay" /\ genuine
  /\ datagram' \in Variants(datagram) /\ genuine' = FALSE
  /\ UNCHANGED <<stage, composed, accepted, forwarded, received>>

(* recv into a buffer of the maximum size cuts off what is longer.          *)
Buffered(d) ==
  [d EXCEPT !.body = SubSeq(@, 1, Min({Len(@), MaxRelayDatagram - HeaderSize}))]

(* validate_payload.                                                        *)
MayForward(message) ==
  message.kind = "RelayProbe"
    \/ (Len(message.payload) <= MaxPayload /\ Len(message.payload) <= SafePayload)

(* dispatch and action_to_datagrams; the addresses come from the router.    *)
Rewritten(message) ==
  LET f == message.fields
      to(kind, fields) == [kind |-> kind, fields |-> fields, payload |-> message.payload]
  IN  CASE message.kind = "DiscoveryRequest" ->
             to("DiscoveryToHost",
                [request_id |-> f.request_id, source_virtual_ip |-> "source_virtual_ip",
                 destination_port |-> f.destination_port])
        [] message.kind = "DiscoveryResponse" ->
             to("DiscoveryToClient",
                [request_id |-> f.request_id, host_virtual_ip |-> "host_virtual_ip",
                 source_port |-> f.source_port])
        [] message.kind = "GameplayPacket" ->
             to("GameplayToPeer",
                [session_id |-> f.session_id, source_virtual_ip |-> "source_virtual_ip",
                 destination_port |-> f.source_port])
        [] message.kind = "RelayProbe" ->
             to("RelayProbeAck", [request_id |-> f.request_id])

(* handle_datagram as far as the envelope decides: malformed, of a kind the *)
(* server does not take, or too large for the tunnel.                       *)
RelayDrops ==
  /\ stage = "to_relay"
  /\ \A e \in Decode(Buffered(datagram)) :
       e.message.kind \notin FromClient \/ ~MayForward(e.message)
  /\ stage' = "dropped"
  /\ UNCHANGED <<datagram, genuine, composed, accepted, forwarded, received>>

(* The router knows none of the ids, or the limits are reached.             *)
RouterRefuses ==
  /\ stage = "to_relay"
  /\ \E e \in Decode(Buffered(datagram)) : e.message.kind \in FromClient
  /\ stage' = "refused"
  /\ UNCHANGED <<datagram, genuine, composed, accepted, forwarded, received>>

(* The relay sends it on in version 2, or run() ends with the error of      *)
(* encode, and the process with it.                                         *)
Forward ==
  /\ stage = "to_relay"
  /\ \E e \in Decode(Buffered(datagram)) :
       LET packets == Encode([e EXCEPT !.message = Rewritten(@)], 2)
       IN  /\ e.message.kind \in FromClient /\ MayForward(e.message)
           /\ accepted' = e
           /\ \/ forwarded' \in packets /\ stage' = "to_client"
              \/ packets = {} /\ stage' = "ended" /\ UNCHANGED forwarded
  /\ UNCHANGED <<datagram, genuine, composed, received>>

ClientReceives ==
  /\ stage = "to_client"
  /\ LET envelopes == Decode(Buffered(forwarded))
     IN  \/ received' \in envelopes /\ stage' = "received"
         \/ envelopes = {} /\ stage' = "unreadable" /\ UNCHANGED received
  /\ UNCHANGED <<datagram, genuine, composed, accepted, forwarded>>

NextDatagram ==
  /\ stage \in {"dropped", "refused", "unreadable", "received"}
  /\ stage' = "idle" /\ genuine' = FALSE
  /\ datagram' = Silence /\ forwarded' = Silence
  /\ composed' = Nothing /\ accepted' = Nothing /\ received' = Nothing

EnvelopeNext ==
  Compose \/ Other \/ RelayDrops \/ RouterRefuses \/ Forward \/ ClientReceives
    \/ NextDatagram

EnvelopeSpec == EnvelopeInit /\ [][EnvelopeNext]_envelopeVars

-----------------------------------------------------------------------------
(* Properties.                                                              *)

(* Through two encodings and two decodings, from either version to version  *)
(* 2, a client reads the metadata, ids, ports and payload that were sent,   *)
(* as the relay rewrites them.                                              *)
ArrivesAsSent ==
  stage = "received" /\ genuine =>
    received = [composed EXCEPT !.message = Rewritten(@)]

(* Whatever the relay accepts, it can encode in the longer form, and the    *)
(* buffer of the client takes it: no datagram ends run() at its encode.     *)
RelayOutputIsReadable == stage \notin {"ended", "unreadable"}

(* Of what clients send, in either version and with the longest ids, the    *)
(* relay drops only the kinds it does not take and unsafe payloads.         *)
SafeIsForwarded ==
  stage = "dropped" /\ genuine =>
    \/ composed.message.kind \notin FromClient
    \/ Len(composed.message.payload) > SafePayload

(* A datagram of which a piece is missing, or that the buffer has cut, is   *)
(* never forwarded: what the relay has read takes all the bytes that were   *)
(* sent and declared.                                                       *)
NothingCut ==
  stage \in {"to_client", "received"} =>
    \E d \in Encode(accepted, datagram.version) :
      /\ Len(d.body) = Len(datagram.body)
      /\ d.declared = datagram.declared
=============================================================================
