---------------------------- MODULE ClientSession ----------------------------
(***************************************************************************)
(* RelaySession::run_with_reconnect of one client                          *)
(* (src/crates/client-core/src/lib.rs) against the router of the server:   *)
(* probe, sleep, count failures, back off, resume.                         *)
(*                                                                         *)
(* The session is one task.  It stands `at` an await, with the time that is *)
(* left of it in `timer`; steps that need no time are taken before the      *)
(* clock goes on (see Second).                                              *)
(*                                                                         *)
(* The path between client and server is good or `disturbed`.  While it is *)
(* good, datagrams and requests arrive in less than a unit of time.  While *)
(* it is disturbed they may be lost, duplicated or late, and sending may   *)
(* fail.  `quiet` is how long the path has been good.                      *)
(***************************************************************************)
EXTENDS RoomRouter

CONSTANTS Me, Home, HomeCode, MyAddress,  \* the client, its room and address
          ProbeInterval, ProbeTimeout, DegradedAfterFailures,
          ReconnectInitialBackoff, ReconnectMaxBackoff,
          MaxAttempts,      \* u32::MAX, where saturating_add stops
          MaxDisturbances   \* bound of the model

ASSUME ClientAssumption ==
  /\ Me \in PeerId /\ Home \in RoomId /\ HomeCode \in RoomCode
  /\ MyAddress \in VirtualIp
  /\ {ProbeInterval, ProbeTimeout, DegradedAfterFailures, ReconnectInitialBackoff,
      ReconnectMaxBackoff, MaxAttempts} \subseteq Nat \ {0}
  /\ MaxDisturbances \in Nat

VARIABLES session,           \* RelaySessionSnapshot
          at, timer,         \* the await the session stands at
          probes,            \* probes on their way to the relay
          acks,              \* acknowledgements on their way or in the socket
          disturbed, quiet, disturbances

pathVars   == <<disturbed, quiet, disturbances>>
awaitVars  == <<at, timer>>
clientVars == <<session, awaitVars, probes, acks, pathVars>>
sessionSystemVars == <<vars, clientVars>>

(* Of the request id of a probe and of its acknowledgement it matters only  *)
(* whether it is the one the session waits for.                             *)
ProbeDatagram == [epoch : 1..MaxEpoch, current : BOOLEAN]
ProbeAck      == [current : BOOLEAN]
Outdated(S)   == {[d EXCEPT !.current = FALSE] : d \in S}

(* The client has joined, and the caller has marked the room as joined.     *)
ClientInit ==
  /\ rooms = [r \in {Home} |-> [code |-> HomeCode, members |-> {Me},
                                host_sessions |-> {}]]
  /\ rooms_by_code = [c \in {HomeCode} |-> Home]
  /\ peers = [p \in {Me} |-> [room_id |-> Home, virtual_ip |-> MyAddress,
                              disconnected |-> FALSE, lease |-> PeerTtl,
                              epoch |-> 1]]
  /\ virtual_ips = [ip \in {MyAddress} |-> Me]
  /\ hosts = NoTables /\ host_by_peer = NoTables
  /\ discoveries = NoTables /\ gameplay = NoTables
  /\ session = [state |-> "RoomJoined", failures |-> 0, attempts |-> 0, epoch |-> 1]
  /\ at = "probe" /\ timer = 0
  /\ probes = {} /\ acks = {}
  /\ disturbed = FALSE /\ quiet = 0 /\ disturbances = 0

-----------------------------------------------------------------------------
(* The session.                                                             *)

Await(place, time) == at' = place /\ timer' = time

(* reconnect_delay, without its upper limit, and with it.                   *)
ReconnectDelay_bug(attempts) ==
  ReconnectInitialBackoff * 2 ^ (IF attempts < 5 THEN attempts ELSE 5)

ReconnectDelay(attempts) ==
  LET delay == ReconnectInitialBackoff * 2 ^ (IF attempts < 5 THEN attempts ELSE 5)
  IN  IF delay < ReconnectMaxBackoff THEN delay ELSE ReconnectMaxBackoff

(* A probe that fails: record_probe_failure, and then another sleep or the  *)
(* first backoff.                                                           *)
ProbeFails ==
  LET failures == session.failures + 1
  IN  IF failures >= DegradedAfterFailures
      THEN /\ session' = [session EXCEPT !.failures = failures,
                                         !.state = "Reconnecting"]
           /\ Await("backoff", ReconnectDelay(session.attempts))
      ELSE /\ session' = [session EXCEPT !.failures = failures]
           /\ Await("sleep", ProbeInterval)

ProbeSucceeds ==
  /\ session' = [session EXCEPT
                   !.failures = 0,
                   !.state = IF @ \in {"Resynced", "RoomJoined"} THEN "Healthy" ELSE @]
  /\ Await("sleep", ProbeInterval)

SendProbe ==
  /\ at = "probe"
  /\ \/ /\ probes' = Outdated(probes) \cup {[epoch |-> session.epoch, current |-> TRUE]}
        /\ acks' = Outdated(acks)
        /\ Await("ack", ProbeTimeout)
        /\ UNCHANGED session
     \/ /\ disturbed   \* the socket reports an error
        /\ ProbeFails
        /\ probes' = Outdated(probes) /\ acks' = Outdated(acks)
  /\ UNCHANGED <<vars, pathVars>>

(* probe_once reads what is in the socket until it finds the                *)
(* acknowledgement it waits for, and drops everything else.                 *)
ReceiveAck_bug ==
  /\ at = "ack"
  /\ \E a \in acks : ProbeSucceeds /\ acks' = acks \ {a}
  /\ UNCHANGED <<vars, probes, pathVars>>

ReceiveAck ==
  /\ at = "ack"
  /\ \E a \in acks :
       /\ \/ a.current /\ ProbeSucceeds
          \/ ~a.current /\ UNCHANGED <<session, awaitVars>>
       /\ acks' = acks \ {a}
  /\ UNCHANGED <<vars, probes, pathVars>>

(* Nothing in time, or something that does not decode.                      *)
LoseProbe ==
  /\ at = "ack"
  /\ timer = 0 \/ disturbed
  /\ ProbeFails
  /\ UNCHANGED <<vars, probes, acks, pathVars>>

WakeUp ==
  /\ at = "sleep" /\ timer = 0
  /\ Await("probe", 0)
  /\ UNCHANGED <<vars, session, probes, acks, pathVars>>

(* The backoff is over, and the callback asks the control API to resume.    *)
AskToResume ==
  /\ at = "backoff" /\ timer = 0
  /\ session' = [session EXCEPT !.attempts = IF @ < MaxAttempts THEN @ + 1 ELSE @]
  /\ Await("resume", 0)
  /\ UNCHANGED <<vars, probes, acks, pathVars>>

(* The failures of the old path kept; its epoch kept; the state kept.       *)
Resync_bugFailures(epoch) ==
  [session EXCEPT !.epoch = epoch, !.attempts = 0, !.state = "Resynced"]
Resync_bugEpoch(epoch) ==
  [session EXCEPT !.failures = 0, !.attempts = 0, !.state = "Resynced"]
Resync_bugState(epoch) ==
  [session EXCEPT !.epoch = epoch, !.failures = 0, !.attempts = 0]

Resync(epoch) ==
  [session EXCEPT !.epoch = epoch, !.failures = 0, !.attempts = 0,
                  !.state = "Resynced"]

(* The server resumes the peer, and the answer arrives or is lost.          *)
Resume ==
  /\ at = "resume"
  /\ ResumePeer(Home, Me)
  /\ \/ session' = Resync(peers'[Me].epoch) /\ Await("probe", 0)
     \/ /\ disturbed
        /\ UNCHANGED session
        /\ Await("backoff", ReconnectDelay(session.attempts))
  /\ UNCHANGED <<probes, acks, pathVars>>

(* The server resumes a peer it has, unless its grace period is over.       *)
MayResume ==
  /\ Me \in DOMAIN peers
  /\ peers[Me].disconnected => peers[Me].lease > 0

(* The request is lost, or the server turns it down.  The session does not  *)
(* tell these apart.                                                        *)
FailToResume ==
  /\ at = "resume"
  /\ disturbed \/ ~MayResume
  /\ Await("backoff", ReconnectDelay(session.attempts))
  /\ UNCHANGED <<vars, session, probes, acks, pathVars>>

SessionStep ==
  SendProbe \/ ReceiveAck \/ LoseProbe \/ WakeUp
    \/ AskToResume \/ Resume \/ FailToResume

-----------------------------------------------------------------------------
(* The relay, the path and the clock.                                       *)

MayAdmit(d) ==
  /\ Me \in DOMAIN peers
  /\ peers[Me].epoch = d.epoch
  /\ ~peers[Me].disconnected

(* handle_datagram for a probe: it is admitted, renews the lease and is     *)
(* acknowledged, or it is dropped.                                          *)
HandleProbe ==
  \E d \in probes :
    /\ \/ /\ MayAdmit(d)
          /\ MarkPeerSeen(Me)
          /\ acks' = acks \cup {[current |-> d.current]}
       \/ /\ ~MayAdmit(d)
          /\ UNCHANGED <<vars, acks>>
    /\ probes' = probes \ {d} \/ (disturbed /\ UNCHANGED probes)
    /\ UNCHANGED <<session, awaitVars, pathVars>>

LoseDatagram ==
  /\ disturbed
  /\ \/ \E d \in probes : probes' = probes \ {d} /\ UNCHANGED acks
     \/ \E a \in acks : acks' = acks \ {a} /\ UNCHANGED probes
  /\ UNCHANGED <<vars, session, awaitVars, pathVars>>

Disturb ==
  /\ ~disturbed /\ disturbances < MaxDisturbances
  /\ disturbed' = TRUE /\ quiet' = 0 /\ disturbances' = disturbances + 1
  /\ UNCHANGED <<vars, session, awaitVars, probes, acks>>

Recover ==
  /\ disturbed
  /\ disturbed' = FALSE
  /\ UNCHANGED <<vars, session, awaitVars, probes, acks, quiet, disturbances>>

(* One unit of time, here and in the router.  A timer that has run out, a   *)
(* step that waits for nothing and, on a good path, a datagram or a request *)
(* come first, and so does the sweep of what is past its deadline, which    *)
(* the relay runs once per unit.  Past the longest backoff it makes no       *)
(* difference how long it was quiet.                                        *)
Second ==
  /\ Silent = {} /\ Lost = {}
  /\ at # "probe"
  /\ at = "resume" \/ timer > 0
  /\ disturbed \/ (at # "resume" /\ probes = {} /\ (at = "ack" => acks = {}))
  /\ Tick
  /\ timer' = Less(timer)
  /\ quiet' = IF disturbed THEN 0 ELSE IF quiet > ReconnectMaxBackoff THEN quiet ELSE quiet + 1
  /\ UNCHANGED <<session, at, probes, acks, disturbed, disturbances>>

Sweep == Expire /\ UNCHANGED clientVars

ClientNext ==
  SessionStep \/ HandleProbe \/ LoseDatagram \/ Disturb \/ Recover \/ Second \/ Sweep

ClientSpec == ClientInit /\ [][ClientNext]_sessionSystemVars

(* The task of the session is scheduled, the path delivers, the relay runs  *)
(* its sweep, and time passes.  Nothing says that a disturbance ends.       *)
FairClientSpec ==
  /\ ClientSpec
  /\ WF_sessionSystemVars(SessionStep)
  /\ WF_sessionSystemVars(HandleProbe)
  /\ WF_sessionSystemVars(Second)
  /\ WF_sessionSystemVars(Sweep)

-----------------------------------------------------------------------------
(* Properties.                                                              *)

(* The snapshot, the awaits and the datagrams keep their types; the failures *)
(* counted never pass the threshold.                                         *)
ClientTypeOK ==
  /\ TypeOK
  /\ session \in [state : {"RoomJoined", "Healthy", "Reconnecting", "Resynced"},
                  failures : 0..DegradedAfterFailures,
                  attempts : 0..MaxAttempts, epoch : 1..MaxEpoch]
  /\ at \in {"probe", "ack", "sleep", "backoff", "resume"}
  /\ timer \in Nat
  /\ probes \subseteq ProbeDatagram /\ acks \subseteq ProbeAck
  /\ <<disturbed, quiet, disturbances>> \in BOOLEAN \X (0..ReconnectMaxBackoff + 1) \X (0..MaxDisturbances)

(* Whatever answers of resume were lost: when the session sends, it sends   *)
(* under the epoch the router has for it.                                   *)
EpochAgrees ==
  at \in {"probe", "ack", "sleep"} /\ Me \in DOMAIN peers =>
    session.epoch = peers[Me].epoch

(* A probe succeeds only if the server has admitted that very probe, less   *)
(* than a timeout ago: the client is connected and its lease has hardly     *)
(* begun.  No acknowledgement that comes late vouches for a later probe.    *)
AckMeansLease ==
  [][at = "ack" /\ at' = "sleep" /\ session'.failures = 0 =>
       /\ Me \in DOMAIN peers
       /\ ~peers[Me].disconnected
       /\ peers[Me].lease >= PeerTtl - ProbeTimeout]_sessionSystemVars

(* Probes, backoff, lease and grace period fit together: the sweep suspends *)
(* or removes the client only while the path is disturbed, or at most the   *)
(* longest backoff after.  A longer outage is noticed by the client before  *)
(* it is by the server, and a client whose path is good again is in time.   *)
SweptOnlyAfterDisturbance ==
  [][\A p \in {Me} \cap DOMAIN peers :
       (p \notin DOMAIN peers' \/ (peers'[p].disconnected /\ ~peers[p].disconnected))
         => disturbed \/ quiet <= ReconnectMaxBackoff]_sessionSystemVars

(* Once the path stays good the session becomes Healthy and stays so, unless *)
(* the server has removed the peer: then it asks to resume for ever.         *)
BackToHealthy ==
  <>[]~disturbed => <>[](session.state = "Healthy" \/ Me \notin DOMAIN peers)
=============================================================================
