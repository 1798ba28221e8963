# Specifications of the Civ VI LAN bridge

TLA+ models of the server in `src/` (the Rust crates `civ6-lan-router` and
`civ6-lan-server`, and the parts of `civ6-lan-client-core` that the server
depends on), the TLC configurations that check them, and TLAPS proofs about all of them.
`PROJECT.json` lists the runs, the mutants that show each property
can fail, the source lines behind every definition, the hazards and the findings.

## The system

Players join a *room* through an HTTP control API and become *peers* with a
virtual address on a WireGuard interface. A peer that hosts a Civ VI game
registers a *host session*; other peers find it by *discovery* requests that the
relay fans out, choose it, and get a *gameplay session* over which the relay
forwards datagrams. All of it is memory of one process, with an optional
PostgreSQL database behind it.

| Component | State | Operations | Interacts with |
|---|---|---|---|
| Room router (`crates/router`) | eight hash maps: rooms, codes, peers, addresses, hosts, host by (room, peer), discoveries, gameplay sessions | 18 methods that change state, `expire` | called under one RwLock by API and relay |
| Relay data plane (`server/src/relay.rs`) | none of its own | `handle_datagram`, 1 s sweep | router, metrics, UDP |
| Sequence tracker (`metrics.rs`) | last sequence per peer, bounded | `record_sequence` | relay |
| Control API (`api.rs`) | handlers suspended at an await | create, join, resume, leave, host, gameplay, delete | router, database, WireGuard, kept keys |
| Database (`db.rs`, migration) | rooms, peers, host and gameplay rows | insert, upsert, delete with cascade, load, clear | API, start |
| WireGuard manager (`wireguard.rs`) | allowed IPs per key (in the kernel) | `wg set`, `remove` | API, start |
| State, start (`state.rs`, `main.rs`) | kept keys | restore, allocate | all |
| Accounts and sessions (`api.rs`, `state.rs`) | users, bearer sessions | register, login, check of a token | API |
| Rate limiters (`state.rs`) | a window per key, two limiters | `allow` | API, relay |
| Client session (`client-core`) | epoch, sequence, failure count, backoff | probe, reconnect, discovery retry | relay, API |
| Codec (`protocol`) | none | encode, decode | relay, client |
| UI, Python prototype, test tool, deployment | | | |

What is hard in it, and where:

* **Copies.** Sessions copy ids and addresses and are routed by the copies; peers
  leave, are suspended, come back, and addresses pass on.
* **Five maps per change.** Leaving, replacing a host and sweeping touch most maps;
  the code relies on their agreement with `expect`.
* **Links.** An epoch says which link an envelope belongs to, a sequence number
  which envelope it is; both are reset by events (suspension, resume, restart) that
  client and server see at different times, over a network that loses and reorders.
* **Handlers that await.** A join changes the router, WireGuard, the database and
  the kept keys in four steps; each can fail, each has an undo, other requests run
  in between, and the process can stop between any two.
* **Time.** Leases of 15 s, a grace period of 45 s, and a sweep that runs only in
  the relay loop; clocks that are read before the lock they are used under.

`PROJECT.json` "hazards" has the full list with lines.

## Modules

| Module | Models | Extends |
|---|---|---|
| `RoomRouter` | the room router: one action per `&mut self` method | |
| `RelayDispatcher` | clients, network, `handle_datagram`, sequence tracker, restart | `RoomRouter` |
| `ControlPlane` | the API handlers step by step, database, WireGuard, crash and start | `RoomRouter` |
| `Envelope` | the codec, and one datagram through client, relay and client | `PartialSums` |
| `ClientSession` | `run_with_reconnect` of one client against the router's lease | `RoomRouter` |
| `Admission` | accounts, bearer sessions, both rate limiters | `PartialSums` |
| `PartialSums` | the sums `Total(s)[n]` of the first n numbers of a sequence, which both use | |
| `LanRooms` | abstract: what the router promises to players | |
| `RouterRefinement` | the mapping under which `RoomRouter` implements `LanRooms` | `RoomRouter`, instance of `LanRooms` |
| `PeerRegistry` | abstract: what the server promises about membership, crashes included | |
| `ControlRefinement` | the mapping under which `ControlPlane` implements `PeerRegistry` | `ControlPlane`, instance of `PeerRegistry` |
| `MCRoomRouter`, `MCRelay`, `MCControl`, `MCAdmission` | symmetry sets for TLC | the module they check |
| `RoomRouterProofs` | types, indexes, isolation, lifetimes, epochs, limits, grace period, the refinement | `RouterRefinement` |
| `RelayProofs` | isolation, honest sources, drops, replays and epochs of the data plane | `RelayDispatcher`, `RoomRouterProofs` |
| `ControlProofs` | the API handlers: types, limits, rows that never contradict, restarts that heal | `ControlPlane`, `RoomRouterProofs` |
| `AgreementProofs` | when router, database, tunnels and kept keys agree, and the refinement | `ControlProofs`, `ControlRefinement` |
| `PartialSumsProofs` | what `Total` is, and how it grows | `PartialSums` |
| `AdmissionProofs` | who owns a token, for how long, and what the limiters let in | `Admission`, `PartialSumsProofs` |
| `EnvelopeProofs` | the round trip of every envelope, and what limits and buffers do to it | `Envelope`, `PartialSumsProofs` |
| `ClientProofs` | epochs, acknowledgements and outages of a client session | `ClientSession`, `RoomRouterProofs` |

### RoomRouter

A hash map is a function from the keys present to records. A method that returns
`Err` changes nothing, so it is a stuttering step and not written; the guard of
an action is the condition for `Ok`. Deadlines are kept as what is left of them
(`ttl`, `lease`), `Tick` takes one unit from all, and 0 is "reached". `restore_peer`
is `join_room`. `heartbeat_host` (without a room) is only called from
`heartbeat_host_for_room`.

Abstractions: handlers sample `now` before they wait for the lock, here the lag is
0; a UUID is any id that is not in use, so ids may be used again after removal,
which the code makes (almost) impossible for server-made ids and possible for peer
ids, which clients may choose; ports other than discovery ports never reach a table.

### LanRooms and RouterRefinement

`LanRooms` says what players may see, without host, discovery and session maps,
deadlines and epochs: the open rooms, the seat (room and address) of every player, who
is away, who hosts, and the games with the address of either end. A seat is kept until
its player leaves or is swept after having been away; whoever goes away stops hosting
and playing; a game reaches its ends at the addresses of their seats. The mapping takes
seats from `peers`, but the ends of a game from the copies in the gameplay session,
because that is where datagrams go: that copies and seats agree is part of what the
refinement shows. Discoveries are invisible, as are refreshed deadlines.

### RelayDispatcher

`net[p]` is the queue of datagrams sent under the WireGuard key of peer `p`. A
datagram may be lost, kept as a duplicate when delivered, and, with `Reordering`,
overtaken. WireGuard delivers it only if its source is the address assigned to
the key. `Accept`, `DropDuplicate` and `AnswerProbe` are the outcomes of
`handle_datagram` that change state, each one step because the function holds
the write lock throughout. `Outbound` is what `action_to_datagrams` would send:
forwarding changes no server state, so it is an operator that the properties use.
`history` (which envelope was accepted, how often a client restarted its numbering,
was resumed or lifted out of suspension, how often the server restarted) is read by
properties and by the bounds only. WireGuard has a replay window
of its own, which the model does not assume: the relay's own check is what the
documents describe, and transports other than WireGuard are planned there.

Joins and leaves are one step here and meet no leftovers; their steps are in
`ControlPlane`.

### ControlPlane

`tasks[t]` is a request in progress: which handler, and `at` which effect it stands.
Locks are released at every await, so these are the points of interleaving. A call
that fails (`Fault`, at most `MaxFaults`) has no effect; the lost acknowledgement of
a committed statement is not modelled. Both a database and a WireGuard interface are
configured; without them the handlers are the `RoomRouter` actions.
`WithTunnel` is what `wg set peer K allowed-ips A/32` does: K gets exactly A, and A
is taken from any other key. `DeleteRows` has the cascades of the schema.
`Retried` is the set of peers that two requests at a time may be about (a request about
another peer starts only when no other is: `MayOverlap`), `SharedKeys` says whether a join
may carry the key of another peer (which is what a repeated join without peer id is),
`DeletesRooms` whether rooms are deleted, `Timed` whether time passes. The runs turn
these on one by one, so that each finding shows its own cause.

`MaskedText` is about PostgreSQL: the cast of an INET value to text includes the
mask. The true behaviour is `TRUE` and then no start succeeds once a peer is stored
(run `control_no_restart`); the runs about the rest of the restart use `FALSE`, the
behaviour the code intends.

### PeerRegistry and ControlRefinement

`PeerRegistry` is a server that keeps a register of the players it has seated, and moves
them in and out: a player is seated before it is registered and struck off before it gives
its seat up; the server lets go of a player (`Settle`) only when seat and register agree;
a crash loses the seats, and a recovery seats exactly those in the register. So whoever is
not being moved when the process stops has its seat again after the start. The seats are
the rooms and addresses of `peers`, the register is the table `peers` of the database, and
a peer is being moved while a join or a delete of it is in progress. Handlers, tunnels, keys,
rooms, hosts and games are invisible. It is what the handlers of membership amount to when
nothing takes a peer from under them: neither the sweep nor another request about the same
peer (what happens then is under "Runs").

### ClientSession

`session` is `RelaySessionSnapshot` without the round trip times; `at` is the await
at which the task of `run_with_reconnect` stands (waiting for an acknowledgement,
asleep, backing off, waiting for the resume) and `timer` what is left of it. The
server is `MarkPeerSeen`, `ResumePeer` and `Expire` of `RoomRouter`. The path is good
or `disturbed`: on a good path datagrams and requests arrive within a unit of time,
on a disturbed one they are lost, doubled or late, and sending fails. Of a request id
it matters only whether the session waits for it.

The reconnect callback belongs to the caller; it is modelled as the doc comment at
`lib.rs:643` says, a call of the resume endpoint which either answers or fails. It
starts as in `with_config` after `mark_room_joined`. (A session left in
`Connecting` or `Authenticated` is never set to `Healthy` by a probe; the code wants
the caller to mark the room first.) `Degraded` lasts no time: `record_probe_failure`
sets it and the loop replaces it before the next await. The sequence numbers are in
`RelayDispatcher`; the relay answers probes before it looks at them.

### Admission

An action is what a thread does under one lock: `register_user` hashes the password
between the limiter and the account table (two tasks, so that two registrations of a
name overlap), `login_user` copies the hash and verifies it outside. `Instant::now` is
read before the lock is taken, so a call may act on an instant up to `MaxLag` in the
past, after others have acted on later ones; instants are ages. `Allowed` and `Denied`
are the two outcomes of `FixedWindowRateLimiter::allow`, both with the sweep of old
windows in them. The second comparison of `allow` (is this window over?) can never hold,
since the sweep before it has removed such a window; it is not modelled. `grants` (which
token was given to whom, and when) and `admitted` (how often a key was let in, by age)
record what happened; no action reads them. `Watched` is the kind of key for which
`admitted` is kept, and `MaxBusy` bounds the keys with an open window. Names and
passwords are opaque: validation and hashing are left out.

### Envelope

`encode_packet` and `decode_packet` as operators on sequences of bytes with the real
field widths, and a datagram's way through them: `Compose` (v1 by `send`, v2 by
`send_envelope`), `Forward` (decode, `validate_payload`, the rewriting of
`action_to_datagrams`, encode in version 2), `ClientReceives`. A byte is a value and
a position in it, since nothing looks into ids, addresses or payloads; read at a wrong
offset they turn into "garbled". The layouts are two tables because the code has two
`match`es. Results are sets, and `{}` is an error. `Other` puts a cut, padded or
relabelled datagram in the place of the client's. Which ids the router knows is
`RoomRouter`'s matter: `RouterRefuses` may happen to any datagram.

In all modules a definition named `<X>_bug...` is a mutant of `<X>` and used by nothing.

## Runs

Passing:

| Run | Bounds | Shows |
|---|---|---|
| `router` | 2 rooms, 3 peers, 2 addresses, 2 hosts, 1 discovery, 2 gameplay sessions, TTLs 1, grace 2, epochs to 3 | `IndexConsistent`, `RouteIntegrity`, `GameplayHasHost`, `GameplayEndsWithHost`, `ReconnectRotatesEpoch`, `GraceBeforeRemoval`, and that every behaviour is one of `LanRooms` (`ImplementsLanRooms`) |
| `router_liveness` | 1 room, 2 peers, 1 host, 1 session, TTLs 2 and 3, fair clock and sweep | `SilentPeersLeave`, `SilentHostsEnd`, `IdleGameplayEnds` |
| `relay_isolation` | 2 rooms, 2 peers, one envelope each, duplicates, 1 tracker, 1 restart | `ForwardedWithinRoom`, `HonestSource` |
| `relay_links` | 1 client, 2 envelopes, 2 resumes or new joins, reordering, duplicates, v1 envelopes, 1 restart without database | `RelayTypeOK`, `ReconnectFences`, `DroppedWasAccepted`, `OnlyOvertakenReplays` |
| `client_session` | 1 client, the default times in seconds (lease 15, grace 45, probes every 2, 3 failures, backoff to 8), one disturbance of any length | `ClientTypeOK`, `EpochAgrees`, `AckMeansLease`, `SweptOnlyAfterDisturbance`, `BackToHealthy` |
| `envelope` | payload limit 3, safe limit 2, slack 64 as in the code; 8 kinds, 2 versions, with and without path; every cut, up to 66 extra bytes, every other kind and version | `ArrivesAsSent`, `RelayOutputIsReadable`, `SafeIsForwarded`, `NothingCut` |
| `admission` | 1 name, 2 passwords, 1 token and the administrator's, 1 source, limits 2 and 1, window 2, sessions 2, 2 tasks, lag to 1, any number of restarts | `WithinRate`, `CountsOwnTraffic`, `SessionsMatchAccounts`, `TokensLast`, `TokensExpire` |
| `control_serial` | 3 clients, one more id of every kind than each limit, one request at a time, 1 failed call, 1 crash anywhere and restart | rows, kept keys and tunnels agree with the router after every request and after the restart (`RowsAgree`, `KeysAgree`, `TunnelsMatchPeers`; a crash may leave orphan tunnels); `WithinLimits`; at every await, crash and start the peers are moved as `PeerRegistry` says (`ImplementsRegistry`) |
| `control_overlap` | two requests at a time about different peers, distinct keys | the same (`StoresAgree`), and `AddressBoundToKey` at every moment |
| `control_any` | 2 requests at a time, also about one peer, 2 rooms, a shared key, rooms deleted, time, 1 crash | `ControlTypeOK`; leftover rows contradict the router for no peer that only one request at a time is about (`RowsNeverContradict`); after a restart all stores agree and the router is consistent (`RestartHeals`) |

Why the bounds are enough: three peers and two addresses are what it takes for an
address to leave a peer and reach another while a third still has sessions; two
rooms for isolation; a grace period longer than the lease for suspension and removal
to fall in different sweeps; two envelopes for one to overtake another and
for a number to be used twice; two tasks for a check to be stale when acted on.
The types of the router (`TypeOK`) are a part of `RelayTypeOK` and `ControlTypeOK` and checked
with them. `control_serial` lowers the limits, not the code. `control_any` has one key, so that every
join shares it, two rooms, so that a peer can come back elsewhere, and two peers, one of
which is in `Retried` (1.7 million states); the proofs are about every other size.
In `admission` a limit of 2 tells "below" from "at" the limit, a window of 2 units has an
inside and a border, and a lag of 1 lets a call act before the window of another; two
passwords tell the two registrations of the one name apart. The bounds of `WithinRate`
are tight: without lag twice the limit less one, with it three times the limit less one
(a call that has read the clock is overtaken by one that ends its window, and then
begins another one that lies in the past).
`envelope` shrinks the payload limit (4096) and keeps every width: all comparisons are of
the limit plus a constant, so what matters is below, at and above it.
In `client_session` the unit is a second, so the probe timeout (750 ms) and the first
backoff (250 ms) are rounded up to 1: the backoff reaches its limit after three
attempts, not five, and the session is slower than the real one, which is the safe side
for `SweptOnlyAfterDisturbance`. One disturbance lasts as long as it likes and may end
and leave the client suspended or removed, under any of three epochs. The proofs remove the
bounds for every property of every run but liveness, in part under conditions on the
constants that are named with them (see "Proofs").

Violated, each with a finding in `PROJECT.json`:

| Run | What happens |
|---|---|
| `relay_fresh_dropped` | after a resume a fresh envelope is dropped as already accepted |
| `control_no_restart` | the stored address is read back with its mask, the process does not start |

The model shows more that no run states as a property, because no document says
plainly what should happen, or because a passing property is stated around it:

* A duplicate that arrives after a later envelope is forwarded again
  (`docs/protocol.md:152` says repeated sequences are dropped); `OnlyOvertakenReplays`
  says that this is the only way for an envelope to pass twice on a first link.
* A resume that comes before the sweep has suspended the peer keeps the epoch, and
  envelopes sent before it pass (`docs/protocol.md:100` has a reconnect change the
  epoch; the comment at `router/lib.rs:546` ties it to the suspension).
  `ReconnectRotatesEpoch` and `ReconnectFences` speak of suspended peers.
* A client that joins again under its old id, after leaving or after a restart
  without a database, is at epoch 1 again, and so are its old envelopes
  (`docs/protocol.md:105`); `ReconnectFences` stops at a new join.
* The sweep leaves the row, the tunnel and the key of a removed peer; only
  `control_any` lets time pass (`Timed`). So the address of an expired peer is free in
  the router while WireGuard still routes it to the old key, and from `join_room` to
  the `wg set` of the next owner a datagram of the old client is taken for one of the
  new peer (`docs/spec.md:270`); `AddressBoundToKey` is checked without time.
* Those rows stay until a restart (`docs/architecture.md:52` says the server deletes a peer
  that disconnects). The allocator (`state.rs:163`) looks at the router only and hands out an
  address a row still holds: joins that name no address fail until the process is
  restarted, which brings the removed peers back; with more rows in a room than
  `max_peers_per_room` it does not start. `RestartHeals` is about restarts that succeed.
* A client whose peer was removed asks to resume for ever: `run_with_reconnect` does not
  tell a refusal from a lost request (`BackToHealthy` has the exception).
* The later of two overlapping deletes of a peer inserts its row and tunnel again,
  and a join repeated with the same key takes the tunnel of the first
  (`docs/spec.md:238`); `control_serial` and `control_overlap` exclude these
  (`Retried`, `SharedKeys`).
* If that peer has joined another room between the two deletes, the row put back (it was
  read at `api.rs:622`, before two awaits) names the old room and address while the router
  has the new ones, and the next restart moves the peer back. It takes two rooms, two
  overlapping requests about the peer and a join in between; `RowsNeverContradict` speaks
  of the peers outside `Retried`.
* A room can be deleted from the database under a peer that has just joined:
  `delete_room` checks under a lock that the room is empty and deletes the row after it;
  the peer's row goes with the cascade, `remove_empty_room` fails, and router and
  database differ from then on. `control_overlap` deletes no rooms (`DeletesRooms`).
* The relay answers in version 2 also to a sender of version 1 (`relay.rs:288`).
* A suspended peer can register a host session over the API before it resumes.

### Fairness

`FairSpec` has weak fairness of `Tick` and of `Expire`: time passes, and `relay.rs:280`
creates a 1 s interval whose tick calls `expire` in the same `select!` that receives
datagrams. `select!` picks among ready branches at random, so a stream of datagrams
does not starve the tick. No fairness is assumed of any request or datagram. The
assumption holds only while the relay runs: without `CIV6_RELAY_BIND` nothing
sweeps, and an I/O error of the loop ends the process. Each liveness property
reads "it disappears again and again, or the peer keeps refreshing it".

`FairClientSpec` has weak fairness of the session's task (nothing in its loop waits
without a timer, except for the callback), of the relay handling a probe, of the clock
and of the sweep. It does not say that a disturbance ends; `BackToHealthy` assumes it
in its premise. The callback is taken to return: `reqwest` has no timeout of its own
here, so a request that never fails would keep the session in `Reconnecting`.

## Proofs

All theorems hold for all sets of ids, all limits and all deadlines that satisfy the
assumptions of the module they are about: `TtlAssumption` (deadlines are positive),
`LimitAssumption` (limits are natural numbers, `MaxEpoch` positive), `NetworkAssumption`,
`ControlAssumption`, `AdmissionAssumption`, `EnvelopeAssumption` and `ClientAssumption` (times are positive,
bounds are natural numbers, modes are Booleans). What a theorem assumes beyond that is
named below. Every inductive invariant was checked by TLC on the instance of a run before
it was proved.

`RoomRouterProofs`:

* `TypeCorrect`: `Spec => []TypeOK`
* `IndexesConsistent`: `Spec => []IndexConsistent`
* `RoomIsolation`: `Spec => []RouteIntegrity`
* `GameplayIsHosted`: `Spec => []GameplayHasHost`
* `GameplayEnds`: `Spec => GameplayEndsWithHost`
* `EpochRotates`: `Spec => ReconnectRotatesEpoch`
* `LimitsHold`: `Spec => []WithinLimits`
* `GraceGranted`: `Spec => GraceBeforeRemoval`
* `RouterImplementsLanRooms`: `Spec => ImplementsLanRooms`

Types come first, one lemma per group of actions. The inductive invariant is the
conjunction `Routing` of the index, routing and hosting properties:
none of them is inductive alone. `RouteIntegrity` after a leave needs that every
session of the peer is found in the room it leaves (`MembersMatchPeers`), and that no
other peer has its address (`AddressesMatchPeers`); `HostsMatchRooms` after a removal
needs `host_by_peer` to be injective, which it is because both directions are stated;
`GameplayHasHost` after a removal needs it to know that the host removed is the only
one under its key. Each action has a lemma that preserves the parts it touches. The
two action properties follow from the invariant by a case per action.

`WithinLimits` has an invariant of its own: `Limited` adds that the tables are
finite, without which a bound on a cardinality says nothing. Everything but four actions only
removes (`FewerKeepsLimits`); the four check the limit first, the replacement of a host
after taking out the expired session. `GraceBeforeRemoval` follows from `Routing`: the room
a peer leaves is the one it is in.

`Routing` is also what makes the mapping to `LanRooms` work: a peer has at most one host
session (`OneHostPerPeer`), so removing it is the end of hosting; the gameplay sessions found
by room and host peer are those of the player (`ServedByPeer`); the copies in sessions are
the seats. Everything that removes goes through `RemovalStep`, which maps `Purge` to `Change`.

`RelayProofs`, about `RelaySpec` in every mode (reordering or not, old clients or not, with
and without a database) and for any number of clients and datagrams:

* `RelayTypes`: `[]RelayTypeOK`
* `ForwardingStaysInRoom`: `[]ForwardedWithinRoom`
* `SourceIsHonest`: `[]HonestSource`
* `DropsAreRepeats`: `[]DroppedWasAccepted`
* `SuspensionFences`: `[]ReconnectFences`, if `MaxResets < MaxEpoch` and no peer is restored
  from a database (`~Persistent`, or no restart)
* `OnlyOvertakenRepeat`: `[]OnlyOvertakenReplays`, if the peers are finitely many, the
  tracker has room for all of them, and no peer is restored from a database

The invariant `RelayInv` is `Routing`, the types, and `Rows`: every peer is stored at its
address and in its room, no two rows share an address, and every row, one of a swept peer
too, is in a room that exists. `Rows` does two things. With WireGuard's check of the source
it makes the peer found at an address the owner of the key (`SenderIsKeyOwner`), also for
datagrams sent before the address changed hands; and it is the reason why a restart
re-establishes `Routing` (`RestoreKeepsRouting`). An accepted datagram is `mark_peer_seen`
and `dispatch` in one step and so no step of `RoomRouter`; it has its own lemmas. For the
drops, `Numbering` says that, while a client has never started again, a number names one
envelope and the mark of the tracker is the number of an accepted one; marks may vanish
at any time. That joins meet no leftover row is the guard of `ApiJoin`: the theorems
do not speak of what `ControlPlane` shows about such joins.

`ReconnectFences` has an invariant of its own, `Fences`: the epoch of a peer is at most one
more than the suspensions it was lifted out of (`EpochsCounted`), and an envelope on its way
is behind the peer's epoch by at least the suspensions lifted since it was sent
(`Behind`). At a saturated counter the new link has the epoch of the old one, and a restored
peer is at epoch 1 while its client still sends under the epoch it had: hence the two
hypotheses. The bound `MaxResets` of the model stands for the number of suspensions, and
`MaxEpoch` for `u64::MAX`.

`OnlyOvertakenReplays` rests on `Marks`: the stamps of envelopes count what was sent
(`StampsCounted`); while a client has never started its numbers again, they follow the
stamps (`InOrder`, `Overtakes`), and while the peer is there its mark is no lower than the
number of any accepted envelope (`Remembers`). A full tracker drops all
marks (`metrics.rs:135`), so `Remembers` needs that it is never full; a restart that restores
peers keeps a link and loses its mark.

`ControlProofs`, about `ControlSpec` for every number of requests, failures and crashes:

* `ControlTypes`: `[]ControlTypeOK`
* `RowsAreTrue`: `[]RowsNeverContradict`
* `RestartsHeal`: `RestartHeals`
* `LimitsSurviveRestarts`: `[]WithinLimits`

`ControlInv` adds to `Routing` the types of rows, tunnels and requests, the constraints of
the schema (`Schema`: a row of a peer has a row of its room, no two rows share an address or
a code, which is what `restore_persisted_state` relies on to restore every row), what a
stopped process looks like (`Down`), that requests about a peer outside `Retried` do not
meet (`OneAtATime`), that a join or a delete in progress carries the room and the address its
peer has in the router (`InPlace`), and that the row of a peer in the router is true, unless
it is left over and the peer is in the middle of a join that will fail on it (`RowsMatch`).
`RowsMatch` alone says nothing about the row a request is going to write, or to put back;
`InPlace` does. `RestartsHeal` then reads the rows through `Schema` and the tunnels through
`RestoredTunnels`, whatever was left in the kernel. For the limits, the rows are finitely many (`RowsFinite`), a start
checks every limit before it restores them (`RestoreKeepsLimits`), and everything else is a
step of the router.

`AgreementProofs`, about the same specification under named conditions on its modes. `Calm`:
no sweep, and either one request at a time or no two about one peer and no deletion of rooms.

* `KeysAlwaysAgree`: `[]KeysAgree`, if `Calm`
* `RowsAlwaysAgree`: `[]RowsAgree`, if `RoomsCalm`: `Calm`, and one request at a time or no
  call that fails
* `TunnelsAlwaysMatch`: `[]TunnelsMatchPeers`, if `TunnelsCalm`: `Calm`, a key for every
  peer, and no call that fails, or one with one request at a time
* `StoresAlwaysAgree`: `[]StoresAgree`, if `TunnelsCalm`
* `AddressesBound`: `[]AddressBoundToKey`, if `TunnelsCalm` and nothing crashes
* `ServerKeepsRegistry`: `ImplementsRegistry`, if `Calm`

The argument is an automaton per peer: with no request about it a peer is `Absent` from the
router, the rows and the kept keys or `Present` in all three, saying the same; while a join
or a delete stands at an await, `Phase` says which of the three have it. Every condition
excludes something the model does: a failed `create_room` whose room somebody has joined
leaves a room without a row (`RoomsCalm`); a second failure, of an undo, leaves a tunnel
or loses one (`TunnelsCalm`); a crash between `wg set` and the row leaves a tunnel to an
address that the next peer gets from the allocator, until its own `wg set`
(`AddressesBound`). The runs `control_serial` and `control_overlap` are instances of these
conditions. For the refinement, a step of a handler either changes neither `peers` nor
the rows of its peer, and then it is invisible, or the end of the request, at which `Phase`
says that the two agree (`QuietStepRegistry`); or it is the one insert, the one delete or the
one leave that `PeerRegistry` knows, at a phase where its guard holds. `DeleteReinsert`
is never reached under `Calm`. Outside `Calm` the refinement fails: the sweep takes a peer
from the router whose row stays.

`PartialSumsProofs`: what `Total` is for any sequence of numbers (`TotalIs`), and what a
further term, a shift or a larger term does to it (`TotalOneMore`, `TotalShifted`,
`TotalGrows`). `Total` is a function defined by recursion, so these need induction; it is
stated for sets (`Induction`: a set of naturals that holds 0 and every successor holds all),
which the provers can use without a second-order step.

`AdmissionProofs`, about `AdmissionSpec`:

* `SessionsBelongToAccounts`: `[]SessionsMatchAccounts`
* `TokensAreGood`: `[]TokensLast`
* `TokensDoExpire`: `TokensExpire`
* `RateIsBounded`: `[]WithinRate`, if `LagIsShort`: a clock lags by at most half a window
* `OwnTrafficCounts`: `[]CountsOwnTraffic`

`AdmissionInv` adds `SessionAges` to the types and to `SessionsMatchAccounts`: what is left of
a session and the time since its token was given add up to the lifetime, up to the lag of the
clock that was read before the lock.

`LimiterInv` is about one key at a time and sums of calls by age. While a window is open
(`Follows`) its count is all that was let in since it began, except that a call may have read
the clock before and entered the lock after others; the windows before it add less than the
limit each within the interval that they can share with it. While none is open (`Rests`)
the same holds of the last ones. What is needed of lag is that an interval as long as a
window meets no more than three windows: with `2 * MaxLag > Window` a call of another key
sweeps a window that has hardly begun, and TLC finds `WithinRate` violated with two source
addresses. In the code a window is a second (`state.rs:103`) and the lag is the wait for a mutex.

`EnvelopeProofs`, about `EnvelopeSpec` for every limit and every length of a datagram, if
`RoomForIds`: the frame has more than 60 bytes beside the payload (64 in the code) and payload
and frame fit a 16 bit length (4160 of 65535):

* `EnvelopesArriveAsSent`: `[]ArrivesAsSent`
* `RelayCanAlwaysEncode`: `[]RelayOutputIsReadable`
* `SafeEnvelopesAreForwarded`: `[]SafeIsForwarded`
* `ForwardedIsUncut`: `[]NothingCut`

Fields are written one after the other (`FlattenIs`, `WriteFacts`) and read by offset; the
offset at which the reader looks is the sum of the widths before it, and so what was written
there is found whole (`ReadWhatWasWritten`). Together with the two tables of layouts
(`Tables`) and the 26 bytes of metadata (`MetaRoundTrip`) this gives `RoundTrip`: decoding what
was encoded gives the envelope that was encoded, for each kind and version. For datagrams
that nobody encoded, `DecodeFacts` says what a successful decode tells of their length:
all bytes declared are there and none is left, so that a datagram the buffer has cut is never read
(`NothingReadIsCut`), and what the relay has read has a payload within the limit and can be
encoded again in the longer form. The invariant `EnvelopeIInv` carries this along
the way of a datagram. A shorter frame would not hold the longest ids: hence `RoomForIds`.

`ClientProofs`, about `ClientSpec`, for every pattern of disturbances:

* `ClientTypes`: `[]ClientTypeOK`
* `SessionEpochAgrees`: `[]EpochAgrees`
* `AckVouchesForLease`: `AckMeansLease`, if a probe times out sooner than a lease
* `SweptInOutagesOnly`: `SweptOnlyAfterDisturbance`, if `Timely`: the lease is longer than one
  timeout and as many rounds of sleep and timeout as there are failures allowed (9 s of 15 s
  with the defaults), and the longest backoff is at least one timeout and the first backoff
  (1 s of 8 s)

`SessionInv` says that a session that still tries has failed less than the threshold and has
no attempts counted, so that its first backoff is the shortest. `Vouched`: an acknowledgement of
the probe that is out was made since it was sent. For the sweep, `InContact` bounds how long
ago the server has heard of a session that tries (`Since`), so that it is suspended only when
it is already in its backoff; `Answered` says that on a good path only a probe from before it
was good can fail; and `InTime` that the backoff, begun while the path was bad, ends before the
path has been good for the longest backoff. `Timely` is not assumed of the
configuration by the code: with other values the property can fail.

Only model-checked: the liveness properties `SilentPeersLeave`, `SilentHostsEnd`,
`IdleGameplayEnds` and `BackToHealthy`, which are out of the reach of the prover.

## Not modelled

The UDP socket loop and its error exits, input validation and password hashing, the
client's discovery retry, the cancellation of `run_with_reconnect` by its caller
(`client-core/lib.rs:657`), the UI, the Python prototype (retired by
`server/README.md:9`), test tools and deployment. Counters and the duplicate fingerprints
of `metrics.rs` feed a test endpoint only. That a restart forgets all accounts and
sessions is a step of `Admission`; no document says what should survive.

## Plan

1. `DiscoveryRetry`: `send_discovery_with_retry` against the TTL of a discovery, and
   what `probe_once` drops of the traffic it reads meanwhile.
2. The process: socket loop, select in `main`, the end of everything on one send error.
3. Theorems: that `ControlPlane` implements a weaker register with the sweep and with
   overlapping requests about one peer; that the relay and the handlers together implement
   `LanRooms` between two restarts.
