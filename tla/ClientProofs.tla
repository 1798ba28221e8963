---------------------------- MODULE ClientProofs ----------------------------
(***************************************************************************)
(* Theorems about ClientSession, for every state of the router the client  *)
(* can be in, every pattern of disturbances and every value of the times   *)
(* that satisfies the hypothesis a theorem names.                          *)
(***************************************************************************)
EXTENDS ClientSession, RoomRouterProofs

-----------------------------------------------------------------------------
(* The inductive invariants.                                                *)

Trying == at \in {"probe", "ack", "sleep"}

(* A session that still tries has counted too few failures to give up and   *)
(* starts its backoff from the beginning, and no await is longer than the   *)
(* code makes it.                                                           *)
Bounds ==
  /\ Trying => session.failures < DegradedAfterFailures /\ session.attempts = 0
  /\ at \in {"probe", "resume"} => timer = 0
  /\ at = "ack" => timer <= ProbeTimeout
  /\ at = "sleep" => timer <= ProbeInterval
  /\ at = "backoff" => timer <= ReconnectMaxBackoff
  /\ disturbed => quiet = 0

SessionInv == ClientTypeOK /\ Bounds /\ EpochAgrees

(* An acknowledgement of the probe that is out was made since it was sent.  *)
Vouched ==
  at = "ack" /\ (\E a \in acks : a.current) =>
    /\ Me \in DOMAIN peers
    /\ ~peers[Me].disconnected
    /\ peers[Me].lease >= PeerTtl - (ProbeTimeout - timer)

(* Failures, each with the sleep before it.                                 *)
Rounds(n) == n * (ProbeInterval + ProbeTimeout)

(* How long ago, at most, the server has heard of a session that tries: one *)
(* round for every failure, the rest of an answer that was lost or late,    *)
(* and what has passed since the last failure or success.                   *)
Since ==
  ProbeTimeout + Rounds(session.failures)
    + (CASE at = "sleep" -> ProbeInterval - timer
         [] at = "probe" -> ProbeInterval
         [] at = "ack"   -> ProbeInterval + (ProbeTimeout - timer))

InContact ==
  Trying /\ Me \in DOMAIN peers =>
    ~peers[Me].disconnected /\ peers[Me].lease + Since >= PeerTtl

(* On a good path a probe fails only if it was sent before the path became  *)
(* good.                                                                    *)
Answered ==
  at = "ack" /\ ~disturbed /\ Me \in DOMAIN peers =>
    \/ quiet + timer <= ProbeTimeout
    \/ /\ timer = ProbeTimeout
       /\ \/ \E d \in probes : d.current /\ d.epoch = session.epoch
          \/ \E a \in acks : a.current

(* On a good path the session asks to resume before the longest backoff has *)
(* passed, or the server has just given it up.                              *)
InTime ==
  at \in {"backoff", "resume"} /\ ~disturbed /\ Me \in DOMAIN peers =>
    \/ quiet + timer <= ReconnectMaxBackoff
    \/ /\ quiet <= ReconnectMaxBackoff
       /\ peers[Me].disconnected /\ peers[Me].lease = 0

(* The defaults are 2 s, 0.75 s, 3 failures and 15 s, and 0.25 s and 8 s.   *)
Timely ==
  /\ ProbeTimeout + Rounds(DegradedAfterFailures) < PeerTtl
  /\ ProbeTimeout + ReconnectInitialBackoff <= ReconnectMaxBackoff

TimelyInv == SessionInv /\ Vouched /\ InContact /\ Answered /\ InTime

-----------------------------------------------------------------------------
(* Facts about the operators.                                               *)

LEMMA Times ==
  /\ ProbeInterval \in Nat /\ ProbeInterval > 0
  /\ ProbeTimeout \in Nat /\ ProbeTimeout > 0
  /\ DegradedAfterFailures \in Nat /\ DegradedAfterFailures > 0
  /\ ReconnectInitialBackoff \in Nat /\ ReconnectInitialBackoff > 0
  /\ ReconnectMaxBackoff \in Nat /\ ReconnectMaxBackoff > 0
  /\ MaxAttempts \in Nat /\ MaxAttempts > 0
  /\ MaxDisturbances \in Nat
  /\ PeerTtl \in Nat /\ PeerTtl > 0
  BY ClientAssumption, TtlAssumption

(* reconnect_delay starts with the initial backoff and stops at the longest.*)
LEMMA Delays ==
  /\ \A n \in Nat : ReconnectDelay(n) \in 0..ReconnectMaxBackoff
  /\ ReconnectDelay(0) <= ReconnectInitialBackoff
<1> USE ClientAssumption
<1>1. ASSUME NEW n \in 0..5 PROVE 2 ^ n \in {1, 2, 4, 8, 16, 32}
  <2>1. n = 0 \/ n = 1 \/ n = 2 \/ n = 3 \/ n = 4 \/ n = 5
    OBVIOUS
  <2>2. 2^0 = 1 /\ 2^1 = 2 /\ 2^2 = 4 /\ 2^3 = 8 /\ 2^4 = 16 /\ 2^5 = 32
    OBVIOUS
  <2> QED BY <2>1, <2>2
<1>2. ReconnectInitialBackoff \in Nat /\ ReconnectMaxBackoff \in Nat
  OBVIOUS
<1>3. \A m \in {1, 2, 4, 8, 16, 32} : ReconnectInitialBackoff * m \in Nat
  BY <1>2
<1>4. ASSUME NEW n \in Nat PROVE ReconnectDelay(n) \in 0..ReconnectMaxBackoff
  <2> DEFINE k == IF n < 5 THEN n ELSE 5
             delay == ReconnectInitialBackoff * 2 ^ k
  <2>1. k \in 0..5
    OBVIOUS
  <2>2. delay \in Nat
    BY <1>1, <1>3, <2>1
  <2>3. ReconnectDelay(n) = IF delay < ReconnectMaxBackoff THEN delay ELSE ReconnectMaxBackoff
    BY DEF ReconnectDelay
  <2> HIDE DEF delay
  <2> QED BY <1>2, <2>2, <2>3
<1>5. ReconnectDelay(0) <= ReconnectInitialBackoff
  <2>1. 2 ^ 0 = 1 /\ ReconnectInitialBackoff * 1 = ReconnectInitialBackoff
    BY <1>2
  <2>2. ReconnectDelay(0) = IF ReconnectInitialBackoff < ReconnectMaxBackoff
                            THEN ReconnectInitialBackoff ELSE ReconnectMaxBackoff
    BY <2>1 DEF ReconnectDelay
  <2> QED BY <1>2, <2>2
<1> QED BY <1>4, <1>5

(* The router sees nothing but calls of its own operations.                 *)
LEMMA ServerStep ==
  ASSUME ClientNext
  PROVE  [Next]_vars
<1> USE ClientAssumption
<1>1. CASE SessionStep
  BY <1>1 DEF SessionStep, SendProbe, ReceiveAck, LoseProbe, WakeUp, AskToResume,
              Resume, FailToResume, Next, PeerNext
<1>2. CASE HandleProbe
  BY <1>2 DEF HandleProbe, Next, PeerNext
<1>3. CASE LoseDatagram \/ Disturb \/ Recover
  BY <1>3 DEF LoseDatagram, Disturb, Recover
<1>4. CASE Second \/ Sweep
  BY <1>4 DEF Second, Sweep, Next
<1> QED BY <1>1, <1>2, <1>3, <1>4 DEF ClientNext

(* What a step of the router does to the client.                            *)
LEMMA SweptRow ==
  ASSUME TypeOK, Expire, Me \in DOMAIN peers'
  PROVE  /\ Me \in DOMAIN peers
         /\ peers'[Me].epoch = peers[Me].epoch
         /\ peers[Me].lease > 0 => peers'[Me] = peers[Me]
         /\ ~(peers[Me].disconnected /\ peers[Me].lease = 0)
<1>1. Me \in DOMAIN peers /\ Me \notin Lost
  BY DEF Expire
<1>2. peers'[Me] = IF Me \in Silent THEN Suspended(peers[Me]) ELSE peers[Me]
  BY <1>1 DEF Expire
<1>3. peers[Me] \in PeerState
  BY <1>1 DEF TypeOK, IsTable
<1>4. Suspended(peers[Me]).epoch = peers[Me].epoch
  BY <1>3 DEF Suspended, PeerState
<1>5. ~(peers[Me].disconnected /\ peers[Me].lease = 0)
  BY <1>1 DEF Lost
<1>6. peers[Me].lease > 0 => Me \notin Silent
  BY <1>3 DEF Silent, PeerState
<1> QED BY <1>1, <1>2, <1>4, <1>5, <1>6

LEMMA TouchedRow ==
  ASSUME TypeOK, MarkPeerSeen(Me)
  PROVE  /\ DOMAIN peers' = DOMAIN peers
         /\ Me \in DOMAIN peers
         /\ ~peers'[Me].disconnected
         /\ peers'[Me].lease = PeerTtl
         /\ peers'[Me].epoch = peers[Me].epoch
<1>1. Me \in DOMAIN peers /\ peers[Me] \in PeerState
  BY DEF MarkPeerSeen, TouchPeer, TypeOK, IsTable
<1> QED BY <1>1 DEF MarkPeerSeen, TouchPeer, PeerState

LEMMA AgedRow ==
  ASSUME TypeOK, Tick
  PROVE  /\ DOMAIN peers' = DOMAIN peers
         /\ Me \in DOMAIN peers =>
              /\ peers'[Me].disconnected = peers[Me].disconnected
              /\ peers'[Me].lease = Less(peers[Me].lease)
              /\ peers'[Me].epoch = peers[Me].epoch
<1>1. DOMAIN peers' = DOMAIN peers
  BY DEF Tick
<1>2. ASSUME Me \in DOMAIN peers
      PROVE  /\ peers'[Me].disconnected = peers[Me].disconnected
             /\ peers'[Me].lease = Less(peers[Me].lease)
             /\ peers'[Me].epoch = peers[Me].epoch
  <2>1. peers[Me] \in PeerState
    BY <1>2 DEF TypeOK, IsTable
  <2>2. peers'[Me] = [peers[Me] EXCEPT !.lease = Less(@)]
    BY <1>2 DEF Tick
  <2> QED BY <2>1, <2>2 DEF PeerState
<1> QED BY <1>1, <1>2

LEMMA ResumedRow ==
  ASSUME TypeOK, ResumePeer(Home, Me)
  PROVE  /\ DOMAIN peers' = DOMAIN peers
         /\ Me \in DOMAIN peers
         /\ ~peers'[Me].disconnected
         /\ peers'[Me].lease = PeerTtl
         /\ peers'[Me].epoch \in 1..MaxEpoch
<1>1. Me \in DOMAIN peers /\ peers[Me] \in PeerState
  BY DEF ResumePeer, TypeOK, IsTable
<1>2. peers'[Me] = Resumed(peers[Me]) /\ DOMAIN peers' = DOMAIN peers
  BY <1>1 DEF ResumePeer
<1>3. NextEpoch(peers[Me].epoch) \in 1..MaxEpoch
  BY <1>1, LimitAssumption DEF NextEpoch, PeerState
<1> QED BY <1>1, <1>2, <1>3 DEF Resumed, PeerState

-----------------------------------------------------------------------------
(* Types, bounds of the awaits, and the epoch.                              *)

States == {"RoomJoined", "Healthy", "Reconnecting", "Resynced"}

SessionState == [state : States,
                 failures : 0..DegradedAfterFailures,
                 attempts : 0..MaxAttempts, epoch : 1..MaxEpoch]

(* The part of SessionInv that is about the task alone.                     *)
TaskInv ==
  /\ session \in SessionState
  /\ at \in {"probe", "ack", "sleep", "backoff", "resume"}
  /\ timer \in Nat
  /\ Trying => session.failures < DegradedAfterFailures /\ session.attempts = 0
  /\ at \in {"probe", "resume"} => timer = 0
  /\ at = "ack" => timer <= ProbeTimeout
  /\ at = "sleep" => timer <= ProbeInterval
  /\ at = "backoff" => timer <= ReconnectMaxBackoff

(* The part that is about the path.                                         *)
PathInv ==
  /\ probes \subseteq ProbeDatagram /\ acks \subseteq ProbeAck
  /\ disturbed \in BOOLEAN
  /\ quiet \in 0..ReconnectMaxBackoff + 1
  /\ disturbances \in 0..MaxDisturbances
  /\ disturbed => quiet = 0

LEMMA InvInParts ==
  SessionInv <=> TypeOK /\ TaskInv /\ PathInv /\ EpochAgrees
  BY DEF SessionInv, ClientTypeOK, Bounds, TaskInv, PathInv, SessionState, States

(* What is written over a snapshot leaves a snapshot.                       *)
LEMMA Written ==
  /\ \A s \in SessionState, f \in 0..DegradedAfterFailures :
       [s EXCEPT !.failures = f] \in SessionState
  /\ \A s \in SessionState, f \in 0..DegradedAfterFailures, w \in States :
       [s EXCEPT !.failures = f, !.state = w] \in SessionState
  /\ \A s \in SessionState, n \in 0..MaxAttempts :
       [s EXCEPT !.attempts = n] \in SessionState
  /\ \A s \in SessionState, e \in 1..MaxEpoch, f \in 0..DegradedAfterFailures,
       n \in 0..MaxAttempts, w \in States :
       [s EXCEPT !.epoch = e, !.failures = f, !.attempts = n, !.state = w] \in SessionState
<1> DEFINE F == 0..DegradedAfterFailures
           N == 0..MaxAttempts
           E == 1..MaxEpoch
<1>1. SessionState = [state : States, failures : F, attempts : N, epoch : E]
  BY DEF SessionState
<1> HIDE DEF F, N, E
<1>2. \A s \in SessionState, f \in F : [s EXCEPT !.failures = f] \in SessionState
  BY <1>1
<1>3. \A s \in SessionState, f \in F, w \in States :
        [s EXCEPT !.failures = f, !.state = w] \in SessionState
  BY <1>1
<1>4. \A s \in SessionState, n \in N : [s EXCEPT !.attempts = n] \in SessionState
  BY <1>1
<1>5. \A s \in SessionState, e \in E, f \in F, n \in N, w \in States :
        [s EXCEPT !.epoch = e, !.failures = f, !.attempts = n, !.state = w] \in SessionState
  BY <1>1
<1> QED BY <1>2, <1>3, <1>4, <1>5 DEF F, N, E

(* A probe that fails leads to another sleep or to the first backoff.       *)
LEMMA FailingKeepsTask ==
  ASSUME TaskInv, Trying, ProbeFails
  PROVE  TaskInv'
<1> USE Times
<1> DEFINE n == session.failures + 1
<1>1. /\ session.failures \in Nat /\ session.attempts = 0
      /\ n \in 1..DegradedAfterFailures
  BY DEF TaskInv, SessionState
<1>2. CASE n >= DegradedAfterFailures
  <2>1. /\ session' = [session EXCEPT !.failures = n, !.state = "Reconnecting"]
        /\ at' = "backoff" /\ timer' = ReconnectDelay(session.attempts)
    BY <1>2 DEF ProbeFails, Await
  <2>2. session' \in SessionState
    <3>1. n \in 0..DegradedAfterFailures /\ "Reconnecting" \in States
      BY <1>1 DEF States
    <3> HIDE DEF n
    <3> QED BY <2>1, <3>1, Written DEF TaskInv
  <2>3. timer' \in Nat /\ timer' <= ReconnectMaxBackoff
    BY <1>1, <2>1, Delays
  <2> QED BY <2>1, <2>2, <2>3 DEF TaskInv, Trying
<1>3. CASE ~(n >= DegradedAfterFailures)
  <2>1. /\ session' = [session EXCEPT !.failures = n]
        /\ at' = "sleep" /\ timer' = ProbeInterval
    BY <1>3 DEF ProbeFails, Await
  <2>2. session' \in SessionState
    <3>1. n \in 0..DegradedAfterFailures
      BY <1>1
    <3> HIDE DEF n
    <3> QED BY <2>1, <3>1, Written DEF TaskInv
  <2>3. session'.failures = n /\ session'.attempts = 0
    BY <1>1, <2>1 DEF TaskInv, SessionState
  <2> QED BY <1>1, <1>3, <2>1, <2>2, <2>3 DEF TaskInv, Trying
<1> QED BY <1>2, <1>3

LEMMA SessionKeepsTask ==
  ASSUME TypeOK, TaskInv, SessionStep
  PROVE  TaskInv'
<1> USE Times
<1>1. ASSUME SendProbe PROVE TaskInv'
  <2>1. CASE Await("ack", ProbeTimeout) /\ UNCHANGED session
    BY <1>1, <2>1 DEF SendProbe, Await, TaskInv, Trying
  <2>2. CASE ProbeFails
    BY <1>1, <2>2, FailingKeepsTask DEF SendProbe, Trying
  <2> QED BY <1>1, <2>1, <2>2 DEF SendProbe
<1>2. ASSUME ReceiveAck PROVE TaskInv'
  <2>1. CASE ProbeSucceeds
    <3>1. session' \in SessionState
      <4>1. 0 \in 0..DegradedAfterFailures /\ "Healthy" \in States
        BY DEF States
      <4>2. session \in SessionState /\ session.state \in States
        BY DEF TaskInv, SessionState
      <4>3. \E w \in States : session' = [session EXCEPT !.failures = 0, !.state = w]
        BY <2>1, <4>1, <4>2 DEF ProbeSucceeds
      <4>4. PICK w \in States : session' = [session EXCEPT !.failures = 0, !.state = w]
        BY <4>3
      <4> QED BY <4>1, <4>2, <4>4, Written
    <3>3. session'.failures = 0 /\ session'.attempts = session.attempts
      BY <2>1 DEF ProbeSucceeds, TaskInv, SessionState
    <3>2. at = "ack" /\ at' = "sleep" /\ timer' = ProbeInterval
      BY <1>2, <2>1 DEF ReceiveAck, ProbeSucceeds, Await
    <3> QED BY <3>1, <3>2, <3>3 DEF TaskInv, Trying
  <2>2. CASE UNCHANGED <<session, awaitVars>>
    BY <2>2 DEF awaitVars, TaskInv, Trying
  <2> QED BY <1>2, <2>1, <2>2 DEF ReceiveAck
<1>3. ASSUME LoseProbe PROVE TaskInv'
  BY <1>3, FailingKeepsTask DEF LoseProbe, Trying
<1>4. ASSUME WakeUp PROVE TaskInv'
  BY <1>4 DEF WakeUp, Await, TaskInv, Trying
<1>5. ASSUME AskToResume PROVE TaskInv'
  <2>1. session' \in SessionState
    <3>1. session \in SessionState /\ session.attempts \in 0..MaxAttempts
      BY DEF TaskInv, SessionState
    <3>2. PICK n \in 0..MaxAttempts : session' = [session EXCEPT !.attempts = n]
      BY <1>5, <3>1 DEF AskToResume
    <3> QED BY <3>1, <3>2, Written
  <2> QED BY <1>5, <2>1 DEF AskToResume, Await, TaskInv, Trying
<1>6. ASSUME Resume PROVE TaskInv'
  <2>1. CASE session' = Resync(peers'[Me].epoch) /\ Await("probe", 0)
    <3>1. peers'[Me].epoch \in 1..MaxEpoch
      BY <1>6, ResumedRow DEF Resume
    <3>2. session' \in SessionState
      <4>1. /\ 0 \in 0..DegradedAfterFailures /\ 0 \in 0..MaxAttempts
            /\ "Resynced" \in States
        BY DEF States
      <4> QED BY <2>1, <3>1, <4>1, Written DEF Resync, TaskInv
    <3>3. session'.failures = 0 /\ session'.attempts = 0
      BY <2>1 DEF Resync, TaskInv, SessionState
    <3> QED BY <2>1, <3>2, <3>3 DEF Await, TaskInv, Trying
  <2>2. CASE UNCHANGED session /\ Await("backoff", ReconnectDelay(session.attempts))
    <3>1. session.attempts \in Nat
      BY DEF TaskInv, SessionState
    <3> QED BY <2>2, <3>1, Delays DEF Await, TaskInv, Trying
  <2> QED BY <1>6, <2>1, <2>2 DEF Resume
<1>7. ASSUME FailToResume PROVE TaskInv'
  <2>1. session.attempts \in Nat
    BY DEF TaskInv, SessionState
  <2> QED BY <1>7, <2>1, Delays DEF FailToResume, Await, TaskInv, Trying
<1> QED BY <1>1, <1>2, <1>3, <1>4, <1>5, <1>6, <1>7 DEF SessionStep

LEMMA NextKeepsTask ==
  ASSUME TypeOK, TaskInv, ClientNext
  PROVE  TaskInv'
<1>1. CASE SessionStep
  BY <1>1, SessionKeepsTask
<1>2. CASE HandleProbe \/ LoseDatagram \/ Disturb \/ Recover \/ Sweep
  BY <1>2 DEF HandleProbe, LoseDatagram, Disturb, Recover, Sweep, clientVars,
              awaitVars, TaskInv, Trying
<1>3. CASE Second
  <2>1. /\ UNCHANGED <<session, at>> /\ timer' = Less(timer)
        /\ timer' \in Nat /\ timer' <= timer
    BY <1>3 DEF Second, Less, TaskInv
  <2>2. {ProbeInterval, ProbeTimeout, ReconnectMaxBackoff} \subseteq Nat
    BY ClientAssumption
  <2> QED BY <2>1, <2>2 DEF TaskInv, Trying
<1> QED BY <1>1, <1>2, <1>3 DEF ClientNext

LEMMA NextKeepsPath ==
  ASSUME TypeOK, TaskInv, PathInv, ClientNext
  PROVE  PathInv'
<1> USE Times
<1>1. Outdated(probes) \subseteq ProbeDatagram /\ Outdated(acks) \subseteq ProbeAck
  BY DEF PathInv, Outdated, ProbeDatagram, ProbeAck
<1>2. [epoch |-> session.epoch, current |-> TRUE] \in ProbeDatagram
  BY DEF TaskInv, SessionState, ProbeDatagram
<1>3. CASE SessionStep
  <2>1. UNCHANGED pathVars
    BY <1>3 DEF SessionStep, SendProbe, ReceiveAck, LoseProbe, WakeUp, AskToResume,
                Resume, FailToResume
  <2>2. probes' \subseteq ProbeDatagram
    BY <1>1, <1>2, <1>3 DEF SessionStep, SendProbe, ReceiveAck, LoseProbe, WakeUp,
                            AskToResume, Resume, FailToResume, PathInv
  <2>3. acks' \subseteq ProbeAck
    BY <1>1, <1>3 DEF SessionStep, SendProbe, ReceiveAck, LoseProbe, WakeUp,
                      AskToResume, Resume, FailToResume, PathInv
  <2> QED BY <2>1, <2>2, <2>3 DEF PathInv, pathVars
<1>4. CASE HandleProbe
  <2>1. PICK d \in probes :
          /\ acks' = acks \cup {[current |-> d.current]} \/ acks' = acks
          /\ probes' = probes \ {d} \/ probes' = probes
    BY <1>4 DEF HandleProbe
  <2>2. [current |-> d.current] \in ProbeAck
    BY DEF PathInv, ProbeDatagram, ProbeAck
  <2> QED BY <1>4, <2>1, <2>2 DEF HandleProbe, PathInv, pathVars
<1>5. CASE LoseDatagram
  BY <1>5 DEF LoseDatagram, PathInv, pathVars
<1>6. CASE Disturb
  BY <1>6 DEF Disturb, PathInv
<1>7. CASE Recover
  BY <1>7 DEF Recover, PathInv
<1>8. CASE Second
  BY <1>8 DEF Second, PathInv
<1>9. CASE Sweep
  BY <1>9 DEF Sweep, clientVars, pathVars, PathInv
<1> QED BY <1>3, <1>4, <1>5, <1>6, <1>7, <1>8, <1>9 DEF ClientNext

(* Only a resume whose answer arrives lets the session send again, and the  *)
(* epoch of a peer changes nowhere else.                                    *)
LEMMA NextKeepsEpoch ==
  ASSUME TypeOK, TaskInv, EpochAgrees, ClientNext
  PROVE  EpochAgrees'
<1>1. CASE Resume
  <2>1. CASE session' = Resync(peers'[Me].epoch)
    BY <2>1 DEF Resync, EpochAgrees, TaskInv, SessionState
  <2>2. CASE Await("backoff", ReconnectDelay(session.attempts))
    BY <2>2 DEF Await, EpochAgrees
  <2> QED BY <1>1, <2>1, <2>2 DEF Resume
<1>2. CASE SessionStep /\ ~Resume
  <2>1. UNCHANGED vars /\ session'.epoch = session.epoch
    BY <1>2 DEF SessionStep, SendProbe, ReceiveAck, LoseProbe, WakeUp, AskToResume,
                FailToResume, ProbeFails, ProbeSucceeds, TaskInv, SessionState
  <2>2. at' \in {"probe", "ack", "sleep"} => at \in {"probe", "ack", "sleep"}
    BY <1>2 DEF SessionStep, SendProbe, ReceiveAck, LoseProbe, WakeUp, AskToResume,
                FailToResume, Await
  <2> QED BY <2>1, <2>2 DEF EpochAgrees, vars, peerVars
<1>3. CASE HandleProbe
  BY <1>3, TouchedRow DEF HandleProbe, awaitVars, vars, peerVars, EpochAgrees
<1>4. CASE LoseDatagram \/ Disturb \/ Recover
  BY <1>4 DEF LoseDatagram, Disturb, Recover, awaitVars, vars, peerVars, EpochAgrees
<1>5. CASE Second
  BY <1>5, AgedRow DEF Second, EpochAgrees
<1>6. CASE Sweep
  BY <1>6, SweptRow DEF Sweep, clientVars, awaitVars, EpochAgrees
<1> QED BY <1>1, <1>2, <1>3, <1>4, <1>5, <1>6 DEF ClientNext

LEMMA SessionInvInit == ClientInit => SessionInv
<1> SUFFICES ASSUME ClientInit PROVE SessionInv
  OBVIOUS
<1> USE ClientAssumption, Times, LimitAssumption, TtlAssumption
<1>1. TypeOK
  BY DEF ClientInit, TypeOK, IsTable, RoomState, PeerState, NoTables
<1>2. TaskInv
  BY DEF ClientInit, TaskInv, SessionState, States, Trying
<1>3. PathInv
  <2>1. 0 \in 0..ReconnectMaxBackoff + 1 /\ 0 \in 0..MaxDisturbances
    BY Times
  <2> QED BY <2>1 DEF ClientInit, PathInv
<1>4. EpochAgrees
  BY DEF ClientInit, EpochAgrees
<1> QED BY <1>1, <1>2, <1>3, <1>4, InvInParts

LEMMA SessionInvNext ==
  SessionInv /\ [ClientNext]_sessionSystemVars => SessionInv'
<1> SUFFICES ASSUME SessionInv, [ClientNext]_sessionSystemVars PROVE SessionInv'
  OBVIOUS
<1>1. CASE ClientNext
  <2>1. TypeOK /\ TaskInv /\ PathInv /\ EpochAgrees
    BY InvInParts
  <2>2. TypeOK'
    BY <1>1, <2>1, ServerStep, NextTypes
  <2>3. TaskInv' /\ PathInv' /\ EpochAgrees'
    BY <1>1, <2>1, NextKeepsTask, NextKeepsPath, NextKeepsEpoch
  <2> QED BY <2>2, <2>3 DEF SessionInv, ClientTypeOK, Bounds, TaskInv, PathInv, SessionState, States, Trying
<1>2. CASE UNCHANGED sessionSystemVars
  <2>1. UNCHANGED vars /\ UNCHANGED <<session, at, timer, probes, acks>>
        /\ UNCHANGED <<disturbed, quiet, disturbances>>
    BY <1>2 DEF sessionSystemVars, clientVars, awaitVars, pathVars
  <2>2. TypeOK'
    BY <2>1, NextTypes DEF SessionInv, ClientTypeOK
  <2> QED BY <2>1, <2>2 DEF SessionInv, ClientTypeOK, Bounds, Trying, EpochAgrees, vars, peerVars
<1> QED BY <1>1, <1>2

LEMMA SessionInvHolds == ClientSpec => []SessionInv
  BY SessionInvInit, SessionInvNext, PTL DEF ClientSpec

(* Snapshot, awaits and datagrams keep their types, the failures never pass *)
(* the threshold and the attempts never their counter, whatever is lost.    *)
THEOREM ClientTypes == ClientSpec => []ClientTypeOK
<1>1. SessionInv => ClientTypeOK
  BY DEF SessionInv
<1> QED BY <1>1, SessionInvHolds, PTL

(* A session that probes uses the epoch the router has for it, whatever     *)
(* answers of resume were lost.                                             *)
THEOREM SessionEpochAgrees == ClientSpec => []EpochAgrees
<1>1. SessionInv => EpochAgrees
  BY DEF SessionInv
<1> QED BY <1>1, SessionInvHolds, PTL

-----------------------------------------------------------------------------
(* What an acknowledgement means.                                           *)

LEMMA MyRow ==
  ASSUME TypeOK, Me \in DOMAIN peers
  PROVE  peers[Me].lease \in Nat /\ peers[Me].disconnected \in BOOLEAN
  BY DEF TypeOK, IsTable, PeerState

(* A step that leaves the session where it stands, or takes it to another   *)
(* await.                                                                   *)
LEMMA LeavesAck ==
  ASSUME SessionStep, ~SendProbe
  PROVE  at' = "ack" => /\ at = "ack" /\ UNCHANGED <<session, timer>>
                        /\ acks' \subseteq acks /\ UNCHANGED <<probes, vars, pathVars>>
                        /\ \A a \in acks : a.current => a \in acks'
<1>1. CASE ReceiveAck
  BY <1>1 DEF ReceiveAck, ProbeSucceeds, Await, awaitVars
<1>2. CASE LoseProbe
  BY <1>2 DEF LoseProbe, ProbeFails, Await
<1>3. CASE WakeUp \/ AskToResume \/ FailToResume \/ Resume
  BY <1>3 DEF WakeUp, AskToResume, FailToResume, Resume, Await
<1> QED BY <1>1, <1>2, <1>3 DEF SessionStep

(* The probe that is sent is the only one that is current, and no           *)
(* acknowledgement is.                                                      *)
LEMMA OldAcksOutdated ==
  ASSUME PathInv
  PROVE  \A a \in Outdated(acks) : ~a.current
  BY DEF PathInv, Outdated, ProbeAck

LEMMA NextKeepsVouched ==
  ASSUME ProbeTimeout < PeerTtl, TypeOK, TaskInv, PathInv, Vouched, ClientNext
  PROVE  Vouched'
<1> USE Times
<1> SUFFICES ASSUME at' = "ack", NEW b \in acks', b.current
             PROVE  /\ Me \in DOMAIN peers'
                    /\ ~peers'[Me].disconnected
                    /\ peers'[Me].lease >= PeerTtl - (ProbeTimeout - timer')
  BY DEF Vouched
<1>t. timer \in Nat /\ (at = "ack" => timer <= ProbeTimeout)
  BY DEF TaskInv
<1>1. CASE SendProbe
  <2>1. acks' = Outdated(acks)
    BY <1>1 DEF SendProbe
  <2> QED BY <2>1, OldAcksOutdated
<1>2. CASE SessionStep /\ ~SendProbe
  BY <1>2, LeavesAck DEF Vouched, vars, peerVars
<1>3. CASE HandleProbe
  <2>1. at = "ack" /\ timer' = timer
    BY <1>3 DEF HandleProbe, awaitVars
  <2>2. CASE MarkPeerSeen(Me)
    BY <1>t, <2>1, <2>2, TouchedRow
  <2>3. CASE UNCHANGED <<vars, acks>>
    BY <2>1, <2>3 DEF Vouched, vars, peerVars
  <2> QED BY <1>3, <2>2, <2>3 DEF HandleProbe
<1>4. CASE LoseDatagram \/ Disturb \/ Recover
  <2>1. at = "ack" /\ timer' = timer /\ acks' \subseteq acks /\ UNCHANGED peers
    BY <1>4 DEF LoseDatagram, Disturb, Recover, awaitVars, vars, peerVars
  <2> QED BY <2>1 DEF Vouched
<1>5. CASE Second
  <2>1. at = "ack" /\ UNCHANGED acks /\ Tick /\ timer > 0 /\ timer' = timer - 1 /\ Silent = {}
    BY <1>5, <1>t DEF Second, Less
  <2>2. /\ Me \in DOMAIN peers /\ ~peers[Me].disconnected
        /\ peers[Me].lease >= PeerTtl - (ProbeTimeout - timer)
    BY <2>1 DEF Vouched
  <2>3. peers[Me].lease \in Nat /\ peers[Me].lease # 0
    BY <2>1, <2>2, MyRow DEF Silent
  <2>4. /\ Me \in DOMAIN peers' /\ ~peers'[Me].disconnected
        /\ peers'[Me].lease = peers[Me].lease - 1
    BY <2>1, <2>2, <2>3, AgedRow DEF Less
  <2> QED BY <1>t, <2>1, <2>2, <2>3, <2>4
<1>6. CASE Sweep
  <2>1. at = "ack" /\ UNCHANGED <<acks, timer>> /\ Expire
    BY <1>6 DEF Sweep, clientVars, awaitVars
  <2>2. /\ Me \in DOMAIN peers /\ ~peers[Me].disconnected
        /\ peers[Me].lease >= PeerTtl - (ProbeTimeout - timer)
    BY <2>1 DEF Vouched
  <2>3. peers[Me].lease \in Nat /\ peers[Me].lease > 0
    BY <1>t, <2>1, <2>2, MyRow
  <2>4. Me \in DOMAIN peers'
    BY <2>1, <2>2, <2>3 DEF Expire, Lost
  <2> QED BY <2>1, <2>2, <2>3, <2>4, SweptRow
<1> QED BY <1>1, <1>2, <1>3, <1>4, <1>5, <1>6 DEF ClientNext

LEMMA VouchedNext ==
  ASSUME ProbeTimeout < PeerTtl
  PROVE  SessionInv /\ Vouched /\ [ClientNext]_sessionSystemVars => Vouched'
<1> SUFFICES ASSUME SessionInv, Vouched, [ClientNext]_sessionSystemVars PROVE Vouched'
  OBVIOUS
<1>1. CASE ClientNext
  BY <1>1, InvInParts, NextKeepsVouched
<1>2. CASE UNCHANGED sessionSystemVars
  BY <1>2 DEF sessionSystemVars, clientVars, awaitVars, vars, peerVars, Vouched
<1> QED BY <1>1, <1>2

(* A probe succeeds only on the acknowledgement of that very probe, which   *)
(* the server made after admitting it, renewing the lease: as long as the   *)
(* timeout of a probe is shorter than the lease, the client is connected    *)
(* then and its lease is at most one timeout old.                           *)
THEOREM AckVouchesForLease ==
  ASSUME ProbeTimeout < PeerTtl
  PROVE  ClientSpec => AckMeansLease
<1> DEFINE Confirmed == at = "ack" /\ at' = "sleep" /\ session'.failures = 0 =>
                          /\ Me \in DOMAIN peers
                          /\ ~peers[Me].disconnected
                          /\ peers[Me].lease >= PeerTtl - ProbeTimeout
<1>1. ASSUME SessionInv, Vouched, ClientNext PROVE Confirmed
  <2> SUFFICES ASSUME at = "ack", at' = "sleep", session'.failures = 0
               PROVE  /\ Me \in DOMAIN peers
                      /\ ~peers[Me].disconnected
                      /\ peers[Me].lease >= PeerTtl - ProbeTimeout
    OBVIOUS
  <2>1. TypeOK /\ TaskInv
    BY <1>1, InvInParts
  <2>2. ~LoseProbe
    <3>1. session.failures \in Nat
      BY <2>1, Times DEF TaskInv, SessionState
    <3>2. LoseProbe => session'.failures = session.failures + 1
      BY <2>1 DEF LoseProbe, ProbeFails, TaskInv, SessionState
    <3> QED BY <3>1, <3>2
  <2>3. ReceiveAck
    BY <1>1, <2>2 DEF ClientNext, SessionStep, SendProbe, WakeUp, AskToResume, Resume,
            FailToResume, HandleProbe, LoseDatagram, Disturb, Recover, Second, Sweep,
            clientVars, awaitVars
  <2>4. PICK a \in acks : a.current
    BY <2>3 DEF ReceiveAck, awaitVars
  <2>5. /\ Me \in DOMAIN peers /\ ~peers[Me].disconnected
        /\ peers[Me].lease >= PeerTtl - (ProbeTimeout - timer)
    BY <1>1, <2>4 DEF Vouched
  <2>6. timer \in Nat /\ peers[Me].lease \in Nat
    BY <2>1, <2>5, MyRow DEF TaskInv
  <2> QED BY <2>5, <2>6, Times
<1>2. SessionInv /\ Vouched /\ [ClientNext]_sessionSystemVars => [Confirmed]_sessionSystemVars
  BY <1>1
<1>3. ClientInit => Vouched
  BY DEF ClientInit, Vouched
<1> HIDE DEF Confirmed
<1>4. ClientSpec => [][Confirmed]_sessionSystemVars
  BY <1>2, <1>3, VouchedNext, SessionInvHolds, PTL DEF ClientSpec
<1> QED BY <1>4 DEF Confirmed, AckMeansLease

-----------------------------------------------------------------------------
(* The sweep and the session.                                               *)

LEMMA RoundsGrow ==
  /\ Rounds(0) = 0
  /\ \A n \in Nat : /\ Rounds(n) \in Nat
                    /\ Rounds(n + 1) = Rounds(n) + ProbeInterval + ProbeTimeout
  /\ \A n \in Nat : n < DegradedAfterFailures =>
       Rounds(n) + ProbeInterval + ProbeTimeout <= Rounds(DegradedAfterFailures)
<1> DEFINE R == ProbeInterval + ProbeTimeout
<1>1. R \in Nat /\ DegradedAfterFailures \in Nat
  BY Times
<1>2. \A n \in Nat : n * R \in Nat /\ (n + 1) * R = n * R + R
  BY <1>1
<1>3. ASSUME NEW n \in Nat, n < DegradedAfterFailures
      PROVE  n * R + R <= DegradedAfterFailures * R
  BY <1>1, <1>3
<1>4. 0 * R = 0
  BY <1>1
<1> HIDE DEF R
<1>5. /\ \A n \in Nat : n * R \in Nat /\ (n + 1) * R = n * R + R
      /\ \A n \in Nat : n < DegradedAfterFailures => n * R + R <= DegradedAfterFailures * R
  BY <1>2, <1>3
<1> QED BY <1>1, <1>4, <1>5, Times DEF Rounds, R

SinceSums ==
  /\ session.failures \in Nat /\ Rounds(session.failures) \in Nat
  /\ at = "sleep" => Since = ProbeTimeout + Rounds(session.failures) + (ProbeInterval - timer)
  /\ at = "probe" => Since = ProbeTimeout + Rounds(session.failures) + ProbeInterval
  /\ at = "ack" => Since = ProbeTimeout + Rounds(session.failures)
                             + (ProbeInterval + (ProbeTimeout - timer))
  /\ Trying => Since \in Nat

LEMMA SinceIs == TaskInv => SinceSums
<1> SUFFICES ASSUME TaskInv PROVE SinceSums
  OBVIOUS
<1>1. session.failures \in Nat /\ timer \in Nat
  BY Times DEF TaskInv, SessionState
<1>2. Rounds(session.failures) \in Nat
  BY <1>1, RoundsGrow
<1>3. at = "sleep" => Since = ProbeTimeout + Rounds(session.failures) + (ProbeInterval - timer)
  BY DEF Since
<1>4. at = "probe" => Since = ProbeTimeout + Rounds(session.failures) + ProbeInterval
  BY DEF Since
<1>5. at = "ack" => Since = ProbeTimeout + Rounds(session.failures)
                              + (ProbeInterval + (ProbeTimeout - timer))
  BY DEF Since
<1>6. Trying => Since \in Nat
  BY <1>1, <1>2, <1>3, <1>4, <1>5, Times DEF Trying, TaskInv
<1> QED BY <1>1, <1>2, <1>3, <1>4, <1>5, <1>6 DEF SinceSums

LEMMA SinceIsNext == TaskInv' => SinceSums'
<1>1. (TaskInv => SinceSums)'
  BY SinceIs, PTL
<1> QED BY <1>1

(* A session that still tries has been heard of within its lease.           *)
LEMMA NeverSilent ==
  ASSUME Timely, TypeOK, TaskInv, InContact, Trying, Me \in DOMAIN peers
  PROVE  ~peers[Me].disconnected /\ peers[Me].lease \in Nat /\ peers[Me].lease > 0
<1>1. /\ ~peers[Me].disconnected /\ peers[Me].lease \in Nat
      /\ peers[Me].lease + Since >= PeerTtl
  BY MyRow DEF InContact
<1>2. /\ session.failures \in Nat /\ session.failures < DegradedAfterFailures
      /\ timer \in Nat
  BY SinceIs DEF SinceSums, TaskInv
<1>3. Rounds(session.failures) + ProbeInterval + ProbeTimeout <= Rounds(DegradedAfterFailures)
  BY <1>2, RoundsGrow
<1>4. Since <= ProbeTimeout + Rounds(session.failures) + ProbeInterval + ProbeTimeout
  BY <1>2, SinceIs, Times DEF SinceSums, Trying
<1>5. /\ Rounds(session.failures) \in Nat /\ Rounds(DegradedAfterFailures) \in Nat
      /\ Since \in Nat
  BY <1>2, RoundsGrow, SinceIs, Times DEF SinceSums
<1> QED BY <1>1, <1>3, <1>4, <1>5, Times DEF Timely

(* What a failure does, and what the session stands at after it.            *)
LEMMA Failing ==
  ASSUME TaskInv, Trying, ProbeFails
  PROVE  \/ /\ at' = "sleep" /\ timer' = ProbeInterval
            /\ session'.failures = session.failures + 1
         \/ /\ at' = "backoff" /\ timer' \in Nat
            /\ timer' <= ReconnectInitialBackoff
<1>1. session.attempts = 0 /\ ReconnectDelay(0) \in Nat
      /\ ReconnectDelay(0) <= ReconnectInitialBackoff
  BY Delays, Times DEF TaskInv
<1> QED BY <1>1 DEF ProbeFails, Await, TaskInv, SessionState

LEMMA SessionKeepsContact ==
  ASSUME Timely, TypeOK, TaskInv, Vouched, InContact, SessionStep, Trying',
         Me \in DOMAIN peers'
  PROVE  ~peers'[Me].disconnected /\ peers'[Me].lease + Since' >= PeerTtl
<1> USE Times
<1>1. TaskInv'
  BY SessionKeepsTask
<1>2. /\ session.failures \in Nat /\ Rounds(session.failures) \in Nat
      /\ timer \in Nat /\ timer' \in Nat /\ Since' \in Nat
  BY <1>1, SinceIs, SinceIsNext DEF SinceSums, TaskInv
<1>3. Rounds(session.failures + 1)
        = Rounds(session.failures) + ProbeInterval + ProbeTimeout
  BY <1>2, RoundsGrow
<1>4. ASSUME Resume PROVE ~peers'[Me].disconnected /\ peers'[Me].lease + Since' >= PeerTtl
  <2>1. ~peers'[Me].disconnected
    BY <1>4, ResumedRow DEF Resume
  <2>2. peers'[Me].lease = PeerTtl
    BY <1>4, ResumedRow DEF Resume
  <2>3. peers'[Me].lease + Since' >= PeerTtl
    BY <1>2, <2>2
  <2> QED BY <2>1, <2>3
<1>5. CASE ~Resume
  <2>1. UNCHANGED peers /\ Trying
    BY <1>5 DEF SessionStep, SendProbe, ReceiveAck, LoseProbe, WakeUp, AskToResume,
                FailToResume, vars, peerVars, Trying, Await
  <2>2. /\ ~peers[Me].disconnected /\ peers[Me].lease + Since >= PeerTtl
        /\ peers[Me].lease \in Nat /\ Since \in Nat
    BY <2>1, MyRow, SinceIs DEF SinceSums, InContact
  <2>3. SUFFICES peers[Me].lease + Since' >= PeerTtl
    BY <2>1, <2>2
  <2>4. CASE SendProbe /\ at' = "ack" /\ timer' = ProbeTimeout /\ UNCHANGED session
    <3>1. at = "probe"
      BY <2>4 DEF SendProbe
    <3>2. Since' = ProbeTimeout + Rounds(session.failures) + (ProbeInterval + (ProbeTimeout - timer'))
      BY <1>1, <2>4, SinceIsNext DEF SinceSums
    <3>3. Since = ProbeTimeout + Rounds(session.failures) + ProbeInterval
      BY <3>1, SinceIs DEF SinceSums
    <3> QED BY <1>2, <2>2, <2>4, <3>2, <3>3
  <2>5. CASE (SendProbe \/ LoseProbe) /\ ProbeFails
    <3>1. at \in {"probe", "ack"}
      BY <2>5 DEF SendProbe, LoseProbe
    <3>2. /\ at' = "sleep" /\ timer' = ProbeInterval
          /\ session'.failures = session.failures + 1
      BY <2>1, <2>5, Failing DEF Trying
    <3>3. Since' = ProbeTimeout + Rounds(session.failures + 1) + (ProbeInterval - timer')
      BY <1>1, <3>2, SinceIsNext DEF SinceSums
    <3>4. Since <= ProbeTimeout + Rounds(session.failures) + ProbeInterval + ProbeTimeout
      BY <1>2, <3>1, SinceIs DEF SinceSums
    <3> QED BY <1>2, <1>3, <2>2, <3>2, <3>3, <3>4
  <2>6. CASE ReceiveAck
    <3>1. CASE ProbeSucceeds
      <4>1. \/ at = "ack" /\ \E a \in acks : a.current
            \/ UNCHANGED <<session, awaitVars>>
        BY <2>6 DEF ReceiveAck
      <4>2. CASE at = "ack" /\ \E a \in acks : a.current
        <5>1. peers[Me].lease >= PeerTtl - (ProbeTimeout - timer)
          BY <4>2 DEF Vouched
        <5>2. at' = "sleep" /\ timer' = ProbeInterval /\ session'.failures = 0
          BY <3>1 DEF ProbeSucceeds, Await, TaskInv, SessionState
        <5>3. Rounds(session'.failures) = 0
          BY <5>2, RoundsGrow
        <5>4. Since' = ProbeTimeout + Rounds(session'.failures) + (ProbeInterval - timer')
          BY <1>1, <5>2, SinceIsNext DEF SinceSums
        <5> QED BY <1>2, <2>2, <5>1, <5>2, <5>3, <5>4
      <4>3. CASE UNCHANGED <<session, awaitVars>>
        BY <2>2, <4>3 DEF Since, awaitVars
      <4> QED BY <4>1, <4>2, <4>3
    <3>2. CASE UNCHANGED <<session, awaitVars>>
      BY <2>2, <3>2 DEF Since, awaitVars
    <3> QED BY <2>6, <3>1, <3>2 DEF ReceiveAck
  <2>7. CASE WakeUp
    <3>1. at = "sleep" /\ timer = 0 /\ at' = "probe" /\ UNCHANGED session
      BY <2>7 DEF WakeUp, Await
    <3>2. Since' = ProbeTimeout + Rounds(session.failures) + ProbeInterval
      BY <1>1, <3>1, SinceIsNext DEF SinceSums
    <3>3. Since = ProbeTimeout + Rounds(session.failures) + (ProbeInterval - timer)
      BY <3>1, SinceIs DEF SinceSums
    <3> QED BY <1>2, <2>2, <3>1, <3>2, <3>3
  <2>8. CASE AskToResume \/ FailToResume
    BY <2>8 DEF AskToResume, FailToResume, Await, Trying
  <2> QED BY <1>5, <2>4, <2>5, <2>6, <2>7, <2>8
          DEF SessionStep, SendProbe, LoseProbe, Await
<1> QED BY <1>4, <1>5

LEMMA NextKeepsContact ==
  ASSUME Timely, TypeOK, TaskInv, Vouched, InContact, ClientNext
  PROVE  InContact'
<1> USE Times
<1> SUFFICES ASSUME Trying', Me \in DOMAIN peers'
             PROVE  ~peers'[Me].disconnected /\ peers'[Me].lease + Since' >= PeerTtl
  BY DEF InContact
<1>1. CASE SessionStep
  BY <1>1, SessionKeepsContact
<1>2. CASE HandleProbe \/ LoseDatagram \/ Disturb \/ Recover \/ Sweep
  <2>1. Trying /\ Since' = Since /\ Since \in Nat
    BY <1>2, SinceIs DEF SinceSums, HandleProbe, LoseDatagram, Disturb, Recover, Sweep, clientVars,
              awaitVars, Trying, Since
  <2>2. CASE MarkPeerSeen(Me)
    BY <2>1, <2>2, TouchedRow
  <2>3. CASE UNCHANGED vars
    BY <2>1, <2>3 DEF InContact, vars, peerVars
  <2>4. CASE Expire
    <3>1. Me \in DOMAIN peers
      BY <2>4, SweptRow
    <3>2. peers'[Me] = peers[Me]
      BY <2>1, <2>4, <3>1, SweptRow, NeverSilent
    <3> QED BY <2>1, <3>1, <3>2 DEF InContact
  <2> QED BY <1>2, <2>2, <2>3, <2>4 DEF HandleProbe, LoseDatagram, Disturb, Recover, Sweep
<1>3. CASE Second
  <2>1. /\ UNCHANGED <<at, session>> /\ Tick /\ Trying
        /\ at \in {"ack", "sleep"} /\ timer \in Nat /\ timer' = timer - 1
    BY <1>3 DEF Second, Less, Trying, TaskInv
  <2>2. /\ Me \in DOMAIN peers
        /\ peers'[Me].disconnected = peers[Me].disconnected
        /\ peers'[Me].lease = Less(peers[Me].lease)
    BY <2>1, AgedRow
  <2>3. ~peers[Me].disconnected /\ peers[Me].lease \in Nat /\ peers[Me].lease > 0
    BY <2>1, <2>2, NeverSilent
  <2>4. peers[Me].lease + Since >= PeerTtl /\ Since \in Nat
    BY <2>1, <2>2, SinceIs DEF SinceSums, InContact
  <2>5. TaskInv'
    BY <1>3, NextKeepsTask DEF ClientNext
  <2>6. Since' = Since + 1
    <3>1. session.failures \in Nat /\ Rounds(session.failures) \in Nat
      BY SinceIs DEF SinceSums
    <3>2. CASE at = "ack"
      BY <2>1, <2>5, <3>1, <3>2, SinceIs, SinceIsNext DEF SinceSums
    <3>3. CASE at = "sleep"
      BY <2>1, <2>5, <3>1, <3>3, SinceIs, SinceIsNext DEF SinceSums
    <3> QED BY <2>1, <3>2, <3>3
  <2> QED BY <2>2, <2>3, <2>4, <2>6 DEF Less
<1> QED BY <1>1, <1>2, <1>3 DEF ClientNext

LEMMA NextKeepsAnswered ==
  ASSUME Timely, TypeOK, TaskInv, PathInv, EpochAgrees, InContact, Answered, ClientNext
  PROVE  Answered'
<1> USE Times
<1> SUFFICES ASSUME at' = "ack", ~disturbed', Me \in DOMAIN peers'
             PROVE  \/ quiet' + timer' <= ProbeTimeout
                    \/ /\ timer' = ProbeTimeout
                       /\ \/ \E d \in probes' : d.current /\ d.epoch = session'.epoch
                          \/ \E a \in acks' : a.current
  BY DEF Answered
<1>1. CASE SendProbe
  <2>1. /\ timer' = ProbeTimeout /\ session' = session
        /\ [epoch |-> session.epoch, current |-> TRUE] \in probes'
    BY <1>1 DEF SendProbe, ProbeFails, Await
  <2> QED BY <2>1
<1>2. CASE SessionStep /\ ~SendProbe
  <2>1. /\ at = "ack" /\ UNCHANGED <<session, timer, probes, disturbed, quiet, peers>>
        /\ \A a \in acks : a.current => a \in acks'
    BY <1>2, LeavesAck DEF vars, peerVars, pathVars
  <2> QED BY <2>1 DEF Answered
<1>3. CASE HandleProbe
  <2>1. /\ at = "ack" /\ UNCHANGED <<session, timer, disturbed, quiet>>
        /\ DOMAIN peers' = DOMAIN peers
    BY <1>3, TouchedRow DEF HandleProbe, awaitVars, pathVars, vars, peerVars
  <2>2. CASE quiet + timer <= ProbeTimeout
    BY <2>1, <2>2
  <2>3. CASE /\ timer = ProbeTimeout
             /\ \E a \in acks : a.current
    BY <1>3, <2>1, <2>3 DEF HandleProbe
  <2>4. CASE /\ timer = ProbeTimeout
             /\ \E d \in probes : d.current /\ d.epoch = session.epoch
    <3>1. PICK e \in probes : e.current /\ e.epoch = session.epoch
      BY <2>4
    <3>2. PICK d \in probes :
            /\ \/ MayAdmit(d) /\ acks' = acks \cup {[current |-> d.current]}
               \/ ~MayAdmit(d)
            /\ probes \ {d} \subseteq probes'
      BY <1>3 DEF HandleProbe
    <3>3. CASE d = e
      <4>1. Me \in DOMAIN peers /\ peers[Me].epoch = d.epoch /\ ~peers[Me].disconnected
        BY <2>1, <3>1, <3>3 DEF EpochAgrees, InContact, Trying
      <4>2. [current |-> d.current] \in acks'
        BY <3>2, <4>1 DEF MayAdmit
      <4> QED BY <2>1, <2>4, <3>1, <3>3, <4>2
    <3>4. CASE d # e
      BY <2>1, <2>4, <3>1, <3>2, <3>4
    <3> QED BY <3>3, <3>4
  <2> QED BY <2>1, <2>2, <2>3, <2>4 DEF Answered
<1>4. CASE LoseDatagram \/ Disturb
  BY <1>4 DEF LoseDatagram, Disturb, pathVars
<1>5. CASE Recover
  BY <1>5 DEF Recover, awaitVars, TaskInv, PathInv
<1>6. CASE Second
  <2>1. /\ at = "ack" /\ ~disturbed /\ probes = {} /\ acks = {} /\ DOMAIN peers' = DOMAIN peers
    BY <1>6, AgedRow DEF Second
  <2>t. timer \in Nat /\ timer > 0 /\ timer' = timer - 1
    BY <1>6, <2>1 DEF Second, TaskInv, Less
  <2>q. quiet \in Nat /\ quiet' \in Nat /\ quiet' <= quiet + 1
    BY <1>6, <2>1 DEF Second, PathInv
  <2>2. quiet + timer <= ProbeTimeout
    BY <2>1 DEF Answered
  <2>3. PICK n \in Nat : quiet' = n /\ n <= quiet + 1
    BY <2>q
  <2>4. quiet' + timer' <= ProbeTimeout
    BY <2>2, <2>3, <2>t, <2>q
  <2> QED BY <2>4
<1>7. CASE Sweep
  BY <1>7, SweptRow DEF Sweep, clientVars, awaitVars, pathVars, Answered
<1> QED BY <1>1, <1>2, <1>3, <1>4, <1>5, <1>6, <1>7 DEF ClientNext

LEMMA NextKeepsInTime ==
  ASSUME Timely, TypeOK, TaskInv, PathInv, InContact, Answered, InTime, ClientNext
  PROVE  InTime'
<1> USE Times
<1> SUFFICES ASSUME at' \in {"backoff", "resume"}, ~disturbed', Me \in DOMAIN peers'
             PROVE  \/ quiet' + timer' <= ReconnectMaxBackoff
                    \/ /\ quiet' <= ReconnectMaxBackoff
                       /\ peers'[Me].disconnected /\ peers'[Me].lease = 0
  BY DEF InTime
<1>q. quiet \in Nat /\ timer \in Nat
  BY DEF PathInv, TaskInv
<1>1. CASE LoseProbe
  <2>1. at = "ack" /\ ~disturbed /\ timer = 0 /\ UNCHANGED peers /\ ProbeFails
    BY <1>1 DEF LoseProbe, vars, peerVars, pathVars
  <2>q. timer = 0 /\ quiet' = quiet
    BY <1>1, <2>1 DEF LoseProbe, pathVars
  <2>2. quiet + timer <= ProbeTimeout
    BY <2>1 DEF Answered
  <2>3. PICK n \in Nat : timer' = n /\ n <= ReconnectInitialBackoff
    BY <2>1, Failing DEF Trying
  <2>4. quiet' + timer' <= ReconnectMaxBackoff
    BY <1>q, <2>q, <2>2, <2>3 DEF Timely
  <2> QED BY <2>4
<1>2. CASE FailToResume
  <2>1. at = "resume" /\ ~disturbed /\ ~MayResume /\ quiet' = quiet /\ UNCHANGED peers
    BY <1>2 DEF FailToResume, vars, peerVars, pathVars
  <2>2. peers[Me].disconnected /\ peers[Me].lease = 0
    BY <2>1, MyRow DEF MayResume
  <2>3. quiet <= ReconnectMaxBackoff
    BY <1>q, <2>1 DEF InTime
  <2> QED BY <2>1, <2>2, <2>3
<1>3. CASE SessionStep /\ ~LoseProbe /\ ~FailToResume
  <2>1. /\ at = "backoff" /\ timer' = 0 /\ timer = 0
        /\ UNCHANGED <<quiet, disturbed, peers>>
    BY <1>3 DEF SessionStep, SendProbe, ReceiveAck, ProbeSucceeds, WakeUp, AskToResume,
                Resume, Await, awaitVars, vars, peerVars, pathVars
  <2> QED BY <1>q, <2>1 DEF InTime
<1>4. CASE HandleProbe
  <2>1. UNCHANGED <<at, timer, quiet, disturbed>>
    BY <1>4 DEF HandleProbe, awaitVars, pathVars
  <2>2. CASE MarkPeerSeen(Me)
    <3>1. Me \in DOMAIN peers /\ ~peers[Me].disconnected
      BY <2>2 DEF MarkPeerSeen, TouchPeer
    <3> QED BY <2>1, <3>1 DEF InTime
  <2>3. CASE UNCHANGED vars
    BY <2>1, <2>3 DEF InTime, vars, peerVars
  <2> QED BY <1>4, <2>2, <2>3 DEF HandleProbe
<1>5. CASE LoseDatagram \/ Disturb
  BY <1>5 DEF LoseDatagram, Disturb, pathVars
<1>6. CASE Recover
  BY <1>6 DEF Recover, awaitVars, TaskInv, PathInv
<1>7. CASE Second
  <2>1. at' = at /\ at # "resume" /\ ~disturbed /\ DOMAIN peers' = DOMAIN peers /\ Lost = {}
    BY <1>7, AgedRow DEF Second
  <2>t. timer > 0 /\ timer' = timer - 1
    BY <1>7, <1>q, <2>1 DEF Second, Less
  <2>q. quiet' \in Nat /\ quiet' <= quiet + 1
    BY <1>7, <1>q DEF Second
  <2>2. ~(peers[Me].disconnected /\ peers[Me].lease = 0)
    BY <2>1 DEF Lost
  <2>3. quiet + timer <= ReconnectMaxBackoff
    BY <2>1, <2>2 DEF InTime
  <2>4. PICK n \in Nat : quiet' = n /\ n <= quiet + 1
    BY <2>q
  <2>5. quiet' + timer' <= ReconnectMaxBackoff
    BY <1>q, <2>t, <2>3, <2>4
  <2> QED BY <2>5
<1>8. CASE Sweep
  <2>1. UNCHANGED <<at, timer, quiet, disturbed>> /\ Expire
    BY <1>8 DEF Sweep, clientVars, awaitVars, pathVars
  <2>2. Me \in DOMAIN peers /\ ~(peers[Me].disconnected /\ peers[Me].lease = 0)
    BY <2>1, SweptRow
  <2> QED BY <2>1, <2>2 DEF InTime
<1> QED BY <1>1, <1>2, <1>3, <1>4, <1>5, <1>6, <1>7, <1>8 DEF ClientNext

LEMMA TimelyInit == Timely => (ClientInit => TimelyInv)
<1> SUFFICES ASSUME Timely, ClientInit PROVE TimelyInv
  OBVIOUS
<1>1. SessionInv
  BY SessionInvInit
<1>2. Vouched /\ Answered /\ InTime
  BY DEF ClientInit, Vouched, Answered, InTime
<1>3. InContact
  <2>1. ~peers[Me].disconnected /\ peers[Me].lease = PeerTtl
    BY DEF ClientInit
  <2>2. Since \in Nat
    <3>1. at = "probe" /\ TaskInv
      BY <1>1, InvInParts DEF ClientInit
    <3> QED BY <3>1, SinceIs DEF SinceSums, Trying
  <2> QED BY <2>1, <2>2, Times DEF InContact
<1> QED BY <1>1, <1>2, <1>3 DEF TimelyInv

LEMMA TimelyNext ==
  Timely => (TimelyInv /\ [ClientNext]_sessionSystemVars => TimelyInv')
<1> SUFFICES ASSUME Timely, TimelyInv, [ClientNext]_sessionSystemVars PROVE TimelyInv'
  OBVIOUS
<1>1. SessionInv' /\ SessionInv
  BY SessionInvNext DEF TimelyInv
<1>2. ProbeTimeout < PeerTtl
  <2>1. Rounds(DegradedAfterFailures) \in Nat
    BY RoundsGrow, Times
  <2> QED BY <2>1, Times DEF Timely
<1>3. Vouched'
  BY <1>1, <1>2, VouchedNext DEF TimelyInv
<1>4. CASE ClientNext
  BY <1>1, <1>3, <1>4, InvInParts, NextKeepsContact, NextKeepsAnswered, NextKeepsInTime
     DEF TimelyInv
<1>5. CASE UNCHANGED sessionSystemVars
  BY <1>1, <1>3, <1>5 DEF TimelyInv, sessionSystemVars, clientVars, awaitVars, pathVars, vars,
     peerVars, InContact, Answered, InTime, Trying, Since
<1> QED BY <1>4, <1>5

(* With the default times, and any others that leave a session room to      *)
(* notice an outage within its lease and to be back from its first backoff  *)
(* in time, the sweep of the relay suspends or removes the client only      *)
(* while the path is disturbed, or within the longest backoff after.        *)
THEOREM SweptInOutagesOnly ==
  ASSUME Timely
  PROVE  ClientSpec => SweptOnlyAfterDisturbance
<1> DEFINE GivenUp == \A p \in {Me} \cap DOMAIN peers :
       (p \notin DOMAIN peers' \/ (peers'[p].disconnected /\ ~peers[p].disconnected))
         => disturbed \/ quiet <= ReconnectMaxBackoff
<1>1. ASSUME TimelyInv, ClientNext PROVE GivenUp
  <2> SUFFICES ASSUME Me \in DOMAIN peers, ~disturbed,
                      Me \notin DOMAIN peers'
                        \/ (peers'[Me].disconnected /\ ~peers[Me].disconnected)
               PROVE  quiet <= ReconnectMaxBackoff
    OBVIOUS
  <2>1. TypeOK /\ TaskInv /\ PathInv
    BY <1>1, InvInParts DEF TimelyInv
  <2>2. ~UNCHANGED peers
    OBVIOUS
  <2>3. ~MarkPeerSeen(Me) /\ ~ResumePeer(Home, Me) /\ ~Tick
    BY <2>1, TouchedRow, ResumedRow, AgedRow
  <2>4. Expire
    BY <1>1, <2>2, <2>3
       DEF ClientNext, SessionStep, SendProbe, ReceiveAck, LoseProbe, WakeUp, AskToResume,
           Resume, FailToResume, HandleProbe, LoseDatagram, Disturb, Recover, Second,
           Sweep, vars, peerVars
  <2>5. ~Trying
    <3> SUFFICES ASSUME Trying PROVE FALSE
      OBVIOUS
    <3>1. ~peers[Me].disconnected /\ peers[Me].lease \in Nat /\ peers[Me].lease > 0
      BY <1>1, <2>1, NeverSilent DEF TimelyInv
    <3>2. Me \in DOMAIN peers'
      BY <2>4, <3>1 DEF Expire, Lost
    <3>3. peers'[Me] = peers[Me]
      BY <2>1, <2>4, <3>1, <3>2, SweptRow
    <3> QED BY <3>1, <3>2, <3>3
  <2>6. /\ at \in {"backoff", "resume"} /\ timer \in Nat /\ quiet \in Nat
    BY <2>1, <2>5 DEF TaskInv, PathInv, Trying
  <2> QED BY <1>1, <2>6, Times DEF TimelyInv, InTime
<1>2. TimelyInv /\ [ClientNext]_sessionSystemVars => [GivenUp]_sessionSystemVars
  BY <1>1
<1> HIDE DEF GivenUp
<1>3. (ClientInit => TimelyInv) /\ (TimelyInv /\ [ClientNext]_sessionSystemVars => TimelyInv')
  BY TimelyInit, TimelyNext
<1>4. ClientSpec => [][GivenUp]_sessionSystemVars
  BY <1>2, <1>3, PTL DEF ClientSpec
<1> QED BY <1>4 DEF GivenUp, SweptOnlyAfterDisturbance
=============================================================================
