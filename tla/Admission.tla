----------------------------- MODULE Admission ------------------------------
(***************************************************************************)
(* Who is let in: the accounts and bearer sessions of the control API      *)
(* (src/server/src/api.rs), and the two rate limiters, of API requests and *)
(* of UDP datagrams (src/server/src/state.rs).  All of it is memory of the *)
(* process.                                                                *)
(*                                                                         *)
(* The handlers run on several threads and take one lock after another;    *)
(* an action is what is done under one of them.  Instant::now is read      *)
(* before a lock is taken, so a thread may act on an instant that is up to *)
(* MaxLag in the past (`lag`), after others have acted on later ones.      *)
(* Instants are kept as ages and as what is left, as in RoomRouter.        *)
(*                                                                         *)
(* `admitted` and `grants` record what happened; no action reads them.     *)
(***************************************************************************)
EXTENDS Integers, FiniteSets, SequencesExt, PartialSums

CONSTANTS Name, Password, Token, AdminToken, SourceIp,
          ApiLimit, UdpLimit,  \* requests and datagrams per window
          Window, SessionTtl,
          Task,                \* requests to register or log in, at a time
          MaxLag,              \* bound of the model
          MaxBusy,             \* keys with an open window: bound of the model
          Watched              \* the kind of key whose calls are recorded

ASSUME AdmissionAssumption ==
  /\ {ApiLimit, UdpLimit, Window} \subseteq Nat \ {0}
  /\ {MaxLag, MaxBusy} \subseteq Nat
  /\ SessionTtl \in Nat /\ SessionTtl > MaxLag
  /\ AdminToken \notin Token

VARIABLES windows,          \* the entries of both limiters, by key
          users,            \* the password of every account, by name
          client_sessions,  \* what is left of every session, by token
          tasks,
          admitted,         \* how often a watched key was let in, by the age of it
          grants            \* the tokens this process gave, to whom and when

limiterVars == <<windows, admitted>>
accountVars == <<users, client_sessions, grants>>
admissionVars == <<limiterVars, accountVars, tasks>>

Empty == [k \in {} |-> k]
Lags  == 0..MaxLag

(* An instant this old has no effect any more, whatever the lag.            *)
Forgotten == Window + MaxLag

(* The keys of the two limiters: require_bearer uses the token alone, and   *)
(* require_admin_bearer the whole header.                                   *)
RequestKey  == {<<"register", n>> : n \in Name} \cup {<<"login", n>> : n \in Name}
                 \cup {<<"token", s>> : s \in Token \cup {AdminToken}}
                 \cup {<<"header", AdminToken>>}
DatagramKey == {<<"source", ip>> : ip \in SourceIp}

Keys(limiter) == IF limiter = "api" THEN RequestKey ELSE DatagramKey
Limiter(k)    == IF k \in RequestKey THEN "api" ELSE "udp"
Limit(k)      == IF k \in RequestKey THEN ApiLimit ELSE UdpLimit

Idle == [op |-> "idle"]

AdmissionInit ==
  /\ windows = Empty /\ admitted = Empty
  /\ users = Empty /\ client_sessions = Empty /\ grants = Empty
  /\ tasks = [t \in Task |-> Idle]

Put(f, k, v) == [x \in DOMAIN f \cup {k} |-> IF x = k THEN v ELSE f[x]]
Keep(f, S)   == [x \in DOMAIN f \cap S |-> f[x]]

-----------------------------------------------------------------------------
(* FixedWindowRateLimiter::allow.                                           *)

(* now.duration_since(started_at), which is 0 for a window begun later.     *)
Elapsed(w, lag) == IF w.age > lag THEN w.age - lag ELSE 0

(* entries.retain, in the limiter of the key.                               *)
Retained(k, lag) ==
  Keep(windows, {x \in DOMAIN windows :
                   x \in Keys(Limiter(k)) => Elapsed(windows[x], lag) < Window})

(* The entry of the key, after or_insert.  What was retained is younger     *)
(* than the window, so the second comparison of the code never holds.       *)
Entry(k, lag) ==
  IF k \in DOMAIN Retained(k, lag) THEN windows[k] ELSE [age |-> lag, count |-> 0]

(* One more than the limit.                                                 *)
HasRoom_bug(k, lag) == Entry(k, lag).count <= Limit(k)
HasRoom(k, lag)     == Entry(k, lag).count < Limit(k)

(* admitted[k][i] counts what was let in i - 1 units of time ago.           *)
Recent(k)  == IF k \in DOMAIN admitted THEN admitted[k] ELSE [i \in 1..Forgotten |-> 0]
Recorded(k) ==
  IF k[1] = Watched THEN Put(admitted, k, [Recent(k) EXCEPT ![1] = @ + 1]) ELSE admitted

Busy(k) == k \in DOMAIN windows \/ Cardinality(DOMAIN windows) < MaxBusy

Allowed(k) ==
  \E lag \in Lags :
    /\ Busy(k)
    /\ HasRoom(k, lag)
    /\ windows' = Put(Retained(k, lag), k, [Entry(k, lag) EXCEPT !.count = @ + 1])
    /\ admitted' = Recorded(k)

(* The window begun anew by every call.                                     *)
Denied_bug(k) ==
  \E lag \in Lags :
    /\ Busy(k)
    /\ ~HasRoom(k, lag)
    /\ windows' = Put(Retained(k, lag), k, [Entry(k, lag) EXCEPT !.age = lag])
    /\ UNCHANGED admitted

Denied(k) ==
  \E lag \in Lags :
    /\ Busy(k)
    /\ ~HasRoom(k, lag)
    /\ windows' = Retained(k, lag)
    /\ UNCHANGED admitted

-----------------------------------------------------------------------------
(* register_user and login_user.                                            *)

Goto(t, at)     == tasks' = [tasks EXCEPT ![t].at = at]
Return(t)       == tasks' = [tasks EXCEPT ![t] = Idle]
Stands(t, op, at) == tasks[t].op = op /\ tasks[t].at = at

(* The request, after validation: it is allowed and goes on, or it is not.  *)
Request(t, op, n, pw) ==
  /\ tasks[t] = Idle
  /\ \/ /\ Allowed(<<op, n>>)
        /\ tasks' = [tasks EXCEPT ![t] = [op |-> op, at |-> "account",
                                          name |-> n, password |-> pw]]
     \/ Denied(<<op, n>>) /\ UNCHANGED tasks
  /\ UNCHANGED accountVars

(* Is the name free, before the password is hashed; the insertion after it. *)
Register_bug(t) ==
  LET a == tasks[t]
  IN  /\ \/ /\ Stands(t, "register", "account")
            /\ IF a.name \in DOMAIN users THEN Return(t) ELSE Goto(t, "hash")
            /\ UNCHANGED users
         \/ /\ Stands(t, "register", "hash")
            /\ users' = Put(users, a.name, a.password) /\ Goto(t, "issue")
      /\ UNCHANGED <<limiterVars, client_sessions, grants>>

(* The password is hashed, and then, under the lock: the first one to come  *)
(* has the name.                                                            *)
Register(t) ==
  LET a == tasks[t]
  IN  /\ Stands(t, "register", "account")
      /\ \/ /\ a.name \notin DOMAIN users
            /\ users' = Put(users, a.name, a.password) /\ Goto(t, "issue")
         \/ /\ a.name \in DOMAIN users
            /\ UNCHANGED users /\ Return(t)
      /\ UNCHANGED <<limiterVars, client_sessions, grants>>

(* The hash is copied under the lock and verified after it.                 *)
Login(t) ==
  LET a == tasks[t]
  IN  /\ Stands(t, "login", "account")
      /\ IF a.name \in DOMAIN users /\ users[a.name] = a.password
         THEN Goto(t, "issue") ELSE Return(t)
      /\ UNCHANGED <<limiterVars, accountVars>>

(* create_client_session: a fresh token.                                    *)
Issue(t) ==
  LET a == tasks[t]
  IN  /\ a.op \in {"register", "login"} /\ a.at = "issue"
      /\ \E s \in Token \ (DOMAIN client_sessions \cup DOMAIN grants), lag \in Lags :
           /\ client_sessions' = Put(client_sessions, s, SessionTtl - lag)
           /\ grants' = Put(grants, s, [name |-> a.name, password |-> a.password,
                                        age |-> 0])
      /\ Return(t)
      /\ UNCHANGED <<limiterVars, users>>

-----------------------------------------------------------------------------
(* The tokens.                                                              *)

(* Nothing swept; swept with some leeway.                                   *)
Live_bugAll(lag) == client_sessions
Live_bugLeeway(lag) == Keep(client_sessions, {s \in DOMAIN client_sessions :
                                                client_sessions[s] > MaxLag})

(* The sessions that are left after retain.                                 *)
Live(lag) == Keep(client_sessions, {s \in DOMAIN client_sessions :
                                      client_sessions[s] + lag > 0})

(* require_bearer with a token that is not the one of the administrator.    *)
UseToken(s) ==
  \E lag \in Lags :
    /\ client_sessions' = Live(lag)
    /\ IF s \in DOMAIN Live(lag)
       THEN Allowed(<<"token", s>>) \/ Denied(<<"token", s>>)
       ELSE UNCHANGED limiterVars
    /\ UNCHANGED <<users, grants, tasks>>

(* require_bearer and require_admin_bearer with that one.                   *)
UseAdminToken ==
  /\ \E k \in {<<"token", AdminToken>>, <<"header", AdminToken>>} :
       Allowed(k) \/ Denied(k)
  /\ UNCHANGED <<accountVars, tasks>>

(* The limiter at the door of handle_datagram.                              *)
ReceiveDatagram(ip) ==
  /\ Allowed(<<"source", ip>>) \/ Denied(<<"source", ip>>)
  /\ UNCHANGED <<accountVars, tasks>>

-----------------------------------------------------------------------------
Older(f, limit) == Keep([x \in DOMAIN f |-> [f[x] EXCEPT !.age = @ + 1]],
                        {x \in DOMAIN f : f[x].age + 1 < limit})

Tick ==
  /\ windows' = Older(windows, Forgotten)
  /\ admitted' = Keep([k \in DOMAIN admitted |-> <<0>> \o Front(admitted[k])],
                      {k \in DOMAIN admitted : \E i \in 1..Forgotten - 1 : admitted[k][i] > 0})
  /\ client_sessions' = [s \in DOMAIN client_sessions |->
                           IF client_sessions[s] + MaxLag > 0
                           THEN client_sessions[s] - 1 ELSE client_sessions[s]]
  /\ grants' = Older(grants, SessionTtl + MaxLag)
  /\ UNCHANGED <<users, tasks>>

(* Accounts, sessions and windows are not stored anywhere: a process that   *)
(* starts again is in the initial state.                                    *)
Restart ==
  /\ windows' = Empty /\ admitted' = Empty
  /\ users' = Empty /\ client_sessions' = Empty /\ grants' = Empty
  /\ tasks' = [t \in Task |-> Idle]

AdmissionNext ==
  \/ \E t \in Task :
       \/ \E n \in Name, pw \in Password, op \in {"register", "login"} :
            Request(t, op, n, pw)
       \/ Register(t) \/ Login(t) \/ Issue(t)
  \/ \E s \in Token : UseToken(s)
  \/ UseAdminToken
  \/ \E ip \in SourceIp : ReceiveDatagram(ip)
  \/ Tick \/ Restart

AdmissionSpec == AdmissionInit /\ [][AdmissionNext]_admissionVars

-----------------------------------------------------------------------------
(* Properties.                                                              *)

(* What a fixed window that starts with a key's first call promises of an   *)
(* interval of the same length that lies anywhere: less than twice the      *)
(* limit; and, when a call that has read the clock is overtaken by one that *)
(* ends its window, less than three times the limit.                        *)
WithinRate ==
  \A k \in DOMAIN admitted :
    Total(admitted[k])[Window] < (IF MaxLag = 0 THEN 2 ELSE 3) * Limit(k)

(* A key is turned away for its own traffic only: what its window counts    *)
(* was let in under this very key while the window was open.  Calls that    *)
(* were turned away, other keys and other limiters do not count, and so a   *)
(* client that has been turned away gets in again a window later, however   *)
(* hard it tries meanwhile.                                                 *)
CountsOwnTraffic ==
  \A k \in DOMAIN windows : k[1] = Watched =>
    windows[k].count <= Total(Recent(k))[windows[k].age + 1]

(* Of two registrations of a name one wins, also when they overlap: a       *)
(* session, or one about to be issued, belongs to somebody who knows the    *)
(* password the account has now.                                            *)
Owns(n, pw) == n \in DOMAIN users /\ users[n] = pw

SessionsMatchAccounts ==
  /\ \A s \in DOMAIN grants : Owns(grants[s].name, grants[s].password)
  /\ \A t \in Task :
       tasks[t] # Idle /\ tasks[t].at = "issue" => Owns(tasks[t].name, tasks[t].password)

(* A token is good for the time the answer of login names                   *)
(* (expires_in_seconds), whatever other sessions begin, end and are swept,  *)
TokensLast ==
  \A s \in DOMAIN grants :
    grants[s].age < SessionTtl - MaxLag => s \in DOMAIN client_sessions

(* ... and not longer: a request let in under it shows a token that this    *)
(* process gave, less than that time (and the lag) ago (docs/spec.md:428).  *)
LetsIn(k) ==
  /\ k \in DOMAIN windows'
  /\ k \in DOMAIN windows =>
       windows'[k].age < windows[k].age \/ windows'[k].count > windows[k].count

TokensExpire ==
  [][\A s \in Token : LetsIn(<<"token", s>>) => s \in DOMAIN grants]_admissionVars
=============================================================================
