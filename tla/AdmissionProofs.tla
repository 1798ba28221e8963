--------------------------- MODULE AdmissionProofs ---------------------------
(***************************************************************************)
(* Theorems about accounts and bearer sessions, for any number of names,   *)
(* tokens, requests at a time and threads that act on an instant of the    *)
(* past; and about what the limiters let in, for any limits and window.    *)
(***************************************************************************)
EXTENDS Admission, PartialSumsProofs, TLAPS

Table(f, K, V) == /\ DOMAIN f \subseteq K
                  /\ \A k \in DOMAIN f : f[k] \in V

Key         == RequestKey \cup DatagramKey
Opened      == [age : Nat, count : Nat]
Grant       == [name : Name, password : Password, age : Nat]
AccountTask == [op : {"register", "login"}, at : {"account", "issue"},
                name : Name, password : Password]

AdmissionTypes ==
  /\ Table(windows, Key, Opened)
  /\ Table(users, Name, Password)
  /\ Table(client_sessions, Token, Int)
  /\ Table(grants, Token, Grant)
  /\ tasks \in [Task -> {Idle} \cup AccountTask]

LEMMA Bounds ==
  /\ MaxLag \in Nat /\ SessionTtl \in Nat /\ MaxLag < SessionTtl
  /\ \A lag \in Lags : lag \in Nat /\ lag <= MaxLag
  BY AdmissionAssumption DEF Lags

-----------------------------------------------------------------------------
(* The limiters.                                                            *)

(* What retain leaves is what was there.                                    *)
LEMMA RetainedFacts ==
  ASSUME NEW k, NEW lag
  PROVE  /\ DOMAIN Retained(k, lag) \subseteq DOMAIN windows
         /\ \A x \in DOMAIN Retained(k, lag) : Retained(k, lag)[x] = windows[x]
  BY DEF Retained, Keep

LEMMA EntryType ==
  ASSUME AdmissionTypes, NEW k, NEW lag \in Lags
  PROVE  Entry(k, lag) \in Opened
<1>1. CASE k \in DOMAIN Retained(k, lag)
  BY <1>1, RetainedFacts DEF Entry, AdmissionTypes, Table
<1>2. CASE k \notin DOMAIN Retained(k, lag)
  BY <1>2, Bounds DEF Entry, Opened
<1> QED BY <1>1, <1>2

(* A call that is let in counts; one that is not leaves nothing.            *)
LEMMA AllowedFacts ==
  ASSUME AdmissionTypes, NEW k \in Key, Allowed(k)
  PROVE  /\ Table(windows', Key, Opened)
         /\ \A x \in DOMAIN windows' : x # k => x \in DOMAIN windows /\ windows'[x] = windows[x]
<1> PICK lag \in Lags :
      windows' = Put(Retained(k, lag), k, [Entry(k, lag) EXCEPT !.count = @ + 1])
  BY DEF Allowed
<1>1. [Entry(k, lag) EXCEPT !.count = @ + 1] \in Opened
  BY EntryType DEF Opened
<1>2. /\ DOMAIN windows' \subseteq DOMAIN windows \cup {k}
      /\ \A x \in DOMAIN windows' : x # k => x \in DOMAIN windows /\ windows'[x] = windows[x]
      /\ windows'[k] = [Entry(k, lag) EXCEPT !.count = @ + 1]
  BY RetainedFacts DEF Put
<1> QED BY <1>1, <1>2 DEF AdmissionTypes, Table

LEMMA DeniedFacts ==
  ASSUME AdmissionTypes, NEW k, Denied(k)
  PROVE  /\ Table(windows', Key, Opened)
         /\ \A x \in DOMAIN windows' : x \in DOMAIN windows /\ windows'[x] = windows[x]
<1> PICK lag \in Lags : windows' = Retained(k, lag)
  BY DEF Denied
<1>1. \A x \in DOMAIN windows' : x \in DOMAIN windows /\ windows'[x] = windows[x]
  BY RetainedFacts
<1> QED BY <1>1 DEF AdmissionTypes, Table

-----------------------------------------------------------------------------
(* Accounts.                                                                *)

LEMMA RequestSteps ==
  ASSUME AdmissionTypes, SessionsMatchAccounts,
         NEW t \in Task, NEW n \in Name, NEW pw \in Password, NEW op \in {"register", "login"},
         Request(t, op, n, pw)
  PROVE  AdmissionTypes' /\ SessionsMatchAccounts'
<1> DEFINE task == [op |-> op, at |-> "account", name |-> n, password |-> pw]
<1>1. task \in AccountTask /\ task.at # "issue"
  BY DEF AccountTask
<1>2. /\ UNCHANGED <<users, client_sessions, grants>>
      /\ tasks' = tasks \/ tasks' = [tasks EXCEPT ![t] = task]
  BY DEF Request, accountVars
<1>3. Table(windows', Key, Opened)
  <2>1. <<op, n>> \in Key
    BY DEF Key, RequestKey
  <2> QED BY <2>1, AllowedFacts, DeniedFacts DEF Request
<1> HIDE DEF task
<1>4. /\ tasks' \in [Task -> {Idle} \cup AccountTask]
      /\ \A u \in Task : tasks'[u] = tasks[u] \/ tasks'[u] = task
  BY <1>1, <1>2 DEF AdmissionTypes
<1>5. SessionsMatchAccounts'
  BY <1>1, <1>2, <1>4 DEF SessionsMatchAccounts, Owns
<1> QED BY <1>2, <1>3, <1>4, <1>5 DEF AdmissionTypes

(* Only a free name is given a password.                                    *)
LEMMA AccountsKept ==
  ASSUME AdmissionTypes, SessionsMatchAccounts, NEW t \in Task, Register(t) \/ Login(t)
  PROVE  AdmissionTypes' /\ SessionsMatchAccounts'
<1> DEFINE a == tasks[t]
           onward == [a EXCEPT !.at = "issue"]
<1>1. /\ a \in AccountTask /\ a # Idle /\ a.at = "account"
      /\ UNCHANGED <<windows, client_sessions, grants>>
  BY DEF Register, Login, Stands, Idle, AdmissionTypes, limiterVars, accountVars
<1>2. /\ onward \in AccountTask /\ onward.name = a.name /\ onward.password = a.password
      /\ onward # Idle
  BY <1>1 DEF AccountTask, Idle
<1>3. \/ /\ tasks' = [tasks EXCEPT ![t] = onward]
         /\ a.name \in DOMAIN users' /\ users'[a.name] = a.password
      \/ tasks' = [tasks EXCEPT ![t] = Idle]
  <2>1. CASE Register(t)
    BY <2>1 DEF Register, Goto, Return, Put
  <2>2. CASE Login(t)
    BY <2>2 DEF Login, Goto, Return, accountVars
  <2> QED BY <2>1, <2>2
<1>4. /\ Table(users', Name, Password)
      /\ \A n, pw : Owns(n, pw) => Owns(n, pw)'
  <2>1. CASE UNCHANGED users
    BY <2>1 DEF AdmissionTypes, Owns
  <2>2. CASE a.name \notin DOMAIN users /\ users' = Put(users, a.name, a.password)
    BY <1>1, <2>2 DEF AdmissionTypes, Table, Owns, Put, AccountTask
  <2> QED BY <2>1, <2>2 DEF Register, Login, accountVars
<1> HIDE DEF a, onward
<1>5. /\ tasks' \in [Task -> {Idle} \cup AccountTask]
      /\ \A u \in Task : u # t => tasks'[u] = tasks[u]
      /\ \/ /\ tasks'[t] = onward
            /\ a.name \in DOMAIN users' /\ users'[a.name] = a.password
         \/ tasks'[t] = Idle
  BY <1>2, <1>3 DEF AdmissionTypes
<1>6. SessionsMatchAccounts'
  <2>1. \A s \in DOMAIN grants' : Owns(grants[s].name, grants[s].password)'
    BY <1>1, <1>4 DEF SessionsMatchAccounts
  <2>2. ASSUME NEW u \in Task, tasks'[u] # Idle, tasks'[u].at = "issue"
        PROVE  Owns(tasks[u].name, tasks[u].password)'
    <3>1. CASE u # t
      BY <1>4, <1>5, <2>2, <3>1 DEF SessionsMatchAccounts
    <3>2. CASE u = t
      BY <1>2, <1>5, <2>2, <3>2 DEF Owns
    <3> QED BY <3>1, <3>2
  <2> QED BY <2>1, <2>2 DEF SessionsMatchAccounts
<1> QED BY <1>1, <1>4, <1>5, <1>6 DEF AdmissionTypes

LEMMA IssueSteps ==
  ASSUME AdmissionTypes, SessionsMatchAccounts, NEW t \in Task, Issue(t)
  PROVE  /\ AdmissionTypes' /\ SessionsMatchAccounts'
         /\ UNCHANGED <<windows, users>>
         /\ \E s \in Token \ (DOMAIN client_sessions \cup DOMAIN grants), lag \in Lags :
              /\ DOMAIN client_sessions' = DOMAIN client_sessions \cup {s}
              /\ client_sessions'[s] = SessionTtl - lag
              /\ \A x \in DOMAIN client_sessions : client_sessions'[x] = client_sessions[x]
              /\ DOMAIN grants' = DOMAIN grants \cup {s}
              /\ grants'[s].age = 0
              /\ \A x \in DOMAIN grants : grants'[x] = grants[x]
<1> DEFINE a == tasks[t]
           grant == [name |-> a.name, password |-> a.password, age |-> 0]
<1>1. PICK s \in Token \ (DOMAIN client_sessions \cup DOMAIN grants), lag \in Lags :
        /\ client_sessions' = Put(client_sessions, s, SessionTtl - lag)
        /\ grants' = Put(grants, s, grant)
  BY DEF Issue
<1>2. /\ tasks' = [tasks EXCEPT ![t] = Idle]
      /\ UNCHANGED <<windows, users>>
      /\ a # Idle /\ a.at = "issue" /\ a \in AccountTask
  BY DEF Issue, Return, limiterVars, AdmissionTypes, Idle
<1>3. grant \in Grant /\ grant.age = 0
      /\ grant.name = a.name /\ grant.password = a.password
  BY <1>2 DEF Grant, AccountTask
<1>4. Owns(a.name, a.password)
  BY <1>2 DEF SessionsMatchAccounts
<1>5. SessionTtl - lag \in Int
  BY Bounds
<1> HIDE DEF a, grant
<1>6. /\ DOMAIN client_sessions' = DOMAIN client_sessions \cup {s}
      /\ client_sessions'[s] = SessionTtl - lag
      /\ \A x \in DOMAIN client_sessions : client_sessions'[x] = client_sessions[x]
      /\ DOMAIN grants' = DOMAIN grants \cup {s}
      /\ grants'[s] = grant
      /\ \A x \in DOMAIN grants : grants'[x] = grants[x]
  BY <1>1 DEF Put
<1>7. /\ Table(client_sessions', Token, Int) /\ Table(grants', Token, Grant)
  BY <1>3, <1>5, <1>6 DEF AdmissionTypes, Table
<1>8. /\ tasks' \in [Task -> {Idle} \cup AccountTask]
      /\ \A u \in Task : tasks'[u] = tasks[u] \/ tasks'[u] = Idle
  BY <1>2 DEF AdmissionTypes
<1>9. SessionsMatchAccounts'
  BY <1>2, <1>3, <1>4, <1>6, <1>8 DEF SessionsMatchAccounts, Owns
<1>10. AdmissionTypes'
  BY <1>2, <1>7, <1>8 DEF AdmissionTypes
<1> QED BY <1>1, <1>2, <1>3, <1>6, <1>9, <1>10

-----------------------------------------------------------------------------
(* What is left of a session and the age of its token add up to the time it *)
(* is good for, within the lag.  A token without a session is that old; a   *)
(* session that a thread could still find alive has a token on record.      *)
SessionAges ==
  /\ \A s \in DOMAIN grants :
       IF s \in DOMAIN client_sessions
       THEN client_sessions[s] + grants[s].age >= SessionTtl - MaxLag
       ELSE grants[s].age >= SessionTtl - MaxLag
  /\ \A s \in DOMAIN client_sessions : client_sessions[s] + MaxLag > 0 =>
       s \in DOMAIN grants /\ client_sessions[s] + grants[s].age <= SessionTtl

AdmissionInv == AdmissionTypes /\ SessionsMatchAccounts /\ SessionAges

LEMMA Numbers ==
  ASSUME AdmissionTypes
  PROVE  /\ \A s \in DOMAIN grants : grants[s].age \in Nat /\ s \in Token
         /\ \A s \in DOMAIN client_sessions : client_sessions[s] \in Int /\ s \in Token
  BY DEF AdmissionTypes, Table, Grant

LEMMA SameAccounts ==
  ASSUME AdmissionInv, UNCHANGED <<users, client_sessions, grants, tasks>>,
         Table(windows', Key, Opened)
  PROVE  AdmissionInv'
  BY DEF AdmissionInv, AdmissionTypes, SessionsMatchAccounts, Owns, SessionAges

LEMMA IssueKeepsInv ==
  ASSUME AdmissionInv, NEW t \in Task, Issue(t)
  PROVE  AdmissionInv'
<1>0. AdmissionTypes /\ SessionsMatchAccounts /\ SessionAges
  BY DEF AdmissionInv
<1>1. AdmissionTypes' /\ SessionsMatchAccounts'
  BY <1>0, IssueSteps
<1>2. PICK s \in Token \ (DOMAIN client_sessions \cup DOMAIN grants), lag \in Lags :
        /\ DOMAIN client_sessions' = DOMAIN client_sessions \cup {s}
        /\ client_sessions'[s] = SessionTtl - lag
        /\ \A x \in DOMAIN client_sessions : client_sessions'[x] = client_sessions[x]
        /\ DOMAIN grants' = DOMAIN grants \cup {s}
        /\ grants'[s].age = 0
        /\ \A x \in DOMAIN grants : grants'[x] = grants[x]
  BY <1>0, IssueSteps
<1>3. SessionAges'
  <2>1. ASSUME NEW x \in DOMAIN grants'
        PROVE  IF x \in DOMAIN client_sessions'
               THEN client_sessions'[x] + grants'[x].age >= SessionTtl - MaxLag
               ELSE grants'[x].age >= SessionTtl - MaxLag
    <3>1. CASE x = s
      BY <1>2, <3>1, Bounds
    <3>2. CASE x # s
      BY <1>0, <1>2, <2>1, <3>2 DEF SessionAges
    <3> QED BY <3>1, <3>2
  <2>2. ASSUME NEW x \in DOMAIN client_sessions', client_sessions'[x] + MaxLag > 0
        PROVE  x \in DOMAIN grants' /\ client_sessions'[x] + grants'[x].age <= SessionTtl
    <3>1. CASE x = s
      BY <1>2, <3>1, Bounds
    <3>2. CASE x # s
      BY <1>0, <1>2, <2>2, <3>2 DEF SessionAges
    <3> QED BY <3>1, <3>2
  <2> QED BY <2>1, <2>2 DEF SessionAges
<1> QED BY <1>1, <1>3 DEF AdmissionInv

(* retain takes only sessions that are over.                                *)
LEMMA UseKeepsInv ==
  ASSUME AdmissionInv, NEW s \in Token, UseToken(s)
  PROVE  AdmissionInv'
<1>0. AdmissionTypes /\ SessionsMatchAccounts /\ SessionAges
  BY DEF AdmissionInv
<1> PICK lag \in Lags :
      /\ client_sessions' = Live(lag)
      /\ IF s \in DOMAIN Live(lag)
         THEN Allowed(<<"token", s>>) \/ Denied(<<"token", s>>)
         ELSE UNCHANGED limiterVars
      /\ UNCHANGED <<users, grants, tasks>>
  BY DEF UseToken
<1>1. \A x : x \in DOMAIN client_sessions' <=>
               x \in DOMAIN client_sessions /\ client_sessions[x] + lag > 0
  BY DEF Live, Keep
<1>2. \A x \in DOMAIN client_sessions' : client_sessions'[x] = client_sessions[x]
  BY DEF Live, Keep
<1>3. Table(windows', Key, Opened)
  <2>1. <<"token", s>> \in Key
    BY DEF Key, RequestKey
  <2> QED BY <1>0, <2>1, AllowedFacts, DeniedFacts DEF limiterVars, AdmissionTypes
<1>4. Table(client_sessions', Token, Int)
  BY <1>0, <1>1, <1>2 DEF AdmissionTypes, Table
<1>5. SessionsMatchAccounts'
  BY <1>0 DEF SessionsMatchAccounts, Owns
<1>6. SessionAges'
  <2>1. ASSUME NEW x \in DOMAIN grants
        PROVE  IF x \in DOMAIN client_sessions'
               THEN client_sessions'[x] + grants[x].age >= SessionTtl - MaxLag
               ELSE grants[x].age >= SessionTtl - MaxLag
    <3>1. CASE x \in DOMAIN client_sessions /\ ~(client_sessions[x] + lag > 0)
      <4>1. client_sessions[x] + grants[x].age >= SessionTtl - MaxLag
        BY <1>0, <2>1, <3>1 DEF SessionAges
      <4> QED BY <1>0, <1>1, <2>1, <3>1, <4>1, Bounds, Numbers
    <3>2. CASE ~(x \in DOMAIN client_sessions /\ ~(client_sessions[x] + lag > 0))
      BY <1>0, <1>1, <1>2, <2>1, <3>2 DEF SessionAges
    <3> QED BY <3>1, <3>2
  <2>2. \A x \in DOMAIN client_sessions' : client_sessions'[x] + MaxLag > 0 =>
          x \in DOMAIN grants /\ client_sessions'[x] + grants[x].age <= SessionTtl
    BY <1>0, <1>1, <1>2 DEF SessionAges
  <2> QED BY <2>1, <2>2 DEF SessionAges
<1> QED BY <1>0, <1>3, <1>4, <1>5, <1>6 DEF AdmissionInv, AdmissionTypes

LEMMA OlderFacts ==
  ASSUME NEW f, NEW limit
  PROVE  /\ \A x : x \in DOMAIN Older(f, limit) <=> x \in DOMAIN f /\ f[x].age + 1 < limit
         /\ \A x \in DOMAIN Older(f, limit) : Older(f, limit)[x] = [f[x] EXCEPT !.age = @ + 1]
  BY DEF Older, Keep

(* The clock: what is left of a session goes down as its token ages.        *)
LEMMA TickKeepsInv ==
  ASSUME AdmissionInv, Tick
  PROVE  AdmissionInv'
<1>0. AdmissionTypes /\ SessionsMatchAccounts /\ SessionAges
  BY DEF AdmissionInv
<1>1. /\ windows' = Older(windows, Forgotten)
      /\ grants' = Older(grants, SessionTtl + MaxLag)
      /\ client_sessions' = [s \in DOMAIN client_sessions |->
                               IF client_sessions[s] + MaxLag > 0
                               THEN client_sessions[s] - 1 ELSE client_sessions[s]]
      /\ UNCHANGED <<users, tasks>>
  BY DEF Tick
<1>2. Table(windows', Key, Opened)
  <2>1. \A x \in DOMAIN windows' : x \in DOMAIN windows
                                   /\ windows'[x] = [windows[x] EXCEPT !.age = @ + 1]
    BY <1>1, OlderFacts
  <2> QED BY <1>0, <2>1 DEF AdmissionTypes, Table, Opened
<1>3. /\ \A x : x \in DOMAIN grants' <=> x \in DOMAIN grants
                                         /\ grants[x].age + 1 < SessionTtl + MaxLag
      /\ \A x \in DOMAIN grants' : /\ grants'[x] \in Grant
                                   /\ grants'[x].name = grants[x].name
                                   /\ grants'[x].password = grants[x].password
                                   /\ grants'[x].age = grants[x].age + 1
  <2>1. /\ \A x : x \in DOMAIN grants' <=> x \in DOMAIN grants
                                           /\ grants[x].age + 1 < SessionTtl + MaxLag
        /\ \A x \in DOMAIN grants' : grants'[x] = [grants[x] EXCEPT !.age = @ + 1]
    BY <1>1, OlderFacts
  <2>2. \A x \in DOMAIN grants : grants[x] \in Grant
    BY <1>0 DEF AdmissionTypes, Table
  <2> QED BY <2>1, <2>2 DEF Grant
<1>4. /\ DOMAIN client_sessions' = DOMAIN client_sessions
      /\ \A x \in DOMAIN client_sessions :
           client_sessions'[x] = IF client_sessions[x] + MaxLag > 0
                                 THEN client_sessions[x] - 1 ELSE client_sessions[x]
  BY <1>1
<1>5. Table(client_sessions', Token, Int)
  BY <1>0, <1>4, Numbers DEF Table
<1>6. Table(grants', Token, Grant)
  BY <1>0, <1>3, Numbers DEF Table
<1>7. SessionsMatchAccounts'
  BY <1>0, <1>1, <1>3 DEF SessionsMatchAccounts, Owns
<1>8. SessionAges'
  <2>1. ASSUME NEW x \in DOMAIN grants'
        PROVE  IF x \in DOMAIN client_sessions'
               THEN client_sessions'[x] + grants'[x].age >= SessionTtl - MaxLag
               ELSE grants'[x].age >= SessionTtl - MaxLag
    BY <1>0, <1>3, <1>4, <2>1, Bounds, Numbers DEF SessionAges
  <2>2. ASSUME NEW x \in DOMAIN client_sessions', client_sessions'[x] + MaxLag > 0
        PROVE  x \in DOMAIN grants' /\ client_sessions'[x] + grants'[x].age <= SessionTtl
    <3>1. client_sessions[x] + MaxLag > 0 /\ client_sessions'[x] = client_sessions[x] - 1
      BY <1>0, <1>4, <2>2, Bounds, Numbers
    <3>2. x \in DOMAIN grants /\ client_sessions[x] + grants[x].age <= SessionTtl
      BY <1>0, <1>4, <2>2, <3>1 DEF SessionAges
    <3> QED BY <1>0, <1>3, <1>4, <2>2, <3>1, <3>2, Bounds, Numbers
  <2> QED BY <2>1, <2>2 DEF SessionAges
<1> QED BY <1>0, <1>1, <1>2, <1>5, <1>6, <1>7, <1>8 DEF AdmissionInv, AdmissionTypes

LEMMA EmptyInv ==
  ASSUME AdmissionInit
  PROVE  AdmissionInv
<1>1. AdmissionTypes
  BY DEF AdmissionInit, AdmissionTypes, Table, Empty
<1> QED BY <1>1 DEF AdmissionInit, AdmissionInv, SessionsMatchAccounts, SessionAges, Empty, Idle

LEMMA AdmissionNextInv == AdmissionInv /\ [AdmissionNext]_admissionVars => AdmissionInv'
<1> SUFFICES ASSUME AdmissionInv, [AdmissionNext]_admissionVars PROVE AdmissionInv'
  OBVIOUS
<1>0. AdmissionTypes /\ SessionsMatchAccounts /\ SessionAges
  BY DEF AdmissionInv
<1>1. ASSUME NEW t \in Task, NEW n \in Name, NEW pw \in Password,
             NEW op \in {"register", "login"}, Request(t, op, n, pw)
      PROVE  AdmissionInv'
  <2>1. UNCHANGED <<client_sessions, grants>>
    BY <1>1 DEF Request, accountVars
  <2>2. AdmissionTypes' /\ SessionsMatchAccounts'
    BY <1>0, <1>1, RequestSteps
  <2> QED BY <1>0, <2>1, <2>2 DEF AdmissionInv, SessionAges
<1>2. ASSUME NEW t \in Task, Register(t) \/ Login(t)
      PROVE  AdmissionInv'
  <2>1. UNCHANGED <<client_sessions, grants>>
    BY <1>2 DEF Register, Login, accountVars
  <2>2. AdmissionTypes' /\ SessionsMatchAccounts'
    BY <1>0, <1>2, AccountsKept
  <2> QED BY <1>0, <2>1, <2>2 DEF AdmissionInv, SessionAges
<1>3. ASSUME NEW k \in Key, Allowed(k) \/ Denied(k), UNCHANGED <<accountVars, tasks>>
      PROVE  AdmissionInv'
  <2>1. Table(windows', Key, Opened)
    BY <1>0, <1>3, AllowedFacts, DeniedFacts
  <2>2. UNCHANGED <<users, client_sessions, grants, tasks>>
    BY <1>3 DEF accountVars
  <2> QED BY <2>1, <2>2, SameAccounts
<1>4. CASE UseAdminToken
  <2>1. {<<"token", AdminToken>>, <<"header", AdminToken>>} \subseteq Key
    BY DEF Key, RequestKey
  <2> QED BY <1>3, <1>4, <2>1 DEF UseAdminToken
<1>5. ASSUME NEW ip \in SourceIp, ReceiveDatagram(ip)
      PROVE  AdmissionInv'
  <2>1. <<"source", ip>> \in Key
    BY DEF Key, DatagramKey
  <2> QED BY <1>3, <1>5, <2>1 DEF ReceiveDatagram
<1>6. CASE Restart
  <2>1. AdmissionTypes'
    BY <1>6 DEF Restart, AdmissionTypes, Table, Empty
  <2> QED BY <1>6, <2>1 DEF Restart, AdmissionInv, SessionsMatchAccounts, SessionAges, Empty, Idle
<1>7. CASE UNCHANGED admissionVars
  <2>1. UNCHANGED <<windows, users, client_sessions, grants, tasks>>
    BY <1>7 DEF admissionVars, limiterVars, accountVars
  <2>2. Table(windows', Key, Opened)
    BY <1>0, <2>1 DEF AdmissionTypes
  <2> QED BY <2>1, <2>2, SameAccounts
<1> QED BY <1>1, <1>2, <1>4, <1>5, <1>6, <1>7, IssueKeepsInv, UseKeepsInv, TickKeepsInv
        DEF AdmissionNext

LEMMA AdmissionInvHolds == AdmissionSpec => []AdmissionInv
  BY EmptyInv, AdmissionNextInv, PTL DEF AdmissionSpec

(* register_user and login_user: of two registrations of a name that        *)
(* overlap one wins, and whoever gets a token knows the password the        *)
(* account has, at that moment and ever after.                              *)
THEOREM SessionsBelongToAccounts == AdmissionSpec => []SessionsMatchAccounts
<1>1. AdmissionInv => SessionsMatchAccounts
  BY DEF AdmissionInv
<1> QED BY <1>1, AdmissionInvHolds, PTL

(* create_client_session and the retain of require_bearer: no sweep, on     *)
(* whatever instant a thread acts, takes a session before its time.         *)
THEOREM TokensAreGood == AdmissionSpec => []TokensLast
<1>1. AdmissionInv => TokensLast
  <2> SUFFICES ASSUME AdmissionInv, NEW s \in DOMAIN grants,
                      grants[s].age < SessionTtl - MaxLag, s \notin DOMAIN client_sessions
               PROVE  FALSE
    BY DEF TokensLast
  <2>1. grants[s].age >= SessionTtl - MaxLag /\ grants[s].age \in Nat
    BY Numbers DEF AdmissionInv, SessionAges
  <2> QED BY <2>1, Bounds
<1> QED BY <1>1, AdmissionInvHolds, PTL

(* A window that is young again, or counts one more, is of a call that was  *)
(* let in under its key.                                                    *)
LEMMA LetInByCall ==
  ASSUME AdmissionTypes, NEW s \in Token, LetsIn(<<"token", s>>),
         [AdmissionNext]_admissionVars
  PROVE  UseToken(s)
<1> DEFINE key == <<"token", s>>
<1>1. windows' # windows /\ ~(/\ key \in DOMAIN windows
                              /\ windows'[key] = windows[key])
  <2>1. key \in DOMAIN windows => windows[key].age \in Nat /\ windows[key].count \in Nat
    BY DEF AdmissionTypes, Table, Opened
  <2> QED BY <2>1 DEF LetsIn
<1>2. key \in DOMAIN windows'
  BY DEF LetsIn
<1> HIDE DEF key
<1>3. ASSUME NEW k \in Key, Allowed(k) \/ Denied(k)
      PROVE  k = key
  BY <1>1, <1>2, <1>3, AllowedFacts, DeniedFacts
<1>4. ASSUME NEW t \in Task, NEW n \in Name, NEW pw \in Password,
             NEW op \in {"register", "login"}, Request(t, op, n, pw)
      PROVE  FALSE
  <2>1. <<op, n>> \in Key /\ (Allowed(<<op, n>>) \/ Denied(<<op, n>>))
    BY <1>4 DEF Key, RequestKey, Request
  <2> QED BY <1>3, <2>1 DEF key
<1>5. ASSUME NEW x \in Token, UseToken(x)
      PROVE  UseToken(s)
  <2>1. <<"token", x>> \in Key
    BY DEF Key, RequestKey
  <2>2. CASE UNCHANGED limiterVars
    BY <1>1, <2>2 DEF limiterVars
  <2>3. CASE Allowed(<<"token", x>>) \/ Denied(<<"token", x>>)
    BY <1>3, <1>5, <2>1, <2>3 DEF key
  <2> QED BY <1>5, <2>2, <2>3 DEF UseToken
<1>6. CASE UseAdminToken
  <2>1. \A k \in {<<"token", AdminToken>>, <<"header", AdminToken>>} : k \in Key /\ k # key
    BY AdmissionAssumption DEF Key, RequestKey, key
  <2> QED BY <1>3, <1>6, <2>1 DEF UseAdminToken
<1>7. ASSUME NEW ip \in SourceIp, ReceiveDatagram(ip)
      PROVE  FALSE
  <2>1. <<"source", ip>> \in Key
    BY DEF Key, DatagramKey
  <2> QED BY <1>3, <1>7, <2>1 DEF ReceiveDatagram, key
<1>8. CASE Tick
  <2>1. key \in DOMAIN windows /\ windows'[key] = [windows[key] EXCEPT !.age = @ + 1]
    BY <1>2, <1>8, OlderFacts DEF Tick
  <2>2. windows[key] \in Opened
    BY <2>1 DEF AdmissionTypes, Table
  <2>3. windows'[key].age > windows[key].age /\ windows'[key].count = windows[key].count
    BY <2>1, <2>2 DEF Opened
  <2> QED BY <2>1, <2>2, <2>3 DEF LetsIn, Opened, key
<1>9. CASE Restart
  BY <1>2, <1>9 DEF Restart, Empty
<1>10. ASSUME NEW t \in Task, Register(t) \/ Login(t) \/ Issue(t)
       PROVE  FALSE
  BY <1>1, <1>10 DEF Register, Login, Issue, limiterVars
<1>11. CASE UNCHANGED admissionVars
  BY <1>1, <1>11 DEF admissionVars, limiterVars
<1> QED BY <1>4, <1>5, <1>6, <1>7, <1>8, <1>9, <1>10, <1>11 DEF AdmissionNext

(* require_bearer lets nobody in whose token this process did not give      *)
(* within its time to live.                                                 *)
THEOREM TokensDoExpire == AdmissionSpec => TokensExpire
<1>1. AdmissionInv /\ [AdmissionNext]_admissionVars =>
        [\A s \in Token : LetsIn(<<"token", s>>) => s \in DOMAIN grants]_admissionVars
  <2> SUFFICES ASSUME AdmissionInv, [AdmissionNext]_admissionVars,
                      NEW s \in Token, LetsIn(<<"token", s>>)
               PROVE  s \in DOMAIN grants
    OBVIOUS
  <2>0. AdmissionTypes /\ SessionAges
    BY DEF AdmissionInv
  <2>1. UseToken(s)
    BY <2>0, LetInByCall
  <2> PICK lag \in Lags : IF s \in DOMAIN Live(lag)
                          THEN Allowed(<<"token", s>>) \/ Denied(<<"token", s>>)
                          ELSE UNCHANGED limiterVars
    BY <2>1 DEF UseToken
  <2>2. s \in DOMAIN Live(lag)
    <3>1. UNCHANGED windows => ~LetsIn(<<"token", s>>)
      BY <2>0 DEF LetsIn, AdmissionTypes, Table, Opened
    <3> QED BY <3>1 DEF limiterVars
  <2>3. s \in DOMAIN client_sessions /\ client_sessions[s] + lag > 0
    BY <2>2 DEF Live, Keep
  <2>4. client_sessions[s] + MaxLag > 0
    BY <2>0, <2>3, Bounds, Numbers
  <2> QED BY <2>0, <2>3, <2>4 DEF SessionAges
<1> QED BY <1>1, AdmissionInvHolds, PTL DEF AdmissionSpec, TokensExpire

-----------------------------------------------------------------------------
(* What the limiters let in.  `total[n]` is how often a key was let in      *)
(* within the last n units of time.                                         *)

Totals == [0..Forgotten -> Nat]

(* A window was open for at least this long when the next one began: a call *)
(* that ends it sees an age of Window, and the age it began with was the    *)
(* lag of the call that opened it.                                          *)
Lifetime == Window - MaxLag

(* Since when the window w is open, at least.                               *)
OpenFor(w) == IF w.age > MaxLag THEN w.age - MaxLag ELSE 0

(* While the window w is open: since it was opened, all calls but the one   *)
(* that opened it are in its count; the window before it, and the one       *)
(* before that, add no more than the limit, and less if the call that       *)
(* opened the first of them is too long ago to matter.                      *)
Follows(total, w, limit) ==
  /\ w.count \in 1..limit
  /\ w.age < Forgotten
  /\ w.count <= total[w.age + 1]
  /\ \A n \in 0..Forgotten :
       /\ n <= OpenFor(w)                => total[n] < w.count
       /\ n <= OpenFor(w) + Lifetime     => total[n] < w.count + limit
       /\ n <= OpenFor(w) + 2 * Lifetime => total[n] < w.count + 2 * limit

(* While none is open.                                                      *)
Rests(total, limit) ==
  \A n \in 0..Forgotten : /\ n <= Lifetime     => total[n] < limit
                          /\ n <= 2 * Lifetime => total[n] < 2 * limit

LEMMA LimiterBounds ==
  /\ Window \in Nat \ {0} /\ MaxLag \in Nat
  /\ Forgotten \in Nat \ {0} /\ Forgotten = Window + MaxLag
  /\ Lifetime \in Int /\ Lifetime = Window - MaxLag
  /\ \A k : Limit(k) \in Nat \ {0}
  /\ \A lag \in Lags : lag \in Nat /\ lag <= MaxLag
  BY AdmissionAssumption DEF Forgotten, Lifetime, Limit, Lags

LEMMA OpenForFacts ==
  ASSUME NEW w \in Opened
  PROVE  OpenFor(w) \in Nat /\ OpenFor(w) <= w.age /\ w.age <= OpenFor(w) + MaxLag
  BY LimiterBounds DEF OpenFor, Opened

(* A call that is let in: into a new window, or the one that is open.       *)
LEMMA FirstCall ==
  ASSUME NEW total \in Totals, NEW next \in Totals, NEW limit \in Nat \ {0}, NEW lag \in Lags,
         next[0] = 0, \A n \in 1..Forgotten : next[n] = total[n] + 1,
         Rests(total, limit)
  PROVE  Follows(next, [age |-> lag, count |-> 1], limit)
<1> DEFINE w == [age |-> lag, count |-> 1]
<1>1. w \in Opened /\ OpenFor(w) = 0 /\ w.age = lag /\ w.count = 1
  BY LimiterBounds DEF OpenFor, Opened
<1> HIDE DEF w
<1>2. lag < Forgotten /\ lag + 1 \in 1..Forgotten
  BY LimiterBounds
<1>3. 1 <= next[lag + 1]
  BY <1>2 DEF Totals
<1>4. ASSUME NEW n \in 0..Forgotten
      PROVE  /\ n <= 0 => next[n] < 1
             /\ n <= 0 + Lifetime => next[n] < 1 + limit
             /\ n <= 0 + 2 * Lifetime => next[n] < 1 + 2 * limit
  <2>1. CASE n = 0
    BY <2>1
  <2>2. CASE n # 0
    <3>1. next[n] = total[n] + 1 /\ total[n] \in Nat
      BY <2>2 DEF Totals
    <3> QED BY <2>2, <3>1, LimiterBounds DEF Rests
  <2> QED BY <2>1, <2>2
<1>5. Follows(next, w, limit)
  BY <1>1, <1>2, <1>3, <1>4 DEF Follows
<1> QED BY <1>5 DEF w

LEMMA NextCall ==
  ASSUME NEW total \in Totals, NEW next \in Totals, NEW limit \in Nat \ {0}, NEW w \in Opened,
         next[0] = 0, \A n \in 1..Forgotten : next[n] = total[n] + 1,
         Follows(total, w, limit), w.count < limit
  PROVE  Follows(next, [w EXCEPT !.count = @ + 1], limit)
<1> DEFINE v == [w EXCEPT !.count = @ + 1]
<1>1. v.age = w.age /\ v.count = w.count + 1 /\ OpenFor(v) = OpenFor(w)
      /\ w.age \in Nat /\ w.count \in Nat /\ OpenFor(w) \in Nat
  BY OpenForFacts DEF OpenFor, Opened
<1> HIDE DEF v
<1>2. v.count <= next[v.age + 1]
  <2>1. w.age + 1 \in 1..Forgotten
    BY <1>1, LimiterBounds DEF Follows
  <2> QED BY <1>1, <2>1 DEF Follows, Totals
<1>3. ASSUME NEW n \in 0..Forgotten
      PROVE  /\ n <= OpenFor(w)                => next[n] < w.count + 1
             /\ n <= OpenFor(w) + Lifetime     => next[n] < w.count + 1 + limit
             /\ n <= OpenFor(w) + 2 * Lifetime => next[n] < w.count + 1 + 2 * limit
  <2>1. CASE n = 0
    BY <1>1, <2>1
  <2>2. CASE n # 0
    <3>1. next[n] = total[n] + 1 /\ total[n] \in Nat
      BY <2>2 DEF Totals
    <3>2. /\ n <= OpenFor(w)                => total[n] < w.count
          /\ n <= OpenFor(w) + Lifetime     => total[n] < w.count + limit
          /\ n <= OpenFor(w) + 2 * Lifetime => total[n] < w.count + 2 * limit
      BY DEF Follows
    <3> QED BY <1>1, <3>1, <3>2
  <2> QED BY <2>1, <2>2
<1>4. Follows(next, v, limit)
  BY <1>1, <1>2, <1>3 DEF Follows
<1> QED BY <1>4 DEF v

(* A window that is taken away was open for its lifetime.                   *)
LEMMA WindowEnds ==
  ASSUME NEW total \in Totals, NEW limit \in Nat \ {0}, NEW w \in Opened,
         Follows(total, w, limit), w.age >= Window
  PROVE  Rests(total, limit)
<1> SUFFICES ASSUME NEW n \in 0..Forgotten
             PROVE  /\ n <= Lifetime     => total[n] < limit
                    /\ n <= 2 * Lifetime => total[n] < 2 * limit
  BY DEF Rests
<1>1. OpenFor(w) >= Lifetime /\ OpenFor(w) \in Nat /\ w.count \in Nat /\ w.count <= limit
  BY OpenForFacts, LimiterBounds DEF Opened, Follows
<1>2. /\ n <= OpenFor(w)            => total[n] < w.count
      /\ n <= OpenFor(w) + Lifetime => total[n] < w.count + limit
      /\ total[n] \in Nat
  BY DEF Follows, Totals
<1> QED BY <1>1, <1>2, LimiterBounds

(* A unit of time: what was let in is one unit older.                       *)
Ages(total, next) == next[0] = 0 /\ \A n \in 1..Forgotten : next[n] = total[n - 1]

LEMMA WindowAges ==
  ASSUME NEW total \in Totals, NEW next \in Totals, NEW limit \in Nat \ {0}, NEW w \in Opened,
         Ages(total, next), Follows(total, w, limit), w.age + 1 < Forgotten
  PROVE  Follows(next, [w EXCEPT !.age = @ + 1], limit)
<1> DEFINE v == [w EXCEPT !.age = @ + 1]
<1>1. /\ v.age = w.age + 1 /\ v.count = w.count /\ w.age \in Nat /\ w.count \in Nat
      /\ OpenFor(v) \in Nat /\ OpenFor(w) \in Nat /\ OpenFor(v) <= OpenFor(w) + 1
  BY LimiterBounds DEF OpenFor, Opened
<1> HIDE DEF v
<1>2. v.count <= next[v.age + 1]
  <2>1. (w.age + 1) + 1 \in 1..Forgotten /\ ((w.age + 1) + 1) - 1 = w.age + 1
    BY <1>1, LimiterBounds
  <2>2. next[(w.age + 1) + 1] = total[w.age + 1]
    BY <2>1 DEF Ages
  <2> QED BY <1>1, <2>2 DEF Follows
<1>3. ASSUME NEW n \in 0..Forgotten
      PROVE  /\ n <= OpenFor(v)                => next[n] < w.count
             /\ n <= OpenFor(v) + Lifetime     => next[n] < w.count + limit
             /\ n <= OpenFor(v) + 2 * Lifetime => next[n] < w.count + 2 * limit
  <2>1. CASE n = 0
    BY <1>1, <2>1 DEF Ages, Follows
  <2>2. CASE n # 0
    <3>1. n - 1 \in 0..Forgotten /\ next[n] = total[n - 1]
      BY <2>2, LimiterBounds DEF Ages
    <3>2. /\ n - 1 <= OpenFor(w)                => total[n - 1] < w.count
          /\ n - 1 <= OpenFor(w) + Lifetime     => total[n - 1] < w.count + limit
          /\ n - 1 <= OpenFor(w) + 2 * Lifetime => total[n - 1] < w.count + 2 * limit
      BY <3>1 DEF Follows
    <3> QED BY <1>1, <3>1, <3>2, LimiterBounds
  <2> QED BY <2>1, <2>2
<1>4. v.count \in 1..limit /\ v.age < Forgotten
  BY <1>1 DEF Follows
<1>5. Follows(next, v, limit)
  BY <1>1, <1>2, <1>3, <1>4 DEF Follows
<1> QED BY <1>5 DEF v

LEMMA WindowForgotten ==
  ASSUME NEW total \in Totals, NEW next \in Totals, NEW limit \in Nat \ {0}, NEW w \in Opened,
         Ages(total, next), Follows(total, w, limit), w.age + 1 >= Forgotten
  PROVE  Rests(next, limit)
<1> SUFFICES ASSUME NEW n \in 0..Forgotten
             PROVE  /\ n <= Lifetime     => next[n] < limit
                    /\ n <= 2 * Lifetime => next[n] < 2 * limit
  BY DEF Rests
<1>1. /\ OpenFor(w) + 1 >= Window /\ OpenFor(w) \in Nat
      /\ w.count \in Nat /\ w.count <= limit
  BY OpenForFacts, LimiterBounds DEF Opened, Follows, OpenFor
<1>2. CASE n = 0
  BY <1>2 DEF Ages
<1>3. CASE n # 0
  <2>1. n - 1 \in 0..Forgotten /\ next[n] = total[n - 1] /\ total[n - 1] \in Nat
    BY <1>3, LimiterBounds DEF Ages, Totals
  <2>2. /\ n - 1 <= OpenFor(w)            => total[n - 1] < w.count
        /\ n - 1 <= OpenFor(w) + Lifetime => total[n - 1] < w.count + limit
    BY <2>1 DEF Follows
  <2> QED BY <1>1, <2>1, <2>2, LimiterBounds
<1> QED BY <1>2, <1>3

LEMMA StillRests ==
  ASSUME NEW total \in Totals, NEW next \in Totals, NEW limit \in Nat \ {0},
         Ages(total, next), Rests(total, limit)
  PROVE  Rests(next, limit)
<1> SUFFICES ASSUME NEW n \in 0..Forgotten
             PROVE  /\ n <= Lifetime     => next[n] < limit
                    /\ n <= 2 * Lifetime => next[n] < 2 * limit
  BY DEF Rests
<1>1. CASE n = 0
  BY <1>1 DEF Ages
<1>2. CASE n # 0
  <2>1. n - 1 \in 0..Forgotten /\ next[n] = total[n - 1]
    BY <1>2, LimiterBounds DEF Ages
  <2>2. /\ n - 1 <= Lifetime     => total[n - 1] < limit
        /\ n - 1 <= 2 * Lifetime => total[n - 1] < 2 * limit
    BY <2>1 DEF Rests
  <2> QED BY <2>1, <2>2, LimiterBounds
<1> QED BY <1>1, <1>2

-----------------------------------------------------------------------------
(* The invariant of the limiters.                                           *)

LetIn(k) == [n \in 0..Forgotten |-> Total(Recent(k))[n]]

WithinLimit(k) ==
  IF k \in DOMAIN windows
  THEN Follows(LetIn(k), windows[k], Limit(k))
  ELSE Rests(LetIn(k), Limit(k))

RecordedKey == {k \in Key : k[1] = Watched}

LimiterInv ==
  /\ \A k \in DOMAIN admitted : k \in RecordedKey /\ admitted[k] \in [1..Forgotten -> Nat]
  /\ \A k \in RecordedKey : WithinLimit(k)

LEMMA TotalsType ==
  ASSUME NEW s \in [1..Forgotten -> Nat]
  PROVE  [n \in 0..Forgotten |-> Total(s)[n]] \in Totals
<1>1. \A n \in 0..Forgotten : Total(s)[n] \in Nat
  BY LimiterBounds, TotalOfNumbers
<1> QED BY <1>1 DEF Totals

LEMMA RecentType ==
  ASSUME LimiterInv, NEW k
  PROVE  Recent(k) \in [1..Forgotten -> Nat] /\ LetIn(k) \in Totals
<1>1. Recent(k) \in [1..Forgotten -> Nat]
  BY DEF Recent, LimiterInv
<1> QED BY <1>1, TotalsType DEF LetIn

(* Nothing changes for a key whose window and record stay.                  *)
LEMMA LimiterStays ==
  ASSUME NEW k, WithinLimit(k), Recent(k)' = Recent(k),
         k \in DOMAIN windows' <=> k \in DOMAIN windows,
         k \in DOMAIN windows => windows'[k] = windows[k]
  PROVE  WithinLimit(k)'
<1>1. LetIn(k)' = LetIn(k)
  BY DEF LetIn
<1> QED BY <1>1 DEF WithinLimit

(* What retain takes of a watched key has been open for Window.             *)
LEMMA LimiterRetains ==
  ASSUME AdmissionTypes, LimiterInv, NEW k \in RecordedKey,
         NEW other, NEW lag \in Lags
  PROVE  IF k \in DOMAIN Retained(other, lag)
         THEN Follows(LetIn(k), windows[k], Limit(k))
         ELSE Rests(LetIn(k), Limit(k))
<1>1. WithinLimit(k)
  BY DEF LimiterInv
<1>2. CASE k \in DOMAIN Retained(other, lag)
  BY <1>1, <1>2, RetainedFacts DEF WithinLimit
<1>3. CASE k \notin DOMAIN Retained(other, lag) /\ k \in DOMAIN windows
  <2>1. windows[k] \in Opened /\ Follows(LetIn(k), windows[k], Limit(k))
    BY <1>1, <1>3 DEF AdmissionTypes, Table, WithinLimit
  <2>2. ~(Elapsed(windows[k], lag) < Window)
    BY <1>3 DEF Retained, Keep
  <2>3. windows[k].age >= Window
    BY <2>1, <2>2, LimiterBounds DEF Elapsed, Opened
  <2>4. Rests(LetIn(k), Limit(k))
    BY <2>1, <2>3, WindowEnds, LimiterBounds, RecentType
  <2> QED BY <1>3, <2>4
<1>4. CASE k \notin DOMAIN Retained(other, lag) /\ k \notin DOMAIN windows
  BY <1>1, <1>4 DEF WithinLimit
<1> QED BY <1>2, <1>3, <1>4

LEMMA DeniedKeepsLimits ==
  ASSUME AdmissionTypes, LimiterInv, NEW k, Denied(k)
  PROVE  LimiterInv'
<1> PICK lag \in Lags : windows' = Retained(k, lag) /\ admitted' = admitted
  BY DEF Denied
<1>1. ASSUME NEW x \in RecordedKey PROVE WithinLimit(x)'
  <2>1. LetIn(x)' = LetIn(x)
    BY DEF LetIn, Recent
  <2>2. IF x \in DOMAIN Retained(k, lag)
        THEN Follows(LetIn(x), windows[x], Limit(x))
        ELSE Rests(LetIn(x), Limit(x))
    BY <1>1, LimiterRetains
  <2>3. x \in DOMAIN windows' => windows'[x] = windows[x]
    BY RetainedFacts
  <2> QED BY <2>1, <2>2, <2>3 DEF WithinLimit
<1> QED BY <1>1 DEF LimiterInv

LEMMA AllowedKeepsLimits ==
  ASSUME AdmissionTypes, LimiterInv, NEW k \in Key, Allowed(k)
  PROVE  LimiterInv'
<1> PICK lag \in Lags :
      /\ HasRoom(k, lag)
      /\ windows' = Put(Retained(k, lag), k, [Entry(k, lag) EXCEPT !.count = @ + 1])
      /\ admitted' = Recorded(k)
  BY DEF Allowed
<1> DEFINE more == [Recent(k) EXCEPT ![1] = @ + 1]
           w    == Entry(k, lag)
           v    == [w EXCEPT !.count = @ + 1]
<1>1. /\ Recent(k) \in [1..Forgotten -> Nat] /\ more \in [1..Forgotten -> Nat]
      /\ more[1] = Recent(k)[1] + 1 /\ \A i \in 2..Forgotten : more[i] = Recent(k)[i]
  BY RecentType, LimiterBounds
<1>2. /\ k[1] = Watched => Recent(k)' = more
      /\ \A x : x # k => Recent(x)' = Recent(x)
  BY DEF Recorded, Recent, Put
<1>3. \A x \in DOMAIN admitted' : x \in RecordedKey /\ admitted'[x] \in [1..Forgotten -> Nat]
  BY <1>1 DEF Recorded, Put, LimiterInv, RecordedKey
<1>4. ASSUME NEW x \in RecordedKey, x # k PROVE WithinLimit(x)'
  <2>1. LetIn(x)' = LetIn(x)
    BY <1>2, <1>4 DEF LetIn
  <2>2. IF x \in DOMAIN Retained(k, lag)
        THEN Follows(LetIn(x), windows[x], Limit(x))
        ELSE Rests(LetIn(x), Limit(x))
    BY <1>4, LimiterRetains
  <2>3. /\ x \in DOMAIN windows' <=> x \in DOMAIN Retained(k, lag)
        /\ x \in DOMAIN windows' => windows'[x] = windows[x]
    BY <1>4, RetainedFacts DEF Put
  <2> QED BY <2>1, <2>2, <2>3 DEF WithinLimit
<1>5. ASSUME k \in RecordedKey PROVE WithinLimit(k)'
  <2> DEFINE total == LetIn(k)
             next  == [n \in 0..Forgotten |-> Total(more)[n]]
  <2>1. LetIn(k)' = next
    BY <1>2, <1>5 DEF LetIn, RecordedKey
  <2>2. k \in DOMAIN windows' /\ windows'[k] = v
    BY DEF Put
  <2>3. total \in Totals /\ next \in Totals /\ Limit(k) \in Nat \ {0}
    <3>1. \A n \in 0..Forgotten : Total(more)[n] \in Nat
      <4> HIDE DEF more
      <4> QED BY <1>1, LimiterBounds, TotalOfNumbers
    <3> QED BY <3>1, RecentType, LimiterBounds DEF Totals
  <2>4. next[0] = 0 /\ \A n \in 1..Forgotten : next[n] = total[n] + 1
    <3>1. \A n \in 1..Forgotten : Total(more)[n] = Total(Recent(k))[n] + 1
      <4> HIDE DEF more
      <4> QED BY <1>1, LimiterBounds, TotalOneMore
    <3>2. Total(more)[0] = 0 /\ 0 \in 0..Forgotten
      BY TotalIs, LimiterBounds
    <3> HIDE DEF more
    <3> QED BY <3>1, <3>2, LimiterBounds DEF LetIn
  <2>5. IF k \in DOMAIN Retained(k, lag)
        THEN Follows(total, windows[k], Limit(k))
        ELSE Rests(total, Limit(k))
    BY <1>5, LimiterRetains
  <2> HIDE DEF total, next
  <2>6. CASE k \in DOMAIN Retained(k, lag)
    <3>1. w = windows[k] /\ w \in Opened /\ w.count < Limit(k)
      BY <2>6, EntryType DEF Entry, HasRoom
    <3>2. Follows(next, v, Limit(k))
      BY <2>3, <2>4, <2>5, <2>6, <3>1, NextCall
    <3> QED BY <2>1, <2>2, <3>2 DEF WithinLimit
  <2>7. CASE k \notin DOMAIN Retained(k, lag)
    <3>1. v = [age |-> lag, count |-> 1]
      BY <2>7 DEF Entry
    <3>2. Follows(next, [age |-> lag, count |-> 1], Limit(k))
      BY <2>3, <2>4, <2>5, <2>7, FirstCall
    <3> QED BY <2>1, <2>2, <3>1, <3>2 DEF WithinLimit
  <2> QED BY <2>6, <2>7
<1> QED BY <1>3, <1>4, <1>5 DEF LimiterInv

(* A unit of time moves what was let in by one place; a record of zeros may *)
(* as well be dropped.                                                      *)
LEMMA RecentAges ==
  ASSUME LimiterInv, Tick, NEW k
  PROVE  /\ Ages(LetIn(k), LetIn(k)')
         /\ \A x \in DOMAIN admitted' : x \in RecordedKey /\ admitted'[x] \in [1..Forgotten -> Nat]
<1> DEFINE aged(x) == <<0>> \o Front(admitted[x])
           kept    == {x \in DOMAIN admitted : \E i \in 1..Forgotten - 1 : admitted[x][i] > 0}
<1>1. admitted' = Keep([x \in DOMAIN admitted |-> aged(x)], kept)
  BY DEF Tick
<1>2. ASSUME NEW x \in DOMAIN admitted
      PROVE  /\ x \in RecordedKey
             /\ aged(x) \in [1..Forgotten -> Nat] /\ aged(x)[1] = 0
             /\ \A i \in 1..Forgotten : i + 1 <= Forgotten => aged(x)[i + 1] = admitted[x][i]
  <2> DEFINE s == admitted[x]
  <2>1. x \in RecordedKey /\ s \in [1..Forgotten -> Nat]
    BY <1>2 DEF LimiterInv
  <2>2. s \in Seq(Nat) /\ Len(s) = Forgotten
    BY <2>1, LimiterBounds
  <2> HIDE DEF s
  <2>3. /\ Front(s) \in Seq(Nat) /\ Len(Front(s)) = Forgotten - 1
        /\ \A i \in 1..Forgotten - 1 : Front(s)[i] = s[i]
    BY <2>2, LimiterBounds DEF Front
  <2> DEFINE r == <<0>> \o Front(s)
  <2>4. /\ r \in Seq(Nat) /\ Len(r) = Forgotten /\ r[1] = 0
        /\ \A i \in 1..Forgotten : i + 1 <= Forgotten => r[i + 1] = Front(s)[i]
    BY <2>3, LimiterBounds
  <2>5. r \in [1..Forgotten -> Nat]
    <3> HIDE DEF r
    <3> QED BY <2>4
  <2> QED BY <2>1, <2>3, <2>4, <2>5, LimiterBounds DEF s
<1> HIDE DEF aged
<1>3. /\ DOMAIN admitted' = kept
      /\ \A x \in kept : admitted'[x] = aged(x)
  BY <1>1 DEF Keep
<1>4. /\ Recent(k)'[1] = 0
      /\ \A i \in 1..Forgotten : i + 1 <= Forgotten => Recent(k)'[i + 1] = Recent(k)[i]
  <2>1. CASE k \in kept
    BY <1>2, <1>3, <2>1 DEF Recent
  <2>2. CASE k \notin kept
    <3>1. Recent(k)' = [i \in 1..Forgotten |-> 0]
      BY <1>3, <2>2 DEF Recent
    <3>2. ASSUME NEW i \in 1..Forgotten, i + 1 <= Forgotten PROVE Recent(k)[i] = 0
      <4>1. CASE k \in DOMAIN admitted
        <5>1. i \in 1..Forgotten - 1 /\ admitted[k][i] \in Nat
          BY <3>2, <4>1, LimiterBounds DEF LimiterInv
        <5>2. ~(admitted[k][i] > 0)
          BY <2>2, <4>1, <5>1
        <5> QED BY <4>1, <5>1, <5>2 DEF Recent
      <4>2. CASE k \notin DOMAIN admitted
        BY <4>2 DEF Recent
      <4> QED BY <4>1, <4>2
    <3> QED BY <3>1, <3>2, LimiterBounds
  <2> QED BY <2>1, <2>2
<1>5. Ages(LetIn(k), LetIn(k)')
  <2> DEFINE s == Recent(k)
             r == Recent(k)'
  <2>1. \A i \in 1..Forgotten : s[i] \in Nat
    BY RecentType
  <2> HIDE DEF s
  <2>2. r[1] = 0 /\ \A i \in 1..Forgotten : i + 1 <= Forgotten => r[i + 1] = s[i]
    BY <1>4 DEF s
  <2> HIDE DEF r
  <2>3. \A n \in 0..Forgotten : n + 1 <= Forgotten => Total(r)[n + 1] = Total(s)[n]
    BY <2>1, <2>2, LimiterBounds, TotalShifted
  <2>4. ASSUME NEW n \in 1..Forgotten PROVE Total(r)[n] = Total(s)[n - 1]
    <3>1. n - 1 \in 0..Forgotten /\ (n - 1) + 1 = n /\ (n - 1) + 1 <= Forgotten
      BY LimiterBounds
    <3> QED BY <2>3, <3>1
  <2>5. Total(r)[0] = 0
    BY TotalIs
  <2>6. LetIn(k) = [n \in 0..Forgotten |-> Total(s)[n]]
    BY DEF LetIn, s
  <2>7. LetIn(k)' = [n \in 0..Forgotten |-> Total(r)[n]]
    BY DEF LetIn, r
  <2> QED BY <2>4, <2>5, <2>6, <2>7, LimiterBounds DEF Ages
<1> QED BY <1>2, <1>3, <1>5

LEMMA TickKeepsLimits ==
  ASSUME AdmissionTypes, LimiterInv, Tick
  PROVE  LimiterInv'
<1>1. \A x \in DOMAIN admitted' : x \in RecordedKey /\ admitted'[x] \in [1..Forgotten -> Nat]
  BY RecentAges
<1>2. windows' = Older(windows, Forgotten)
  BY DEF Tick
<1>3. ASSUME NEW k \in RecordedKey PROVE WithinLimit(k)'
  <2> DEFINE total == LetIn(k)
             next  == LetIn(k)'
  <2>1. Recent(k)' \in [1..Forgotten -> Nat]
    BY <1>1 DEF Recent
  <2>2. total \in Totals /\ next \in Totals /\ Limit(k) \in Nat \ {0} /\ Ages(total, next)
    <3>1. total \in Totals /\ Limit(k) \in Nat \ {0} /\ Ages(total, next)
      BY RecentType, LimiterBounds, RecentAges
    <3>2. next \in Totals
      BY <2>1, TotalsType DEF LetIn
    <3> QED BY <3>1, <3>2
  <2>3. IF k \in DOMAIN windows THEN Follows(total, windows[k], Limit(k))
        ELSE Rests(total, Limit(k))
    BY <1>3 DEF LimiterInv, WithinLimit
  <2>4. /\ k \in DOMAIN windows' <=> k \in DOMAIN windows /\ windows[k].age + 1 < Forgotten
        /\ k \in DOMAIN windows' => windows'[k] = [windows[k] EXCEPT !.age = @ + 1]
    BY <1>2, OlderFacts
  <2>5. k \in DOMAIN windows => windows[k] \in Opened
    BY DEF AdmissionTypes, Table
  <2>6. WithinLimit(k)' <=> IF k \in DOMAIN windows' THEN Follows(next, windows'[k], Limit(k))
                            ELSE Rests(next, Limit(k))
    BY DEF WithinLimit
  <2> HIDE DEF total, next
  <2>7. CASE k \notin DOMAIN windows
    <3>1. Rests(next, Limit(k))
      BY <2>2, <2>3, <2>7, StillRests
    <3> QED BY <2>4, <2>6, <2>7, <3>1
  <2>8. CASE k \in DOMAIN windows /\ windows[k].age + 1 < Forgotten
    <3>1. Follows(next, [windows[k] EXCEPT !.age = @ + 1], Limit(k))
      BY <2>2, <2>3, <2>5, <2>8, WindowAges
    <3> QED BY <2>4, <2>6, <2>8, <3>1
  <2>9. CASE k \in DOMAIN windows /\ ~(windows[k].age + 1 < Forgotten)
    <3>1. windows[k].age + 1 >= Forgotten
      BY <2>5, <2>9, LimiterBounds DEF Opened
    <3>2. Rests(next, Limit(k))
      BY <2>2, <2>3, <2>5, <2>9, <3>1, WindowForgotten
    <3> QED BY <2>4, <2>6, <2>9, <3>2
  <2> QED BY <2>7, <2>8, <2>9
<1> QED BY <1>1, <1>3 DEF LimiterInv

LEMMA ZerosRest ==
  ASSUME NEW limit \in Nat \ {0}
  PROVE  Rests([n \in 0..Forgotten |-> Total([i \in 1..Forgotten |-> 0])[n]], limit)
<1> DEFINE zeros == [i \in 1..Forgotten |-> 0]
<1>1. \A i \in 1..Forgotten : zeros[i] = 0
  OBVIOUS
<1> HIDE DEF zeros
<1>2. \A n \in 0..Forgotten : Total(zeros)[n] = 0
  BY <1>1, LimiterBounds, TotalOfZeros
<1>3. Rests([n \in 0..Forgotten |-> Total(zeros)[n]], limit)
  BY <1>2, LimiterBounds DEF Rests
<1> QED BY <1>3 DEF zeros

LEMMA NothingLetIn == windows = Empty /\ admitted = Empty => LimiterInv
  BY ZerosRest, LimiterBounds DEF LimiterInv, WithinLimit, LetIn, Recent, Empty

LEMMA NothingLetInAfter == windows' = Empty /\ admitted' = Empty => LimiterInv'
  BY ZerosRest, LimiterBounds DEF LimiterInv, WithinLimit, LetIn, Recent, Empty

LEMMA LimiterNextInv ==
  AdmissionInv /\ LimiterInv /\ [AdmissionNext]_admissionVars => LimiterInv'
<1> SUFFICES ASSUME AdmissionInv, LimiterInv, [AdmissionNext]_admissionVars PROVE LimiterInv'
  OBVIOUS
<1>0. AdmissionTypes
  BY DEF AdmissionInv
<1>1. ASSUME UNCHANGED limiterVars PROVE LimiterInv'
  <2>1. \A k : LetIn(k)' = LetIn(k)
    BY <1>1 DEF limiterVars, LetIn, Recent
  <2> QED BY <1>1, <2>1 DEF limiterVars, LimiterInv, WithinLimit
<1>2. ASSUME NEW k \in Key, Allowed(k) \/ Denied(k) PROVE LimiterInv'
  BY <1>0, <1>2, AllowedKeepsLimits, DeniedKeepsLimits
<1>3. ASSUME NEW t \in Task, NEW n \in Name, NEW pw \in Password,
             NEW op \in {"register", "login"}, Request(t, op, n, pw)
      PROVE  LimiterInv'
  <2>1. <<op, n>> \in Key /\ (Allowed(<<op, n>>) \/ Denied(<<op, n>>))
    BY <1>3 DEF Key, RequestKey, Request
  <2> QED BY <1>2, <2>1
<1>4. ASSUME NEW t \in Task, Register(t) \/ Login(t) \/ Issue(t)
      PROVE  LimiterInv'
  BY <1>1, <1>4 DEF Register, Login, Issue
<1>5. ASSUME NEW s \in Token, UseToken(s)
      PROVE  LimiterInv'
  <2>1. <<"token", s>> \in Key
    BY DEF Key, RequestKey
  <2> QED BY <1>1, <1>2, <1>5, <2>1 DEF UseToken
<1>6. CASE UseAdminToken
  <2>1. {<<"token", AdminToken>>, <<"header", AdminToken>>} \subseteq Key
    BY DEF Key, RequestKey
  <2> QED BY <1>2, <1>6, <2>1 DEF UseAdminToken
<1>7. ASSUME NEW ip \in SourceIp, ReceiveDatagram(ip)
      PROVE  LimiterInv'
  <2>1. <<"source", ip>> \in Key
    BY DEF Key, DatagramKey
  <2> QED BY <1>2, <1>7, <2>1 DEF ReceiveDatagram
<1>8. CASE Restart
  BY <1>8, NothingLetInAfter DEF Restart
<1>9. CASE UNCHANGED admissionVars
  BY <1>1, <1>9 DEF admissionVars
<1> QED BY <1>0, <1>3, <1>4, <1>5, <1>6, <1>7, <1>8, <1>9, TickKeepsLimits DEF AdmissionNext

LEMMA LimiterInvHolds == AdmissionSpec => [](AdmissionInv /\ LimiterInv)
<1>1. AdmissionInit => AdmissionInv /\ LimiterInv
  BY EmptyInv, NothingLetIn DEF AdmissionInit
<1> QED BY <1>1, AdmissionNextInv, LimiterNextInv, PTL DEF AdmissionSpec

(* FixedWindowRateLimiter::allow, where the clock is read before the lock   *)
(* is taken: if that takes no longer than half a window, no key is let in   *)
(* three times the limit within the length of a window, and if it takes no  *)
(* time, not twice the limit, wherever the interval lies.  With more lag a  *)
(* call of another key can end a window that has hardly begun.              *)
LagIsShort == 2 * MaxLag <= Window

THEOREM RateIsBounded ==
  ASSUME LagIsShort
  PROVE  AdmissionSpec => []WithinRate
<1>1. AdmissionInv /\ LimiterInv => WithinRate
  <2> SUFFICES ASSUME LimiterInv, AdmissionInv, NEW k \in DOMAIN admitted
               PROVE  LetIn(k)[Window] < (IF MaxLag = 0 THEN 2 ELSE 3) * Limit(k)
    <3>1. Window \in 0..Forgotten
      BY LimiterBounds
    <3>2. \A x \in DOMAIN admitted : LetIn(x)[Window] = Total(admitted[x])[Window]
      BY <3>1 DEF LetIn, Recent
    <3> QED BY <3>2 DEF WithinRate
  <2>1. Window \in 0..Forgotten /\ LetIn(k)[Window] \in Nat /\ Limit(k) \in Nat
    BY RecentType, LimiterBounds DEF Totals
  <2>2. WithinLimit(k)
    BY DEF LimiterInv
  <2>3. CASE k \in DOMAIN windows
    <3> DEFINE w == windows[k]
    <3>1. w \in Opened /\ OpenFor(w) \in Nat
      BY <2>3, OpenForFacts DEF AdmissionInv, AdmissionTypes, Table
    <3>2. /\ w.count \in Nat /\ w.count <= Limit(k)
          /\ Window <= OpenFor(w) + Lifetime => LetIn(k)[Window] < w.count + Limit(k)
          /\ Window <= OpenFor(w) + 2 * Lifetime => LetIn(k)[Window] < w.count + 2 * Limit(k)
      BY <2>1, <2>2, <2>3, <3>1 DEF WithinLimit, Follows, Opened
    <3> HIDE DEF w
    <3> QED BY <2>1, <3>1, <3>2, LimiterBounds, LagIsShort DEF LagIsShort
  <2>4. CASE k \notin DOMAIN windows
    <3>1. /\ Window <= Lifetime => LetIn(k)[Window] < Limit(k)
          /\ Window <= 2 * Lifetime => LetIn(k)[Window] < 2 * Limit(k)
      BY <2>1, <2>2, <2>4 DEF WithinLimit, Rests
    <3> QED BY <2>1, <3>1, LimiterBounds, LagIsShort DEF LagIsShort
  <2> QED BY <2>3, <2>4
<1> QED BY <1>1, LimiterInvHolds, PTL

(* The same function: a key is turned away for what was let in under it     *)
(* while its window was open, whatever others do.                           *)
THEOREM OwnTrafficCounts == AdmissionSpec => []CountsOwnTraffic
<1>1. AdmissionInv /\ LimiterInv => CountsOwnTraffic
  <2> SUFFICES ASSUME LimiterInv, AdmissionInv, NEW k \in DOMAIN windows, k[1] = Watched
               PROVE  windows[k].count <= Total(Recent(k))[windows[k].age + 1]
    BY DEF CountsOwnTraffic
  <2>1. k \in RecordedKey /\ windows[k] \in Opened
    BY DEF AdmissionInv, AdmissionTypes, Table, RecordedKey
  <2>2. Follows(LetIn(k), windows[k], Limit(k))
    BY <2>1 DEF LimiterInv, WithinLimit
  <2>3. windows[k].age + 1 \in 0..Forgotten
    BY <2>1, <2>2, LimiterBounds DEF Follows, Opened
  <2> QED BY <2>2, <2>3 DEF Follows, LetIn
<1> QED BY <1>1, LimiterInvHolds, PTL
=============================================================================
