---------------------------- MODULE PeerRegistry ----------------------------
(***************************************************************************)
(* What the server promises about membership, crashes included, without    *)
(* handlers, tables, tunnels and keys.                                     *)
(*                                                                         *)
(* The server seats players and keeps a register of them that outlives it. *)
(* While it moves a player in or out the two may differ; it lets go of a   *)
(* player only when they agree.  The register has nobody who was not       *)
(* seated, and nobody at another seat; nobody loses a seat that is still   *)
(* registered, except by a crash.  After a crash every player has the seat *)
(* of the register, so whoever was not being moved has the seat it had.    *)
(***************************************************************************)
CONSTANTS Room, Player, Address

VARIABLES serving,    \* the server runs
          seated,     \* the seat of every player it knows
          registered, \* the seat of every player in the register
          moving      \* the players it is moving in or out

registryVars == <<serving, seated, registered, moving>>

Nobody == [p \in {} |-> p]

Seating(f, p, s) == [q \in DOMAIN f \cup {p} |-> IF q = p THEN s ELSE f[q]]
Leaving(f, p)    == [q \in DOMAIN f \ {p} |-> f[q]]

RegistryInit ==
  serving = TRUE /\ seated = Nobody /\ registered = Nobody /\ moving = {}

Admit(p, r, a) ==
  /\ serving /\ p \notin moving
  /\ p \notin DOMAIN seated /\ p \notin DOMAIN registered
  /\ \A q \in DOMAIN seated : seated[q].address # a
  /\ seated' = Seating(seated, p, [room |-> r, address |-> a])
  /\ moving' = moving \cup {p}
  /\ UNCHANGED <<serving, registered>>

Register(p) ==
  /\ p \in moving /\ p \in DOMAIN seated /\ p \notin DOMAIN registered
  /\ registered' = Seating(registered, p, seated[p])
  /\ UNCHANGED <<serving, seated, moving>>

(* Somebody asks to move out a player who is in.                            *)
Dismiss(p) ==
  /\ serving /\ p \notin moving
  /\ p \in DOMAIN seated /\ p \in DOMAIN registered
  /\ moving' = moving \cup {p}
  /\ UNCHANGED <<serving, seated, registered>>

Strike(p) ==
  /\ p \in moving /\ p \in DOMAIN seated /\ p \in DOMAIN registered
  /\ registered' = Leaving(registered, p)
  /\ UNCHANGED <<serving, seated, moving>>

(* The player gives up its seat; the server may have more to do about it.   *)
Unseat(p) ==
  /\ p \in moving /\ p \in DOMAIN seated /\ p \notin DOMAIN registered
  /\ seated' = Leaving(seated, p)
  /\ moving' \in {moving, moving \ {p}}
  /\ UNCHANGED <<serving, registered>>

Settle(p) ==
  /\ p \in moving
  /\ p \in DOMAIN seated <=> p \in DOMAIN registered
  /\ p \in DOMAIN seated => seated[p] = registered[p]
  /\ moving' = moving \ {p}
  /\ UNCHANGED <<serving, seated, registered>>

Stop ==
  /\ serving
  /\ serving' = FALSE /\ seated' = Nobody /\ moving' = {}
  /\ UNCHANGED registered

Recover ==
  /\ ~serving
  /\ serving' = TRUE /\ seated' = registered
  /\ UNCHANGED <<registered, moving>>

RegistryNext ==
  \/ \E p \in Player :
       \/ \E r \in Room, a \in Address : Admit(p, r, a)
       \/ Register(p) \/ Dismiss(p) \/ Strike(p) \/ Unseat(p) \/ Settle(p)
  \/ Stop \/ Recover

RegistrySpec == RegistryInit /\ [][RegistryNext]_registryVars
=============================================================================
