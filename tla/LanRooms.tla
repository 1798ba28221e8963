------------------------------ MODULE LanRooms ------------------------------
(***************************************************************************)
(* What the router promises to the players, without ids of sessions, maps, *)
(* deadlines and epochs: who has a seat in which room and at which address,*)
(* who is away, who hosts, and who plays with whom at which addresses.     *)
(*                                                                         *)
(* A player keeps room and address from joining to leaving.  It leaves by  *)
(* itself or after having been away; it goes away only by a sweep, comes   *)
(* back only by returning, and stops hosting and playing as it goes.  A    *)
(* game is between players of one room, one of whom hosts, and it reaches  *)
(* them at the addresses of their seats; it ends when one of them goes     *)
(* away or leaves and when the hosting it was made against ends.           *)
(***************************************************************************)
CONSTANTS Room, Player, Address, Game

VARIABLES open,     \* the rooms
          seats,    \* the room and the address of every player who has joined
          away,     \* those of them the server has lost sight of
          hosting,  \* those who host
          games     \* the two ends of every game

lanVars == <<open, seats, away, hosting, games>>

Seat == [room : Room, address : Address]

(* One end of a game.                                                       *)
End(p) == [player |-> p, address |-> seats[p].address]

PlayedBy(P) ==
  {g \in DOMAIN games : games[g].client.player \in P \/ games[g].host.player \in P}
HostedBy(P) == {g \in DOMAIN games : games[g].host.player \in P}
Ended(G)    == [g \in DOMAIN games \ G |-> games[g]]

LanInit ==
  /\ open = {} /\ away = {} /\ hosting = {}
  /\ seats = [p \in {} |-> p]
  /\ games = [g \in {} |-> g]

Open(r) ==
  /\ r \notin open
  /\ open' = open \cup {r}
  /\ UNCHANGED <<seats, away, hosting, games>>

Close(r) ==
  /\ r \in open
  /\ \A p \in DOMAIN seats : seats[p].room # r
  /\ open' = open \ {r}
  /\ UNCHANGED <<seats, away, hosting, games>>

Join(p, r, a) ==
  /\ r \in open
  /\ p \notin DOMAIN seats
  /\ \A q \in DOMAIN seats : seats[q].address # a
  /\ seats' = [q \in DOMAIN seats \cup {p} |->
                 IF q = p THEN [room |-> r, address |-> a] ELSE seats[q]]
  /\ UNCHANGED <<open, away, hosting, games>>

(* The players S go away and the players L leave, the players H stop        *)
(* hosting, and the games G end.                                            *)
Change(S, L, H, G) ==
  /\ seats' = [p \in DOMAIN seats \ L |-> seats[p]]
  /\ away' = (away \cup S) \ L
  /\ hosting' = hosting \ (H \cup S \cup L)
  /\ games' = Ended(G \cup HostedBy(H) \cup PlayedBy(S \cup L))
  /\ UNCHANGED open

Leave(p) == p \in DOMAIN seats /\ Change({}, {p}, {}, {})

Return(p) ==
  /\ p \in away
  /\ away' = away \ {p}
  /\ UNCHANGED <<open, seats, hosting, games>>

(* Who hosts already hosts anew: the games against the old hosting end.     *)
Host(p) ==
  /\ p \in DOMAIN seats
  /\ hosting' = hosting \cup {p}
  /\ games' = Ended(HostedBy({p}))
  /\ UNCHANGED <<open, seats, away>>

StopHosting(p) == p \in hosting /\ Change({}, {}, {p}, {})

Play(g, p, h) ==
  /\ g \notin DOMAIN games
  /\ p \in DOMAIN seats /\ h \in hosting
  /\ seats[p].room = seats[h].room
  /\ games' = [x \in DOMAIN games \cup {g} |->
                 IF x = g THEN [client |-> End(p), host |-> End(h)] ELSE games[x]]
  /\ UNCHANGED <<open, seats, away, hosting>>

EndGame(g) == g \in DOMAIN games /\ Change({}, {}, {}, {g})

(* Whoever is overdue: players in sight, away, hosting, and games.          *)
Sweep ==
  \E S \in SUBSET (DOMAIN seats \ away), L \in SUBSET away,
     H \in SUBSET hosting, G \in SUBSET DOMAIN games : Change(S, L, H, G)

LanNext ==
  \/ \E r \in Room : Open(r) \/ Close(r)
  \/ \E p \in Player :
       \/ \E r \in Room, a \in Address : Join(p, r, a)
       \/ Leave(p) \/ Return(p) \/ Host(p) \/ StopHosting(p)
       \/ \E g \in Game, h \in Player : Play(g, p, h)
  \/ \E g \in Game : EndGame(g)
  \/ Sweep

LanSpec == LanInit /\ [][LanNext]_lanVars
=============================================================================
