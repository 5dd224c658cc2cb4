---------------------------- MODULE GreedLobbyProofs ---------------------------
(***************************************************************************)
(* Theorems about GreedLobby, for any number of connections and rooms.     *)
(*                                                                         *)
(* The invariants the run checks are inductive together, but for one fact: *)
(* that a connection comes up without a seat needs to know that it had     *)
(* none (NewHasNoSeat).                                                    *)
(***************************************************************************)
EXTENDS GreedLobby, TLAPS

NewHasNoSeat == \A c \in Client : conn[c] = "new" => info[c].ct = cTourist

IInv ==
    /\ TypeOK
    /\ SeatedUsersHaveTheirRoom
    /\ OwnersOwnTheirRoom
    /\ SubscriptionsMatchAudiences
    /\ ClientKnowsItsSeat
    /\ NewHasNoSeat

--------------------------------------------------------------------------------
(* The shapes the handlers have in common.                                     *)

\* A new server satisfies the invariant.
LEMMA InitEstablishes == Init => IInv
<1> SUFFICES ASSUME Init PROVE IInv
  OBVIOUS
<1>1. NewRooms \in [Topic -> Room] /\ \A t \in Topic : NewRooms[t].audiences = {}
  BY DEF NewRooms, Topic, Room, NewRoom, NoRoom
<1>2. NewInfo \in [ct : ClientType, topic : Topic \cup {NoTopic}] /\ NewInfo.ct = cTourist
  BY DEF NewInfo, ClientType
<1>3. NewApp \in App /\ NoQuery \in Query
  BY DEF NewApp, App, ClientType, NoQuery, Query
<1>4. TypeOK
  BY <1>1, <1>2, <1>3 DEF Init, TypeOK, Topic
<1>5. SeatedUsersHaveTheirRoom /\ OwnersOwnTheirRoom /\ ClientKnowsItsSeat /\ NewHasNoSeat
  BY <1>2 DEF Init, users, SeatedUsersHaveTheirRoom, OwnersOwnTheirRoom, ClientKnowsItsSeat,
              NewHasNoSeat
<1>6. SubscriptionsMatchAudiences
  BY <1>1 DEF Init, SubscriptionsMatchAudiences, Topic
<1>7. QED
  BY <1>4, <1>5, <1>6 DEF IInv

\* So does what is left of one that has used a room that is not there.
LEMMA UndefinedIsSound == ASSUME Undefined PROVE IInv'
<1>1. NewRooms \in [Topic -> Room] /\ \A t \in Topic : NewRooms[t].audiences = {}
  BY DEF NewRooms, Topic, Room, NewRoom, NoRoom
<1>2. NewInfo \in [ct : ClientType, topic : Topic \cup {NoTopic}] /\ NewInfo.ct = cTourist
  BY DEF NewInfo, ClientType
<1>3. NewApp \in App /\ NoQuery \in Query
  BY DEF NewApp, App, ClientType, NoQuery, Query
<1>4. TypeOK'
  BY <1>1, <1>2, <1>3 DEF Undefined, TypeOK, Topic
<1>5. SeatedUsersHaveTheirRoom' /\ OwnersOwnTheirRoom' /\ ClientKnowsItsSeat' /\ NewHasNoSeat'
  BY <1>2 DEF Undefined, users, SeatedUsersHaveTheirRoom, OwnersOwnTheirRoom,
              ClientKnowsItsSeat, NewHasNoSeat
<1>6. SubscriptionsMatchAudiences'
  BY <1>1 DEF Undefined, SubscriptionsMatchAudiences, Topic
<1>7. QED
  BY <1>4, <1>5, <1>6 DEF IInv

\* A query that is being made or read concerns none of the invariant but its type.
LEMMA QueryIsFree ==
    ASSUME IInv, query' \in [Client -> Query],
           UNCHANGED <<conn, info, connSub, topics, room, lastPub, app, server>>
    PROVE  IInv'
BY DEF IInv, TypeOK, SeatedUsersHaveTheirRoom, OwnersOwnTheirRoom, users,
       SubscriptionsMatchAudiences, ClientKnowsItsSeat, NewHasNoSeat

\* A client that is gone keeps an application and a query of their types.
LEMMA ClientGoneTypes ==
    ASSUME NEW c \in Client, ClientGone(c), app \in [Client -> App], query \in [Client -> Query]
    PROVE  /\ app' \in [Client -> App] /\ query' \in [Client -> Query]
           /\ \A d \in Client \ {c} : app'[d] = app[d]
<1>1. NewApp \in App /\ NoQuery \in Query
  BY DEF NewApp, App, ClientType, NoQuery, Query
<1>2. QED
  BY <1>1 DEF ClientGone

\* Whatever tunnel does during a GridInfo, its query is one.
LEMMA TornQueryType ==
    ASSUME NEW c \in Client, query \in [Client -> Query], NEW a \in App, NEW b \in App,
           NEW q \in WhileGridInfo(c, a, b)
    PROVE  q \in Query
<1>1. a.topic \in Topic \cup {NoTopic}
  BY DEF App
<1>2. CASE q = [at |-> "sent", owner |-> b.clientType_ = cOwner, topic |-> a.topic]
  BY <1>1, <1>2 DEF Query
<1>3. QED
  BY <1>2 DEF WhileGridInfo

\* A tourist takes a seat (new, getin, watch): the room is a new one of its own,
\* or one that exists and keeps its owner.
LEMMA SeatIsSound ==
    ASSUME IInv, NEW c \in Client, NEW t \in Topic, NEW r \in Room,
           NEW ct \in {cOwner, cRival, cSubscribe},
           Tourist(c), TakeSeat(c, ct, t), UNCHANGED <<lastPub, server>>,
           topics' = topics \cup {t},
           room' = [room EXCEPT ![t] = r],
           t \in topics => r.audiences = room[t].audiences \cup {c},
           t \notin topics => r.audiences = {c},
           t \in topics => r.owner = room[t].owner,
           ct = cOwner => t \notin topics /\ r.owner = c
    PROVE  IInv'
<1>1. /\ conn \in [Client -> {"new", "up", "closing", "down"}]
      /\ info \in [Client -> [ct : ClientType, topic : Topic \cup {NoTopic}]]
      /\ connSub \in [Client -> SUBSET Topic]
      /\ topics \in SUBSET Topic
      /\ room \in [Topic -> Room]
      /\ app \in [Client -> App]
      /\ query \in [Client -> Query]
  BY DEF IInv, TypeOK
<1>2. ct \in ClientType /\ ct # cTourist
  BY LobbyAssumption DEF ClientType
<1>3. /\ conn[c] = "up" /\ info[c].ct = cTourist
      /\ conn' \in [Client -> {"new", "up", "closing", "down"}]
      /\ conn'[c] \in {"up", "closing"}
      /\ \A d \in Client \ {c} : conn'[d] = conn[d]
  BY <1>1 DEF Tourist, TakeSeat
<1>4. /\ info' \in [Client -> [ct : ClientType, topic : Topic \cup {NoTopic}]]
      /\ info'[c].ct = ct /\ info'[c].topic = t
      /\ \A d \in Client \ {c} : info'[d] = info[d]
  BY <1>1, <1>2 DEF TakeSeat
<1>5. /\ connSub' \in [Client -> SUBSET Topic]
      /\ connSub'[c] = connSub[c] \cup {t}
      /\ \A d \in Client \ {c} : connSub'[d] = connSub[d]
  BY <1>1 DEF TakeSeat, Subscribe
<1>6. /\ room' \in [Topic -> Room]
      /\ room'[t] = r
      /\ \A u \in Topic \ {t} : room'[u] = room[u]
  BY <1>1 DEF Room
<1>7. /\ onGridInfo(app[c], ct, t) \in App
      /\ onGridInfo(app[c], ct, t).clientType_ = ct /\ onGridInfo(app[c], ct, t).topic = t
      /\ ct # cSubscribe => onGridInfo(app[c], ct, t).gameModel
  BY <1>1, <1>2 DEF onGridInfo, App
<1>8. /\ app' \in [Client -> App] /\ query' \in [Client -> Query]
      /\ \A d \in Client \ {c} : app'[d] = app[d]
      /\ conn'[c] = "up" => app'[c] = onGridInfo(app[c], ct, t)
  <2>1. CASE conn' = [conn EXCEPT ![c] = "closing"] /\ ClientGone(c)
    BY <1>1, <2>1, ClientGoneTypes
  <2>2. CASE /\ app' = [app EXCEPT ![c] = onGridInfo(@, ct, t)]
             /\ \E q \in WhileGridInfo(c, app[c], onGridInfo(app[c], ct, t)) :
                    query' = [query EXCEPT ![c] = q]
    BY <1>1, <1>7, <2>2, TornQueryType
  <2>3. QED
    BY <2>1, <2>2 DEF TakeSeat
<1>9. TypeOK'
  <2>1. lastPub' \in BOOLEAN /\ server' \in {"up", "undefined"} /\ topics' \in SUBSET Topic
    BY <1>1 DEF IInv, TypeOK
  <2>2. QED
    BY <2>1, <1>3, <1>4, <1>5, <1>6, <1>8 DEF TypeOK
<1>10. SeatedUsersHaveTheirRoom'
  <2>1. SUFFICES ASSUME NEW d \in Client, conn'[d] \in {"up", "closing"}, info'[d].ct # cTourist
                 PROVE  info'[d].topic \in topics' /\ d \in room'[info'[d].topic].audiences
    BY DEF SeatedUsersHaveTheirRoom, users
  <2>2. CASE d = c
    BY <2>2, <1>4, <1>6
  <2>3. CASE d # c
    <3>1. info[d].topic \in topics /\ d \in room[info[d].topic].audiences
      BY <2>1, <2>3, <1>3, <1>4 DEF IInv, SeatedUsersHaveTheirRoom, users
    <3>2. QED
      BY <2>3, <3>1, <1>1, <1>4, <1>6
  <2>4. QED
    BY <2>2, <2>3
<1>11. OwnersOwnTheirRoom'
  <2>1. SUFFICES ASSUME NEW d \in Client, conn'[d] \in {"up", "closing"}, info'[d].ct = cOwner
                 PROVE  room'[info'[d].topic].owner = d
    BY DEF OwnersOwnTheirRoom, users
  <2>2. CASE d = c
    BY <2>1, <2>2, <1>4, <1>6
  <2>3. CASE d # c
    <3>1. /\ info[d].topic \in topics /\ room[info[d].topic].owner = d
      BY <2>1, <2>3, <1>3, <1>4, LobbyAssumption
         DEF IInv, SeatedUsersHaveTheirRoom, OwnersOwnTheirRoom, users
    <3>2. QED
      BY <2>3, <3>1, <1>1, <1>4, <1>6
  <2>4. QED
    BY <2>2, <2>3
<1>12. SubscriptionsMatchAudiences'
  <2>1. SUFFICES ASSUME NEW d \in Client
                 PROVE  connSub'[d] = {u \in topics' : d \in room'[u].audiences}
    BY DEF SubscriptionsMatchAudiences
  <2>2. connSub[d] = {u \in topics : d \in room[u].audiences}
    BY DEF IInv, SubscriptionsMatchAudiences
  <2>3. \A u \in topics \ {t} : room'[u] = room[u]
    BY <1>1, <1>6
  <2>4. CASE d = c
    BY <2>2, <2>3, <2>4, <1>5, <1>6
  <2>5. CASE d # c
    BY <2>2, <2>3, <2>5, <1>5, <1>6
  <2>6. QED
    BY <2>4, <2>5
<1>13. ClientKnowsItsSeat'
  <2>1. SUFFICES ASSUME NEW d \in Client, conn'[d] = "up", info'[d].ct # cTourist
                 PROVE  /\ app'[d].clientType_ = info'[d].ct
                        /\ app'[d].topic = info'[d].topic
                        /\ info'[d].ct # cSubscribe => app'[d].gameModel
    BY DEF ClientKnowsItsSeat
  <2>2. CASE d = c
    BY <2>1, <2>2, <1>4, <1>7, <1>8
  <2>3. CASE d # c
    BY <2>1, <2>3, <1>3, <1>4, <1>8 DEF IInv, ClientKnowsItsSeat
  <2>4. QED
    BY <2>2, <2>3
<1>14. NewHasNoSeat'
  BY <1>3, <1>4 DEF IInv, NewHasNoSeat
<1>15. QED
  BY <1>9, <1>10, <1>11, <1>12, <1>13, <1>14 DEF IInv

\* A room is deleted (its owner quits or disconnects, or its game ends): its
\* audience loses its seats, and whatever happens to the clients' own state
\* happens to that audience.
LEMMA EraseIsSound ==
    ASSUME IInv, NEW t \in Topic, Erase(t), UNCHANGED server,
           conn' \in [Client -> {"new", "up", "closing", "down"}],
           \A d \in Client : conn'[d] = conn[d] \/ conn'[d] = "down",
           info' \in [Client -> [ct : ClientType, topic : Topic \cup {NoTopic}]],
           \A d \in Client : IF d \in room[t].audiences THEN info'[d].ct = cTourist
                                                         ELSE info'[d] = info[d],
           app' \in [Client -> App],
           \A d \in Client : d \notin room[t].audiences => app'[d] = app[d],
           query' \in [Client -> Query]
    PROVE  IInv'
<1>1. /\ connSub \in [Client -> SUBSET Topic]
      /\ topics \in SUBSET Topic
      /\ room \in [Topic -> Room]
      /\ lastPub \in BOOLEAN /\ server \in {"up", "undefined"}
  BY DEF IInv, TypeOK
<1>2. \A d \in Client : info'[d].ct # cTourist => d \notin room[t].audiences /\ info'[d] = info[d]
  OBVIOUS
<1>3. lastPub' \in BOOLEAN
  BY <1>1 DEF Erase
<1>4. /\ connSub' \in [Client -> SUBSET Topic]
      /\ \A d \in Client : connSub'[d] = IF d \in room[t].audiences THEN connSub[d] \ {t}
                                                                   ELSE connSub[d]
  BY <1>1 DEF Erase, Unsubscribed
<1>5. topics' = topics \ {t}
  BY DEF Erase
<1>6. NoRoom \in Room
  BY DEF NoRoom, Room
<1>7. /\ room' \in [Topic -> Room]
      /\ \A u \in Topic \ {t} : room'[u] = room[u]
  BY <1>1, <1>6 DEF Erase
<1>8. TypeOK'
  BY <1>1, <1>3, <1>4, <1>5, <1>7 DEF TypeOK
<1>9. ASSUME NEW d \in Client, conn'[d] \in {"up", "closing"}, info'[d].ct # cTourist
      PROVE  /\ d \in users /\ info'[d] = info[d] /\ info[d].ct # cTourist
             /\ info[d].topic \in topics \ {t}
             /\ d \in room[info[d].topic].audiences
             /\ room'[info[d].topic] = room[info[d].topic]
             /\ app'[d] = app[d]
  <2>1. d \notin room[t].audiences
    BY <1>2, <1>9
  <2>2. d \in users /\ info'[d] = info[d] /\ app'[d] = app[d]
    BY <1>2, <1>9, <2>1 DEF users
  <2>3. info[d].topic \in topics /\ d \in room[info[d].topic].audiences
    BY <1>9, <2>2 DEF IInv, SeatedUsersHaveTheirRoom
  <2>4. info[d].topic # t
    BY <2>1, <2>3
  <2>5. QED
    BY <1>1, <1>7, <1>9, <2>2, <2>3, <2>4
<1>10. SeatedUsersHaveTheirRoom'
  BY <1>5, <1>9 DEF SeatedUsersHaveTheirRoom, users
<1>11. OwnersOwnTheirRoom'
  <2>1. SUFFICES ASSUME NEW d \in Client, conn'[d] \in {"up", "closing"}, info'[d].ct = cOwner
                 PROVE  room'[info'[d].topic].owner = d
    BY DEF OwnersOwnTheirRoom, users
  <2>2. info'[d].ct # cTourist
    BY <2>1, LobbyAssumption
  <2>3. d \in users /\ info'[d] = info[d] /\ room'[info[d].topic] = room[info[d].topic]
    BY <1>9, <2>1, <2>2
  <2>4. room[info[d].topic].owner = d
    BY <2>1, <2>3 DEF IInv, OwnersOwnTheirRoom
  <2>5. QED
    BY <2>3, <2>4
<1>12. SubscriptionsMatchAudiences'
  <2>1. SUFFICES ASSUME NEW d \in Client
                 PROVE  connSub'[d] = {u \in topics' : d \in room'[u].audiences}
    BY DEF SubscriptionsMatchAudiences
  <2>2. connSub[d] = {u \in topics : d \in room[u].audiences}
    BY DEF IInv, SubscriptionsMatchAudiences
  <2>3. \A u \in topics' : room'[u] = room[u]
    BY <1>1, <1>5, <1>7
  <2>4. connSub'[d] = connSub[d] \ {t}
    BY <1>4, <2>2
  <2>5. QED
    BY <1>5, <2>2, <2>3, <2>4
<1>13. ClientKnowsItsSeat'
  BY <1>9 DEF IInv, ClientKnowsItsSeat
<1>14. NewHasNoSeat'
  BY <1>2 DEF IInv, NewHasNoSeat
<1>15. QED
  BY <1>8, <1>10, <1>11, <1>12, <1>13, <1>14 DEF IInv

\* A user leaves the audience of t, or only its rival's seat is emptied, or it
\* only stops being seated (quit, disconnect of a rival or a spectator): nobody
\* else is touched, and no room comes or goes.
LEMMA LeaveIsSound ==
    ASSUME IInv, NEW c \in Client, NEW t \in Topic, NEW S \in {{}, {c}}, NEW r \in Room,
           UNCHANGED <<topics, lastPub, server>>,
           conn' \in [Client -> {"new", "up", "closing", "down"}],
           \A d \in Client : conn'[d] = conn[d] \/ conn'[d] = "down",
           info' \in [Client -> [ct : ClientType, topic : Topic \cup {NoTopic}]],
           \A d \in Client \ {c} : info'[d] = info[d],
           info'[c].ct = cTourist,
           room' = [room EXCEPT ![t] = r],
           r.owner = room[t].owner,
           r.audiences = room[t].audiences \ S,
           connSub' = [d \in Client |-> IF d \in S THEN connSub[d] \ {t} ELSE connSub[d]],
           app' \in [Client -> App],
           \A d \in Client \ {c} : app'[d] = app[d],
           query' \in [Client -> Query]
    PROVE  IInv'
<1>1. /\ connSub \in [Client -> SUBSET Topic]
      /\ topics \in SUBSET Topic
      /\ room \in [Topic -> Room]
  BY DEF IInv, TypeOK
<1>2. /\ room' \in [Topic -> Room]
      /\ \A u \in Topic : /\ room'[u].owner = room[u].owner
                          /\ u # t => room'[u].audiences = room[u].audiences
      /\ room'[t].audiences = room[t].audiences \ S
  BY <1>1 DEF Room
<1>3. TypeOK'
  <2>1. connSub' \in [Client -> SUBSET Topic]
    BY <1>1
  <2>2. topics' \in SUBSET Topic /\ lastPub' \in BOOLEAN /\ server' \in {"up", "undefined"}
    BY DEF IInv, TypeOK
  <2>3. QED
    BY <1>2, <2>1, <2>2 DEF TypeOK
<1>4. ASSUME NEW d \in Client, conn'[d] \in {"up", "closing"}, info'[d].ct # cTourist
      PROVE  /\ d # c /\ d \in users /\ info'[d] = info[d] /\ app'[d] = app[d]
             /\ info[d].topic \in topics
             /\ d \in room[info[d].topic].audiences
             /\ d \in room'[info[d].topic].audiences
  <2>1. d # c
    BY <1>4
  <2>2. d \in users /\ info'[d] = info[d] /\ app'[d] = app[d]
    BY <1>4, <2>1 DEF users
  <2>3. info[d].topic \in topics /\ d \in room[info[d].topic].audiences
    BY <1>4, <2>2 DEF IInv, SeatedUsersHaveTheirRoom
  <2>4. d \in room'[info[d].topic].audiences
    BY <1>1, <1>2, <2>1, <2>3
  <2>5. QED
    BY <2>1, <2>2, <2>3, <2>4
<1>5. SeatedUsersHaveTheirRoom'
  BY <1>4 DEF SeatedUsersHaveTheirRoom, users
<1>6. OwnersOwnTheirRoom'
  <2>1. SUFFICES ASSUME NEW d \in Client, conn'[d] \in {"up", "closing"}, info'[d].ct = cOwner
                 PROVE  room'[info'[d].topic].owner = d
    BY DEF OwnersOwnTheirRoom, users
  <2>2. info'[d].ct # cTourist
    BY <2>1, LobbyAssumption
  <2>3. d \in users /\ info'[d] = info[d] /\ info[d].topic \in Topic
    BY <1>1, <1>4, <2>1, <2>2
  <2>4. room[info[d].topic].owner = d
    BY <2>1, <2>3 DEF IInv, OwnersOwnTheirRoom
  <2>5. QED
    BY <1>2, <2>3, <2>4
<1>7. SubscriptionsMatchAudiences'
  <2>1. SUFFICES ASSUME NEW d \in Client
                 PROVE  connSub'[d] = {u \in topics : d \in room'[u].audiences}
    BY DEF SubscriptionsMatchAudiences
  <2>2. connSub[d] = {u \in topics : d \in room[u].audiences}
    BY DEF IInv, SubscriptionsMatchAudiences
  <2>3. \A u \in topics : d \in room'[u].audiences <=>
                          d \in room[u].audiences /\ ~ (u = t /\ d \in S)
    BY <1>1, <1>2
  <2>4. QED
    BY <2>2, <2>3
<1>8. ClientKnowsItsSeat'
  BY <1>4 DEF IInv, ClientKnowsItsSeat
<1>9. NewHasNoSeat'
  <2>1. ASSUME NEW d \in Client, conn'[d] = "new" PROVE info'[d].ct = cTourist
    BY <2>1 DEF IInv, NewHasNoSeat
  <2>2. QED
    BY <2>1 DEF NewHasNoSeat
<1>10. QED
  BY <1>3, <1>5, <1>6, <1>7, <1>8, <1>9 DEF IInv

--------------------------------------------------------------------------------
(* The handlers.                                                               *)

\* The values kept for a missing room.
LEMMA NoRoomType == NoRoom \in Room
BY DEF NoRoom, Room

\* What the methods of Topic return.
LEMMA RoomMethods ==
    ASSUME NEW r \in Room, NEW c \in Client
    PROVE  /\ add(r, c) \in Room /\ add(r, c).audiences = r.audiences \cup {c}
           /\ add(r, c).owner = r.owner
           /\ remove(r, c) \in Room /\ remove(r, c).audiences = r.audiences \ {c}
           /\ remove(r, c).owner = r.owner
           /\ setRival(r, c) \in Room /\ setRival(r, c).audiences = r.audiences
           /\ setRival(r, c).owner = r.owner
           /\ setRivalEmpty(r) \in Room /\ setRivalEmpty(r).audiences = r.audiences
           /\ setRivalEmpty(r).owner = r.owner
           /\ NewRoom(c) \in Room /\ NewRoom(c).owner = c /\ NewRoom(c).audiences = {}
BY DEF Room, add, remove, setRival, setRivalEmpty, NewRoom, NoRoom

\* Taking a seat preserves the invariant.
LEMMA NewPreserves ==
    ASSUME IInv, NEW c \in Client, NEW t \in Topic, New(c, t)
    PROVE  IInv'
<1> DEFINE q == NewRoom(c)
           r == add(q, c)
<1>0. q \in Room /\ q.owner = c /\ q.audiences = {}
  BY NoRoomType, RoomMethods
<1>1. r \in Room /\ r.audiences = {c} /\ r.owner = c
  <2> HIDE DEF q
  <2>1. QED
    BY <1>0, RoomMethods
<1>2. t \notin topics /\ topics' = topics \cup {t} /\ Tourist(c) /\ TakeSeat(c, cOwner, t)
      /\ room' = [room EXCEPT ![t] = r] /\ UNCHANGED <<lastPub, server>>
  BY DEF New, Creatable
<1>3. QED
  BY <1>1, <1>2, SeatIsSound

LEMMA GetinPreserves ==
    ASSUME IInv, NEW c \in Client, NEW t \in Topic, Getin(c, t)
    PROVE  IInv'
<1> DEFINE q == setRival(room[t], c)
           r == add(q, c)
<1>1. room[t] \in Room /\ topics \in SUBSET Topic
  BY DEF IInv, TypeOK
<1>0. q \in Room /\ q.audiences = room[t].audiences /\ q.owner = room[t].owner
  BY <1>1 DEF setRival, Room
<1>2. r \in Room /\ r.audiences = room[t].audiences \cup {c} /\ r.owner = room[t].owner
  <2> HIDE DEF q
  <2>0. q \in Room
    BY <1>0
  <2>1. /\ add(q, c) \in Room /\ add(q, c).audiences = q.audiences \cup {c}
        /\ add(q, c).owner = q.owner
    BY <2>0, RoomMethods
  <2>2. QED
    BY <1>0, <2>1
<1>3. t \in topics /\ topics' = topics \cup {t} /\ Tourist(c) /\ TakeSeat(c, cRival, t)
      /\ room' = [room EXCEPT ![t] = r] /\ UNCHANGED <<lastPub, server>>
  BY DEF Getin
<1>4. QED
  BY <1>2, <1>3, LobbyAssumption, SeatIsSound

LEMMA WatchPreserves ==
    ASSUME IInv, NEW c \in Client, NEW t \in Topic, Watch(c, t)
    PROVE  IInv'
<1> DEFINE r == add(room[t], c)
<1>1. room[t] \in Room /\ topics \in SUBSET Topic
  BY DEF IInv, TypeOK
<1>2. r \in Room /\ r.audiences = room[t].audiences \cup {c} /\ r.owner = room[t].owner
  BY <1>1, RoomMethods
<1>3. t \in topics /\ topics' = topics \cup {t} /\ Tourist(c) /\ TakeSeat(c, cSubscribe, t)
      /\ room' = [room EXCEPT ![t] = r] /\ UNCHANGED <<lastPub, server>>
  BY DEF Watch
<1>4. QED
  BY <1>2, <1>3, LobbyAssumption, SeatIsSound

\* Whoever is connected and owns a room hears what is published there.
LEMMA OwnersRoom ==
    ASSUME IInv, NEW c \in users, info[c].ct = cOwner
    PROVE  info[c].topic \in Topic /\ c \in room[info[c].topic].audiences
<1>1. c \in Client /\ info[c].ct # cTourist
  BY LobbyAssumption DEF users
<1>2. info[c].topic \in topics /\ c \in room[info[c].topic].audiences
  BY <1>1 DEF IInv, SeatedUsersHaveTheirRoom
<1>3. QED
  BY <1>2 DEF IInv, TypeOK

\* Evict makes tourists of the audience and of nobody else.
LEMMA EvictUnseats ==
    ASSUME NEW t \in Topic, info \in [Client -> [ct : ClientType, topic : Topic \cup {NoTopic}]]
    PROVE  /\ Evict(t) \in [Client -> [ct : ClientType, topic : Topic \cup {NoTopic}]]
           /\ \A d \in Client : IF d \in room[t].audiences THEN Evict(t)[d].ct = cTourist
                                                         ELSE Evict(t)[d] = info[d]
BY DEF Evict, ClientType

\* "quit" preserves the invariant, whoever sends it and whatever it names.
LEMMA QuitPreserves ==
    ASSUME IInv, NEW c \in Client, NEW t \in Topic \cup {NoTopic}, Quit(c, t)
    PROVE  IInv'
<1>1. /\ conn \in [Client -> {"new", "up", "closing", "down"}]
      /\ info \in [Client -> [ct : ClientType, topic : Topic \cup {NoTopic}]]
      /\ connSub \in [Client -> SUBSET Topic]
      /\ topics \in SUBSET Topic
      /\ room \in [Topic -> Room]
      /\ app \in [Client -> App]
      /\ query \in [Client -> Query]
  BY DEF IInv, TypeOK
<1>2. conn[c] = "up" /\ c \in users /\ UNCHANGED <<conn, query, server>>
  BY DEF Quit, users
<1>3. cTourist \in ClientType
  BY DEF ClientType
<1>4. CASE QuitSeat(c, t)
  <2> DEFINE q == setRivalEmpty(room[t])
             r == remove(q, c)
  <2>1. info[c].ct # cTourist /\ t = info[c].topic
    BY <1>4, LobbyAssumption DEF QuitSeat
  <2>2. t \in Topic
    BY <1>1, <1>2, <2>1 DEF IInv, SeatedUsersHaveTheirRoom
  <2>3. r \in Room /\ r.owner = room[t].owner /\ r.audiences = room[t].audiences \ {c}
    <3>1. q \in Room /\ q.owner = room[t].owner /\ q.audiences = room[t].audiences
      BY <1>1, <2>2, RoomMethods
    <3> HIDE DEF q
    <3>0. q \in Room
      BY <3>1
    <3>2. /\ remove(q, c) \in Room /\ remove(q, c).audiences = q.audiences \ {c}
          /\ remove(q, c).owner = q.owner
      BY <3>0, RoomMethods
    <3>3. QED
      BY <3>1, <3>2
  <2>4. /\ info' \in [Client -> [ct : ClientType, topic : Topic \cup {NoTopic}]]
        /\ info'[c].ct = cTourist /\ \A d \in Client \ {c} : info'[d] = info[d]
    BY <1>1, <1>3, <1>4 DEF QuitSeat
  <2>5. app' \in [Client -> App] /\ \A d \in Client \ {c} : app'[d] = app[d]
    BY <1>1, <1>3, <1>4 DEF QuitSeat, onSystemAns, App
  <2>6. connSub' = [d \in Client |-> IF d \in {c} THEN connSub[d] \ {t} ELSE connSub[d]]
    BY <1>1, <1>4 DEF QuitSeat
  <2>7. room' = [room EXCEPT ![t] = r] /\ UNCHANGED <<topics, lastPub>>
    BY <1>4 DEF QuitSeat
  <2>8. QED
    BY <1>1, <1>2, <2>2, <2>3, <2>4, <2>5, <2>6, <2>7, LeaveIsSound
<1>5. CASE QuitError(c, t)
  <2>1. /\ info' \in [Client -> [ct : ClientType, topic : Topic \cup {NoTopic}]]
        /\ info'[c].ct = cTourist /\ \A d \in Client \ {c} : info'[d] = info[d]
    BY <1>1, <1>3, <1>5 DEF QuitError
  <2>2. UtcTime \in Topic /\ room[UtcTime] \in Room
    BY <1>1 DEF Topic
  <2>3. room' = [room EXCEPT ![UtcTime] = room[UtcTime]]
    BY <1>1, <1>5 DEF QuitError
  <2>4. connSub' = [d \in Client |-> IF d \in {} THEN connSub[d] \ {UtcTime} ELSE connSub[d]]
    BY <1>1, <1>5 DEF QuitError
  <2>5. UNCHANGED <<topics, lastPub, app>>
    BY <1>5 DEF QuitError
  <2>6. QED
    BY <1>1, <1>2, <2>1, <2>2, <2>3, <2>4, <2>5, LeaveIsSound
<1>6. CASE QuitRoom(c)
  <2> DEFINE u == info[c].topic
  <2>1. u \in Topic /\ c \in room[u].audiences
    BY <1>2, <1>6, OwnersRoom DEF QuitRoom
  <2>2. /\ info' \in [Client -> [ct : ClientType, topic : Topic \cup {NoTopic}]]
        /\ \A d \in Client : IF d \in room[u].audiences THEN info'[d].ct = cTourist
                                                      ELSE info'[d] = info[d]
    <3> DEFINE e == Evict(u)
    <3>1. /\ e \in [Client -> [ct : ClientType, topic : Topic \cup {NoTopic}]]
          /\ \A d \in Client : IF d \in room[u].audiences THEN e[d].ct = cTourist
                                                        ELSE e[d] = info[d]
      BY <1>1, <2>1, EvictUnseats
    <3>2. info' = [e EXCEPT ![c].ct = cTourist]
      BY <1>6 DEF QuitRoom
    <3> HIDE DEF e
    <3>3. QED
      BY <1>3, <2>1, <3>1, <3>2
  <2>3. Erase(u) /\ UNCHANGED app
    BY <1>6 DEF QuitRoom
  <2>4. QED
    BY <1>1, <1>2, <2>1, <2>2, <2>3, EraseIsSound
<1>7. QED
  BY <1>4, <1>5, <1>6 DEF Quit

\* A query about the board preserves the invariant: the owner runs out of moves,
\* the game ends, or the server does.
LEMMA BoardQueryPreserves ==
    ASSUME IInv, NEW c \in Client, onboardQuery(c)
    PROVE  IInv'
<1> DEFINE t == query[c].topic
<1>1. /\ conn \in [Client -> {"new", "up", "closing", "down"}]
      /\ info \in [Client -> [ct : ClientType, topic : Topic \cup {NoTopic}]]
      /\ topics \in SUBSET Topic
      /\ room \in [Topic -> Room]
      /\ app \in [Client -> App]
      /\ query \in [Client -> Query]
  BY DEF IInv, TypeOK
<1>2. CASE Undefined
  BY <1>2, UndefinedIsSound
<1>3. ASSUME t \in topics, query' = [query EXCEPT ![c] = NoQuery]
      PROVE  t \in Topic /\ query' \in [Client -> Query]
  BY <1>1, <1>3 DEF NoQuery, Query
<1>4. CASE /\ t \in topics /\ query' = [query EXCEPT ![c] = NoQuery]
           /\ UNCHANGED <<conn, info, connSub, topics, room, lastPub, app, server>>
  BY <1>3, <1>4, QueryIsFree
<1>5. CASE t \in topics /\ query' = [query EXCEPT ![c] = NoQuery] /\ OwnerOutOfMoves(t)
  <2>1. t \in Topic /\ query' \in [Client -> Query]
    BY <1>3, <1>5
  <2>2. UNCHANGED <<conn, info, connSub, topics, lastPub, app, server>>
    BY <1>5 DEF OwnerOutOfMoves
  <2>3. /\ room' \in [Topic -> Room]
        /\ \A u \in Topic : /\ room'[u].owner = room[u].owner
                            /\ room'[u].audiences = room[u].audiences
    <3>1. room \in [Topic -> Room] /\ t \in Topic
      BY <1>1, <2>1
    <3>2. room' = [room EXCEPT ![t].ownerCanMove = FALSE]
      BY <1>5 DEF OwnerOutOfMoves
    <3> HIDE DEF t
    <3>3. room' \in [Topic -> Room]
      BY <3>1, <3>2 DEF Room
    <3>4. \A u \in Topic : /\ room'[u].owner = room[u].owner
                          /\ room'[u].audiences = room[u].audiences
      BY <3>1, <3>2 DEF Room
    <3>5. QED
      BY <3>3, <3>4
  <2>4. TypeOK' /\ ClientKnowsItsSeat' /\ NewHasNoSeat'
    BY <2>1, <2>2, <2>3 DEF IInv, TypeOK, ClientKnowsItsSeat, NewHasNoSeat
  <2>5. SeatedUsersHaveTheirRoom'
    BY <1>1, <2>2, <2>3 DEF IInv, SeatedUsersHaveTheirRoom, users
  <2>6. OwnersOwnTheirRoom'
    <3>1. \A d \in users : info[d].ct = cOwner => info[d].topic \in Topic
      BY OwnersRoom
    <3>2. QED
      BY <2>2, <2>3, <3>1 DEF IInv, OwnersOwnTheirRoom, users
  <2>7. SubscriptionsMatchAudiences'
    BY <1>1, <2>2, <2>3 DEF IInv, SubscriptionsMatchAudiences
  <2>8. QED
    BY <2>4, <2>5, <2>6, <2>7 DEF IInv
<1>6. CASE t \in topics /\ query' = [query EXCEPT ![c] = NoQuery] /\ GameOver(t)
  <2>1. t \in Topic /\ query' \in [Client -> Query]
    BY <1>3, <1>6
  <2>2. /\ app' \in [Client -> App]
        /\ \A d \in Client : d \notin room[t].audiences => app'[d] = app[d]
    BY <1>1, <1>6 DEF GameOver, onFinalInfo, App, ClientType
  <2>3. info' = Evict(t) /\ Erase(t) /\ UNCHANGED <<conn, server>>
    BY <1>6 DEF GameOver
  <2>4. QED
    BY <1>1, <2>1, <2>2, <2>3, EvictUnseats, EraseIsSound
<1>7. QED
  BY <1>2, <1>4, <1>5, <1>6 DEF onboardQuery

\* A disconnection preserves the invariant.
LEMMA DisconnectPreserves ==
    ASSUME IInv, NEW c \in Client, Disconnect(c)
    PROVE  IInv'
<1> DEFINE t == info[c].topic
           Gone(i) == info' = [i EXCEPT ![c] = NewInfo]
<1>1. /\ conn \in [Client -> {"new", "up", "closing", "down"}]
      /\ info \in [Client -> [ct : ClientType, topic : Topic \cup {NoTopic}]]
      /\ connSub \in [Client -> SUBSET Topic]
      /\ topics \in SUBSET Topic
      /\ room \in [Topic -> Room]
      /\ app \in [Client -> App] /\ query \in [Client -> Query]
  BY DEF IInv, TypeOK
<1>2. /\ c \in users /\ UNCHANGED server
      /\ conn' \in [Client -> {"new", "up", "closing", "down"}] /\ conn'[c] = "down"
      /\ \A d \in Client \ {c} : conn'[d] = conn[d]
  BY <1>1 DEF Disconnect
<1>3. /\ app' \in [Client -> App] /\ query' \in [Client -> Query]
      /\ \A d \in Client \ {c} : app'[d] = app[d]
  BY <1>1, ClientGoneTypes DEF Disconnect
<1>4. NewInfo \in [ct : ClientType, topic : Topic \cup {NoTopic}] /\ NewInfo.ct = cTourist
  BY DEF NewInfo, ClientType
<1>5. ASSUME Gone(info)
      PROVE  /\ info' \in [Client -> [ct : ClientType, topic : Topic \cup {NoTopic}]]
             /\ info'[c].ct = cTourist /\ \A d \in Client \ {c} : info'[d] = info[d]
  BY <1>1, <1>4, <1>5
<1>6. ASSUME info[c].ct # cTourist
      PROVE  t \in Topic
  BY <1>1, <1>2, <1>6 DEF IInv, SeatedUsersHaveTheirRoom
<1>7. CASE info[c].ct = cOwner /\ Gone(Evict(t)) /\ Erase(t)
  <2>1. t \in Topic /\ c \in room[t].audiences
    BY <1>2, <1>7, OwnersRoom
  <2>2. /\ info' \in [Client -> [ct : ClientType, topic : Topic \cup {NoTopic}]]
        /\ \A d \in Client : IF d \in room[t].audiences THEN info'[d].ct = cTourist
                                                      ELSE info'[d] = info[d]
    BY <1>1, <1>4, <1>7, <2>1, EvictUnseats
  <2>3. QED
    BY <1>2, <1>3, <1>7, <2>1, <2>2, EraseIsSound
<1>8. CASE /\ info[c].ct = cRival
           /\ Gone(info)
           /\ room' = [room EXCEPT ![t] = setRivalEmpty(@)]
           /\ UNCHANGED <<connSub, topics, lastPub>>
  <2> DEFINE r == setRivalEmpty(room[t])
  <2>1. t \in Topic
    BY <1>6, <1>8, LobbyAssumption
  <2>2. r \in Room /\ r.owner = room[t].owner /\ r.audiences = room[t].audiences \ {}
    BY <1>1, <2>1 DEF setRivalEmpty, Room
  <2>3. connSub' = [d \in Client |-> IF d \in {} THEN connSub[d] \ {t} ELSE connSub[d]]
    BY <1>1, <1>8
  <2>4. QED
    BY <1>1, <1>2, <1>3, <1>5, <1>8, <2>1, <2>2, <2>3, LeaveIsSound
<1>9. CASE /\ info[c].ct = cSubscribe
           /\ Gone(info)
           /\ room' = [room EXCEPT ![t] = remove(@, c)]
           /\ connSub' = [connSub EXCEPT ![c] = @ \ {t}]
           /\ UNCHANGED <<topics, lastPub>>
  <2> DEFINE r == remove(room[t], c)
  <2>1. t \in Topic
    BY <1>6, <1>9, LobbyAssumption
  <2>2. r \in Room /\ r.owner = room[t].owner /\ r.audiences = room[t].audiences \ {c}
    BY <1>1, <2>1 DEF remove, Room
  <2>3. connSub' = [d \in Client |-> IF d \in {c} THEN connSub[d] \ {t} ELSE connSub[d]]
    BY <1>1, <1>9
  <2>4. room' = [room EXCEPT ![t] = r] /\ UNCHANGED <<topics, lastPub, server>>
    BY <1>2, <1>9
  <2>5. /\ info' \in [Client -> [ct : ClientType, topic : Topic \cup {NoTopic}]]
        /\ info'[c].ct = cTourist /\ \A d \in Client \ {c} : info'[d] = info[d]
    BY <1>5, <1>9
  <2> HIDE DEF r
  <2>6. QED
    BY <1>2, <1>3, <2>1, <2>2, <2>3, <2>4, <2>5, LeaveIsSound
<1>10. CASE info[c].ct = cTourist /\ Gone(info) /\ UNCHANGED <<connSub, topics, room, lastPub>>
  <2>1. UtcTime \in Topic /\ room[UtcTime] \in Room
    BY <1>1 DEF Topic
  <2>2. room' = [room EXCEPT ![UtcTime] = room[UtcTime]]
    BY <1>1, <1>10
  <2>3. connSub' = [d \in Client |-> IF d \in {} THEN connSub[d] \ {UtcTime} ELSE connSub[d]]
    BY <1>1, <1>10
  <2>4. room[UtcTime].audiences = room[UtcTime].audiences \ {}
    OBVIOUS
  <2>5. /\ info' \in [Client -> [ct : ClientType, topic : Topic \cup {NoTopic}]]
        /\ info'[c].ct = cTourist /\ \A d \in Client \ {c} : info'[d] = info[d]
        /\ UNCHANGED <<topics, lastPub, server>>
    BY <1>2, <1>5, <1>10
  <2>6. QED
    BY <1>2, <1>3, <2>1, <2>2, <2>3, <2>4, <2>5, LeaveIsSound
<1>11. QED
  BY <1>7, <1>8, <1>9, <1>10 DEF Disconnect, removeUser

\* A new connection preserves the invariant.
LEMMA ConnectPreserves ==
    ASSUME IInv, NEW c \in Client, Connect(c)
    PROVE  IInv'
<1>1. /\ conn[c] = "new" /\ conn' = [conn EXCEPT ![c] = "up"]
      /\ UNCHANGED <<info, connSub, topics, room, lastPub, app, query, server>>
  BY DEF Connect
<1>2. info[c].ct = cTourist
  BY <1>1 DEF IInv, NewHasNoSeat
<1>3. \A d \in Client : conn'[d] = IF d = c THEN "up" ELSE conn[d]
  BY <1>1 DEF IInv, TypeOK
<1>4. TypeOK' /\ SubscriptionsMatchAudiences'
  BY <1>1 DEF IInv, TypeOK, SubscriptionsMatchAudiences
<1>5. SeatedUsersHaveTheirRoom' /\ ClientKnowsItsSeat' /\ NewHasNoSeat'
  BY <1>1, <1>2, <1>3 DEF IInv, SeatedUsersHaveTheirRoom, ClientKnowsItsSeat, NewHasNoSeat, users
<1>6. OwnersOwnTheirRoom'
  BY <1>1, <1>2, <1>3, LobbyAssumption DEF IInv, OwnersOwnTheirRoom, users
<1>7. QED
  BY <1>4, <1>5, <1>6 DEF IInv

\* So does a client that makes a query.
LEMMA TunnelPreserves ==
    ASSUME IInv, NEW c \in Client, TunnelBegins(c) \/ set_type(c) \/ set_topic(c)
    PROVE  IInv'
<1>1. query \in [Client -> Query] /\ app[c] \in App /\ query[c] \in Query
  BY DEF IInv, TypeOK
<1>2. UNCHANGED <<conn, info, connSub, topics, room, lastPub, app, server>>
  BY DEF TunnelBegins, set_type, set_topic
<1>3. CASE TunnelBegins(c)
  BY <1>1, <1>2, <1>3, QueryIsFree DEF TunnelBegins, Query
<1>4. CASE set_type(c)
  <2> DEFINE o == app[c].clientType_ = cOwner
  <2>1. o \in BOOLEAN
    OBVIOUS
  <2>2. query' = [query EXCEPT ![c].at = "typed", ![c].owner = o]
    BY <1>4 DEF set_type
  <2> HIDE DEF o
  <2>3. query' \in [Client -> Query]
    BY <1>1, <2>1, <2>2 DEF Query
  <2>4. QED
    BY <1>2, <2>3, QueryIsFree
<1>5. CASE set_topic(c)
  <2>1. app[c].topic \in Topic \cup {NoTopic}
    BY <1>1 DEF App
  <2>2. query' \in [Client -> Query]
    BY <1>1, <1>5, <2>1 DEF set_topic, Query
  <2>3. QED
    BY <1>2, <2>2, QueryIsFree
<1>6. QED
  BY <1>3, <1>4, <1>5

\* Every step preserves the invariant.
LEMMA StepPreserves == IInv /\ [Next]_vars => IInv'
<1> SUFFICES ASSUME IInv, [Next]_vars PROVE IInv'
  OBVIOUS
<1>1. query \in [Client -> Query] /\ lastPub \in BOOLEAN
  BY DEF IInv, TypeOK
<1>2. CASE UNCHANGED vars
  BY <1>1, <1>2, QueryIsFree DEF vars
<1>3. CASE timePublish
  <2>1. CASE /\ lastPub' = TRUE
             /\ UNCHANGED <<conn, info, connSub, topics, room, app, query, server>>
    BY <2>1 DEF IInv, TypeOK, SeatedUsersHaveTheirRoom, OwnersOwnTheirRoom, users,
                SubscriptionsMatchAudiences, ClientKnowsItsSeat, NewHasNoSeat
  <2>2. QED
    BY <1>3, <2>1, UndefinedIsSound DEF timePublish
<1>4. ASSUME NEW c \in Client, onQuery(c)
      PROVE  IInv'
  <2>1. ASSUME NEW t \in Topic, UnknownRoom(c, t) PROVE IInv'
    BY <2>1, UndefinedIsSound DEF UnknownRoom
  <2>2. QED
    BY <1>4, <2>1, NewPreserves, GetinPreserves, WatchPreserves, QuitPreserves DEF onQuery
<1>5. QED
  BY <1>2, <1>3, <1>4, ConnectPreserves, DisconnectPreserves, BoardQueryPreserves,
     TunnelPreserves DEF Next

\* The inductive invariant holds in every state of every run.
THEOREM Invariance == Spec => []IInv
BY InitEstablishes, StepPreserves, PTL DEF Spec

--------------------------------------------------------------------------------
(* The invariants the runs check, for any number of connections and rooms.     *)

\* Every variable keeps its type.
THEOREM TypeCorrect == Spec => []TypeOK
<1>1. IInv => TypeOK
  BY DEF IInv
<1>2. QED
  BY <1>1, Invariance, PTL

\* getTopic(user.getTopic()) finds a room whenever a handler calls it for a user
\* with a seat, and that user hears what is published there.
THEOREM SeatsAreReal == Spec => []SeatedUsersHaveTheirRoom
<1>1. IInv => SeatedUsersHaveTheirRoom
  BY DEF IInv
<1>2. QED
  BY <1>1, Invariance, PTL

\* "quit" and a disconnection of an owner delete the room that owner created.
THEOREM OwnersDeleteTheirOwn == Spec => []OwnersOwnTheirRoom
<1>1. IInv => OwnersOwnTheirRoom
  BY DEF IInv
<1>2. QED
  BY <1>1, Invariance, PTL

\* Topic::audiences_ and the ConnectionSubscription sets never disagree.
THEOREM SubscriptionsAgree == Spec => []SubscriptionsMatchAudiences
<1>1. IInv => SubscriptionsMatchAudiences
  BY DEF IInv
<1>2. QED
  BY <1>1, Invariance, PTL

\* A client whose user has a seat shows that seat and can play it.
THEOREM SeatsAreShown == Spec => []ClientKnowsItsSeat
<1>1. IInv => ClientKnowsItsSeat
  BY DEF IInv
<1>2. QED
  BY <1>1, Invariance, PTL

================================================================================
