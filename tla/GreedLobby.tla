------------------------------- MODULE GreedLobby ------------------------------
(***************************************************************************)
(* The rooms and users of class GreedServer: its maps topics_ and users_,  *)
(* the ClientInfo of each user, the subscription set each connection       *)
(* carries, and every handler that changes them (onConnection, onQuery,    *)
(* onboardQuery, timePublish).  The server runs one event loop, so a       *)
(* handler is one atomic step.                                             *)
(*                                                                         *)
(* Of a client (PubsubClient) the module keeps the three fields that       *)
(* decide which boardQuery it sends.  An answer is handled as soon as it   *)
(* is sent, but tunnel runs in another thread than the callbacks, and puts *)
(* its query together from a role and a room read one after the other,     *)
(* while a GridInfo writes them one after the other.  The server handles   *)
(* the query whenever it comes to it.  Of a game (GreedGame) the module    *)
(* keeps whether the owner has run out of moves, which decides whose query *)
(* can end it.                                                             *)
(***************************************************************************)

CONSTANTS
    Client,     \* connections, by name; a name is never used again
    RoomName,   \* the names users give to rooms
    UtcTime,    \* "utc_time", the room the server opens for itself
    NoTopic,    \* the empty string, as a topic
    Root,       \* "root", the owner of UtcTime
    Nobody,     \* the empty string, as a connection name
    cTourist, cOwner, cRival, cSubscribe   \* enum clientType

ASSUME LobbyAssumption ==
    /\ UtcTime \notin RoomName
    /\ NoTopic \notin RoomName \cup {UtcTime}
    /\ {Root, Nobody} \cap Client = {} /\ Root # Nobody
    /\ cTourist \notin {cOwner, cRival, cSubscribe}
    /\ cOwner \notin {cRival, cSubscribe} /\ cRival # cSubscribe

VARIABLES
    conn,      \* TcpConnection: "new", "up", "closing" (by the client) or "down"
    info,      \* ClientInfo: ct_ and topic_
    connSub,   \* ConnectionSubscription: the topics a connection listens to
    topics,    \* the keys of topics_
    room,      \* Topic: onwer_, rival_, audiences_, ownerCanMove
    lastPub,   \* UtcTime's lastPubTime_ is valid
    app,       \* PubsubClient: clientType_, topic, gameModel
    query,     \* the boardQuery that PubsubClient::tunnel makes, or that is under way
    server     \* "up", or "undefined" once it has used a room that is not there

vars == <<conn, info, connSub, topics, room, lastPub, app, query, server>>

ClientType == {cTourist, cOwner, cRival, cSubscribe}
Topic      == RoomName \cup {UtcTime}

Room == [owner : Client \cup {Root, Nobody}, rival : Client \cup {Nobody},
         audiences : SUBSET Client, ownerCanMove : BOOLEAN]
App  == [clientType_ : ClientType, topic : Topic \cup {NoTopic}, gameModel : BOOLEAN]

\* tunnel is not running, has looked at gameModel, or has taken the query's role; or
\* the query is on its way.  Of the role the server asks no more than whether it is
\* cOwner.
Query   == [at : {"none", "begun", "typed", "sent"}, owner : BOOLEAN, topic : Topic \cup {NoTopic}]
NoQuery == [at |-> "none", owner |-> FALSE, topic |-> NoTopic]

NewInfo == [ct |-> cTourist, topic |-> NoTopic]
NewApp  == [clientType_ |-> cTourist, topic |-> NoTopic, gameModel |-> FALSE]

\* The values kept for a name that is no key of topics_, and for a new Topic.
NoRoom     == [owner |-> Nobody, rival |-> Nobody, audiences |-> {}, ownerCanMove |-> TRUE]
NewRoom(o) == [NoRoom EXCEPT !.owner = o]

\* The methods of Topic that change one, on the record of a room.
add(r, c)        == [r EXCEPT !.audiences = @ \cup {c}]
remove(r, c)     == [r EXCEPT !.audiences = @ \ {c}]
setRival(r, c)   == [r EXCEPT !.rival = c]
setRivalEmpty(r) == [r EXCEPT !.rival = Nobody]

\* The keys of users_.
users == {c \in Client : conn[c] \in {"up", "closing"}}

NewRooms == [t \in Topic |-> IF t = UtcTime THEN NewRoom(Root) ELSE NoRoom]

Init ==
    /\ conn = [c \in Client |-> "new"]
    /\ info = [c \in Client |-> NewInfo]
    /\ connSub = [c \in Client |-> {}]
    /\ topics = {UtcTime} /\ room = NewRooms
    /\ lastPub = FALSE
    /\ app = [c \in Client |-> NewApp]
    /\ query = [c \in Client |-> NoQuery]
    /\ server = "up"

--------------------------------------------------------------------------------
(* The client: what its callbacks do to the record a of its state.             *)

\* A GridInfo tells it its seat; only a player's puts it into game model, and a
\* spectator's does not take it out.
onGridInfo(a, ct, t) ==
    [clientType_ |-> ct, topic |-> t, gameModel |-> a.gameModel \/ ct \in {cOwner, cRival}]

\* The SystemAns QUIT_CURRENT.  No other, the one of a deleted room included,
\* changes more than the screen.
onSystemAns(a) == [a EXCEPT !.clientType_ = cTourist]

onFinalInfo(a) == [a EXCEPT !.clientType_ = cTourist, !.gameModel = FALSE]

\* tunnel, on a key in game model.  That it also asks for a movable piece, and a
\* player for its turn, depends on the board.
TunnelBegins(c) ==
    /\ conn[c] = "up" /\ app[c].gameModel
    /\ query[c].at = "none"
    /\ query' = [query EXCEPT ![c].at = "begun"]
    /\ UNCHANGED <<conn, info, connSub, topics, room, lastPub, app, server>>

set_type(c) ==
    /\ query[c].at = "begun"
    /\ query' = [query EXCEPT ![c].at = "typed", ![c].owner = app[c].clientType_ = cOwner]
    /\ UNCHANGED <<conn, info, connSub, topics, room, lastPub, app, server>>

set_topic(c) ==
    /\ query[c].at = "typed"
    /\ query' = [query EXCEPT ![c].at = "sent", ![c].topic = app[c].topic]
    /\ UNCHANGED <<conn, info, connSub, topics, room, lastPub, app, server>>

\* What becomes of c's query while a GridInfo changes the client from a to b, which
\* writes the role first and the room afterwards: nothing; or tunnel takes both of them
\* between the two.  Whatever else it takes, it might as well have taken before or after.
WhileGridInfo(c, a, b) ==
    {query[c]}
    \cup {q \in {[at |-> "sent", owner |-> b.clientType_ = cOwner, topic |-> a.topic]} :
              query[c].at = "begun" \/ (query[c].at = "none" /\ b.gameModel)}

--------------------------------------------------------------------------------
(* What the handlers share.                                                    *)

\* getTopic of a name that is not in topics_ dereferences end().  What the variables
\* hold afterwards stands for nothing, so they are what they were at first.
Undefined ==
    /\ conn' = [c \in Client |-> "new"]
    /\ info' = [c \in Client |-> NewInfo]
    /\ connSub' = [c \in Client |-> {}]
    /\ topics' = {UtcTime} /\ room' = NewRooms
    /\ lastPub' = FALSE
    /\ app' = [c \in Client |-> NewApp]
    /\ query' = [c \in Client |-> NoQuery]
    /\ server' = "undefined"

\* Seeded fault: the listener is entered under the room its user was in before.
SubscribeFormer(c, t) == [connSub EXCEPT ![c] = @ \cup {info[c].topic}]

\* doSubscribe, on the connection's own set.
Subscribe(c, t) == [connSub EXCEPT ![c] = @ \cup {t}]

\* Seeded fault: a name that is taken is replaced, as operator[] would.
CreatableAlways(t) == TRUE

\* createTopic: a name that is taken is left alone.
Creatable(t) == t \notin topics

\* Seeded fault: the spectators of a deleted room keep their role.
EvictPlayers(t) ==
    [c \in Client |-> IF c \in room[t].audiences /\ info[c].ct # cSubscribe
                      THEN [info[c] EXCEPT !.ct = cTourist] ELSE info[c]]

\* Seeded fault: only those who still have their seat in the room lose it.
EvictSeated(t) ==
    [c \in Client |-> IF c \in room[t].audiences /\ info[c].topic = t
                      THEN [info[c] EXCEPT !.ct = cTourist] ELSE info[c]]

\* Topic::userUnsubscribe: everybody in the audience becomes a tourist, whether
\* its seat is in this room or, the audience entry being stale, in another.
Evict(t) ==
    [c \in Client |-> IF c \in room[t].audiences
                      THEN [info[c] EXCEPT !.ct = cTourist] ELSE info[c]]

\* Seeded fault: the connections' own sets are forgotten.
UnsubscribeNone(t) == connSub

\* The other half of userUnsubscribe.
Unsubscribed(t) ==
    [c \in Client |-> IF c \in room[t].audiences THEN connSub[c] \ {t} ELSE connSub[c]]

\* topics_.erase, after userUnsubscribe.
Erase(t) ==
    /\ connSub' = Unsubscribed(t)
    /\ topics' = topics \ {t}
    /\ room' = [room EXCEPT ![t] = NoRoom]
    /\ lastPub' = (lastPub /\ t # UtcTime)

\* A client that has given its connection up neither sends nor hears anything any
\* more: what it still keeps is forgotten.
ClientGone(c) ==
    /\ app' = [app EXCEPT ![c] = NewApp]
    /\ query' = [query EXCEPT ![c] = NoQuery]

\* setclientType, doSubscribe and sendGridInfo.  A room that has been published
\* to greets a new listener with raw text, which is no frame of the codec: the
\* client gives its connection up and decodes nothing any more.
TakeSeat(c, ct, t) ==
    /\ info' = [info EXCEPT ![c] = [ct |-> ct, topic |-> t]]
    /\ connSub' = Subscribe(c, t)
    /\ IF t = UtcTime /\ lastPub
       THEN conn' = [conn EXCEPT ![c] = "closing"] /\ ClientGone(c)
       ELSE /\ app' = [app EXCEPT ![c] = onGridInfo(@, ct, t)]
            /\ \E q \in WhileGridInfo(c, app[c], onGridInfo(app[c], ct, t)) :
                   query' = [query EXCEPT ![c] = q]
            /\ UNCHANGED conn

--------------------------------------------------------------------------------
(* onQuery.  A command that is refused, "show" and an unknown command answer    *)
(* and change nothing; they are stuttering steps.                               *)

Tourist(c) == server = "up" /\ conn[c] = "up" /\ info[c].ct = cTourist

New(c, t) ==
    /\ Tourist(c)
    /\ Creatable(t)
    /\ topics' = topics \cup {t}
    /\ room' = [room EXCEPT ![t] = add(NewRoom(c), c)]
    /\ TakeSeat(c, cOwner, t)
    /\ UNCHANGED <<lastPub, server>>

Getin(c, t) ==
    /\ Tourist(c)
    /\ t \in topics
    /\ room[t].rival = Nobody
    /\ room' = [room EXCEPT ![t] = add(setRival(@, c), c)]
    /\ TakeSeat(c, cRival, t)
    /\ UNCHANGED <<topics, lastPub, server>>

Watch(c, t) ==
    /\ Tourist(c)
    /\ t \in topics
    /\ room' = [room EXCEPT ![t] = add(@, c)]
    /\ TakeSeat(c, cSubscribe, t)
    /\ UNCHANGED <<topics, lastPub, server>>

\* "getin" or "watch" of a room that does not exist.
UnknownRoom(c, t) ==
    /\ Tourist(c)
    /\ t \notin topics
    /\ Undefined

\* "quit" from a rival or a spectator that names its room.  The rival's seat is
\* emptied in both cases.
QuitSeat(c, t) ==
    /\ info[c].ct \in {cRival, cSubscribe}
    /\ t = info[c].topic
    /\ info' = [info EXCEPT ![c].ct = cTourist]
    /\ room' = [room EXCEPT ![t] = remove(setRivalEmpty(@), c)]
    /\ connSub' = [connSub EXCEPT ![c] = @ \ {t}]
    /\ app' = [app EXCEPT ![c] = onSystemAns(@)]
    /\ UNCHANGED <<topics, lastPub>>

\* "quit" from an owner, whatever it names: the room is deleted.
QuitRoom(c) ==
    /\ info[c].ct = cOwner
    /\ info' = [Evict(info[c].topic) EXCEPT ![c].ct = cTourist]
    /\ Erase(info[c].topic)
    /\ UNCHANGED app

\* "quit" that is answered with an error makes its sender a tourist all the same,
\* and leaves it in the audience.
QuitError(c, t) ==
    /\ info[c].ct \in {cRival, cSubscribe}
    /\ t # info[c].topic
    /\ info' = [info EXCEPT ![c].ct = cTourist]
    /\ UNCHANGED <<connSub, topics, room, lastPub, app>>

Quit(c, t) ==
    /\ server = "up" /\ conn[c] = "up"
    /\ QuitSeat(c, t) \/ QuitRoom(c) \/ QuitError(c, t)
    /\ UNCHANGED <<conn, query, server>>

onQuery(c) ==
    \/ \E t \in Topic : New(c, t) \/ Getin(c, t) \/ Watch(c, t) \/ UnknownRoom(c, t)
    \/ \E t \in Topic \cup {NoTopic} : Quit(c, t)

--------------------------------------------------------------------------------
(* onboardQuery, as far as rooms are concerned.                                *)

\* The end of a game: finalInfo takes the audience's clients out of the game, the
\* users become tourists, and the room is deleted.
GameOver(t) ==
    /\ app' = [c \in Client |->
                 IF c \in room[t].audiences /\ conn[c] = "up"
                 THEN onFinalInfo(app[c])
                 ELSE app[c]]
    /\ info' = Evict(t)
    /\ Erase(t)
    /\ UNCHANGED <<conn, server>>

OwnerOutOfMoves(t) ==
    /\ room' = [room EXCEPT ![t].ownerCanMove = FALSE]
    /\ UNCHANGED <<conn, info, connSub, topics, lastPub, app, server>>

\* The owner's query may end the game, any other only when the owner is out of
\* moves (GreedGame!Decided).
MayEnd(q) == q.owner \/ ~ room[q.topic].ownerCanMove

\* A query may also change no more than the board, which may make othermove stray
\* (GreedGame!Crash).
onboardQuery(c) ==
    LET q == query[c]
        t == q.topic
    IN  /\ server = "up"
        /\ q.at = "sent"
        /\ \/ Undefined
           \/ /\ t \in topics
              /\ query' = [query EXCEPT ![c] = NoQuery]
              /\ \/ UNCHANGED <<conn, info, connSub, topics, room, lastPub, app, server>>
                 \/ q.owner /\ OwnerOutOfMoves(t)
                 \/ MayEnd(q) /\ GameOver(t)

--------------------------------------------------------------------------------
(* onConnection and timePublish.                                               *)

Connect(c) ==
    /\ server = "up" /\ conn[c] = "new"
    /\ conn' = [conn EXCEPT ![c] = "up"]
    /\ UNCHANGED <<info, connSub, topics, room, lastPub, app, query, server>>

\* removeUser, with i for the other users' roles.  A rival stays in the audience; of
\* the user that is erased nothing but such an entry is left.
removeUser(c) ==
    LET t == info[c].topic
        Gone(i) == info' = [i EXCEPT ![c] = NewInfo]
    IN  \/ /\ info[c].ct = cOwner
           /\ Gone(Evict(t))
           /\ Erase(t)
        \/ /\ info[c].ct = cRival
           /\ Gone(info)
           /\ room' = [room EXCEPT ![t] = setRivalEmpty(@)]
           /\ UNCHANGED <<connSub, topics, lastPub>>
        \/ /\ info[c].ct = cSubscribe
           /\ Gone(info)
           /\ room' = [room EXCEPT ![t] = remove(@, c)]
           /\ connSub' = [connSub EXCEPT ![c] = @ \ {t}]
           /\ UNCHANGED <<topics, lastPub>>
        \/ /\ info[c].ct = cTourist
           /\ Gone(info)
           /\ UNCHANGED <<connSub, topics, room, lastPub>>

Disconnect(c) ==
    /\ server = "up" /\ c \in users
    /\ conn' = [conn EXCEPT ![c] = "down"]
    /\ removeUser(c)
    /\ ClientGone(c)
    /\ UNCHANGED server

\* The message to UtcTime's audience changes nothing in a client.
timePublish ==
    /\ server = "up"
    /\ IF UtcTime \in topics
       THEN lastPub' = TRUE /\ UNCHANGED <<conn, info, connSub, topics, room, app, query, server>>
       ELSE Undefined

Next ==
    \/ \E c \in Client :
          \/ Connect(c) \/ Disconnect(c) \/ onQuery(c) \/ onboardQuery(c)
          \/ TunnelBegins(c) \/ set_type(c) \/ set_topic(c)
    \/ timePublish

Spec == Init /\ [][Next]_vars

--------------------------------------------------------------------------------
(* Properties.                                                                 *)

\* The variables keep their types.
TypeOK ==
    /\ conn \in [Client -> {"new", "up", "closing", "down"}]
    /\ info \in [Client -> [ct : ClientType, topic : Topic \cup {NoTopic}]]
    /\ connSub \in [Client -> SUBSET Topic]
    /\ topics \in SUBSET Topic
    /\ room \in [Topic -> Room]
    /\ lastPub \in BOOLEAN
    /\ app \in [Client -> App]
    /\ query \in [Client -> Query]
    /\ server \in {"up", "undefined"}

\* Whoever has a seat has it in a room that exists and is in its audience: the
\* handlers look up getTopic(user.getTopic()) without asking, and a deleted room
\* unseats exactly those who hear of it.
SeatedUsersHaveTheirRoom ==
    \A c \in users : info[c].ct # cTourist =>
        info[c].topic \in topics /\ c \in room[info[c].topic].audiences

\* An owner's room is its own, so nobody deletes the room of somebody else.
OwnersOwnTheirRoom ==
    \A c \in users : info[c].ct = cOwner => room[info[c].topic].owner = c

\* The two records of who listens to what agree, through errors, deletions and
\* disconnections: a topic's audience and the connections' own sets.
SubscriptionsMatchAudiences ==
    \A c \in Client : connSub[c] = {t \in topics : c \in room[t].audiences}

\* What the 1-second timer takes for granted: the server's own room is there.  It is
\* no longer, once an owner's move has been sent for the room its sender was in before.
UtcTimeAlive == UtcTime \in topics

\* A user with a seat is shown that seat by its client, and a player's client is
\* in game model, a deletion of a room it has left does not take it from a seat
\* behind the server's back.
ClientKnowsItsSeat ==
    \A c \in Client : conn[c] = "up" /\ info[c].ct # cTourist =>
        /\ app[c].clientType_ = info[c].ct
        /\ app[c].topic = info[c].topic
        /\ info[c].ct # cSubscribe => app[c].gameModel

\* The answer to a refused "new": "same name or you have a room already".
\* Not even while the server's own room is what it was.
AtMostOneRoomEach ==
    room[UtcTime].owner = Root =>
        \A t, u \in topics : room[t].owner = room[u].owner => t = u

\* The answer to a "getin" of a room that has its rival: "can't getin".
AtMostOneRivalEach ==
    \A c, d \in users :
        info[c].ct = cRival /\ info[d].ct = cRival /\ info[c].topic = info[d].topic => c = d

\* The message to the audience of a deleted room: "Owner delete room, you become
\* tourist."  A tourist does not play.
PlayersHaveTheirRoom ==
    \A c \in Client : conn[c] = "up" /\ app[c].gameModel => app[c].topic \in topics

================================================================================
