------------------------------- MODULE GreedClient ------------------------------
(***************************************************************************)
(* One client process.  Its main thread (main of greedClient.cc) reads     *)
(* keys and calls dealCmd and tunnel; its loop thread runs the callbacks   *)
(* of PubsubClient.  Both use the same fields, without a lock, so they mix *)
(* access by access: tunnel is a step for every field it reads, a callback *)
(* a step for every field it writes.                                       *)
(*                                                                         *)
(* Of the server it keeps the seat and the audiences this client is in     *)
(* (GreedLobby); what others do to its rooms happens at any time.  A query *)
(* is handled when it is sent, its answer waits in the connection.         *)
(***************************************************************************)
EXTENDS Naturals, Sequences

CONSTANTS
    RoomName,
    NoTopic,                                 \* the empty string, as a topic
    cTourist, cOwner, cRival, cSubscribe,    \* enum clientType
    MaxDown                                  \* bound on the messages under way

ASSUME ClientAssumption ==
    /\ NoTopic \notin RoomName
    /\ cTourist \notin {cOwner, cRival, cSubscribe}
    /\ cOwner \notin {cRival, cSubscribe} /\ cRival # cSubscribe
    /\ MaxDown \in Nat

VARIABLES
    app,      \* the fields of PubsubClient the two threads share
    pc,       \* where the main thread is
    query,    \* the boardQuery tunnel is building
    todo,     \* the writes the callback that is running has yet to do
    down,     \* the messages under way to the client, or in its buffer
    seat,     \* ClientInfo: ct_ and topic_, which matters to a seated user only
    aud,      \* the rooms in whose audience the server has the client
    told,     \* the role and room of the last GridInfo whose callback has begun
    mixed     \* a callback was running while tunnel was

server  == <<seat, aud>>
history == <<told, mixed>>
vars    == <<app, pc, query, todo, down, server, history>>

ClientType == {cTourist, cOwner, cRival, cSubscribe}
NoSeat == [type |-> cTourist, topic |-> NoTopic]

Init ==
    /\ app = [clientType_ |-> cTourist, topic |-> NoTopic,
              gameModel |-> FALSE, isOwnerTune |-> TRUE, canmove |-> TRUE]
    /\ pc = "prompt"
    /\ query = NoSeat
    /\ todo = <<>>
    /\ down = <<>>
    /\ seat = NoSeat /\ aud = {}
    /\ told = NoSeat /\ mixed = FALSE

--------------------------------------------------------------------------------
(* The server and its other users.                                             *)

gridInfo(s, turn, can) == [msg |-> "GridInfo", seat |-> s, turn |-> turn, can |-> can]
boardAns(code, turn, can) == [msg |-> "boardAns", code |-> code, turn |-> turn, can |-> can]
finalInfo   == [msg |-> "finalInfo"]
quitCurrent == [msg |-> "QUIT_CURRENT"]

Room(n) == Len(down) + n <= MaxDown
Deliver(ms) == down' = down \o ms

\* "new", "getin" or "watch" that is granted; a refusal changes no field.  Turn and
\* flags are those of the game that is going on in the room, if it is not new.
TakeSeat ==
    /\ pc = "prompt" /\ seat.type = cTourist /\ Room(1)
    /\ \E ct \in ClientType \ {cTourist}, t \in RoomName, turn, can \in BOOLEAN :
           /\ ct = cOwner => turn /\ can
           /\ seat' = [type |-> ct, topic |-> t]
           /\ aud' = aud \cup {t}
           /\ Deliver(<<gridInfo([type |-> ct, topic |-> t], turn, can)>>)
    /\ UNCHANGED <<app, pc, query, todo, history>>

\* "quit": of a rival or a spectator that names its room, of an owner, and of one
\* that is refused and has lost its seat all the same.
Quit ==
    /\ pc = "prompt" /\ seat.type # cTourist /\ Room(1)
    /\ seat' = NoSeat
    /\ \/ seat.type # cOwner /\ aud' = aud \ {seat.topic} /\ Deliver(<<quitCurrent>>)
       \/ seat.type = cOwner /\ aud' = aud \ {seat.topic} /\ UNCHANGED down
       \/ seat.type # cOwner /\ UNCHANGED <<aud, down>>
    /\ UNCHANGED <<app, pc, query, todo, history>>

\* A move in a room of the client, by whomever.
BoardUpdate ==
    /\ aud # {} /\ Room(1)
    /\ \E code \in {0, 2}, turn, can \in BOOLEAN : Deliver(<<boardAns(code, turn, can)>>)
    /\ UNCHANGED <<app, pc, query, todo, server, history>>

\* The end of a room unseats its audience, those included who sit in another room.
GameOver ==
    /\ Room(1)
    /\ \E t \in aud : aud' = aud \ {t} /\ Deliver(<<finalInfo>>)
    /\ seat' = NoSeat
    /\ UNCHANGED <<app, pc, query, todo, history>>

\* Another user, its owner, deletes the room: the notice changes no field.
RoomDeleted ==
    /\ \E t \in aud :
           /\ ~ (seat.type = cOwner /\ seat.topic = t)
           /\ aud' = aud \ {t}
    /\ seat' = NoSeat
    /\ UNCHANGED <<app, pc, query, todo, down, history>>

--------------------------------------------------------------------------------
(* The loop thread: each callback as the writes it does, in their order.       *)

Write(field, value) == <<[field |-> field, value |-> value]>>

\* onFinalInfo waits for a key before it writes.
getch == <<[field |-> "key"]>>

\* Seeded fault: a spectator keeps the room it knows.
onGridInfoPlayersTopic(m) ==
    Write("clientType_", m.seat.type)
    \o (IF m.seat.type \in {cOwner, cRival}
        THEN Write("gameModel", TRUE) \o Write("topic", m.seat.topic) ELSE <<>>)
    \o Write("isOwnerTune", m.turn)
    \o Write("canmove", m.can)

onGridInfo(m) ==
    Write("clientType_", m.seat.type)
    \o (IF m.seat.type \in {cOwner, cRival} THEN Write("gameModel", TRUE) ELSE <<>>)
    \o Write("topic", m.seat.topic)
    \o Write("isOwnerTune", m.turn)
    \o Write("canmove", m.can)

onBoardAns(m) ==
    Write("isOwnerTune", m.turn) \o (IF m.code = 2 THEN Write("canmove", m.can) ELSE <<>>)

onFinalInfo ==
    getch \o Write("clientType_", cTourist) \o Write("gameModel", FALSE) \o Write("canmove", FALSE)

onSystemAns == Write("clientType_", cTourist)

Callback(m) ==
    CASE m.msg = "GridInfo" -> onGridInfo(m)
      [] m.msg = "boardAns" -> onBoardAns(m)
      [] m.msg = "finalInfo" -> onFinalInfo
      [] m.msg = "QUIT_CURRENT" -> onSystemAns

InTunnel == pc \notin {"prompt", "key"}

\* One callback at a time.
Idle == todo = <<>>

BeginCallback ==
    /\ Idle /\ down # <<>>
    /\ todo' = Callback(Head(down))
    /\ down' = Tail(down)
    /\ told' = IF Head(down).msg = "GridInfo" THEN Head(down).seat ELSE told
    /\ mixed' = InTunnel
    /\ UNCHANGED <<app, pc, query, server>>

\* The write, or the key, a callback is at.
CallbackStep ==
    /\ todo # <<>>
    /\ todo' = Tail(todo)
    /\ app' = IF Head(todo).field = "key" THEN app
              ELSE [app EXCEPT ![Head(todo).field] = Head(todo).value]
    /\ UNCHANGED <<pc, query, down, server, history>>

--------------------------------------------------------------------------------
(* The main thread.                                                            *)

Goto(label) == pc' = label

\* Key 'g' at the prompt.
EnterGame ==
    /\ pc = "prompt" /\ app.gameModel
    /\ Goto("key")
    /\ UNCHANGED <<app, query, todo, down, server, history>>

\* A key in game model: tunnel is called.
Key ==
    /\ pc = "key"
    /\ Goto("gameModel")
    /\ mixed' = (todo # <<>>)
    /\ UNCHANGED <<app, query, todo, down, server, told>>

tunnelGameModel ==
    /\ pc = "gameModel"
    /\ Goto(IF app.gameModel THEN "canmove" ELSE "prompt")
    /\ UNCHANGED <<app, query, todo, down, server, history>>

\* The key is a direction, the escape, or none that tunnel knows.
tunnelCanmove ==
    /\ pc = "canmove"
    /\ IF app.canmove THEN Goto("turn") \/ Goto("prompt") \/ Goto("key") ELSE Goto("key")
    /\ UNCHANGED <<app, query, todo, down, server, history>>

\* "Not you tune yet!", first for a rival: isOwnerTune && clientType_ == cRival, the
\* second field being read only when the first holds.
tunnelTurn ==
    /\ pc = "turn"
    /\ Goto(IF app.isOwnerTune THEN "rival" ELSE "turnAgain")
    /\ UNCHANGED <<app, query, todo, down, server, history>>

tunnelRival ==
    /\ pc = "rival"
    /\ Goto(IF app.clientType_ = cRival THEN "key" ELSE "turnAgain")
    /\ UNCHANGED <<app, query, todo, down, server, history>>

\* Seeded fault: the owner's test asks for the owner's turn.
tunnelTurnAgainSame ==
    /\ pc = "turnAgain"
    /\ Goto(IF app.isOwnerTune THEN "owner" ELSE "type")
    /\ UNCHANGED <<app, query, todo, down, server, history>>

\* Then for an owner, both fields anew: ! isOwnerTune && clientType_ == cOwner.
tunnelTurnAgain ==
    /\ pc = "turnAgain"
    /\ Goto(IF app.isOwnerTune THEN "type" ELSE "owner")
    /\ UNCHANGED <<app, query, todo, down, server, history>>

tunnelOwner ==
    /\ pc = "owner"
    /\ Goto(IF app.clientType_ = cOwner THEN "key" ELSE "type")
    /\ UNCHANGED <<app, query, todo, down, server, history>>

tunnelType ==
    /\ pc = "type"
    /\ query' = [type |-> app.clientType_, topic |-> NoTopic]
    /\ Goto("topic")
    /\ UNCHANGED <<app, todo, down, server, history>>

\* set_topic, and the query is sent.
Sent == [query EXCEPT !.topic = app.topic]

tunnelSend ==
    /\ pc = "topic"
    /\ query' = NoSeat
    /\ Goto("key")
    /\ UNCHANGED <<app, todo, down, server, history>>

MainThread ==
    \/ EnterGame \/ Key
    \/ tunnelGameModel \/ tunnelCanmove
    \/ tunnelTurn \/ tunnelRival \/ tunnelTurnAgain \/ tunnelOwner
    \/ tunnelType \/ tunnelSend

LoopThread == BeginCallback \/ CallbackStep

Server == TakeSeat \/ Quit \/ BoardUpdate \/ GameOver \/ RoomDeleted

Next == MainThread \/ LoopThread \/ Server

Spec == Init /\ [][Next]_vars

--------------------------------------------------------------------------------
(* Properties.                                                                 *)

\* Although seats are taken away by others, answers are late and callbacks wait for
\* keys: when all it was sent has been handled, a client whose user has a seat
\* shows that seat, and a player's is in game model.
QuietClientKnowsItsSeat ==
    down = <<>> /\ todo = <<>> /\ seat.type # cTourist =>
        /\ app.clientType_ = seat.type
        /\ app.topic = seat.topic
        /\ seat.type # cSubscribe => app.gameModel

\* What tunnel sends if no callback comes between: the room and, unless it has been
\* quit, the role of one GridInfo, the last; in game model and in turn as far as the
\* client knows.
UndisturbedMovesAreSound ==
    [][ tunnelSend /\ ~ mixed =>
            /\ Sent.topic = told.topic
            /\ Sent.type \in {told.type, cTourist}
            /\ app.gameModel
            /\ app.clientType_ = cOwner => app.isOwnerTune
            /\ app.clientType_ = cRival => ~ app.isOwnerTune ]_vars

\* "You are in game model.", says the client as soon as gameModel is set.  A move is
\* then for the room, and in the role, it was last told.
MovesAreWhole ==
    [][ tunnelSend /\ Sent.type # cTourist => Sent = told ]_vars

\* "you are a tourist now", the server answers to "quit".  A tourist does not move.
TouristsSendNoMoves ==
    [][ tunnelSend /\ ~ mixed => Sent.type # cTourist ]_vars

\* The GridInfo of a spectator, unlike a player's, does not put its client into game
\* model.  A spectator does not move.
SpectatorsSendNoMoves ==
    [][ tunnelSend /\ ~ mixed => Sent.type # cSubscribe ]_vars

================================================================================
