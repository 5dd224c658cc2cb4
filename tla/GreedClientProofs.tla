--------------------------- MODULE GreedClientProofs ---------------------------
(***************************************************************************)
(* What a client knows when it has caught up, and what it sends when no    *)
(* callback comes between: for any rooms and any number of messages under  *)
(* way.                                                                    *)
(***************************************************************************)
EXTENDS GreedClient, SequenceTheorems, TLAPS

--------------------------------------------------------------------------------
(* The types.                                                                  *)

Topics == RoomName \cup {NoTopic}
Seats  == [type : ClientType, topic : Topics]
Flag   == {"gameModel", "isOwnerTune", "canmove"}

Message ==
    [msg : {"GridInfo"}, seat : Seats, turn : BOOLEAN, can : BOOLEAN]
    \cup [msg : {"boardAns"}, code : {0, 2}, turn : BOOLEAN, can : BOOLEAN]
    \cup [msg : {"finalInfo", "QUIT_CURRENT"}]

WriteStep ==
    [field : {"key"}]
    \cup [field : {"clientType_"}, value : ClientType]
    \cup [field : {"topic"}, value : Topics]
    \cup [field : Flag, value : BOOLEAN]

Fields == [clientType_ : ClientType, topic : Topics,
           gameModel : BOOLEAN, isOwnerTune : BOOLEAN, canmove : BOOLEAN]

TypeOK ==
    /\ app \in Fields
    /\ pc \in {"prompt", "key", "gameModel", "canmove", "turn", "rival", "turnAgain", "owner",
              "type", "topic"}
    /\ query \in Seats
    /\ todo \in Seq(WriteStep)
    /\ down \in Seq(Message)
    /\ seat \in Seats
    /\ aud \subseteq RoomName
    /\ told \in Seats
    /\ mixed \in BOOLEAN

--------------------------------------------------------------------------------
(* The inductive invariant.                                                    *)

\* The members of a sequence.
Members(s) == {s[k] : k \in DOMAIN s}

\* Wherever the callback that is running is, it leaves the field with a value of S.
Settles(f, S) ==
    /\ \A w \in Members(todo) : w.field = f => w.value \in S
    /\ app[f] \in S \/ \E w \in Members(todo) : w.field = f

\* The callback that is running leaves the client with the seat s.
SettlesOn(s) ==
    /\ Settles("clientType_", {s.type})
    /\ Settles("topic", {s.topic})
    /\ s.type # cSubscribe => Settles("gameModel", {TRUE})

\* Nothing but answers to moves from the i-th message under way on.
OnlyMovesFrom(i) == \A j \in DOMAIN down : j >= i => down[j].msg = "boardAns"

\* The last message about seats that is under way is the GridInfo of the seat the
\* server has for the client; if none is, the client shows the seat, or is about to.
SeatIsForeseen ==
    seat.type # cTourist =>
        \/ \E i \in DOMAIN down : /\ down[i].msg = "GridInfo" /\ down[i].seat = seat
                                  /\ OnlyMovesFrom(i + 1)
        \/ OnlyMovesFrom(1) /\ SettlesOn(seat)

\* The fields come from one GridInfo, the last whose callback has begun; a callback
\* of another message at most makes the client a tourist.
ToldIsShown ==
    /\ Settles("topic", {told.topic})
    /\ Settles("clientType_", {told.type, cTourist})

\* The two cases of "Not you tune yet!".
RivalWaits == app.isOwnerTune /\ app.clientType_ = cRival
OwnerWaits == ~ app.isOwnerTune /\ app.clientType_ = cOwner

\* What tunnel has read is still so, while no callback has come between.
TunnelIsCurrent ==
    InTunnel /\ ~ mixed =>
        /\ todo = <<>>
        /\ pc # "gameModel" => app.gameModel
        /\ pc = "rival" => app.isOwnerTune
        /\ pc \in {"turnAgain", "owner"} => ~ RivalWaits
        /\ pc = "owner" => ~ app.isOwnerTune
        /\ pc \in {"type", "topic"} => ~ RivalWaits /\ ~ OwnerWaits
        /\ pc = "topic" => query.type = app.clientType_

IInv == TypeOK /\ SeatIsForeseen /\ ToldIsShown /\ TunnelIsCurrent

--------------------------------------------------------------------------------
(* What the callbacks write.                                                   *)

LEMMA MembersOfOne ==
    ASSUME NEW w
    PROVE  Members(<<w>>) = {w}
BY DEF Members

LEMMA MembersOfChain ==
    ASSUME NEW S, NEW s \in Seq(S), NEW t \in Seq(S)
    PROVE  s \o t \in Seq(S) /\ Members(s \o t) = Members(s) \cup Members(t)
<1>1. s \o t \in Seq(S) /\ Len(s \o t) = Len(s) + Len(t)
  OBVIOUS
<1>2. /\ DOMAIN s = 1..Len(s) /\ DOMAIN t = 1..Len(t) /\ Len(s) \in Nat /\ Len(t) \in Nat
      /\ DOMAIN (s \o t) = 1..(Len(s) + Len(t))
  BY <1>1
<1>3. \A k \in DOMAIN (s \o t) :
         (s \o t)[k] = IF k <= Len(s) THEN s[k] ELSE t[k - Len(s)]
  BY <1>2
<1>4. \A i \in DOMAIN t : i + Len(s) \in DOMAIN (s \o t) /\ (s \o t)[i + Len(s)] = t[i]
  BY <1>2, <1>3
<1>5. \A i \in DOMAIN s : i \in DOMAIN (s \o t) /\ (s \o t)[i] = s[i]
  BY <1>2, <1>3
<1>6. ASSUME NEW k \in DOMAIN (s \o t)
      PROVE  (s \o t)[k] \in Members(s) \cup Members(t)
  <2>1. CASE k <= Len(s)
    BY <1>2, <1>3, <2>1 DEF Members
  <2>2. CASE k > Len(s)
    <3>1. k - Len(s) \in DOMAIN t /\ (s \o t)[k] = t[k - Len(s)]
      BY <1>2, <1>3, <2>2
    <3>2. QED  BY <3>1 DEF Members
  <2>3. QED  BY <1>2, <2>1, <2>2
<1>7. Members(s) \subseteq Members(s \o t) /\ Members(t) \subseteq Members(s \o t)
  BY <1>4, <1>5 DEF Members
<1>8. Members(s \o t) \subseteq Members(s) \cup Members(t)
  BY <1>6 DEF Members
<1>9. QED  BY <1>1, <1>7, <1>8

\* A sequence is its head and what follows.
LEMMA MembersOfTail ==
    ASSUME NEW S, NEW s \in Seq(S), s # <<>>
    PROVE  /\ Head(s) \in Members(s) /\ Head(s) \in S
           /\ Tail(s) \in Seq(S)
           /\ Members(s) = {Head(s)} \cup Members(Tail(s))
<1>1. /\ Len(s) \in Nat \ {0} /\ DOMAIN s = 1..Len(s) /\ Head(s) = s[1]
      /\ Tail(s) \in Seq(S) /\ DOMAIN Tail(s) = 1..(Len(s) - 1)
      /\ \A k \in 1..(Len(s) - 1) : Tail(s)[k] = s[k + 1]
  OBVIOUS
<1>2. ASSUME NEW k \in DOMAIN s
      PROVE  s[k] \in {Head(s)} \cup Members(Tail(s))
  <2>1. CASE k = 1
    BY <1>1, <2>1
  <2>2. CASE k # 1
    <3>1. k - 1 \in DOMAIN Tail(s) /\ Tail(s)[k - 1] = s[k]
      BY <1>1, <2>2
    <3>2. QED  BY <3>1 DEF Members
  <2>3. QED  BY <2>1, <2>2
<1>3. \A k \in DOMAIN Tail(s) : k + 1 \in DOMAIN s /\ Tail(s)[k] = s[k + 1]
  BY <1>1
<1>4. Head(s) \in S /\ 1 \in DOMAIN s
  BY <1>1
<1>5. QED  BY <1>1, <1>2, <1>3, <1>4 DEF Members

\* The write of one field.
LEMMA WriteFacts ==
    ASSUME NEW f, NEW v, [field |-> f, value |-> v] \in WriteStep
    PROVE  /\ Write(f, v) \in Seq(WriteStep)
           /\ Members(Write(f, v)) = {[field |-> f, value |-> v]}
BY MembersOfOne DEF Write

LEMMA GridInfoWrites ==
    ASSUME NEW m \in Message, m.msg = "GridInfo"
    PROVE  /\ onGridInfo(m) \in Seq(WriteStep)
           /\ Members(onGridInfo(m)) =
                {[field |-> "clientType_", value |-> m.seat.type],
                 [field |-> "topic", value |-> m.seat.topic],
                 [field |-> "isOwnerTune", value |-> m.turn],
                 [field |-> "canmove", value |-> m.can]}
                \cup {w \in {[field |-> "gameModel", value |-> TRUE]} :
                         m.seat.type \in {cOwner, cRival}}
<1>1. m.seat.type \in ClientType /\ m.seat.topic \in Topics
      /\ m.turn \in BOOLEAN /\ m.can \in BOOLEAN
  BY DEF Message, Seats
<1> DEFINE A == Write("clientType_", m.seat.type)
           G == IF m.seat.type \in {cOwner, cRival} THEN Write("gameModel", TRUE) ELSE <<>>
           T == Write("topic", m.seat.topic)
           O == Write("isOwnerTune", m.turn)
           C == Write("canmove", m.can)
<1>2. A \in Seq(WriteStep) /\ Members(A) = {[field |-> "clientType_", value |-> m.seat.type]}
  BY <1>1, WriteFacts DEF WriteStep
<1>3. T \in Seq(WriteStep) /\ Members(T) = {[field |-> "topic", value |-> m.seat.topic]}
  BY <1>1, WriteFacts DEF WriteStep
<1>4. O \in Seq(WriteStep) /\ Members(O) = {[field |-> "isOwnerTune", value |-> m.turn]}
  BY <1>1, WriteFacts DEF WriteStep, Flag
<1>5. C \in Seq(WriteStep) /\ Members(C) = {[field |-> "canmove", value |-> m.can]}
  BY <1>1, WriteFacts DEF WriteStep, Flag
<1>6. G \in Seq(WriteStep) /\ Members(G) = {w \in {[field |-> "gameModel", value |-> TRUE]} :
                                               m.seat.type \in {cOwner, cRival}}
  <2>1. CASE m.seat.type \in {cOwner, cRival}
    BY <2>1, WriteFacts DEF WriteStep, Flag
  <2>2. CASE m.seat.type \notin {cOwner, cRival}
    BY <2>2 DEF Members
  <2>3. QED  BY <2>1, <2>2
<1> HIDE DEF A, G, T, O, C
<1> DEFINE AG == A \o G
           AGT == AG \o T
           AGTO == AGT \o O
<1>7. AG \in Seq(WriteStep) /\ Members(AG) = Members(A) \cup Members(G)
  BY <1>2, <1>6, MembersOfChain
<1> HIDE DEF AG
<1>8. AGT \in Seq(WriteStep) /\ Members(AGT) = Members(AG) \cup Members(T)
  BY <1>3, <1>7, MembersOfChain
<1> HIDE DEF AGT
<1>9. AGTO \in Seq(WriteStep) /\ Members(AGTO) = Members(AGT) \cup Members(O)
  BY <1>4, <1>8, MembersOfChain
<1> HIDE DEF AGTO
<1>10. AGTO \o C \in Seq(WriteStep) /\ Members(AGTO \o C) = Members(AGTO) \cup Members(C)
  BY <1>5, <1>9, MembersOfChain
<1>11. onGridInfo(m) = AGTO \o C
  BY DEF onGridInfo, AG, AGT, AGTO, A, G, T, O, C
<1>12. QED  BY <1>2, <1>3, <1>4, <1>5, <1>6, <1>7, <1>8, <1>9, <1>10, <1>11

\* Whose turn it is, and whether the client can move.
LEMMA BoardAnsWrites ==
    ASSUME NEW m \in Message, m.msg = "boardAns"
    PROVE  /\ onBoardAns(m) \in Seq(WriteStep)
           /\ \A w \in Members(onBoardAns(m)) : w.field \in {"isOwnerTune", "canmove"}
<1>1. m.turn \in BOOLEAN /\ m.can \in BOOLEAN
  BY DEF Message
<1> DEFINE O == Write("isOwnerTune", m.turn)
           C == IF m.code = 2 THEN Write("canmove", m.can) ELSE <<>>
<1>2. O \in Seq(WriteStep) /\ Members(O) = {[field |-> "isOwnerTune", value |-> m.turn]}
  BY <1>1, WriteFacts DEF WriteStep, Flag
<1>3. C \in Seq(WriteStep) /\ \A w \in Members(C) : w = [field |-> "canmove", value |-> m.can]
  <2>1. CASE m.code = 2
    <3>1. Write("canmove", m.can) \in Seq(WriteStep)
          /\ Members(Write("canmove", m.can)) = {[field |-> "canmove", value |-> m.can]}
      BY <1>1, WriteFacts DEF WriteStep, Flag
    <3>2. QED  BY <2>1, <3>1
  <2>2. CASE m.code # 2
    BY <2>2 DEF Members
  <2>3. QED  BY <2>1, <2>2
<1> HIDE DEF O, C
<1>4. O \o C \in Seq(WriteStep) /\ Members(O \o C) = Members(O) \cup Members(C)
  BY <1>2, <1>3, MembersOfChain
<1>5. onBoardAns(m) = O \o C
  BY DEF onBoardAns, O, C
<1>6. QED  BY <1>2, <1>3, <1>4, <1>5

\* A client whose game is over, or that has quit, becomes a tourist.
LEMMA TouristWrites ==
    /\ onFinalInfo \in Seq(WriteStep) /\ onSystemAns \in Seq(WriteStep)
    /\ \A w \in Members(onFinalInfo) \cup Members(onSystemAns) :
          w.field # "topic" /\ (w.field = "clientType_" => w.value = cTourist)
<1>1. cTourist \in ClientType /\ FALSE \in BOOLEAN
  BY DEF ClientType
<1> DEFINE K == getch
           A == Write("clientType_", cTourist)
           G == Write("gameModel", FALSE)
           C == Write("canmove", FALSE)
<1>2. A \in Seq(WriteStep) /\ Members(A) = {[field |-> "clientType_", value |-> cTourist]}
  BY <1>1, WriteFacts DEF WriteStep
<1>3. G \in Seq(WriteStep) /\ Members(G) = {[field |-> "gameModel", value |-> FALSE]}
  BY WriteFacts DEF WriteStep, Flag
<1>4. C \in Seq(WriteStep) /\ Members(C) = {[field |-> "canmove", value |-> FALSE]}
  BY WriteFacts DEF WriteStep, Flag
<1>5. K \in Seq(WriteStep) /\ Members(K) = {[field |-> "key"]}
  BY MembersOfOne DEF getch, WriteStep
<1> HIDE DEF K, A, G, C
<1> DEFINE KA == K \o A
           KAG == KA \o G
<1>6. KA \in Seq(WriteStep) /\ Members(KA) = Members(K) \cup Members(A)
  BY <1>2, <1>5, MembersOfChain
<1> HIDE DEF KA
<1>7. KAG \in Seq(WriteStep) /\ Members(KAG) = Members(KA) \cup Members(G)
  BY <1>3, <1>6, MembersOfChain
<1> HIDE DEF KAG
<1>8. KAG \o C \in Seq(WriteStep) /\ Members(KAG \o C) = Members(KAG) \cup Members(C)
  BY <1>4, <1>7, MembersOfChain
<1>9. onFinalInfo = KAG \o C /\ onSystemAns = A
  BY DEF onFinalInfo, onSystemAns, K, KA, KAG, A, G, C
<1>10. Members(onFinalInfo) \cup Members(onSystemAns) =
           {[field |-> "key"], [field |-> "clientType_", value |-> cTourist],
            [field |-> "gameModel", value |-> FALSE], [field |-> "canmove", value |-> FALSE]}
  BY <1>2, <1>3, <1>4, <1>5, <1>6, <1>7, <1>8, <1>9
<1>11. ASSUME NEW w \in Members(onFinalInfo) \cup Members(onSystemAns)
       PROVE  w.field # "topic" /\ (w.field = "clientType_" => w.value = cTourist)
  <2>1. CASE w = [field |-> "key"]
    BY <2>1
  <2>2. CASE w = [field |-> "clientType_", value |-> cTourist]
    BY <2>2
  <2>3. CASE w = [field |-> "gameModel", value |-> FALSE]
    BY <2>3
  <2>4. CASE w = [field |-> "canmove", value |-> FALSE]
    BY <2>4
  <2>5. QED  BY <1>10, <2>1, <2>2, <2>3, <2>4
<1>12. QED  BY <1>2, <1>8, <1>9, <1>11

LEMMA CallbackWrites ==
    ASSUME NEW m \in Message
    PROVE  Callback(m) \in Seq(WriteStep)
<1>1. CASE m.msg = "GridInfo"
  BY <1>1, GridInfoWrites DEF Callback
<1>2. CASE m.msg = "boardAns"
  BY <1>2, BoardAnsWrites DEF Callback
<1>3. CASE m.msg = "finalInfo"
  BY <1>3, TouristWrites DEF Callback
<1>4. CASE m.msg = "QUIT_CURRENT"
  BY <1>4, TouristWrites DEF Callback
<1>5. m.msg \in {"GridInfo", "boardAns", "finalInfo", "QUIT_CURRENT"}
  BY DEF Message
<1>6. QED  BY <1>1, <1>2, <1>3, <1>4, <1>5

--------------------------------------------------------------------------------
(* The types.                                                                  *)

LEMMA InitTypeOK == Init => TypeOK
<1> SUFFICES ASSUME Init PROVE TypeOK
  OBVIOUS
<1>1. cTourist \in ClientType /\ NoTopic \in Topics
  BY DEF ClientType, Topics
<1>2. app \in Fields
  BY <1>1 DEF Init, Fields
<1>3. NoSeat \in Seats
  BY <1>1 DEF NoSeat, Seats
<1>4. todo \in Seq(WriteStep) /\ down \in Seq(Message)
  BY DEF Init
<1>5. QED  BY <1>2, <1>3, <1>4 DEF Init, TypeOK

\* A message that the server sends is one the client knows.
LEMMA DeliverOne ==
    ASSUME TypeOK, NEW m \in Message, Deliver(<<m>>)
    PROVE  /\ down' \in Seq(Message)
           /\ DOMAIN down = 1..Len(down) /\ Len(down) \in Nat
           /\ DOMAIN down' = 1..(Len(down) + 1)
           /\ \A j \in DOMAIN down : down'[j] = down[j]
           /\ down'[Len(down) + 1] = m
BY DEF TypeOK, Deliver

\* A write leaves the other fields alone.
LEMMA CallbackStepFacts ==
    ASSUME TypeOK, CallbackStep
    PROVE  /\ app' \in Fields
           /\ todo' \in Seq(WriteStep)
           /\ \E w \in Members(todo) :
                 /\ w \in WriteStep
                 /\ Members(todo) = {w} \cup Members(todo')
                 /\ \A f \in {"clientType_", "topic"} \cup Flag :
                       app'[f] = IF f = w.field THEN w.value ELSE app[f]
<1> DEFINE w == Head(todo)
<1>1. /\ w \in Members(todo) /\ w \in WriteStep /\ todo' \in Seq(WriteStep)
      /\ Members(todo) = {w} \cup Members(todo')
  BY MembersOfTail DEF TypeOK, CallbackStep
<1>2. /\ app \in Fields
      /\ app' = IF w.field = "key" THEN app ELSE [app EXCEPT ![w.field] = w.value]
  BY DEF TypeOK, CallbackStep
<1> HIDE DEF w
<1>3. CASE w.field = "key"
  <2>1. \A f \in {"clientType_", "topic"} \cup Flag : f # w.field
    BY <1>3 DEF Flag
  <2>2. QED  BY <1>1, <1>2, <1>3, <2>1
<1>4. CASE w.field # "key"
  <2>1. /\ w.field \in {"clientType_", "topic"} \cup Flag
        /\ w.field = "clientType_" => w.value \in ClientType
        /\ w.field = "topic" => w.value \in Topics
        /\ w.field \in Flag => w.value \in BOOLEAN
    BY <1>1, <1>4 DEF WriteStep, Flag
  <2>2. app' = [app EXCEPT ![w.field] = w.value]
    BY <1>2, <1>4
  <2>3. \A f \in {"clientType_", "topic"} \cup Flag :
           app'[f] = IF f = w.field THEN w.value ELSE app[f]
    BY <1>2, <2>2 DEF Fields, Flag
  <2>4. app' \in Fields
    <3>1. CASE w.field = "clientType_"
      BY <1>2, <2>1, <2>2, <3>1 DEF Fields
    <3>2. CASE w.field = "topic"
      BY <1>2, <2>1, <2>2, <3>2 DEF Fields
    <3>3. CASE w.field = "gameModel"
      BY <1>2, <2>1, <2>2, <3>3 DEF Fields, Flag
    <3>4. CASE w.field = "isOwnerTune"
      BY <1>2, <2>1, <2>2, <3>4 DEF Fields, Flag
    <3>5. CASE w.field = "canmove"
      BY <1>2, <2>1, <2>2, <3>5 DEF Fields, Flag
    <3>6. QED  BY <2>1, <3>1, <3>2, <3>3, <3>4, <3>5 DEF Flag
  <2>5. QED  BY <1>1, <2>3, <2>4
<1>5. QED  BY <1>3, <1>4

LEMMA Messages ==
    /\ \A s \in Seats, turn, can \in BOOLEAN : gridInfo(s, turn, can) \in Message
    /\ \A code \in {0, 2}, turn, can \in BOOLEAN : boardAns(code, turn, can) \in Message
    /\ finalInfo \in Message /\ quitCurrent \in Message
BY DEF Message, gridInfo, boardAns, finalInfo, quitCurrent

LEMMA NoSeatFacts == NoSeat \in Seats /\ NoSeat.type = cTourist /\ NoSeat.topic = NoTopic
BY DEF NoSeat, Seats, Topics, ClientType

LEMMA NextTypeOK == TypeOK /\ [Next]_vars => TypeOK'
<1> SUFFICES ASSUME TypeOK, [Next]_vars PROVE TypeOK'
  OBVIOUS
<1>1. CASE TakeSeat
  <2>1. PICK ct \in ClientType \ {cTourist}, t \in RoomName, turn \in BOOLEAN, can \in BOOLEAN :
           /\ seat' = [type |-> ct, topic |-> t]
           /\ aud' = aud \cup {t}
           /\ Deliver(<<gridInfo([type |-> ct, topic |-> t], turn, can)>>)
    BY <1>1 DEF TakeSeat
  <2>2. seat' \in Seats
    BY <2>1 DEF Seats, Topics
  <2>3. down' \in Seq(Message)
    BY <2>1, <2>2, Messages, DeliverOne
  <2>4. QED  BY <1>1, <2>1, <2>2, <2>3 DEF TakeSeat, TypeOK, history
<1>2. CASE Quit
  <2>1. down' \in Seq(Message)
    BY <1>2, Messages, DeliverOne DEF Quit, TypeOK
  <2>2. QED  BY <1>2, <2>1, NoSeatFacts DEF Quit, TypeOK, history
<1>3. CASE BoardUpdate
  <2>1. down' \in Seq(Message)
    BY <1>3, Messages, DeliverOne DEF BoardUpdate
  <2>2. QED  BY <1>3, <2>1 DEF BoardUpdate, TypeOK, history, server
<1>4. CASE GameOver
  <2>1. down' \in Seq(Message) /\ aud' \subseteq RoomName
    BY <1>4, Messages, DeliverOne DEF GameOver, TypeOK
  <2>2. QED  BY <1>4, <2>1, NoSeatFacts DEF GameOver, TypeOK, history
<1>5. CASE RoomDeleted
  BY <1>5, NoSeatFacts DEF RoomDeleted, TypeOK, history
<1>6. CASE BeginCallback
  <2>1. down # <<>> /\ down \in Seq(Message)
    BY <1>6 DEF BeginCallback, TypeOK
  <2>2. Head(down) \in Message /\ Tail(down) \in Seq(Message)
    BY <2>1, MembersOfTail
  <2>3. todo' \in Seq(WriteStep)
    BY <1>6, <2>2, CallbackWrites DEF BeginCallback
  <2>4. told' \in Seats
    <3>1. Head(down).msg = "GridInfo" => Head(down).seat \in Seats
      BY <2>2 DEF Message
    <3>2. QED  BY <1>6, <3>1 DEF BeginCallback, TypeOK
  <2>5. mixed' \in BOOLEAN
    BY <1>6 DEF BeginCallback, InTunnel
  <2>6. QED  BY <1>6, <2>2, <2>3, <2>4, <2>5 DEF BeginCallback, TypeOK, server
<1>7. CASE CallbackStep
  <2>1. app' \in Fields /\ todo' \in Seq(WriteStep)
    BY <1>7, CallbackStepFacts
  <2>2. QED  BY <1>7, <2>1 DEF CallbackStep, TypeOK, server, history
<1>8. CASE EnterGame
  BY <1>8 DEF EnterGame, Goto, TypeOK, server, history
<1>9. CASE Key
  BY <1>9 DEF Key, Goto, TypeOK, server
<1>10. CASE tunnelGameModel
  BY <1>10 DEF tunnelGameModel, Goto, TypeOK, server, history
<1>11. CASE tunnelCanmove
  BY <1>11 DEF tunnelCanmove, Goto, TypeOK, server, history
<1>12. CASE tunnelTurn \/ tunnelRival \/ tunnelTurnAgain \/ tunnelOwner
  BY <1>12 DEF tunnelTurn, tunnelRival, tunnelTurnAgain, tunnelOwner, Goto, TypeOK, server,
               history
<1>13. CASE tunnelType
  <2>1. query' \in Seats
    BY <1>13 DEF tunnelType, TypeOK, Fields, Seats, Topics
  <2>2. QED  BY <1>13, <2>1 DEF tunnelType, Goto, TypeOK, server, history
<1>14. CASE tunnelSend
  BY <1>14, NoSeatFacts DEF tunnelSend, Goto, TypeOK, server, history
<1>15. CASE UNCHANGED vars
  BY <1>15 DEF vars, server, history, TypeOK
<1>16. QED
  BY <1>1, <1>2, <1>3, <1>4, <1>5, <1>6, <1>7, <1>8, <1>9, <1>10, <1>11, <1>12, <1>13, <1>14, <1>15
     DEF Next, MainThread, LoopThread, Server

--------------------------------------------------------------------------------
(* A callback leaves the client where its writes say.                          *)

\* A write of one value to a field, of a callback that settles it, settles it, and
\* one to another field does no harm.
LEMMA SettlesStep ==
    ASSUME TypeOK, CallbackStep, NEW f \in {"clientType_", "topic"} \cup Flag, NEW S,
           Settles(f, S)
    PROVE  Settles(f, S)'
<1>1. PICK w \in Members(todo) :
         /\ Members(todo) = {w} \cup Members(todo')
         /\ app'[f] = IF f = w.field THEN w.value ELSE app[f]
  BY CallbackStepFacts
<1>2. /\ \A v \in Members(todo) : v.field = f => v.value \in S
      /\ app[f] \in S \/ \E v \in Members(todo) : v.field = f
  BY DEF Settles
<1>3. \A v \in Members(todo') : v.field = f => v.value \in S
  BY <1>1, <1>2
<1>4. app'[f] \in S \/ \E v \in Members(todo') : v.field = f
  <2>1. CASE w.field = f
    BY <1>1, <1>2, <2>1
  <2>2. CASE w.field # f
    BY <1>1, <1>2, <2>2
  <2>3. QED  BY <2>1, <2>2
<1>5. QED  BY <1>3, <1>4 DEF Settles, Members

\* No callback is running: settled is what the fields are.
LEMMA SettledWhenIdle ==
    ASSUME todo = <<>>, NEW f, NEW S
    PROVE  Settles(f, S) <=> app[f] \in S
BY DEF Settles, Members

\* The callback of a GridInfo settles on its seat.
LEMMA GridInfoSettles ==
    ASSUME BeginCallback, NEW m \in Message, m.msg = "GridInfo", m = Head(down)
    PROVE  /\ Settles("clientType_", {m.seat.type})'
           /\ Settles("topic", {m.seat.topic})'
           /\ m.seat.type \in {cOwner, cRival} => Settles("gameModel", {TRUE})'
<1> DEFINE A == [field |-> "clientType_", value |-> m.seat.type]
           T == [field |-> "topic", value |-> m.seat.topic]
           O == [field |-> "isOwnerTune", value |-> m.turn]
           C == [field |-> "canmove", value |-> m.can]
           G == [field |-> "gameModel", value |-> TRUE]
<1>1. todo' = onGridInfo(m)
  BY DEF BeginCallback, Callback
<1>2. Members(todo') = {A, T, O, C} \cup {w \in {G} : m.seat.type \in {cOwner, cRival}}
  BY <1>1, GridInfoWrites
<1>3. /\ A.field = "clientType_" /\ T.field = "topic" /\ O.field = "isOwnerTune"
      /\ C.field = "canmove" /\ G.field = "gameModel"
      /\ A.value = m.seat.type /\ T.value = m.seat.topic /\ G.value = TRUE
  OBVIOUS
<1> HIDE DEF A, T, O, C, G
<1>4. Settles("clientType_", {m.seat.type})'
  BY <1>2, <1>3 DEF Settles, Members
<1>5. Settles("topic", {m.seat.topic})'
  BY <1>2, <1>3 DEF Settles, Members
<1>6. m.seat.type \in {cOwner, cRival} => Settles("gameModel", {TRUE})'
  BY <1>2, <1>3 DEF Settles, Members
<1>7. QED  BY <1>4, <1>5, <1>6

\* A callback that does not write a field leaves it as it is.
LEMMA OtherFieldsSettle ==
    ASSUME BeginCallback, NEW f, NEW S, Settles(f, S),
           \A w \in Members(Callback(Head(down))) : w.field # f
    PROVE  Settles(f, S)'
<1>1. todo = <<>> /\ app' = app /\ todo' = Callback(Head(down))
  BY DEF BeginCallback, Idle
<1>2. app[f] \in S
  BY <1>1, SettledWhenIdle
<1>3. QED  BY <1>1, <1>2 DEF Settles, Members

--------------------------------------------------------------------------------
(* The three invariants.                                                       *)

LEMMA SameSettles ==
    ASSUME UNCHANGED <<app, todo>>, NEW f, NEW S, Settles(f, S)
    PROVE  Settles(f, S)'
BY DEF Settles, Members

LEMMA SettlesOnNext ==
    ASSUME NEW s, seat' = s,
           Settles("clientType_", {s.type})', Settles("topic", {s.topic})',
           s.type # cSubscribe => Settles("gameModel", {TRUE})'
    PROVE  SettlesOn(seat)'
<1>1. CASE s.type = cSubscribe
  BY <1>1 DEF SettlesOn, Settles, Members
<1>2. CASE s.type # cSubscribe
  BY <1>2 DEF SettlesOn, Settles, Members
<1>3. QED  BY <1>1, <1>2

LEMMA SameSettlesOn ==
    ASSUME UNCHANGED <<seat, app, todo>>, SettlesOn(seat)
    PROVE  SettlesOn(seat)'
<1>1. PICK s : s = seat
  OBVIOUS
<1>2. /\ Settles("clientType_", {s.type})' /\ Settles("topic", {s.topic})'
      /\ s.type # cSubscribe => Settles("gameModel", {TRUE})'
  BY <1>1, SameSettles DEF SettlesOn
<1>3. QED  BY <1>1, <1>2, SettlesOnNext

LEMMA SameForeseen ==
    ASSUME SeatIsForeseen, UNCHANGED <<seat, down, app, todo>>
    PROVE  SeatIsForeseen'
<1>1. \A i : OnlyMovesFrom(i) => OnlyMovesFrom(i)'
  BY DEF OnlyMovesFrom
<1>2. SettlesOn(seat) => SettlesOn(seat)'
  BY SameSettlesOn
<1>3. QED  BY <1>1, <1>2 DEF SeatIsForeseen

\* A seat that is granted is announced, a seat that is lost is forgotten, and moves
\* do not touch it.
LEMMA ForeseenByServer ==
    ASSUME IInv, Server
    PROVE  SeatIsForeseen'
<1> USE DEF IInv
<1>1. CASE TakeSeat
  <2>1. PICK ct \in ClientType \ {cTourist}, t \in RoomName, turn \in BOOLEAN, can \in BOOLEAN :
           /\ seat' = [type |-> ct, topic |-> t]
           /\ Deliver(<<gridInfo([type |-> ct, topic |-> t], turn, can)>>)
    BY <1>1 DEF TakeSeat
  <2>2. gridInfo(seat', turn, can) \in Message
    BY <2>1, Messages DEF Seats, Topics
  <2>3. /\ DOMAIN down' = 1..(Len(down) + 1) /\ Len(down) \in Nat
        /\ down'[Len(down) + 1] = gridInfo(seat', turn, can)
    BY <2>1, <2>2, DeliverOne
  <2>4. \A j \in DOMAIN down' : ~ (j >= (Len(down) + 1) + 1)
    BY <2>3
  <2>5. /\ Len(down) + 1 \in DOMAIN down'
        /\ down'[Len(down) + 1].msg = "GridInfo" /\ down'[Len(down) + 1].seat = seat'
    BY <2>3 DEF gridInfo
  <2>6. QED  BY <2>4, <2>5 DEF SeatIsForeseen, OnlyMovesFrom
<1>2. CASE Quit \/ GameOver \/ RoomDeleted
  BY <1>2, NoSeatFacts DEF Quit, GameOver, RoomDeleted, SeatIsForeseen
<1>3. CASE BoardUpdate
  <2>1. PICK code \in {0, 2}, turn \in BOOLEAN, can \in BOOLEAN :
           Deliver(<<boardAns(code, turn, can)>>)
    BY <1>3 DEF BoardUpdate
  <2>2. /\ DOMAIN down = 1..Len(down) /\ Len(down) \in Nat
        /\ DOMAIN down' = 1..(Len(down) + 1)
        /\ \A j \in DOMAIN down : down'[j] = down[j]
        /\ down'[Len(down) + 1].msg = "boardAns"
    BY <2>1, Messages, DeliverOne DEF boardAns
  <2>3. \A i : OnlyMovesFrom(i) => OnlyMovesFrom(i)'
    BY <2>2 DEF OnlyMovesFrom
  <2>4. seat' = seat /\ app' = app /\ todo' = todo
    BY <1>3 DEF BoardUpdate, server
  <2>5. CASE seat.type = cTourist
    BY <2>4, <2>5 DEF SeatIsForeseen
  <2>6. CASE \E i \in DOMAIN down : /\ down[i].msg = "GridInfo" /\ down[i].seat = seat
                                    /\ OnlyMovesFrom(i + 1)
    <3>1. PICK i \in DOMAIN down : /\ down[i].msg = "GridInfo" /\ down[i].seat = seat
                                   /\ OnlyMovesFrom(i + 1)
      BY <2>6
    <3>2. i \in DOMAIN down' /\ down'[i] = down[i] /\ OnlyMovesFrom(i + 1)'
      BY <2>2, <2>3, <3>1
    <3>3. QED  BY <2>4, <3>1, <3>2 DEF SeatIsForeseen
  <2>7. CASE OnlyMovesFrom(1) /\ SettlesOn(seat)
    <3>1. OnlyMovesFrom(1)'
      BY <2>3, <2>7
    <3>2. SettlesOn(seat)'
      BY <2>4, <2>7, SameSettlesOn
    <3>3. QED  BY <3>1, <3>2 DEF SeatIsForeseen
  <2>8. QED  BY <2>5, <2>6, <2>7 DEF SeatIsForeseen
<1>4. QED  BY <1>1, <1>2, <1>3 DEF Server

\* The callback that begins is of the GridInfo of the seat, of an earlier message, or
\* of a move.
LEMMA ForeseenByBeginCallback ==
    ASSUME IInv, BeginCallback, seat.type # cTourist
    PROVE  SeatIsForeseen'
<1>1. /\ down \in Seq(Message) /\ down # <<>> /\ seat' = seat /\ down' = Tail(down)
      /\ seat \in Seats
  BY DEF IInv, TypeOK, BeginCallback, server
<1>2. /\ Len(down) \in Nat \ {0} /\ DOMAIN down = 1..Len(down)
      /\ DOMAIN down' = 1..(Len(down) - 1)
      /\ \A j \in DOMAIN down' : down'[j] = down[j + 1]
      /\ Head(down) = down[1] /\ Head(down) \in Message
  BY <1>1
<1>3. \A i \in Nat : OnlyMovesFrom(i + 1) => OnlyMovesFrom(i)'
  BY <1>2 DEF OnlyMovesFrom
<1>4. CASE \E i \in DOMAIN down : /\ down[i].msg = "GridInfo" /\ down[i].seat = seat
                                  /\ OnlyMovesFrom(i + 1)
  <2>1. PICK i \in DOMAIN down : /\ down[i].msg = "GridInfo" /\ down[i].seat = seat
                                 /\ OnlyMovesFrom(i + 1)
    BY <1>4
  <2>2. CASE i = 1
    <3>1. OnlyMovesFrom(1)'
      BY <1>3, <2>1, <2>2
    <3>2. Head(down).msg = "GridInfo" /\ Head(down).seat = seat
      BY <1>2, <2>1, <2>2
    <3>3. PICK m \in Message : m = Head(down)
      BY <1>2
    <3>4. /\ Settles("clientType_", {m.seat.type})'
          /\ Settles("topic", {m.seat.topic})'
          /\ m.seat.type \in {cOwner, cRival} => Settles("gameModel", {TRUE})'
      BY <3>2, <3>3, GridInfoSettles
    <3>5. m.seat.type # cSubscribe => m.seat.type \in {cOwner, cRival}
      BY <1>1, <3>2, <3>3 DEF Seats, ClientType
    <3>6. SettlesOn(seat)'
      BY <1>1, <3>2, <3>3, <3>4, <3>5, SettlesOnNext
    <3>7. QED  BY <3>1, <3>6 DEF SeatIsForeseen
  <2>3. CASE i # 1
    <3>1. /\ i - 1 \in DOMAIN down' /\ down'[i - 1] = down[i]
          /\ i \in Nat /\ (i - 1) + 1 = i
      BY <1>2, <2>3
    <3>2. OnlyMovesFrom((i - 1) + 1)'
      BY <1>3, <2>1, <3>1
    <3>3. QED  BY <1>1, <2>1, <3>1, <3>2 DEF SeatIsForeseen
  <2>4. QED  BY <2>2, <2>3
<1>5. CASE OnlyMovesFrom(1) /\ SettlesOn(seat)
  <2>1. Head(down).msg = "boardAns" /\ OnlyMovesFrom(1)'
    BY <1>2, <1>5 DEF OnlyMovesFrom
  <2>2. \A w \in Members(Callback(Head(down))) : w.field \in {"isOwnerTune", "canmove"}
    BY <1>2, <2>1, BoardAnsWrites DEF Callback
  <2>3. PICK s : s = seat
    OBVIOUS
  <2>4. /\ Settles("clientType_", {s.type})'
        /\ Settles("topic", {s.topic})'
        /\ s.type # cSubscribe => Settles("gameModel", {TRUE})'
    BY <1>5, <2>2, <2>3, OtherFieldsSettle DEF SettlesOn
  <2>5. SettlesOn(seat)'
    BY <1>1, <2>3, <2>4, SettlesOnNext
  <2>6. QED  BY <2>1, <2>5 DEF SeatIsForeseen
<1>6. QED  BY <1>4, <1>5 DEF IInv, SeatIsForeseen

LEMMA ForeseenByCallbackStep ==
    ASSUME IInv, CallbackStep
    PROVE  SeatIsForeseen'
<1>1. TypeOK /\ SeatIsForeseen /\ seat' = seat /\ down' = down
  BY DEF IInv, CallbackStep, server
<1>2. \A i : OnlyMovesFrom(i) => OnlyMovesFrom(i)'
  BY <1>1 DEF OnlyMovesFrom
<1>3. ASSUME SettlesOn(seat)
      PROVE  SettlesOn(seat)'
  <2>1. PICK s : s = seat
    OBVIOUS
  <2>2. /\ Settles("clientType_", {s.type})' /\ Settles("topic", {s.topic})'
        /\ s.type # cSubscribe => Settles("gameModel", {TRUE})'
    BY <1>1, <1>3, <2>1, SettlesStep DEF SettlesOn, Flag
  <2>3. QED  BY <1>1, <2>1, <2>2, SettlesOnNext
<1>4. QED  BY <1>1, <1>2, <1>3 DEF SeatIsForeseen

LEMMA NextForeseen ==
    ASSUME IInv, [Next]_vars
    PROVE  SeatIsForeseen'
<1>1. CASE Server
  BY <1>1, ForeseenByServer
<1>2. CASE BeginCallback
  <2>1. CASE seat.type = cTourist
    BY <1>2, <2>1 DEF BeginCallback, server, SeatIsForeseen
  <2>2. CASE seat.type # cTourist
    BY <1>2, <2>2, ForeseenByBeginCallback
  <2>3. QED  BY <2>1, <2>2
<1>3. CASE CallbackStep
  BY <1>3, ForeseenByCallbackStep
<1>4. CASE MainThread
  <2>1. UNCHANGED <<seat, down, app, todo>>
    BY <1>4 DEF MainThread, EnterGame, Key, tunnelGameModel, tunnelCanmove, tunnelTurn,
                tunnelRival, tunnelTurnAgain, tunnelOwner,
                tunnelType, tunnelSend, server
  <2>2. QED  BY <2>1, SameForeseen DEF IInv
<1>5. CASE UNCHANGED vars
  BY <1>5, SameForeseen DEF IInv, vars, server
<1>6. QED  BY <1>1, <1>2, <1>3, <1>4, <1>5 DEF Next, LoopThread

LEMMA ToldOnNext ==
    ASSUME NEW s, told' = s, Settles("topic", {s.topic})',
           Settles("clientType_", {s.type, cTourist})'
    PROVE  ToldIsShown'
BY DEF ToldIsShown, Settles, Members

LEMMA ToldByBeginCallback ==
    ASSUME IInv, BeginCallback
    PROVE  ToldIsShown'
<1>1. down \in Seq(Message) /\ down # <<>>
  BY DEF IInv, TypeOK, BeginCallback
<1>2. PICK m \in Message : m = Head(down)
  BY <1>1, MembersOfTail
<1>3. PICK s : s = told
  OBVIOUS
<1>4. Settles("topic", {s.topic}) /\ Settles("clientType_", {s.type, cTourist})
  BY <1>3 DEF IInv, ToldIsShown
<1>5. todo' = Callback(m) /\ app' = app /\ todo = <<>>
  BY <1>2 DEF BeginCallback, Idle
<1>6. CASE m.msg = "GridInfo"
  <2>1. told' = m.seat
    BY <1>2, <1>6 DEF BeginCallback
  <2>2. Settles("topic", {m.seat.topic})' /\ Settles("clientType_", {m.seat.type})'
    BY <1>2, <1>6, GridInfoSettles
  <2>3. Settles("clientType_", {m.seat.type, cTourist})'
    BY <2>2 DEF Settles, Members
  <2>4. PICK t : t = m.seat
    OBVIOUS
  <2>5. QED  BY <2>1, <2>2, <2>3, <2>4, ToldOnNext
<1>7. CASE m.msg = "boardAns"
  <2>1. told' = s
    BY <1>2, <1>3, <1>7 DEF BeginCallback
  <2>2. \A w \in Members(Callback(Head(down))) : w.field # "topic" /\ w.field # "clientType_"
    BY <1>2, <1>7, BoardAnsWrites DEF Callback
  <2>3. Settles("topic", {s.topic})' /\ Settles("clientType_", {s.type, cTourist})'
    BY <1>4, <2>2, OtherFieldsSettle
  <2>4. QED  BY <2>1, <2>3, ToldOnNext
<1>8. CASE m.msg \in {"finalInfo", "QUIT_CURRENT"}
  <2>1. told' = s
    BY <1>2, <1>3, <1>8 DEF BeginCallback
  <2>2. \A w \in Members(Callback(Head(down))) :
           w.field # "topic" /\ (w.field = "clientType_" => w.value = cTourist)
    <3>1. Callback(Head(down)) \in {onFinalInfo, onSystemAns}
      BY <1>2, <1>8 DEF Callback
    <3>2. QED  BY <3>1, TouristWrites
  <2>3. Settles("topic", {s.topic})'
    BY <1>4, <2>2, OtherFieldsSettle
  <2>4. Settles("clientType_", {s.type, cTourist})'
    <3>1. app["clientType_"] \in {s.type, cTourist}
      BY <1>4, <1>5, SettledWhenIdle
    <3>2. QED  BY <1>2, <1>5, <2>2, <3>1 DEF Settles, Members
  <2>5. QED  BY <2>1, <2>3, <2>4, ToldOnNext
<1>9. m.msg \in {"GridInfo", "boardAns", "finalInfo", "QUIT_CURRENT"}
  BY DEF Message
<1>10. QED  BY <1>6, <1>7, <1>8, <1>9

LEMMA NextTold ==
    ASSUME IInv, [Next]_vars
    PROVE  ToldIsShown'
<1>1. PICK s : s = told
  OBVIOUS
<1>2. Settles("topic", {s.topic}) /\ Settles("clientType_", {s.type, cTourist})
  BY <1>1 DEF IInv, ToldIsShown
<1>3. CASE BeginCallback
  BY <1>3, ToldByBeginCallback
<1>4. CASE CallbackStep
  <2>1. Settles("topic", {s.topic})' /\ Settles("clientType_", {s.type, cTourist})'
    BY <1>2, <1>4, SettlesStep DEF IInv
  <2>2. told' = s
    BY <1>1, <1>4 DEF CallbackStep, history
  <2>3. QED  BY <2>1, <2>2, ToldOnNext
<1>5. CASE UNCHANGED <<app, todo, told>>
  <2>1. Settles("topic", {s.topic})' /\ Settles("clientType_", {s.type, cTourist})'
    BY <1>2, <1>5, SameSettles
  <2>2. QED  BY <1>1, <1>5, <2>1, ToldOnNext
<1>6. CASE Server
  BY <1>5, <1>6 DEF Server, TakeSeat, Quit, BoardUpdate, GameOver, RoomDeleted, history
<1>7. CASE MainThread
  BY <1>5, <1>7 DEF MainThread, EnterGame, Key, tunnelGameModel, tunnelCanmove, tunnelTurn,
                    tunnelRival, tunnelTurnAgain, tunnelOwner, tunnelType, tunnelSend, history
<1>8. CASE UNCHANGED vars
  BY <1>5, <1>8 DEF vars, history
<1>9. QED  BY <1>3, <1>4, <1>6, <1>7, <1>8 DEF Next, LoopThread

\* Only the main thread reads on, only a callback that begins disturbs it, and no
\* callback writes that has not begun.
LEMMA NextTunnel ==
    ASSUME IInv, [Next]_vars
    PROVE  TunnelIsCurrent'
<1> USE DEF IInv
<1>1. CASE BeginCallback
  BY <1>1 DEF BeginCallback, TunnelIsCurrent, InTunnel
<1>2. CASE CallbackStep
  BY <1>2 DEF CallbackStep, TunnelIsCurrent, InTunnel, history
<1>3. CASE EnterGame
  BY <1>3 DEF EnterGame, Goto, TunnelIsCurrent, InTunnel
<1>4. CASE Key
  BY <1>4 DEF Key, Goto, TunnelIsCurrent, InTunnel
<1>5. CASE tunnelGameModel
  BY <1>5 DEF tunnelGameModel, Goto, TunnelIsCurrent, InTunnel, history
<1>6. CASE tunnelCanmove
  BY <1>6 DEF tunnelCanmove, Goto, TunnelIsCurrent, InTunnel, history
<1>7. CASE tunnelTurn \/ tunnelRival
  BY <1>7 DEF tunnelTurn, tunnelRival, Goto, TunnelIsCurrent, InTunnel, RivalWaits, history
<1>8. CASE tunnelTurnAgain \/ tunnelOwner
  BY <1>8 DEF tunnelTurnAgain, tunnelOwner, Goto, TunnelIsCurrent, InTunnel, RivalWaits,
               OwnerWaits, history
<1>9. CASE tunnelType
  BY <1>9 DEF tunnelType, Goto, TunnelIsCurrent, InTunnel, RivalWaits, OwnerWaits, history
<1>10. CASE tunnelSend
  BY <1>10 DEF tunnelSend, Goto, TunnelIsCurrent, InTunnel
<1>11. CASE UNCHANGED <<app, pc, query, todo, mixed>>
  BY <1>11 DEF TunnelIsCurrent, InTunnel, RivalWaits, OwnerWaits
<1>12. CASE TakeSeat \/ Quit
  BY <1>12 DEF TakeSeat, Quit, TunnelIsCurrent, InTunnel
<1>13. CASE BoardUpdate \/ GameOver \/ RoomDeleted
  BY <1>11, <1>13 DEF BoardUpdate, GameOver, RoomDeleted, history
<1>14. CASE UNCHANGED vars
  BY <1>11, <1>14 DEF vars, history
<1>15. QED
  BY <1>1, <1>2, <1>3, <1>4, <1>5, <1>6, <1>7, <1>8, <1>9, <1>10, <1>12, <1>13, <1>14
     DEF Next, MainThread, LoopThread, Server

--------------------------------------------------------------------------------
(* The theorems.                                                               *)

LEMMA InitIInv == Init => IInv
<1> SUFFICES ASSUME Init PROVE IInv
  OBVIOUS
<1>1. /\ todo = <<>> /\ told = NoSeat /\ seat = NoSeat /\ pc = "prompt"
      /\ app["topic"] = NoTopic /\ app["clientType_"] = cTourist
  BY DEF Init
<1>2. SeatIsForeseen
  BY <1>1, NoSeatFacts DEF SeatIsForeseen
<1>3. Settles("topic", {told.topic}) /\ Settles("clientType_", {told.type, cTourist})
  BY <1>1, NoSeatFacts DEF Settles, Members
<1>4. TunnelIsCurrent
  BY <1>1 DEF TunnelIsCurrent, InTunnel
<1>5. QED  BY <1>2, <1>3, <1>4, InitTypeOK DEF IInv, ToldIsShown

\* The invariant holds in every state of a client, whatever the rooms and however
\* many messages wait.
THEOREM Invariance == Spec => []IInv
<1>1. IInv /\ [Next]_vars => IInv'
  <2> SUFFICES ASSUME IInv, [Next]_vars PROVE IInv'
    OBVIOUS
  <2>1. TypeOK'
    BY NextTypeOK DEF IInv
  <2>2. QED  BY <2>1, NextForeseen, NextTold, NextTunnel DEF IInv
<1>2. QED  BY InitIInv, <1>1, PTL DEF Spec

\* The variables of client, connection and server keep their types.
THEOREM TypeCorrect == Spec => []TypeOK
<1>1. IInv => TypeOK
  BY DEF IInv
<1>2. QED  BY <1>1, Invariance, PTL

\* With nothing under way and no callback running, a client whose user has a seat
\* shows its role and its room, and a player's is in game model.
THEOREM SeatsAreKnown == Spec => []QuietClientKnowsItsSeat
<1>1. IInv => QuietClientKnowsItsSeat
  <2> SUFFICES ASSUME IInv, down = <<>>, todo = <<>>, seat.type # cTourist
               PROVE  /\ app.clientType_ = seat.type
                      /\ app.topic = seat.topic
                      /\ seat.type # cSubscribe => app.gameModel
    BY DEF QuietClientKnowsItsSeat
  <2>1. SettlesOn(seat)
    BY DEF IInv, SeatIsForeseen
  <2>2. /\ app["clientType_"] \in {seat.type} /\ app["topic"] \in {seat.topic}
        /\ seat.type # cSubscribe => app["gameModel"] \in {TRUE}
    BY <2>1, SettledWhenIdle DEF SettlesOn
  <2>3. QED  BY <2>2
<1>2. QED  BY <1>1, Invariance, PTL

\* A move that no callback came between names the room of the last GridInfo, and its
\* role or the tourist's; the client is in game model, and in turn as far as it knows.
THEOREM MovesAreSound == Spec => UndisturbedMovesAreSound
<1>1. IInv /\ [Next]_vars =>
         [ tunnelSend /\ ~ mixed =>
               /\ Sent.topic = told.topic
               /\ Sent.type \in {told.type, cTourist}
               /\ app.gameModel
               /\ app.clientType_ = cOwner => app.isOwnerTune
               /\ app.clientType_ = cRival => ~ app.isOwnerTune ]_vars
  <2> SUFFICES ASSUME IInv, tunnelSend, ~ mixed
               PROVE  /\ Sent.topic = told.topic
                      /\ Sent.type \in {told.type, cTourist}
                      /\ app.gameModel
                      /\ app.clientType_ = cOwner => app.isOwnerTune
                      /\ app.clientType_ = cRival => ~ app.isOwnerTune
    OBVIOUS
  <2>1. /\ todo = <<>> /\ app.gameModel /\ ~ RivalWaits /\ ~ OwnerWaits
        /\ query.type = app.clientType_ /\ query \in Seats
    BY DEF IInv, TypeOK, TunnelIsCurrent, InTunnel, tunnelSend
  <2>2. app["topic"] \in {told.topic} /\ app["clientType_"] \in {told.type, cTourist}
    BY <2>1, SettledWhenIdle DEF IInv, ToldIsShown
  <2>3. Sent.topic = app.topic /\ Sent.type = query.type
    BY <2>1 DEF Sent, Seats
  <2>4. (app.clientType_ = cOwner => app.isOwnerTune)
        /\ (app.clientType_ = cRival => ~ app.isOwnerTune)
    BY <2>1 DEF RivalWaits, OwnerWaits
  <2>5. QED  BY <2>1, <2>2, <2>3, <2>4
<1>2. QED  BY <1>1, Invariance, PTL DEF Spec, UndisturbedMovesAreSound

================================================================================
