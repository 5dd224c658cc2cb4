---------------------------- MODULE GreedMatchProofs ----------------------------
(***************************************************************************)
(* What the two clients of a match know, and how it ends for them: for     *)
(* boards of every size and any number of queries and messages under way.  *)
(*                                                                         *)
(* About the room itself the theorems of GreedGame are used: while a match *)
(* is played, its room is in a state that they describe.                   *)
(***************************************************************************)
EXTENDS GreedMatch, SequenceTheorems, TLAPS

Thm == INSTANCE GreedGameProofs

--------------------------------------------------------------------------------
(* The types.                                                                  *)

\* The role of the user who has the seat.
Role(s) == IF s = "owner" THEN cOwner ELSE cRival

Query(s) == [type : {Role(s)}, x : Key]

BoardAns == [msg : {"boardAns"}, code : {0, 2}, isownertune : BOOLEAN,
             canmove : [Side -> BOOLEAN]]
Notice   == [msg : {"finalInfo"}, score : [Side -> Nat]] \cup [msg : {"SystemAns"}]
Msg      == BoardAns \cup Notice

App == [clientType_ : {cTourist, cOwner, cRival}, gameModel : BOOLEAN,
        isOwnerTune : BOOLEAN, canmove : BOOLEAN]

TypeOK ==
    /\ status \in {"playing", "over", "crashed"}
    /\ announced \in [Side -> Nat] \cup {NotAnnounced}
    /\ up \in [Side -> Seq(Query("owner") \cup Query("rival"))]
    /\ down \in [Side -> Seq(Msg)]
    /\ app \in [Side -> App]
    /\ main \in [Side -> {"cmd", "tunnel"}]
    /\ dialog \in [Side -> BOOLEAN]
    /\ verdict \in [Side -> {"none", "You Win!", "You Loss!"}]

--------------------------------------------------------------------------------
(* The inductive invariant.                                                    *)

\* While the match is played, the room is as onboardQuery keeps it.
RoomIsSound == status = "playing" => Thm!IInv

\* A client in game model has its seat, it sends moves for that seat only, and it
\* gives the seat up after it has told its player the result.
SeatIsKept ==
    \A s \in Side :
        /\ \A k \in DOMAIN up[s] : up[s][k].type = Role(s)
        /\ app[s].gameModel => app[s].clientType_ = Role(s)
        /\ verdict[s] = "none" => app[s].gameModel /\ ~ dialog[s]

\* The last word about the turn, under way or known, is the room's; and a client or a
\* message that denies a player a move is right.
TurnIsTold ==
    status = "playing" =>
        \A s \in Side :
            isOwnerTurn = IF down[s] = <<>> THEN app[s].isOwnerTune
                          ELSE down[s][Len(down[s])].isownertune

FlagIsTold ==
    status = "playing" =>
        \A s \in Side :
            canMove[s] => /\ app[s].canmove
                          /\ \A k \in DOMAIN down[s] : down[s][k].canmove[s]

\* Nothing but answers is sent before the game has ended.
AnswersFirst ==
    announced = NotAnnounced =>
        \A s \in Side : /\ verdict[s] = "none"
                        /\ \A k \in DOMAIN down[s] : down[s][k] \in BoardAns

\* Each client is sent one result, the same, and tells it as its seat has it.
OneResult ==
    \A s \in Side :
        /\ \A k \in DOMAIN down[s] :
               down[s][k].msg = "finalInfo" =>
                   /\ down[s][k].score = announced
                   /\ verdict[s] = "none"
                   /\ \A j \in DOMAIN down[s] : down[s][j].msg = "finalInfo" => j = k
        /\ verdict[s] # "none" =>
               verdict[s] = IF Wins(Role(s), announced) THEN "You Win!" ELSE "You Loss!"

IInv == /\ TypeOK
        /\ RoomIsSound
        /\ SeatIsKept
        /\ TurnIsTold /\ FlagIsTold
        /\ AnswersFirst /\ OneResult

--------------------------------------------------------------------------------
(* The room.                                                                   *)

LEMMA Sides == /\ Side = {"owner", "rival"}
               /\ \A s \in Side : Game!SideOf(Role(s)) = s /\ Role(s) \in {cOwner, cRival}
BY MatchAssumption DEF Side, Game!Side, Game!SideOf, Role

\* The definitions of the game, by either of its names.
LEMMA SameInit == Game!Init => Thm!Init
BY DEF Game!Init, Game!Message, Game!Side, Game!Erase, Game!Digit, Game!Cell, Game!Row, Game!Col,
       Thm!Init, Thm!Message, Thm!Side, Thm!Erase, Thm!Digit, Thm!Cell, Thm!Row, Thm!Col

LEMMA SameMoves ==
    ASSUME NEW g, NEW p, NEW d
    PROVE  /\ Game!CanWalk(g, p, d) <=> Thm!CanWalk(g, p, d)
           /\ Game!OtherMove(g, p, d) <=> Thm!OtherMove(g, p, d)
BY DEF Game!CanWalk, Game!OtherMove, Game!Direction, Game!Path, Game!Distance, Game!At,
       Game!Cell, Game!Row, Game!Col,
       Thm!CanWalk, Thm!OtherMove, Thm!Direction, Thm!Path, Thm!Distance, Thm!At,
       Thm!Cell, Thm!Row, Thm!Col

LEMMA SameQuery ==
    ASSUME NEW ct, NEW d
    PROVE  Game!onboardQuery(ct, d) => Thm!onboardQuery(ct, d)
BY DEF Game!onboardQuery, Game!GoodMove, Game!NoMoveLeft, Game!BadMove, Game!Crash, Game!Walk,
       Game!Refuse, Game!Eaten, Game!TurnAfterWalk, Game!Judge, Game!InTheEnd, Game!Decided,
       Game!PublishBoardUpdate, Game!EraseIfOver, Game!Message, Game!SideOf, Game!Side, Game!Other,
       Game!AnyMove, Game!CanWalk, Game!OtherMove, Game!OtherMoveStrays, Game!ScannedBefore,
       Game!Direction, Game!Path, Game!Distance, Game!At, Game!Erase, Game!Cell, Game!Row, Game!Col,
       Thm!onboardQuery, Thm!GoodMove, Thm!NoMoveLeft, Thm!BadMove, Thm!Crash, Thm!Walk,
       Thm!Refuse, Thm!Eaten, Thm!TurnAfterWalk, Thm!Judge, Thm!InTheEnd, Thm!Decided,
       Thm!PublishBoardUpdate, Thm!EraseIfOver, Thm!Message, Thm!SideOf, Thm!Side, Thm!Other,
       Thm!AnyMove, Thm!CanWalk, Thm!OtherMove, Thm!OtherMoveStrays, Thm!ScannedBefore,
       Thm!Direction, Thm!Path, Thm!Distance, Thm!At, Thm!Erase, Thm!Cell, Thm!Row, Thm!Col

\* What a query does to the room of a match that is being played.
LEMMA RoomStep ==
    ASSUME TypeOK, RoomIsSound, status = "playing",
           NEW s \in Side, NEW d \in Key, Game!onboardQuery(Role(s), d)
    PROVE  /\ Thm!IInv' /\ RoomIsSound'
           /\ status' \in {"playing", "over", "crashed"}
           /\ announced = NotAnnounced
           /\ announced' \in [Side -> Nat] \cup {NotAnnounced}
           /\ status' = "over" <=> announced' # NotAnnounced
           /\ isOwnerTurn' \in BOOLEAN /\ canMove' \in [Side -> BOOLEAN]
           /\ \A t \in Side : canMove'[t] => canMove[t]
           /\ status' # "crashed" /\ isValid(s, d) = 1 =>
                  UNCHANGED <<isOwnerTurn, announced>>
<1>1. Thm!IInv /\ Thm!onboardQuery(Role(s), d)
  BY SameQuery DEF RoomIsSound
<1>2. Role(s) \in Thm!ClientType /\ d \in Thm!Direction /\ Thm!SideOf(Role(s)) = s
  BY MatchAssumption, Sides DEF Thm!ClientType, Thm!Direction, Thm!SideOf, Role
<1>3. /\ announced = NotAnnounced /\ Thm!IInv'
      /\ status' = "over" <=> announced' # NotAnnounced
      /\ \A t \in Thm!Side : canMove'[t] => canMove[t]
      /\ status' # "crashed" /\ ~ Thm!CanWalk(grid, pos[s], d)
             /\ Thm!OtherMove(grid, pos[s], d) => UNCHANGED Thm!vars
  BY <1>1, <1>2, Thm!QueryFacts, MatchAssumption
<1>4. Side = Thm!Side
  BY DEF Side, Game!Side, Thm!Side
<1>5. /\ isOwnerTurn' \in BOOLEAN /\ canMove' \in [Side -> BOOLEAN]
      /\ announced' \in [Side -> Nat] \cup {NotAnnounced}
      /\ status' \in {"playing", "over", "crashed"}
  BY <1>3, <1>4 DEF Thm!IInv, Thm!TypeOK
<1>6. isValid(s, d) = 1 => ~ Thm!CanWalk(grid, pos[s], d) /\ Thm!OtherMove(grid, pos[s], d)
  BY SameMoves DEF isValid
<1>7. status' # "crashed" /\ isValid(s, d) = 1 => UNCHANGED <<isOwnerTurn, announced>>
  BY <1>3, <1>6 DEF Thm!vars
<1>8. QED  BY <1>3, <1>4, <1>5, <1>7 DEF RoomIsSound

--------------------------------------------------------------------------------
(* What is sent and received.                                                  *)

LEMMA Triples ==
    ASSUME NEW a, NEW b, NEW c
    PROVE  /\ <<>> \o <<>> \o <<>> = <<>>
           /\ <<a>> \o <<>> \o <<>> = <<a>>
           /\ <<a>> \o <<b>> \o <<c>> = <<a, b, c>>
<1> DEFINE S == {a, b, c}
<1>1. /\ <<>> \in Seq(S) /\ <<a>> \in Seq(S) /\ <<b>> \in Seq(S) /\ <<c>> \in Seq(S)
      /\ <<a, b>> \in Seq(S) /\ <<a, b, c>> \in Seq(S)
  OBVIOUS
<1> HIDE DEF S
<1>2. <<>> \o <<>> = <<>> /\ <<a>> \o <<>> = <<a>>
  BY <1>1, ConcatEmptySeq
<1>3. <<a>> \o <<b>> = <<a, b>>
  <2> DEFINE t == <<a>> \o <<b>>
  <2>1. t \in Seq(S) /\ Len(t) = Len(<<a, b>>) /\ t[1] = a /\ t[2] = b
    BY <1>1
  <2>2. \A i \in 1 .. Len(t) : t[i] = <<a, b>>[i]
    BY <2>1
  <2> HIDE DEF t
  <2>3. t = <<a, b>>
    BY <1>1, <2>1, <2>2, SeqEqual
  <2>4. QED  BY <2>3 DEF t
<1>4. <<a, b>> \o <<c>> = <<a, b, c>>
  <2> DEFINE t == <<a, b>> \o <<c>>
  <2>1. t \in Seq(S) /\ Len(t) = Len(<<a, b, c>>) /\ t[1] = a /\ t[2] = b /\ t[3] = c
    BY <1>1
  <2>2. \A i \in 1 .. Len(t) : t[i] = <<a, b, c>>[i]
    BY <2>1
  <2> HIDE DEF t
  <2>3. t = <<a, b, c>>
    BY <1>1, <2>1, <2>2, SeqEqual
  <2>4. QED  BY <2>3 DEF t
<1>5. QED  BY <1>2, <1>3, <1>4

\* Nothing for a bad move, the answer while the game goes on, and at its end the
\* answer, the result and the notice.
LEMMA PublishedFacts ==
    ASSUME NEW code \in {0, 1, 2}, status' # "crashed",
           status' = "over" <=> announced' # NotAnnounced,
           code = 1 => announced' = NotAnnounced,
           isOwnerTurn' \in BOOLEAN, canMove' \in [Side -> BOOLEAN],
           announced' \in [Side -> Nat] \cup {NotAnnounced}
    PROVE  /\ Published(code)' \in Seq(Msg)
           /\ code # 1 => boardAns(code)' \in BoardAns
           /\ announced' # NotAnnounced => finalInfo' \in Notice /\ systemAns \in Notice
           /\ announced' = NotAnnounced /\ code = 1 => Published(code)' = <<>>
           /\ announced' = NotAnnounced /\ code # 1 => Published(code)' = <<boardAns(code)'>>
           /\ announced' # NotAnnounced =>
                  Published(code)' = <<boardAns(code)', finalInfo', systemAns>>
<1>1. code # 1 => boardAns(code)' \in BoardAns
  BY DEF boardAns, BoardAns
<1>2. announced' # NotAnnounced => finalInfo' \in Notice /\ systemAns \in Notice
  BY DEF finalInfo, systemAns, Notice
<1>3. CASE announced' = NotAnnounced /\ code = 1
  <2>1. Published(code)' = <<>> \o <<>> \o <<>>
    BY <1>3 DEF Published, Answered
  <2>2. Published(code)' = <<>>
    BY <2>1, Triples
  <2>3. Published(code)' \in Seq(Msg)
    BY <2>2
  <2>4. code = 1 /\ announced' = NotAnnounced
    BY <1>3
  <2>5. QED  BY <2>2, <2>3, <2>4
<1>4. CASE announced' = NotAnnounced /\ code # 1
  <2>1. Published(code)' = <<boardAns(code)'>> \o <<>> \o <<>>
    BY <1>4 DEF Published, Answered
  <2>2. Published(code)' = <<boardAns(code)'>>
    BY <2>1, Triples
  <2>3. boardAns(code)' \in Msg
    BY <1>1, <1>4 DEF Msg
  <2>4. QED  BY <1>1, <1>2, <1>4, <2>2, <2>3
<1>5. CASE announced' # NotAnnounced
  <2>1. Published(code)' = <<boardAns(code)'>> \o <<finalInfo'>> \o <<systemAns>>
    BY <1>5 DEF Published, Answered, systemAns
  <2>2. Published(code)' = <<boardAns(code)', finalInfo', systemAns>>
    BY <2>1, Triples
  <2>3. boardAns(code)' \in Msg /\ finalInfo' \in Msg /\ systemAns \in Msg
    BY <1>1, <1>2, <1>5 DEF Msg
  <2>4. Published(code)' \in Seq(Msg)
    BY <2>2, <2>3
  <2>5. code # 1
    BY <1>5
  <2>6. QED  BY <1>1, <1>2, <1>5, <2>2, <2>4, <2>5
<1>6. QED  BY <1>3, <1>4, <1>5

\* A queue with more at its end.
LEMMA Longer ==
    ASSUME NEW S, NEW s \in Seq(S), NEW t \in Seq(S)
    PROVE  /\ s \o t \in Seq(S)
           /\ DOMAIN s = 1 .. Len(s) /\ Len(s) \in Nat
           /\ DOMAIN t = 1 .. Len(t) /\ Len(t) \in Nat
           /\ DOMAIN (s \o t) = 1 .. (Len(s) + Len(t)) /\ Len(s \o t) = Len(s) + Len(t)
           /\ \A k \in DOMAIN s : k \in DOMAIN (s \o t) /\ (s \o t)[k] = s[k]
           /\ \A k \in DOMAIN t : Len(s) + k \in DOMAIN (s \o t) /\ (s \o t)[Len(s) + k] = t[k]
           /\ \A k \in DOMAIN (s \o t) :
                 k \in DOMAIN s \/ \E j \in DOMAIN t : k = Len(s) + j
<1>1. /\ s \o t \in Seq(S) /\ Len(s \o t) = Len(s) + Len(t)
      /\ DOMAIN s = 1 .. Len(s) /\ Len(s) \in Nat
      /\ DOMAIN t = 1 .. Len(t) /\ Len(t) \in Nat
  OBVIOUS
<1>2. DOMAIN (s \o t) = 1 .. (Len(s) + Len(t))
  BY <1>1
<1>3. \A k \in DOMAIN (s \o t) :
         (s \o t)[k] = IF k <= Len(s) THEN s[k] ELSE t[k - Len(s)]
  BY <1>1, <1>2
<1>4. \A k \in DOMAIN s : k \in DOMAIN (s \o t) /\ (s \o t)[k] = s[k]
  BY <1>1, <1>2, <1>3
<1>5. \A k \in DOMAIN t : Len(s) + k \in DOMAIN (s \o t) /\ (s \o t)[Len(s) + k] = t[k]
  BY <1>1, <1>2, <1>3
<1>6. ASSUME NEW k \in DOMAIN (s \o t), k \notin DOMAIN s
      PROVE  \E j \in DOMAIN t : k = Len(s) + j
  <2>1. k - Len(s) \in DOMAIN t /\ k = Len(s) + (k - Len(s))
    BY <1>1, <1>2, <1>6
  <2>2. QED  BY <2>1
<1>7. QED  BY <1>1, <1>2, <1>4, <1>5, <1>6

\* A queue without its head.
LEMMA Shorter ==
    ASSUME NEW S, NEW s \in Seq(S), s # <<>>
    PROVE  /\ DOMAIN s = 1 .. Len(s) /\ Len(s) \in Nat \ {0}
           /\ Head(s) = s[1] /\ 1 \in DOMAIN s /\ Head(s) \in S
           /\ Tail(s) \in Seq(S) /\ Len(Tail(s)) = Len(s) - 1
           /\ DOMAIN Tail(s) = 1 .. (Len(s) - 1)
           /\ \A k \in DOMAIN Tail(s) : k + 1 \in DOMAIN s /\ Tail(s)[k] = s[k + 1]
           /\ Tail(s) = <<>> <=> Len(s) = 1
<1>1. /\ DOMAIN s = 1 .. Len(s) /\ Len(s) \in Nat \ {0}
      /\ Head(s) = s[1] /\ 1 \in DOMAIN s /\ Head(s) \in S
      /\ Tail(s) \in Seq(S) /\ Len(Tail(s)) = Len(s) - 1
  OBVIOUS
<1>2. DOMAIN Tail(s) = 1 .. (Len(s) - 1)
  BY <1>1
<1>3. \A k \in DOMAIN Tail(s) : k + 1 \in DOMAIN s /\ Tail(s)[k] = s[k + 1]
  BY <1>1, <1>2
<1>4. Tail(s) = <<>> <=> Len(Tail(s)) = 0
  BY <1>1, EmptySeq
<1>5. Tail(s) = <<>> <=> Len(s) = 1
  BY <1>1, <1>4
<1>6. QED  BY <1>1, <1>2, <1>3, <1>5

\* What the first query of a player does.
LEMMA PlayFacts ==
    ASSUME IInv, NEW s \in Side, Play(s)
    PROVE  /\ UNCHANGED client
           /\ up[s] # <<>> /\ up' = [up EXCEPT ![s] = Tail(@)]
           /\ \/ /\ status' = "crashed" /\ announced' = announced
                 /\ down' = down
              \/ /\ status = "playing" /\ status' # "crashed" /\ RoomIsSound'
                 /\ announced = NotAnnounced
                 /\ announced' \in [Side -> Nat] \cup {NotAnnounced}
                 /\ status' \in {"playing", "over"}
                 /\ status' = "over" <=> announced' # NotAnnounced
                 /\ isOwnerTurn' \in BOOLEAN /\ canMove' \in [Side -> BOOLEAN]
                 /\ \A t \in Side : canMove'[t] => canMove[t]
                 /\ \E code \in {0, 1, 2} :
                       /\ code = 1 => UNCHANGED <<isOwnerTurn, announced>>
                       /\ down' = [t \in Side |-> down[t] \o Published(code)']
<1>1. /\ UNCHANGED client /\ up[s] # <<>> /\ up' = [up EXCEPT ![s] = Tail(@)]
  BY DEF Play
<1>2. CASE status = "over" /\ status' = "crashed" /\ UNCHANGED <<announced, down>>
  BY <1>1, <1>2
<1>3. ASSUME status = "playing",
             \E q \in {Head(up[s])} :
                 /\ Game!onboardQuery(q.type, q.x)
                 /\ \E code \in {isValid(Game!SideOf(q.type), q.x)} :
                        down' = IF status' = "crashed" THEN down
                                ELSE [t \in Side |-> down[t] \o Published(code)']
      PROVE  \/ status' = "crashed" /\ announced' = announced /\ down' = down
             \/ /\ status' # "crashed" /\ RoomIsSound'
                /\ announced = NotAnnounced
                /\ announced' \in [Side -> Nat] \cup {NotAnnounced}
                /\ status' \in {"playing", "over"}
                /\ status' = "over" <=> announced' # NotAnnounced
                /\ isOwnerTurn' \in BOOLEAN /\ canMove' \in [Side -> BOOLEAN]
                /\ \A t \in Side : canMove'[t] => canMove[t]
                /\ \E code \in {0, 1, 2} :
                      /\ code = 1 => UNCHANGED <<isOwnerTurn, announced>>
                      /\ down' = [t \in Side |-> down[t] \o Published(code)']
  <2>1. PICK q \in {Head(up[s])} :
           /\ Game!onboardQuery(q.type, q.x)
           /\ \E code \in {isValid(Game!SideOf(q.type), q.x)} :
                  down' = IF status' = "crashed" THEN down
                          ELSE [t \in Side |-> down[t] \o Published(code)']
    BY <1>3
  <2>2. up[s] \in Seq(Query("owner") \cup Query("rival"))
    BY DEF IInv, TypeOK
  <2>3. q \in Query("owner") \cup Query("rival") /\ q = up[s][1] /\ 1 \in DOMAIN up[s]
    BY <1>1, <2>1, <2>2, Shorter
  <2>4. q.type = Role(s) /\ q.x \in Key
    BY <2>3 DEF Query, IInv, SeatIsKept
  <2>5. PICK d \in Key : d = q.x
    BY <2>4
  <2>6. Game!SideOf(q.type) = s
    BY <2>4, Sides
  <2>7. PICK code : /\ code = isValid(s, d)
                    /\ down' = IF status' = "crashed" THEN down
                               ELSE [t \in Side |-> down[t] \o Published(code)']
    BY <2>1, <2>5, <2>6
  <2>8. code \in {0, 1, 2}
    BY <2>7 DEF isValid
  <2>9. /\ RoomIsSound'
        /\ status' \in {"playing", "over", "crashed"}
        /\ announced = NotAnnounced
        /\ announced' \in [Side -> Nat] \cup {NotAnnounced}
        /\ status' = "over" <=> announced' # NotAnnounced
        /\ isOwnerTurn' \in BOOLEAN /\ canMove' \in [Side -> BOOLEAN]
        /\ \A t \in Side : canMove'[t] => canMove[t]
        /\ status' # "crashed" /\ code = 1 => UNCHANGED <<isOwnerTurn, announced>>
    <3>1. Game!onboardQuery(Role(s), d)
      BY <2>1, <2>4, <2>5
    <3>2. QED  BY <1>3, <2>7, <3>1, RoomStep DEF IInv
  <2>10. CASE status' = "crashed"
    BY <2>7, <2>9, <2>10
  <2>11. CASE status' # "crashed"
    <3>1. down' = [t \in Side |-> down[t] \o Published(code)']
      BY <2>7, <2>11
    <3>2. QED  BY <2>8, <2>9, <2>11, <3>1
  <2>12. QED  BY <2>10, <2>11
<1>4. QED  BY <1>1, <1>2, <1>3 DEF Play

\* What becomes of the first message of a client.
LEMMA ReceiveFacts ==
    ASSUME IInv, NEW s \in Side, Receive(s)
    PROVE  /\ UNCHANGED <<room, up, main>>
           /\ down' \in [Side -> Seq(Msg)]
           /\ \A t \in Side : t # s => down'[t] = down[t]
           /\ 1 \in DOMAIN down[s] /\ down[s] # <<>>
           /\ down'[s] = <<>> <=> Len(down[s]) = 1
           /\ Len(down[s]) \in Nat /\ Len(down'[s]) = Len(down[s]) - 1
           /\ DOMAIN down'[s] = 1 .. Len(down'[s])
           /\ \A k \in DOMAIN down'[s] :
                 k + 1 \in DOMAIN down[s] /\ down'[s][k] = down[s][k + 1]
           /\ \/ /\ down[s][1] \in BoardAns
                 /\ app' = [app EXCEPT ![s] = onBoardAns(@, down[s][1])]
                 /\ UNCHANGED <<dialog, verdict>>
              \/ /\ down[s][1] \in Notice /\ down[s][1].msg = "finalInfo"
                 /\ dialog' = [dialog EXCEPT ![s] = TRUE]
                 /\ verdict' = [verdict EXCEPT ![s] =
                        IF Wins(app[s].clientType_, down[s][1].score)
                        THEN "You Win!" ELSE "You Loss!"]
                 /\ UNCHANGED app
              \/ /\ down[s][1] \in Notice /\ down[s][1].msg = "SystemAns"
                 /\ UNCHANGED <<app, dialog, verdict>>
<1>1. down \in [Side -> Seq(Msg)] /\ down[s] \in Seq(Msg) /\ down[s] # <<>>
  BY DEF IInv, TypeOK, Receive
<1>2. /\ Head(down[s]) = down[s][1] /\ 1 \in DOMAIN down[s] /\ Head(down[s]) \in Msg
      /\ Len(down[s]) \in Nat
      /\ Tail(down[s]) \in Seq(Msg) /\ Len(Tail(down[s])) = Len(down[s]) - 1
      /\ DOMAIN Tail(down[s]) = 1 .. (Len(down[s]) - 1)
      /\ \A k \in DOMAIN Tail(down[s]) :
            k + 1 \in DOMAIN down[s] /\ Tail(down[s])[k] = down[s][k + 1]
      /\ Tail(down[s]) = <<>> <=> Len(down[s]) = 1
  BY <1>1, Shorter
<1>3. down' = [down EXCEPT ![s] = Tail(@)] /\ UNCHANGED <<room, up, main>>
  BY DEF Receive
<1>4. /\ down'[s] = Tail(down[s]) /\ down' \in [Side -> Seq(Msg)]
      /\ \A t \in Side : t # s => down'[t] = down[t]
  BY <1>1, <1>2, <1>3
<1>5. PICK m \in Msg : m = Head(down[s])
  BY <1>2
<1>6. \/ /\ m.msg = "boardAns"
         /\ app' = [app EXCEPT ![s] = onBoardAns(@, m)]
         /\ UNCHANGED <<dialog, verdict>>
      \/ /\ m.msg = "finalInfo"
         /\ dialog' = [dialog EXCEPT ![s] = TRUE]
         /\ verdict' = [verdict EXCEPT ![s] =
                IF Wins(app[s].clientType_, m.score) THEN "You Win!" ELSE "You Loss!"]
         /\ UNCHANGED app
      \/ m.msg = "SystemAns" /\ UNCHANGED <<app, dialog, verdict>>
  <2>1. m.msg \in {"boardAns", "finalInfo", "SystemAns"}
    BY DEF Msg, BoardAns, Notice
  <2>2. CASE m.msg = "boardAns"
    BY <1>5, <2>2 DEF Receive
  <2>3. CASE m.msg = "finalInfo"
    BY <1>5, <2>3 DEF Receive
  <2>4. CASE m.msg = "SystemAns"
    BY <1>5, <2>4 DEF Receive
  <2>5. QED  BY <2>1, <2>2, <2>3, <2>4
<1>7. (m.msg = "boardAns" => m \in BoardAns) /\ (m.msg # "boardAns" => m \in Notice)
  BY DEF Msg, BoardAns, Notice
<1>8. m = down[s][1]
  BY <1>2, <1>5
<1>9. \/ /\ down[s][1] \in BoardAns
         /\ app' = [app EXCEPT ![s] = onBoardAns(@, down[s][1])]
         /\ UNCHANGED <<dialog, verdict>>
      \/ /\ down[s][1] \in Notice /\ down[s][1].msg = "finalInfo"
         /\ dialog' = [dialog EXCEPT ![s] = TRUE]
         /\ verdict' = [verdict EXCEPT ![s] =
                IF Wins(app[s].clientType_, down[s][1].score) THEN "You Win!" ELSE "You Loss!"]
         /\ UNCHANGED app
      \/ /\ down[s][1] \in Notice /\ down[s][1].msg = "SystemAns"
         /\ UNCHANGED <<app, dialog, verdict>>
  BY <1>6, <1>7, <1>8
<1>10. QED  BY <1>1, <1>2, <1>3, <1>4, <1>9

\* What a client makes of an answer.
LEMMA OnBoardAnsFacts ==
    ASSUME NEW a \in App, NEW m \in BoardAns, NEW s \in Side
    PROVE  /\ onBoardAns(a, m) \in App
           /\ onBoardAns(a, m).clientType_ = a.clientType_
           /\ onBoardAns(a, m).gameModel = a.gameModel
           /\ onBoardAns(a, m).isOwnerTune = m.isownertune
           /\ a.clientType_ = Role(s) =>
                  onBoardAns(a, m).canmove \in {a.canmove, m.canmove[s]}
<1> DEFINE b == IF a.clientType_ = cOwner THEN "owner" ELSE "rival"
<1>1. /\ m.code \in {0, 2} /\ m.isownertune \in BOOLEAN /\ m.canmove \in [Side -> BOOLEAN]
      /\ b \in Side
  BY Sides DEF BoardAns
<1>2. a.clientType_ = Role(s) => b = s
  BY MatchAssumption, Sides DEF Role
<1>3. m.canmove[b] \in BOOLEAN
  BY <1>1
<1> HIDE DEF b
<1>4. CASE m.code = 0
  <2>1. onBoardAns(a, m) = [a EXCEPT !.isOwnerTune = m.isownertune]
    BY <1>4 DEF onBoardAns
  <2>2. QED  BY <1>1, <2>1 DEF App
<1>5. CASE m.code = 2
  <2>1. onBoardAns(a, m) = [a EXCEPT !.isOwnerTune = m.isownertune, !.canmove = m.canmove[b]]
    BY <1>5 DEF onBoardAns, b
  <2>2. QED  BY <1>1, <1>2, <1>3, <2>1 DEF App
<1>6. QED  BY <1>1, <1>4, <1>5

--------------------------------------------------------------------------------
(* The steps.                                                                  *)

\* No result has been announced in a match that is being played.
LEMMA NotYetAnnounced ==
    ASSUME IInv, status = "playing"
    PROVE  announced = NotAnnounced
BY DEF IInv, RoomIsSound, Thm!IInv, Thm!AnnouncedIffOver

\* Only onboardQuery changes the room.
LEMMA SameRoom ==
    ASSUME RoomIsSound, UNCHANGED room
    PROVE  RoomIsSound'
BY DEF RoomIsSound, room, Thm!IInv, Thm!TypeOK, Thm!FlagDownMeansStuck, Thm!Stuck,
       Thm!TurnHasMover, Thm!OverIsDecided, Thm!AnnouncedIffOver, Thm!ShownIsCurrent,
       Thm!Message, Thm!PiecesStandOnBlanks

\* A query is sent for the seat that its player has.
LEMMA MainThreadPreserves ==
    ASSUME IInv, NEW s \in Side, Enter(s) \/ Leave(s) \/ \E d \in Key : Move(s, d)
    PROVE  IInv'
<1>1. UNCHANGED <<room, down, app, dialog, verdict>>
  BY DEF Enter, Leave, Move, network, client
<1>2. main' \in [Side -> {"cmd", "tunnel"}]
  BY DEF IInv, TypeOK, Enter, Leave, Move, client
<1>3. /\ up' \in [Side -> Seq(Query("owner") \cup Query("rival"))]
      /\ \A t \in Side : \A k \in DOMAIN up'[t] : up'[t][k].type = Role(t)
  <2>1. /\ up \in [Side -> Seq(Query("owner") \cup Query("rival"))]
        /\ \A t \in Side : \A k \in DOMAIN up[t] : up[t][k].type = Role(t)
    BY DEF IInv, TypeOK, SeatIsKept
  <2>2. CASE UNCHANGED up
    BY <2>1, <2>2
  <2>3. ASSUME NEW d \in Key, Move(s, d)
        PROVE  /\ up' \in [Side -> Seq(Query("owner") \cup Query("rival"))]
               /\ \A t \in Side : \A k \in DOMAIN up'[t] : up'[t][k].type = Role(t)
    <3> DEFINE q == [type |-> app[s].clientType_, x |-> d]
    <3>1. app[s].clientType_ = Role(s)
      BY <2>3 DEF Move, Willing, IInv, SeatIsKept
    <3>2. q \in Query("owner") \cup Query("rival") /\ q.type = Role(s)
      BY <3>1, Sides DEF Query
    <3>3. up' = [up EXCEPT ![s] = Append(@, q)]
      BY <2>3 DEF Move
    <3> HIDE DEF q
    <3>4. up[s] \in Seq(Query("owner") \cup Query("rival"))
      BY <2>1
    <3>5. /\ Append(up[s], q) \in Seq(Query("owner") \cup Query("rival"))
          /\ DOMAIN up[s] = 1 .. Len(up[s]) /\ Len(up[s]) \in Nat
          /\ DOMAIN Append(up[s], q) = 1 .. (Len(up[s]) + 1)
          /\ Append(up[s], q)[Len(up[s]) + 1] = q
          /\ \A k \in 1 .. Len(up[s]) : Append(up[s], q)[k] = up[s][k]
      BY <3>2, <3>4
    <3>6. \A k \in DOMAIN Append(up[s], q) : Append(up[s], q)[k].type = Role(s)
      <4>1. ASSUME NEW k \in DOMAIN Append(up[s], q)
            PROVE  Append(up[s], q)[k].type = Role(s)
        <5>1. CASE k = Len(up[s]) + 1
          BY <3>2, <3>5, <5>1
        <5>2. CASE k # Len(up[s]) + 1
          BY <2>1, <3>5, <5>2
        <5>3. QED  BY <5>1, <5>2
      <4>2. QED  BY <4>1
    <3>7. up'[s] = Append(up[s], q) /\ \A t \in Side : t # s => up'[t] = up[t]
      BY <2>1, <3>3
    <3>8. up' \in [Side -> Seq(Query("owner") \cup Query("rival"))]
      BY <2>1, <3>3, <3>5
    <3>9. QED  BY <2>1, <3>6, <3>7, <3>8
  <2>4. QED  BY <2>2, <2>3 DEF Enter, Leave, network
<1>4. TypeOK'
  BY <1>1, <1>2, <1>3 DEF IInv, TypeOK, room
<1>5. RoomIsSound'
  BY <1>1, SameRoom DEF IInv
<1>6. SeatIsKept'
  BY <1>1, <1>3 DEF IInv, SeatIsKept
<1>7. TurnIsTold' /\ FlagIsTold' /\ AnswersFirst' /\ OneResult'
  BY <1>1 DEF IInv, TurnIsTold, FlagIsTold, AnswersFirst, OneResult, room
<1>8. QED  BY <1>4, <1>5, <1>6, <1>7 DEF IInv

\* The message that is handled has told what the client knows now.
LEMMA ReceivePreserves ==
    ASSUME IInv, NEW s \in Side, Receive(s)
    PROVE  IInv'
<1> DEFINE m == down[s][1]
<1>1. /\ UNCHANGED <<room, up, main>>
      /\ down' \in [Side -> Seq(Msg)]
      /\ \A t \in Side : t # s => down'[t] = down[t]
      /\ 1 \in DOMAIN down[s] /\ down[s] # <<>>
      /\ down'[s] = <<>> <=> Len(down[s]) = 1
      /\ Len(down[s]) \in Nat /\ Len(down'[s]) = Len(down[s]) - 1
      /\ DOMAIN down'[s] = 1 .. Len(down'[s])
      /\ \A k \in DOMAIN down'[s] : k + 1 \in DOMAIN down[s] /\ down'[s][k] = down[s][k + 1]
  BY ReceiveFacts
<1>2. \/ /\ m \in BoardAns
         /\ app' = [app EXCEPT ![s] = onBoardAns(@, m)]
         /\ UNCHANGED <<dialog, verdict>>
      \/ /\ m \in Notice /\ m.msg = "finalInfo"
         /\ dialog' = [dialog EXCEPT ![s] = TRUE]
         /\ verdict' = [verdict EXCEPT ![s] =
                IF Wins(app[s].clientType_, m.score) THEN "You Win!" ELSE "You Loss!"]
         /\ UNCHANGED app
      \/ /\ m \in Notice /\ m.msg = "SystemAns"
         /\ UNCHANGED <<app, dialog, verdict>>
  BY ReceiveFacts
<1>3. /\ app \in [Side -> App] /\ dialog \in [Side -> BOOLEAN]
      /\ verdict \in [Side -> {"none", "You Win!", "You Loss!"}]
      /\ app[s] \in App
  BY DEF IInv, TypeOK
<1>4. /\ status' = status /\ announced' = announced
      /\ isOwnerTurn' = isOwnerTurn /\ canMove' = canMove
  BY <1>1 DEF room
<1> HIDE DEF m
<1>5. RoomIsSound'
  BY <1>1, SameRoom DEF IInv
\* What the client's fields become.
<1>6. /\ app' \in [Side -> App]
      /\ \A t \in Side : t # s => app'[t] = app[t]
      /\ app'[s].clientType_ = app[s].clientType_ /\ app'[s].gameModel = app[s].gameModel
      /\ m \in BoardAns => /\ app'[s].isOwnerTune = m.isownertune
                           /\ app[s].clientType_ = Role(s) =>
                                  app'[s].canmove \in {app[s].canmove, m.canmove[s]}
  <2>1. CASE m \in BoardAns
    <3>1. app' = [app EXCEPT ![s] = onBoardAns(@, m)]
      BY <1>2, <2>1 DEF BoardAns, Notice
    <3>2. /\ onBoardAns(app[s], m) \in App
          /\ onBoardAns(app[s], m).clientType_ = app[s].clientType_
          /\ onBoardAns(app[s], m).gameModel = app[s].gameModel
          /\ onBoardAns(app[s], m).isOwnerTune = m.isownertune
          /\ app[s].clientType_ = Role(s) =>
                 onBoardAns(app[s], m).canmove \in {app[s].canmove, m.canmove[s]}
      BY <1>3, <2>1, OnBoardAnsFacts
    <3>3. app'[s] = onBoardAns(app[s], m) /\ \A t \in Side : t # s => app'[t] = app[t]
      BY <1>3, <3>1
    <3>4. app' \in [Side -> App]
      BY <1>3, <3>1, <3>2
    <3>5. QED  BY <3>2, <3>3, <3>4
  <2>2. CASE m \notin BoardAns
    BY <1>2, <1>3, <2>2
  <2>3. QED  BY <2>1, <2>2
<1>7. /\ dialog' \in [Side -> BOOLEAN]
      /\ verdict' \in [Side -> {"none", "You Win!", "You Loss!"}]
      /\ \A t \in Side : t # s => dialog'[t] = dialog[t] /\ verdict'[t] = verdict[t]
      /\ \/ UNCHANGED <<dialog, verdict>>
         \/ /\ m.msg = "finalInfo"
            /\ verdict'[s] = IF Wins(app[s].clientType_, m.score)
                             THEN "You Win!" ELSE "You Loss!"
  BY <1>2, <1>3
<1>8. TypeOK'
  BY <1>1, <1>4, <1>6, <1>7 DEF IInv, TypeOK
<1>9. SeatIsKept'
  <2>1. ASSUME NEW t \in Side, verdict'[t] = "none"
        PROVE  app'[t].gameModel /\ ~ dialog'[t]
    <3>1. verdict[t] = "none" /\ dialog'[t] = dialog[t]
      BY <1>7, <2>1
    <3>2. app'[t].gameModel = app[t].gameModel
      BY <1>6
    <3>3. QED  BY <3>1, <3>2 DEF IInv, SeatIsKept
  <2>2. \A t \in Side : app'[t].gameModel => app'[t].clientType_ = Role(t)
    BY <1>6 DEF IInv, SeatIsKept
  <2>3. QED  BY <1>1, <2>1, <2>2 DEF IInv, SeatIsKept
<1>10. ASSUME status = "playing"
       PROVE  /\ announced = NotAnnounced
              /\ \A t \in Side : \A k \in DOMAIN down[t] : down[t][k] \in BoardAns
              /\ m \in BoardAns
              /\ app[s].clientType_ = Role(s)
  <2>1. /\ announced = NotAnnounced
        /\ \A t \in Side : \A k \in DOMAIN down[t] : down[t][k] \in BoardAns
        /\ verdict[s] = "none"
    BY <1>10, NotYetAnnounced DEF IInv, AnswersFirst
  <2>2. QED  BY <1>1, <2>1 DEF m, IInv, SeatIsKept
<1>11. TurnIsTold'
  <2>1. SUFFICES ASSUME status = "playing", NEW t \in Side
                 PROVE  isOwnerTurn = IF down'[t] = <<>> THEN app'[t].isOwnerTune
                                      ELSE down'[t][Len(down'[t])].isownertune
    BY <1>4 DEF TurnIsTold
  <2>2. isOwnerTurn = IF down[t] = <<>> THEN app[t].isOwnerTune
                      ELSE down[t][Len(down[t])].isownertune
    BY <2>1 DEF IInv, TurnIsTold
  <2>3. CASE t # s
    BY <1>1, <1>6, <2>2, <2>3
  <2>4. CASE t = s /\ Len(down[s]) = 1
    BY <1>1, <1>6, <1>10, <2>1, <2>2, <2>4 DEF m
  <2>5. CASE t = s /\ Len(down[s]) # 1
    <3>1. Len(down'[s]) \in DOMAIN down'[s] /\ Len(down'[s]) + 1 = Len(down[s])
      BY <1>1, <2>5
    <3>2. down'[s][Len(down'[s])] = down[s][Len(down[s])] /\ down'[s] # <<>>
      BY <1>1, <2>5, <3>1
    <3>3. QED  BY <1>1, <2>2, <2>5, <3>2
  <2>6. QED  BY <2>3, <2>4, <2>5
<1>12. FlagIsTold'
  <2>1. SUFFICES ASSUME status = "playing", NEW t \in Side, canMove[t]
                 PROVE  /\ app'[t].canmove
                        /\ \A k \in DOMAIN down'[t] : down'[t][k].canmove[t]
    BY <1>4 DEF FlagIsTold
  <2>2. app[t].canmove /\ \A k \in DOMAIN down[t] : down[t][k].canmove[t]
    BY <2>1 DEF IInv, FlagIsTold
  <2>3. CASE t # s
    BY <1>1, <1>6, <2>2, <2>3
  <2>4. CASE t = s
    <3>1. \A k \in DOMAIN down'[s] : down'[s][k].canmove[s]
      BY <1>1, <2>2, <2>4
    <3>2. m.canmove[s]
      BY <1>1, <2>2, <2>4 DEF m
    <3>3. app'[s].canmove
      BY <1>6, <1>10, <2>1, <2>2, <2>4, <3>2
    <3>4. QED  BY <2>4, <3>1, <3>3
  <2>5. QED  BY <2>3, <2>4
<1>13. AnswersFirst'
  <2>1. SUFFICES ASSUME announced = NotAnnounced, NEW t \in Side
                 PROVE  /\ verdict'[t] = "none"
                        /\ \A k \in DOMAIN down'[t] : down'[t][k] \in BoardAns
    BY <1>4 DEF AnswersFirst
  <2>2. /\ verdict[t] = "none"
        /\ \A u \in Side : \A k \in DOMAIN down[u] : down[u][k] \in BoardAns
    BY <2>1 DEF IInv, AnswersFirst
  <2>3. m \in BoardAns
    BY <1>1, <2>2 DEF m
  <2>4. verdict' = verdict
    BY <1>2, <2>3 DEF BoardAns, Notice
  <2>5. \A k \in DOMAIN down'[t] : down'[t][k] \in BoardAns
    BY <1>1, <2>2
  <2>6. QED  BY <2>2, <2>4, <2>5
<1>14. OneResult'
  <2>1. SUFFICES ASSUME NEW t \in Side
                 PROVE  /\ \A k \in DOMAIN down'[t] :
                              down'[t][k].msg = "finalInfo" =>
                                 /\ down'[t][k].score = announced
                                 /\ verdict'[t] = "none"
                                 /\ \A j \in DOMAIN down'[t] :
                                        down'[t][j].msg = "finalInfo" => j = k
                        /\ verdict'[t] # "none" =>
                               verdict'[t] = IF Wins(Role(t), announced)
                                             THEN "You Win!" ELSE "You Loss!"
    BY <1>4 DEF OneResult
  <2>2. /\ \A k \in DOMAIN down[t] :
              down[t][k].msg = "finalInfo" =>
                 /\ down[t][k].score = announced
                 /\ verdict[t] = "none"
                 /\ \A j \in DOMAIN down[t] : down[t][j].msg = "finalInfo" => j = k
        /\ verdict[t] # "none" =>
               verdict[t] = IF Wins(Role(t), announced) THEN "You Win!" ELSE "You Loss!"
    BY DEF IInv, OneResult
  <2>3. CASE t # s
    BY <1>1, <1>7, <2>2, <2>3
  <2>4. CASE t = s
    <3>1. ASSUME NEW k \in DOMAIN down'[s], down'[s][k].msg = "finalInfo"
          PROVE  /\ down'[s][k].score = announced
                 /\ verdict'[s] = "none"
                 /\ \A j \in DOMAIN down'[s] : down'[s][j].msg = "finalInfo" => j = k
      <4>1. k + 1 \in DOMAIN down[s] /\ down[s][k + 1] = down'[s][k] /\ k + 1 # 1
            /\ k \in Nat
        BY <1>1
      <4>2. /\ down[s][k + 1].score = announced /\ verdict[s] = "none"
            /\ \A j \in DOMAIN down[s] : down[s][j].msg = "finalInfo" => j = k + 1
        BY <2>2, <2>4, <3>1, <4>1
      <4>3. m.msg # "finalInfo"
        BY <1>1, <4>1, <4>2 DEF m
      <4>4. verdict' = verdict
        BY <1>7, <4>3
      <4>5. ASSUME NEW j \in DOMAIN down'[s], down'[s][j].msg = "finalInfo"
            PROVE  j = k
        <5>1. j + 1 = k + 1 /\ j \in Nat
          BY <1>1, <4>2, <4>5
        <5>2. QED  BY <4>1, <5>1
      <4>6. QED  BY <4>1, <4>2, <4>4, <4>5
    <3>2. verdict'[s] # "none" =>
              verdict'[s] = IF Wins(Role(s), announced) THEN "You Win!" ELSE "You Loss!"
      <4>1. CASE verdict' = verdict
        BY <2>2, <2>4, <4>1
      <4>2. CASE verdict' # verdict
        <5>1. /\ m.msg = "finalInfo"
              /\ verdict'[s] = IF Wins(app[s].clientType_, m.score)
                               THEN "You Win!" ELSE "You Loss!"
          BY <1>7, <4>2
        <5>2. m.score = announced /\ verdict[s] = "none"
          BY <1>1, <2>2, <2>4, <5>1 DEF m
        <5>3. app[s].clientType_ = Role(s)
          BY <5>2 DEF IInv, SeatIsKept
        <5>4. QED  BY <5>1, <5>2, <5>3
      <4>3. QED  BY <4>1, <4>2
    <3>3. QED  BY <2>4, <3>1, <3>2
  <2>5. QED  BY <2>3, <2>4
<1>15. QED  BY <1>5, <1>8, <1>9, <1>11, <1>12, <1>13, <1>14 DEF IInv

\* The player has seen the result.
LEMMA TapPreserves ==
    ASSUME IInv, NEW s \in Side, Tap(s)
    PROVE  IInv'
<1>1. /\ UNCHANGED <<room, up, down, main, verdict>>
      /\ dialog[s] /\ dialog' = [dialog EXCEPT ![s] = FALSE]
      /\ app' = [app EXCEPT ![s] = OutOfGame(@)]
  BY DEF Tap, network
<1>2. app \in [Side -> App] /\ dialog \in [Side -> BOOLEAN] /\ app[s] \in App
  BY DEF IInv, TypeOK
<1>3. OutOfGame(app[s]) \in App /\ OutOfGame(app[s]).gameModel = FALSE
  BY <1>2 DEF OutOfGame, App
<1>4. /\ app' \in [Side -> App] /\ dialog' \in [Side -> BOOLEAN]
      /\ app'[s].gameModel = FALSE
      /\ \A t \in Side : t # s => app'[t] = app[t] /\ dialog'[t] = dialog[t]
  BY <1>1, <1>2, <1>3
<1>5. /\ status' = status /\ announced' = announced
      /\ isOwnerTurn' = isOwnerTurn /\ canMove' = canMove
  BY <1>1 DEF room
<1>6. verdict[s] # "none"
  BY <1>1 DEF IInv, SeatIsKept
<1>7. status # "playing" /\ announced # NotAnnounced
  BY <1>6, NotYetAnnounced DEF IInv, AnswersFirst
<1>8. TypeOK'
  BY <1>1, <1>4, <1>5 DEF IInv, TypeOK
<1>9. RoomIsSound'
  BY <1>1, SameRoom DEF IInv
<1>10. SeatIsKept'
  BY <1>1, <1>4, <1>6 DEF IInv, SeatIsKept
<1>11. TurnIsTold' /\ FlagIsTold' /\ AnswersFirst'
  BY <1>5, <1>7 DEF TurnIsTold, FlagIsTold, AnswersFirst
<1>12. OneResult'
  BY <1>1, <1>5 DEF IInv, OneResult
<1>13. QED  BY <1>8, <1>9, <1>10, <1>11, <1>12 DEF IInv

\* The queries that are left are the player's as well.
LEMMA PlayKeepsQueries ==
    ASSUME IInv, NEW s \in Side, Play(s)
    PROVE  /\ up' \in [Side -> Seq(Query("owner") \cup Query("rival"))]
           /\ \A t \in Side : \A k \in DOMAIN up'[t] : up'[t][k].type = Role(t)
<1>1. /\ up \in [Side -> Seq(Query("owner") \cup Query("rival"))]
      /\ \A t \in Side : \A k \in DOMAIN up[t] : up[t][k].type = Role(t)
  BY DEF IInv, TypeOK, SeatIsKept
<1>2. up[s] # <<>> /\ up' = [up EXCEPT ![s] = Tail(@)]
  BY DEF Play
<1>3. up[s] \in Seq(Query("owner") \cup Query("rival"))
  BY <1>1
<1>4. /\ Tail(up[s]) \in Seq(Query("owner") \cup Query("rival"))
      /\ \A k \in DOMAIN Tail(up[s]) : k + 1 \in DOMAIN up[s] /\ Tail(up[s])[k] = up[s][k + 1]
  BY <1>2, <1>3, Shorter
<1>5. up'[s] = Tail(up[s]) /\ \A t \in Side : t # s => up'[t] = up[t]
  BY <1>1, <1>2
<1>6. up' \in [Side -> Seq(Query("owner") \cup Query("rival"))]
  BY <1>1, <1>2, <1>4
<1>7. ASSUME NEW t \in Side, NEW k \in DOMAIN up'[t]
      PROVE  up'[t][k].type = Role(t)
  <2>1. CASE t = s
    BY <1>1, <1>4, <1>5, <2>1
  <2>2. CASE t # s
    BY <1>1, <1>5, <2>2
  <2>3. QED  BY <2>1, <2>2
<1>8. QED  BY <1>6, <1>7

\* The room tells both clients what has become of the turn and the flags, and both
\* clients the one result.
LEMMA PlayPreserves ==
    ASSUME IInv, NEW s \in Side, Play(s)
    PROVE  IInv'
<1>1. UNCHANGED client
  BY PlayFacts
<1>2. /\ up' \in [Side -> Seq(Query("owner") \cup Query("rival"))]
      /\ \A t \in Side : \A k \in DOMAIN up'[t] : up'[t][k].type = Role(t)
  BY PlayKeepsQueries
<1>3. SeatIsKept'
  BY <1>1, <1>2 DEF IInv, SeatIsKept, client
<1>4. CASE status' = "crashed" /\ announced' = announced /\ down' = down
  <2>1. TypeOK'
    BY <1>1, <1>2, <1>4 DEF IInv, TypeOK, client
  <2>2. RoomIsSound' /\ TurnIsTold' /\ FlagIsTold'
    BY <1>4 DEF RoomIsSound, TurnIsTold, FlagIsTold
  <2>3. AnswersFirst' /\ OneResult'
    BY <1>1, <1>4 DEF IInv, AnswersFirst, OneResult, client
  <2>4. QED  BY <1>3, <2>1, <2>2, <2>3 DEF IInv
<1>5. ASSUME status = "playing", status' # "crashed", RoomIsSound',
             announced = NotAnnounced,
             announced' \in [Side -> Nat] \cup {NotAnnounced},
             status' \in {"playing", "over"},
             status' = "over" <=> announced' # NotAnnounced,
             isOwnerTurn' \in BOOLEAN, canMove' \in [Side -> BOOLEAN],
             \A t \in Side : canMove'[t] => canMove[t],
             NEW code \in {0, 1, 2},
             code = 1 => UNCHANGED <<isOwnerTurn, announced>>,
             down' = [t \in Side |-> down[t] \o Published(code)']
      PROVE  IInv'
  <2> DEFINE b == boardAns(code)'
             f == finalInfo'
  <2>1. /\ Published(code)' \in Seq(Msg)
        /\ code # 1 => b \in BoardAns
        /\ announced' # NotAnnounced => f \in Notice /\ systemAns \in Notice
        /\ announced' = NotAnnounced /\ code = 1 => Published(code)' = <<>>
        /\ announced' = NotAnnounced /\ code # 1 => Published(code)' = <<b>>
        /\ announced' # NotAnnounced => Published(code)' = <<b, f, systemAns>>
    BY <1>5, PublishedFacts
  <2>2. /\ b.isownertune = isOwnerTurn' /\ b.canmove = canMove' /\ b.msg = "boardAns"
        /\ f.msg = "finalInfo" /\ f.score = announced'
        /\ systemAns.msg = "SystemAns"
    BY DEF boardAns, finalInfo, systemAns
  <2> HIDE DEF b, f
  <2>3. PICK ms \in Seq(Msg) : ms = Published(code)'
    BY <2>1
  <2>4. \A t \in Side : down[t] \in Seq(Msg) /\ down'[t] = down[t] \o ms
    BY <1>5, <2>3 DEF IInv, TypeOK
  <2>5. ASSUME NEW t \in Side
        PROVE  /\ down'[t] \in Seq(Msg)
               /\ DOMAIN down[t] = 1 .. Len(down[t]) /\ Len(down[t]) \in Nat
               /\ DOMAIN ms = 1 .. Len(ms) /\ Len(ms) \in Nat
               /\ Len(down'[t]) = Len(down[t]) + Len(ms)
               /\ \A k \in DOMAIN down[t] : down'[t][k] = down[t][k]
               /\ \A k \in DOMAIN ms : down'[t][Len(down[t]) + k] = ms[k]
               /\ \A k \in DOMAIN down'[t] :
                     k \in DOMAIN down[t] \/ \E j \in DOMAIN ms : k = Len(down[t]) + j
    <3>1. PICK old \in Seq(Msg) : old = down[t]
      BY <2>4
    <3>2. down'[t] = old \o ms
      BY <2>4, <3>1
    <3>3. /\ old \o ms \in Seq(Msg)
          /\ DOMAIN old = 1 .. Len(old) /\ Len(old) \in Nat
          /\ DOMAIN ms = 1 .. Len(ms) /\ Len(ms) \in Nat
          /\ Len(old \o ms) = Len(old) + Len(ms)
          /\ \A k \in DOMAIN old : (old \o ms)[k] = old[k]
          /\ \A k \in DOMAIN ms : (old \o ms)[Len(old) + k] = ms[k]
          /\ \A k \in DOMAIN (old \o ms) :
                k \in DOMAIN old \/ \E j \in DOMAIN ms : k = Len(old) + j
      BY Longer
    <3>4. QED  BY <3>1, <3>2, <3>3
  <2>6. down' \in [Side -> Seq(Msg)]
    BY <1>5, <2>3, <2>4, <2>5
  <2>7. TypeOK'
    BY <1>1, <1>2, <1>5, <2>6 DEF IInv, TypeOK, client
  <2>8. /\ \A t \in Side : verdict[t] = "none"
        /\ \A t \in Side : \A k \in DOMAIN down[t] : down[t][k] \in BoardAns
    BY <1>5 DEF IInv, AnswersFirst
  <2>9. verdict' = verdict /\ app' = app
    BY <1>1 DEF client
  <2>10. announced' = NotAnnounced => \/ code = 1 /\ ms = <<>>
                                      \/ code # 1 /\ ms = <<b>>
    BY <2>1, <2>3
  <2>11. TurnIsTold'
    <3>1. SUFFICES ASSUME status' = "playing", NEW t \in Side
                   PROVE  isOwnerTurn' = IF down'[t] = <<>> THEN app'[t].isOwnerTune
                                         ELSE down'[t][Len(down'[t])].isownertune
      BY DEF TurnIsTold
    <3>2. announced' = NotAnnounced
      BY <1>5, <3>1
    <3>3. isOwnerTurn = IF down[t] = <<>> THEN app[t].isOwnerTune
                        ELSE down[t][Len(down[t])].isownertune
      BY <1>5 DEF IInv, TurnIsTold
    <3>4. CASE code = 1
      <4>1. down'[t] = down[t]
        <5>1. PICK old \in Seq(Msg) : old = down[t]
          BY <2>4
        <5>2. ms = <<>>
          BY <2>10, <3>2, <3>4
        <5>3. old \o <<>> = old
          BY ConcatEmptySeq
        <5>4. QED  BY <2>4, <5>1, <5>2, <5>3
      <4>2. QED  BY <1>5, <2>9, <3>3, <3>4, <4>1
    <3>5. CASE code # 1
      <4>1. ms = <<b>> /\ Len(ms) = 1 /\ 1 \in DOMAIN ms /\ ms[1] = b
        BY <2>10, <3>2, <3>5
      <4>2. /\ down'[t][Len(down[t]) + 1] = b /\ Len(down'[t]) = Len(down[t]) + 1
            /\ Len(down[t]) \in Nat
        BY <2>5, <4>1
      <4>3. down'[t] # <<>>
        BY <4>2
      <4>4. QED  BY <2>2, <4>2, <4>3
    <3>6. QED  BY <3>4, <3>5
  <2>12. FlagIsTold'
    <3>1. SUFFICES ASSUME status' = "playing", NEW t \in Side, canMove'[t]
                   PROVE  /\ app'[t].canmove
                          /\ \A k \in DOMAIN down'[t] : down'[t][k].canmove[t]
      BY DEF FlagIsTold
    <3>2. app[t].canmove /\ \A k \in DOMAIN down[t] : down[t][k].canmove[t]
      BY <1>5, <3>1 DEF IInv, FlagIsTold
    <3>3. \A j \in DOMAIN ms : ms[j] = b
      BY <1>5, <2>10, <3>1
    <3>4. ASSUME NEW k \in DOMAIN down'[t]
          PROVE  down'[t][k].canmove[t]
      <4>1. CASE k \in DOMAIN down[t]
        BY <2>5, <3>2, <4>1
      <4>2. CASE \E j \in DOMAIN ms : k = Len(down[t]) + j
        BY <2>2, <2>5, <3>1, <3>3, <4>2
      <4>3. QED  BY <2>5, <4>1, <4>2
    <3>5. QED  BY <2>9, <3>2, <3>4
  <2>13. AnswersFirst'
    <3>1. SUFFICES ASSUME announced' = NotAnnounced, NEW t \in Side
                   PROVE  \A k \in DOMAIN down'[t] : down'[t][k] \in BoardAns
      BY <2>8, <2>9 DEF AnswersFirst
    <3>2. \A j \in DOMAIN ms : ms[j] \in BoardAns
      BY <2>1, <2>10, <3>1
    <3>3. ASSUME NEW k \in DOMAIN down'[t]
          PROVE  down'[t][k] \in BoardAns
      <4>1. CASE k \in DOMAIN down[t]
        BY <2>5, <2>8, <4>1
      <4>2. CASE \E j \in DOMAIN ms : k = Len(down[t]) + j
        BY <2>5, <3>2, <4>2
      <4>3. QED  BY <2>5, <4>1, <4>2
    <3>4. QED  BY <3>3
  <2>14. OneResult'
    <3>1. SUFFICES ASSUME NEW t \in Side, NEW k \in DOMAIN down'[t],
                          down'[t][k].msg = "finalInfo"
                   PROVE  /\ down'[t][k].score = announced'
                          /\ \A j \in DOMAIN down'[t] :
                                 down'[t][j].msg = "finalInfo" => j = k
      BY <2>8, <2>9 DEF OneResult
    <3>2. \A i \in DOMAIN down'[t] : down'[t][i].msg = "finalInfo" =>
             \E j \in DOMAIN ms : i = Len(down[t]) + j /\ ms[j].msg = "finalInfo"
      <4>1. ASSUME NEW i \in DOMAIN down'[t], down'[t][i].msg = "finalInfo"
            PROVE  \E j \in DOMAIN ms : i = Len(down[t]) + j /\ ms[j].msg = "finalInfo"
        <5>1. ASSUME i \in DOMAIN down[t] PROVE FALSE
          <6>1. down[t][i].msg = "finalInfo" /\ down[t][i] \in BoardAns
            BY <2>5, <2>8, <4>1, <5>1
          <6>2. QED  BY <6>1 DEF BoardAns
        <5>2. PICK j \in DOMAIN ms : i = Len(down[t]) + j
          BY <2>5, <5>1
        <5>3. ms[j].msg = "finalInfo"
          BY <2>5, <4>1, <5>2
        <5>4. QED  BY <5>2, <5>3
      <4>2. QED  BY <4>1
    <3>3. announced' # NotAnnounced
      BY <2>2, <2>10, <3>1, <3>2
    <3>4. ms = <<b, f, systemAns>>
      BY <2>1, <2>3, <3>3
    <3>5. \A j \in DOMAIN ms : ms[j].msg = "finalInfo" => j = 2 /\ ms[j] = f
      BY <2>2, <3>4
    <3>6. \A i \in DOMAIN down'[t] : down'[t][i].msg = "finalInfo" =>
             i = Len(down[t]) + 2 /\ down'[t][i] = f
      BY <2>5, <3>2, <3>5
    <3>7. QED  BY <2>2, <3>1, <3>6
  <2>15. QED  BY <1>3, <1>5, <2>7, <2>11, <2>12, <2>13, <2>14 DEF IInv
<1>6. QED  BY <1>4, <1>5, PlayFacts

--------------------------------------------------------------------------------
(* The theorems.                                                               *)

LEMMA InitIInv == Init => IInv
<1> SUFFICES ASSUME Init PROVE IInv
  OBVIOUS
<1>1. Thm!IInv
  BY SameInit, Thm!InitEstablishes, MatchAssumption DEF Init
<1>2. /\ announced = NotAnnounced /\ status = "playing" /\ isOwnerTurn = TRUE
      /\ up = [s \in Side |-> <<>>] /\ down = [s \in Side |-> <<>>]
      /\ app = [s \in Side |-> Seated(Role(s))]
      /\ main = [s \in Side |-> "cmd"]
      /\ dialog = [s \in Side |-> FALSE] /\ verdict = [s \in Side |-> "none"]
  BY DEF Init, Game!Init, Role
<1>3. ASSUME NEW s \in Side
      PROVE  /\ Seated(Role(s)) \in App
             /\ Seated(Role(s)).clientType_ = Role(s) /\ Seated(Role(s)).gameModel
             /\ Seated(Role(s)).isOwnerTune = TRUE /\ Seated(Role(s)).canmove
  BY Sides DEF Seated, App
<1>4. \A s \in Side : /\ up[s] = <<>> /\ down[s] = <<>> /\ app[s] = Seated(Role(s))
                        /\ ~ dialog[s] /\ verdict[s] = "none"
  BY <1>2
<1>5. \A s \in Side : /\ app[s].clientType_ = Role(s) /\ app[s].gameModel
                        /\ app[s].isOwnerTune = TRUE /\ app[s].canmove
  BY <1>3, <1>4
<1>6. \A s \in Side : DOMAIN up[s] = {} /\ DOMAIN down[s] = {}
  <2>1. DOMAIN <<>> = {}
    OBVIOUS
  <2>2. QED  BY <1>4, <2>1
<1>7. /\ up \in [Side -> Seq(Query("owner") \cup Query("rival"))]
       /\ down \in [Side -> Seq(Msg)]
  BY <1>2
<1>8. app \in [Side -> App]
  BY <1>2, <1>3
<1>9. /\ main \in [Side -> {"cmd", "tunnel"}] /\ dialog \in [Side -> BOOLEAN]
       /\ verdict \in [Side -> {"none", "You Win!", "You Loss!"}]
  BY <1>2
<1>10. TypeOK
  BY <1>2, <1>7, <1>8, <1>9 DEF TypeOK
<1>11. RoomIsSound
  BY <1>1 DEF RoomIsSound
<1>12. SeatIsKept
  BY <1>4, <1>5, <1>6 DEF SeatIsKept
<1>13. TurnIsTold
  BY <1>2, <1>4, <1>5, <1>6 DEF TurnIsTold
<1>14. FlagIsTold
  BY <1>4, <1>5, <1>6 DEF FlagIsTold
<1>15. AnswersFirst /\ OneResult
  BY <1>4, <1>5, <1>6 DEF AnswersFirst, OneResult
<1>16. QED  BY <1>10, <1>11, <1>12, <1>13, <1>14, <1>15 DEF IInv

\* The invariant holds throughout every match, on every board.
THEOREM Invariance == Spec => []IInv
<1>1. IInv /\ [Next]_vars => IInv'
  <2> SUFFICES ASSUME IInv, [Next]_vars PROVE IInv'
    OBVIOUS
  <2>1. CASE UNCHANGED vars
    <3>1. UNCHANGED <<room, up, down, app, main, dialog, verdict>>
      BY <2>1 DEF vars, network, client
    <3>2. RoomIsSound'
      BY <3>1, SameRoom DEF IInv
    <3>3. TypeOK' /\ SeatIsKept'
      BY <3>1 DEF IInv, TypeOK, SeatIsKept, room
    <3>4. TurnIsTold' /\ FlagIsTold' /\ AnswersFirst' /\ OneResult'
      BY <3>1 DEF IInv, TurnIsTold, FlagIsTold, AnswersFirst, OneResult, room
    <3>5. QED  BY <3>2, <3>3, <3>4 DEF IInv
  <2>2. ASSUME NEW s \in Side,
               \/ Enter(s) \/ Leave(s) \/ (\E d \in Key : Move(s, d))
               \/ Play(s) \/ Receive(s) \/ Tap(s)
        PROVE  IInv'
    BY <2>2, MainThreadPreserves, PlayPreserves, ReceivePreserves, TapPreserves
  <2>3. QED  BY <2>1, <2>2 DEF Next
<1>2. QED  BY InitIInv, <1>1, PTL DEF Spec

\* What a client knows when it has handled its messages.
LEMMA Informed == IInv => InformedClientsAgree
BY DEF IInv, TurnIsTold, FlagIsTold, InformedClientsAgree

\* A client that has handled all it was sent knows whose turn it is, and does not
\* refuse a move that the room believes its player to have.
THEOREM ClientsAgree == Spec => []InformedClientsAgree
BY Informed, Invariance, PTL

\* In a quiet match one client takes keys and the other does not: the flag of the
\* player in turn is up (TurnHasMover), and both clients know the turn.
THEOREM OneIsToMove == Spec => []OneIsWilling
<1>1. IInv => OneIsWilling
  <2> SUFFICES ASSUME IInv, status = "playing", down = [s \in Side |-> <<>>]
               PROVE  \E s \in Side : Willing(s) /\ ~ Willing(Game!Other(s))
    BY DEF OneIsWilling
  <2>1. \A s \in Side : down[s] = <<>>
    OBVIOUS
  <2>2. \A s \in Side : /\ app[s].isOwnerTune = isOwnerTurn
                        /\ canMove[s] => app[s].canmove
    BY <2>1, Informed DEF InformedClientsAgree
  <2>3. \A s \in Side : app[s].gameModel /\ app[s].clientType_ = Role(s)
    BY NotYetAnnounced DEF IInv, AnswersFirst, SeatIsKept
  <2>4. canMove[IF isOwnerTurn THEN "owner" ELSE "rival"]
    BY DEF IInv, RoomIsSound, Thm!IInv, Thm!TurnHasMover
  <2>5. cOwner # cRival /\ Role("owner") = cOwner /\ Role("rival") = cRival
    BY MatchAssumption DEF Role
  <2>6. /\ "owner" \in Side /\ "rival" \in Side
        /\ Game!Other("owner") = "rival" /\ Game!Other("rival") = "owner"
    BY Sides DEF Game!Other
  <2>7. CASE isOwnerTurn = TRUE
    <3>1. Willing("owner")
      <4>1. canMove["owner"]
        BY <2>4, <2>7
      <4>2. app["owner"].canmove /\ app["owner"].isOwnerTune = TRUE
        BY <2>2, <2>6, <2>7, <4>1
      <4>3. QED  BY <2>3, <2>5, <2>6, <4>2 DEF Willing, NotYourTurn
    <3>2. ~ Willing("rival")
      BY <2>2, <2>3, <2>5, <2>6, <2>7 DEF Willing, NotYourTurn
    <3>3. QED  BY <2>6, <3>1, <3>2
  <2>8. CASE isOwnerTurn = FALSE
    <3>1. Willing("rival")
      <4>1. canMove["rival"]
        BY <2>4, <2>8
      <4>2. app["rival"].canmove /\ app["rival"].isOwnerTune = FALSE
        BY <2>2, <2>6, <2>8, <4>1
      <4>3. QED  BY <2>3, <2>5, <2>6, <4>2 DEF Willing, NotYourTurn
    <3>2. ~ Willing("owner")
      BY <2>2, <2>3, <2>5, <2>6, <2>8 DEF Willing, NotYourTurn
    <3>3. QED  BY <2>6, <3>1, <3>2
  <2>9. isOwnerTurn \in BOOLEAN
    BY DEF IInv, RoomIsSound, Thm!IInv, Thm!TypeOK
  <2>10. QED  BY <2>7, <2>8, <2>9
<1>2. QED  BY <1>1, Invariance, PTL

\* Two players who have been told how the match ended have been told differently.
THEOREM OneIsToldToHaveWon == Spec => []OneWinner
<1>1. IInv => OneWinner
  <2> SUFFICES ASSUME IInv, \A s \in Side : verdict[s] # "none"
               PROVE  verdict["owner"] # verdict["rival"]
    BY DEF OneWinner
  <2>1. \A s \in Side :
           verdict[s] = IF Wins(Role(s), announced) THEN "You Win!" ELSE "You Loss!"
    BY DEF IInv, OneResult
  <2>2. Wins(cOwner, announced) <=> ~ Wins(cRival, announced)
    BY MatchAssumption DEF Wins
  <2>3. "owner" \in Side /\ "rival" \in Side /\ Role("owner") = cOwner /\ Role("rival") = cRival
    BY Sides DEF Role
  <2>4. QED  BY <2>1, <2>2, <2>3
<1>2. QED  BY <1>1, Invariance, PTL
--------------------------------------------------------------------------------
(* The refinement: a match is a game.                                          *)

\* A query for the erased room ends the server, which is no step of a game: for the
\* game it is over once its result has been announced.
Held == IF announced = NotAnnounced THEN status ELSE "over"

Room == INSTANCE GreedGameProofs WITH status <- Held

\* onboardQuery announces a result whenever it erases the room.
EndedIsAnnounced == status = "over" => announced # NotAnnounced

LEMMA RoomInit == Init => Room!Init /\ EndedIsAnnounced
BY DEF Init, Held, EndedIsAnnounced, Game!Init, Game!Message, Game!Side, Game!Erase, Game!Digit,
       Game!Cell, Game!Row, Game!Col,
       Room!Init, Room!Message, Room!Side, Room!Erase, Room!Digit, Room!Cell, Room!Row, Room!Col

LEMMA RoomQuery ==
    ASSUME NEW ct, NEW d, Game!onboardQuery(ct, d), Held = status, Held' = status'
    PROVE  Room!onboardQuery(ct, d)
BY DEF Game!onboardQuery, Game!GoodMove, Game!NoMoveLeft, Game!BadMove, Game!Crash, Game!Walk,
       Game!Refuse, Game!Eaten, Game!TurnAfterWalk, Game!Judge, Game!InTheEnd, Game!Decided,
       Game!PublishBoardUpdate, Game!EraseIfOver, Game!Message, Game!SideOf, Game!Side, Game!Other,
       Game!AnyMove, Game!CanWalk, Game!OtherMove, Game!OtherMoveStrays, Game!ScannedBefore,
       Game!Direction, Game!Path, Game!Distance, Game!At, Game!Erase, Game!Cell, Game!Row, Game!Col,
       Room!onboardQuery, Room!GoodMove, Room!NoMoveLeft, Room!BadMove, Room!Crash, Room!Walk,
       Room!Refuse, Room!Eaten, Room!TurnAfterWalk, Room!Judge, Room!InTheEnd, Room!Decided,
       Room!PublishBoardUpdate, Room!EraseIfOver, Room!Message, Room!SideOf, Room!Side, Room!Other,
       Room!AnyMove, Room!CanWalk, Room!OtherMove, Room!OtherMoveStrays, Room!ScannedBefore,
       Room!Direction, Room!Path, Room!Distance, Room!At, Room!Erase, Room!Cell, Room!Row, Room!Col

\* A step of a match is a query of one of the two players, or no step of the game.
LEMMA RoomNext ==
    ASSUME IInv, EndedIsAnnounced, [Next]_vars
    PROVE  EndedIsAnnounced' /\ [Room!Next]_(Room!vars)
<1>1. CASE UNCHANGED room
  BY <1>1 DEF room, EndedIsAnnounced, Held, Room!vars
<1>2. ASSUME NEW s \in Side, Play(s), status = "over"
      PROVE  EndedIsAnnounced' /\ [Room!Next]_(Room!vars)
  BY <1>2 DEF Play, EndedIsAnnounced, Held, Room!vars
<1>3. ASSUME NEW s \in Side, Play(s), status = "playing"
      PROVE  EndedIsAnnounced' /\ [Room!Next]_(Room!vars)
  <2>1. PICK q \in {Head(up[s])} : Game!onboardQuery(q.type, q.x)
    BY <1>3 DEF Play
  <2>2. up[s] \in Seq(Query("owner") \cup Query("rival")) /\ up[s] # <<>>
    BY <1>3 DEF IInv, TypeOK, Play
  <2>3. q \in Query("owner") \cup Query("rival") /\ q = up[s][1] /\ 1 \in DOMAIN up[s]
    BY <2>1, <2>2, Shorter
  <2>4. q.type = Role(s) /\ q.x \in Key
    BY <2>3 DEF Query, IInv, SeatIsKept
  <2>5. PICK d \in Key : d = q.x
    BY <2>4
  <2>6. Game!onboardQuery(Role(s), d)
    BY <2>1, <2>4, <2>5
  <2>7. announced = NotAnnounced /\ (status' = "over" <=> announced' # NotAnnounced)
    BY <1>3, <2>6, RoomStep DEF IInv
  <2>8. Held = status /\ Held' = status'
    BY <2>7 DEF Held
  <2>9. Room!onboardQuery(Role(s), d)
    BY <2>6, <2>8, RoomQuery
  <2>10. Role(s) \in Room!ClientType /\ d \in Room!Direction
    BY MatchAssumption, Sides DEF Room!ClientType, Room!Direction
  <2>11. Room!Next
    BY <2>9, <2>10 DEF Room!Next
  <2>12. QED  BY <2>7, <2>11 DEF EndedIsAnnounced
<1>4. ASSUME NEW s \in Side,
             Enter(s) \/ Leave(s) \/ (\E d \in Key : Move(s, d)) \/ Receive(s) \/ Tap(s)
      PROVE  UNCHANGED room
  BY <1>4 DEF Enter, Leave, Move, Receive, Tap
<1>5. ASSUME NEW s \in Side, Play(s)
      PROVE  status = "playing" \/ status = "over"
  BY <1>5 DEF Play
<1>6. QED  BY <1>1, <1>2, <1>3, <1>4, <1>5 DEF Next, vars

\* Whatever the clients and the connections do, the room of a match plays a game as
\* GreedGame has it.
THEOREM MatchIsGame == Spec => Room!Spec
<1>1. Init => Room!Init /\ EndedIsAnnounced
  BY RoomInit
<1>2. IInv /\ EndedIsAnnounced /\ [Next]_vars => EndedIsAnnounced' /\ [Room!Next]_(Room!vars)
  BY RoomNext
<1>3. QED  BY <1>1, <1>2, Invariance, PTL DEF Spec, Room!Spec

\* So a match is stopped only when its result is settled, however stale the moves were
\* that have decided it.
THEOREM MatchIsDecided == Spec => []Room!OverIsDecided
<1>1. Room!Spec => []Room!OverIsDecided
  BY Room!EndIsDecided, MatchAssumption
<1>2. QED  BY <1>1, MatchIsGame, PTL

================================================================================
