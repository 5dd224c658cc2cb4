---------------------------- MODULE GreedGameProofs ----------------------------
(***************************************************************************)
(* Theorems about GreedGame, for boards of every size and digits of every  *)
(* range.                                                                  *)
(*                                                                         *)
(* The inductive invariant is the conjunction of the safety invariants.    *)
(* No part of it is inductive alone: the turn rests with a player who can  *)
(* move (TurnHasMover) because a flag that is down is never wrong          *)
(* (FlagDownMeansStuck), the final result is settled (OverIsDecided) for   *)
(* the same reason, and a refused move leaves what was shown current       *)
(* (ShownIsCurrent) because it finds the mover's flag as it was.           *)
(***************************************************************************)
EXTENDS GreedGame, FiniteSetTheorems, TLAPS

IInv ==
    /\ TypeOK
    /\ FlagDownMeansStuck
    /\ TurnHasMover
    /\ OverIsDecided
    /\ AnnouncedIffOver
    /\ ShownIsCurrent
    /\ PiecesStandOnBlanks

--------------------------------------------------------------------------------
(* The board: what the operators of GreedGrid return.                          *)

\* Setting cells of a board to 0 gives a board.
LEMMA EraseType ==
    ASSUME NEW g \in Grid, NEW S
    PROVE  Erase(g, S) \in Grid
BY BoardAssumption DEF Erase, Grid

\* Reading a board after cells have been erased.
LEMMA EraseValue ==
    ASSUME NEW g \in Grid, NEW S, NEW c \in Cell
    PROVE  /\ c \in S => Erase(g, S)[c] = 0
           /\ c \notin S => Erase(g, S)[c] = g[c]
BY DEF Erase

\* A possible walk has a length between 1 and MaxDigit, stays on the board, eats
\* only digits, and ends on the last cell it eats.
LEMMA WalkFacts ==
    ASSUME NEW g \in Grid, NEW p \in Cell, NEW d \in Direction, CanWalk(g, p, d)
    PROVE  /\ Distance(g, p, d) \in 1 .. MaxDigit
           /\ At(p, d, Distance(g, p, d)) \in Path(p, d, Distance(g, p, d))
           /\ \A c \in Path(p, d, Distance(g, p, d)) : c \in Cell /\ g[c] # 0
<1>1. Distance(g, p, d) \in 0 .. MaxDigit
  BY BoardAssumption DEF Distance, Grid
<1>2. Distance(g, p, d) # 0
  BY DEF CanWalk
<1>3. Distance(g, p, d) \in 1 .. MaxDigit
  BY <1>1, <1>2, BoardAssumption
<1>4. Distance(g, p, d) \in 1 .. Distance(g, p, d)
  BY <1>3, BoardAssumption
<1>5. At(p, d, Distance(g, p, d)) \in Path(p, d, Distance(g, p, d))
  BY <1>4 DEF Path
<1>6. QED
  BY <1>3, <1>5 DEF CanWalk

\* Eating never opens a move: a walk that is possible after cells have been
\* erased was possible before.
LEMMA ErasingOpensNothing ==
    ASSUME NEW g \in Grid, NEW S, NEW p \in Cell, NEW d \in Direction,
           CanWalk(Erase(g, S), p, d)
    PROVE  CanWalk(g, p, d)
<1>1. \A c \in Cell : Erase(g, S)[c] # 0 => Erase(g, S)[c] = g[c]
  BY EraseValue
<1>2. At(p, d, 1) \in Cell /\ Erase(g, S)[At(p, d, 1)] # 0
  BY DEF CanWalk, Distance
<1>3. Distance(Erase(g, S), p, d) = Distance(g, p, d)
  BY <1>1, <1>2 DEF Distance
<1>4. QED
  BY <1>1, <1>3 DEF CanWalk

\* Another move is a move: othermove never finds what anymove does not.
LEMMA OtherMoveIsAMove ==
    ASSUME NEW g, NEW p, NEW d, OtherMove(g, p, d)
    PROVE  AnyMove(g, p)
BY DEF OtherMove, AnyMove

--------------------------------------------------------------------------------
(* Counting.                                                                   *)

\* A walk never visits a cell twice, so a walk of length n eats n cells.
LEMMA PathCardinality ==
    ASSUME NEW p \in Cell, NEW d \in Direction, NEW n \in Nat
    PROVE  IsFiniteSet(Path(p, d, n)) /\ Cardinality(Path(p, d, n)) = n
<1> DEFINE walk == [k \in 1 .. n |-> At(p, d, k)]
<1>1. p[1] \in Int /\ p[2] \in Int
  BY BoardAssumption DEF Cell, Row, Col
<1>2. d[1] \in -1 .. 1 /\ d[2] \in -1 .. 1 /\ (d[1] # 0 \/ d[2] # 0)
  BY DEF Direction
<1>3. ASSUME NEW k \in 1 .. n, NEW m \in 1 .. n, At(p, d, k) = At(p, d, m)
      PROVE  k = m
  <2>1. p[1] + k * d[1] = p[1] + m * d[1] /\ p[2] + k * d[2] = p[2] + m * d[2]
    BY <1>3 DEF At
  <2>2. CASE d[1] = 1   BY <2>1, <2>2, <1>1
  <2>3. CASE d[1] = -1  BY <2>1, <2>3, <1>1
  <2>4. CASE d[2] = 1   BY <2>1, <2>4, <1>1
  <2>5. CASE d[2] = -1  BY <2>1, <2>5, <1>1
  <2>6. QED
    BY <1>2, <2>2, <2>3, <2>4, <2>5
<1>4. walk \in Bijection(1 .. n, Path(p, d, n))
  <2>1. walk \in [1 .. n -> Path(p, d, n)]
    BY DEF Path
  <2>2. \A k, m \in 1 .. n : walk[k] = walk[m] => k = m
    BY <1>3
  <2>3. \A c \in Path(p, d, n) : \E k \in 1 .. n : walk[k] = c
    BY DEF Path
  <2>4. QED
    BY <2>1, <2>2, <2>3 DEF Bijection, Injection, Surjection, IsInjective
<1>5. ExistsBijection(1 .. n, Path(p, d, n))
  BY <1>4 DEF ExistsBijection
<1>6. IsFiniteSet(1 .. n) /\ Cardinality(1 .. n) = n
  BY FS_Interval
<1>7. QED
  BY <1>5, <1>6, FS_Bijection

\* Erasing the cells of a possible walk makes exactly them blank, and they are as
\* many as the walk is long.
LEMMA WalkBlanks ==
    ASSUME NEW g \in Grid, NEW p \in Cell, NEW d \in Direction, CanWalk(g, p, d)
    PROVE  LET P == Path(p, d, Distance(g, p, d))
           IN  /\ Blank(g) \subseteq Blank(Erase(g, P))
               /\ Blank(Erase(g, P)) \ Blank(g) = P
               /\ Cardinality(P) = Distance(g, p, d)
<1> DEFINE n == Distance(g, p, d)
           P == Path(p, d, n)
<1>1. n \in Nat
  BY WalkFacts, BoardAssumption
<1>2. Cardinality(P) = n
  BY <1>1, PathCardinality
<1>3. P \subseteq Cell /\ P \cap Blank(g) = {}
  BY WalkFacts DEF Blank
<1>4. Blank(Erase(g, P)) = Blank(g) \cup P
  BY <1>3, EraseValue DEF Blank
<1>5. QED
  BY <1>2, <1>3, <1>4

--------------------------------------------------------------------------------
(* Facts about single definitions.                                             *)

\* There are two sides, and Other swaps them.
LEMMA SideFacts ==
    ASSUME NEW s \in Side
    PROVE  Other(s) \in Side /\ Other(s) # s /\ Side = {s, Other(s)}
BY DEF Side, Other

\* anymove finds nothing exactly for a stuck player.
LEMMA StuckIsNoMove ==
    ASSUME NEW s \in Side
    PROVE  /\ Stuck(s) <=> ~ AnyMove(grid, pos[s])
           /\ Stuck(s)' <=> ~ AnyMove(grid', pos'[s])
BY DEF Stuck, AnyMove

\* What is published is a message of the right type.
LEMMA MessageType ==
    ASSUME pos \in [Side -> Cell], score \in [Side -> Nat],
           canMove \in [Side -> BOOLEAN], isOwnerTurn \in BOOLEAN, NEW g \in Grid
    PROVE  Message(g) \in View
BY DEF Message, View

\* Judging a player keeps the flags, the turn and the end of the game right,
\* whatever was played before, provided the other is not helped by it and the
\* proposed turn is sound for a mover who can go on.
LEMMA JudgeIsSound ==
    ASSUME TypeOK, FlagDownMeansStuck, status = "playing", announced = NotAnnounced,
           NEW s \in Side, NEW turn \in BOOLEAN,
           score' \in [Side -> Nat],
           Judge(s, turn), EraseIfOver(s),
           Stuck(Other(s)) => Stuck(Other(s))',
           (IF turn THEN "owner" ELSE "rival") # s => canMove[Other(s)]
    PROVE  /\ canMove' \in [Side -> BOOLEAN]
           /\ isOwnerTurn' \in BOOLEAN
           /\ announced' \in [Side -> Nat] \cup {NotAnnounced}
           /\ status' \in {"playing", "over", "crashed"}
           /\ FlagDownMeansStuck'
           /\ TurnHasMover'
           /\ OverIsDecided'
           /\ AnnouncedIffOver'
<1> DEFINE o == Other(s)
           moves == AnyMove(grid', pos'[s])
<1>1. o \in Side /\ o # s /\ Side = {s, o}
  BY SideFacts
<1>2. moves \in BOOLEAN
  BY DEF AnyMove
<1>3. canMove' = [canMove EXCEPT ![s] = moves]
  BY DEF Judge
<1>4. canMove \in [Side -> BOOLEAN] /\ isOwnerTurn \in BOOLEAN
  BY DEF TypeOK
<1>5. canMove' \in [Side -> BOOLEAN] /\ canMove'[s] = moves /\ canMove'[o] = canMove[o]
  BY <1>1, <1>2, <1>3, <1>4
<1>6. Stuck(s)' <=> ~ moves
  BY StuckIsNoMove
<1>7. FlagDownMeansStuck'
  <2>1. ~ canMove'[s] => Stuck(s)'
    BY <1>5, <1>6
  <2>2. ~ canMove'[o] => Stuck(o)'
    BY <1>1, <1>5 DEF FlagDownMeansStuck
  <2>3. QED
    BY <1>1, <2>1, <2>2 DEF FlagDownMeansStuck
<1>8. InTheEnd(s) <=> ~ moves /\ Decided(s, score')
  BY DEF InTheEnd
<1>9. InTheEnd(s) \in BOOLEAN
  BY DEF InTheEnd, AnyMove, Decided
<1>10. isOwnerTurn' = IF moves \/ InTheEnd(s) THEN turn ELSE s = "rival"
  BY <1>5 DEF Judge
<1>11. status' = IF InTheEnd(s) THEN "over" ELSE "playing"
  BY DEF EraseIfOver
<1>12. ~ Decided(s, score') => canMove[o]
  BY DEF Decided, Other, Side
<1>13. TurnHasMover'
  <2>1. CASE moves
    <3>1. isOwnerTurn' = turn
      BY <1>10, <2>1
    <3>2. CASE (IF turn THEN "owner" ELSE "rival") = s
      BY <3>1, <3>2, <1>5, <2>1 DEF TurnHasMover
    <3>3. CASE (IF turn THEN "owner" ELSE "rival") # s
      <4>1. (IF turn THEN "owner" ELSE "rival") = o
        BY <3>3, <1>1 DEF Side
      <4>2. QED
        BY <3>1, <3>3, <4>1, <1>5 DEF TurnHasMover
    <3>4. QED
      BY <3>2, <3>3
  <2>2. CASE InTheEnd(s)
    BY <1>11, <2>2 DEF TurnHasMover
  <2>3. CASE ~ moves /\ ~ InTheEnd(s)
    <3>1. canMove'[o]
      BY <2>3, <1>5, <1>8, <1>12
    <3>2. (IF isOwnerTurn' THEN "owner" ELSE "rival") = o
      BY <2>3, <1>10 DEF Other, Side
    <3>3. QED
      BY <3>1, <3>2 DEF TurnHasMover
  <2>4. QED
    BY <2>1, <2>2, <2>3
<1>14. OverIsDecided'
  <2>1. SUFFICES ASSUME InTheEnd(s)
                 PROVE  \/ Stuck("owner")' /\ Stuck("rival")'
                        \/ Stuck("owner")' /\ score'["owner"] <= score'["rival"]
    BY <1>11 DEF OverIsDecided
  <2>2. Stuck(s)'
    BY <2>1, <1>6, <1>8
  <2>3. CASE ~ canMove[o]
    BY <2>2, <2>3, <1>1, <1>5, <1>7 DEF FlagDownMeansStuck, Side
  <2>4. CASE canMove[o]
    <3>1. score'["rival"] \in Nat
      BY DEF Side
    <3>2. ~ (score'["rival"] < score'["rival"])
      BY <3>1
    <3>3. s = "owner" /\ score'["owner"] <= score'["rival"]
      BY <2>1, <2>4, <3>2, <1>8 DEF Decided, Other, Side
    <3>4. QED
      BY <2>2, <3>3
  <2>5. QED
    BY <2>3, <2>4
<1>15. announced' = IF InTheEnd(s) THEN score' ELSE NotAnnounced
  BY DEF Judge
<1>16. AnnouncedIffOver'
  BY <1>9, <1>11, <1>15 DEF AnnouncedIffOver
<1>17. isOwnerTurn' \in BOOLEAN
  BY <1>10
<1>18. QED
  BY <1>5, <1>7, <1>11, <1>13, <1>14, <1>15, <1>16, <1>17

--------------------------------------------------------------------------------
(* The inductive invariant.                                                    *)

\* A new room satisfies the invariant.
LEMMA InitEstablishes == Init => IInv
<1> SUFFICES ASSUME Init PROVE IInv
  OBVIOUS
<1>1. pos \in [Side -> Cell] /\ score \in [Side -> Nat] /\ score = [s \in Side |-> 0]
  BY DEF Init
<1>2. canMove \in [Side -> BOOLEAN] /\ canMove = [s \in Side |-> TRUE]
  BY DEF Init
<1>3. PICK digits \in [Cell -> Digit] : grid = Erase(digits, {pos[s] : s \in Side})
  BY DEF Init
<1>4. digits \in Grid
  BY <1>3, BoardAssumption DEF Grid, Digit
<1>5. grid \in Grid
  BY <1>3, <1>4, EraseType
<1>6. PiecesStandOnBlanks
  BY <1>1, <1>3, <1>4, EraseValue DEF PiecesStandOnBlanks
<1>7. ShownIsCurrent
  BY DEF Init, ShownIsCurrent
<1>8. TypeOK
  <2>1. Message(gridString) \in View
    BY <1>1, <1>2, <1>5, MessageType DEF Init
  <2>2. QED
    BY <1>1, <1>2, <1>5, <2>1 DEF Init, TypeOK
<1>9. FlagDownMeansStuck /\ TurnHasMover
  BY <1>2 DEF FlagDownMeansStuck, TurnHasMover, Side
<1>10. OverIsDecided /\ AnnouncedIffOver
  BY DEF Init, OverIsDecided, AnnouncedIffOver
<1>11. QED
  BY <1>6, <1>7, <1>8, <1>9, <1>10 DEF IInv

\* Publishing after the game's own variables have their types makes the shown
\* game current.
LEMMA PublishIsSound ==
    ASSUME grid' \in Grid, pos' \in [Side -> Cell], score' \in [Side -> Nat],
           canMove' \in [Side -> BOOLEAN], isOwnerTurn' \in BOOLEAN,
           PublishBoardUpdate
    PROVE  gridString' \in Grid /\ view' \in View /\ ShownIsCurrent'
<1>1. gridString' = grid' /\ view' = Message(gridString)'
  BY DEF PublishBoardUpdate
<1>2. Message(gridString)' \in View
  BY <1>1 DEF Message, View
<1>3. ShownIsCurrent'
  BY <1>1 DEF ShownIsCurrent, Message
<1>4. QED
  BY <1>1, <1>2, <1>3

\* What a walk does to the board, the pieces and the scores.
LEMMA WalkIsSound ==
    ASSUME IInv, NEW s \in Side, NEW d \in Direction, Walk(s, d)
    PROVE  /\ grid' \in Grid /\ pos' \in [Side -> Cell] /\ score' \in [Side -> Nat]
           /\ pos'[s] \in Eaten(s, d)
           /\ pos'[Other(s)] = pos[Other(s)]
           /\ pos'[Other(s)] # pos'[s]
           /\ PiecesStandOnBlanks'
           /\ Stuck(Other(s)) => Stuck(Other(s))'
<1> DEFINE n == Distance(grid, pos[s], d)
           o == Other(s)
<1>1. o \in Side /\ o # s /\ Side = {s, o}
  BY SideFacts
<1>2. grid \in Grid /\ pos \in [Side -> Cell] /\ score \in [Side -> Nat] /\ pos[s] \in Cell
  BY DEF IInv, TypeOK
<1>3. CanWalk(grid, pos[s], d)
  BY DEF Walk
<1>4. /\ n \in 1 .. MaxDigit
      /\ At(pos[s], d, n) \in Eaten(s, d)
      /\ \A c \in Eaten(s, d) : c \in Cell /\ grid[c] # 0
  BY <1>2, <1>3, WalkFacts DEF Eaten
<1>5. grid' = Erase(grid, Eaten(s, d)) /\ grid' \in Grid
  BY <1>2, EraseType DEF Walk
<1>6. pos' = [pos EXCEPT ![s] = At(@, d, n)] /\ score' = [score EXCEPT ![s] = @ + n]
  BY DEF Walk
<1>7. pos' \in [Side -> Cell] /\ pos'[s] = At(pos[s], d, n) /\ pos'[o] = pos[o]
  BY <1>1, <1>2, <1>4, <1>6
<1>8. score' \in [Side -> Nat]
  <2>1. n \in Nat
    BY <1>4, BoardAssumption
  <2>2. score[s] + n \in Nat
    BY <1>2, <2>1
  <2>3. QED
    BY <1>2, <1>6, <2>2
<1>9. pos'[s] \in Eaten(s, d)
  BY <1>4, <1>7
<1>10. pos'[o] # pos'[s]
  BY <1>1, <1>4, <1>7, <1>9 DEF IInv, PiecesStandOnBlanks
<1>11. PiecesStandOnBlanks'
  <2>1. grid'[pos'[s]] = 0
    BY <1>2, <1>4, <1>5, <1>9, EraseValue
  <2>2. grid[pos[o]] = 0 /\ pos[o] \in Cell
    BY <1>1, <1>2 DEF IInv, PiecesStandOnBlanks
  <2>3. grid'[pos'[o]] = 0
    BY <1>2, <1>5, <1>7, <2>2, EraseValue
  <2>4. QED
    BY <1>1, <2>1, <2>3 DEF PiecesStandOnBlanks
<1>12. ASSUME Stuck(o) PROVE Stuck(o)'
  <2>1. SUFFICES ASSUME NEW e \in Direction, CanWalk(grid', pos'[o], e) PROVE FALSE
    BY DEF Stuck
  <2>2. CanWalk(Erase(grid, Eaten(s, d)), pos[o], e)
    BY <1>5, <1>7, <2>1
  <2>3. CanWalk(grid, pos[o], e)
    BY <1>1, <1>2, <2>2, ErasingOpensNothing
  <2>4. QED
    BY <1>12, <2>3 DEF Stuck
<1>13. QED
  BY <1>5, <1>7, <1>8, <1>9, <1>10, <1>11, <1>12

\* A good move preserves the invariant.
LEMMA GoodMovePreserves ==
    ASSUME IInv, status = "playing", NEW s \in Side, NEW d \in Direction, GoodMove(s, d)
    PROVE  IInv'
<1> DEFINE o == Other(s)
           turn == TurnAfterWalk(s)
<1>1. o \in Side /\ o # s /\ Side = {s, o}
  BY SideFacts
<1>2. TypeOK /\ FlagDownMeansStuck /\ TurnHasMover /\ announced = NotAnnounced
  BY DEF IInv, AnnouncedIffOver
<1>3. canMove \in [Side -> BOOLEAN] /\ isOwnerTurn \in BOOLEAN
  BY <1>2 DEF TypeOK
<1>4. turn \in BOOLEAN
  BY <1>3 DEF TurnAfterWalk
<1>5. Walk(s, d) /\ Judge(s, turn) /\ PublishBoardUpdate /\ EraseIfOver(s)
  BY DEF GoodMove
<1>6. /\ grid' \in Grid /\ pos' \in [Side -> Cell] /\ score' \in [Side -> Nat]
      /\ PiecesStandOnBlanks'
      /\ Stuck(o) => Stuck(o)'
  BY <1>5, WalkIsSound
<1>7. (IF turn THEN "owner" ELSE "rival") # s => canMove[o]
  BY <1>1, <1>2, <1>3 DEF TurnAfterWalk, TurnHasMover, Side
<1>8. /\ canMove' \in [Side -> BOOLEAN] /\ isOwnerTurn' \in BOOLEAN
      /\ announced' \in [Side -> Nat] \cup {NotAnnounced}
      /\ status' \in {"playing", "over", "crashed"}
      /\ FlagDownMeansStuck' /\ TurnHasMover' /\ OverIsDecided' /\ AnnouncedIffOver'
  BY <1>2, <1>4, <1>5, <1>6, <1>7, JudgeIsSound
<1>9. gridString' \in Grid /\ view' \in View /\ ShownIsCurrent'
  BY <1>5, <1>6, <1>8, PublishIsSound
<1>10. TypeOK'
  BY <1>6, <1>8, <1>9 DEF TypeOK
<1>11. QED
  BY <1>6, <1>8, <1>9, <1>10 DEF IInv

\* A query of a player who has no move at all preserves the invariant.
LEMMA NoMoveLeftPreserves ==
    ASSUME IInv, status = "playing", NEW s \in Side, NEW d \in Direction, NoMoveLeft(s, d)
    PROVE  IInv'
<1> DEFINE o == Other(s)
           turn == IF isOwnerTurn THEN "owner" ELSE "rival"
<1>1. o \in Side /\ o # s /\ Side = {s, o}
  BY SideFacts
<1>2. TypeOK /\ FlagDownMeansStuck /\ TurnHasMover /\ announced = NotAnnounced
  BY DEF IInv, AnnouncedIffOver
<1>3. isOwnerTurn \in BOOLEAN
  BY <1>2 DEF TypeOK
<1>4. Refuse(s, d) /\ Judge(s, isOwnerTurn) /\ PublishBoardUpdate /\ EraseIfOver(s)
  BY DEF NoMoveLeft
<1>5. grid' = grid /\ pos' = pos /\ score' = score
  BY <1>4 DEF Refuse
<1>6. grid' \in Grid /\ pos' \in [Side -> Cell] /\ score' \in [Side -> Nat]
  BY <1>2, <1>5 DEF TypeOK
<1>7. PiecesStandOnBlanks'
  BY <1>5 DEF IInv, PiecesStandOnBlanks
<1>8. Stuck(o) => Stuck(o)'
  BY <1>5 DEF Stuck
<1>9. turn # s => canMove[o]
  BY <1>1, <1>2 DEF TurnHasMover, Side
<1>10. /\ canMove' \in [Side -> BOOLEAN] /\ isOwnerTurn' \in BOOLEAN
       /\ announced' \in [Side -> Nat] \cup {NotAnnounced}
       /\ status' \in {"playing", "over", "crashed"}
       /\ FlagDownMeansStuck' /\ TurnHasMover' /\ OverIsDecided' /\ AnnouncedIffOver'
  BY <1>2, <1>3, <1>4, <1>6, <1>8, <1>9, JudgeIsSound
<1>11. gridString' \in Grid /\ view' \in View /\ ShownIsCurrent'
  BY <1>4, <1>6, <1>10, PublishIsSound
<1>12. TypeOK'
  BY <1>6, <1>10, <1>11 DEF TypeOK
<1>13. QED
  BY <1>7, <1>10, <1>11, <1>12 DEF IInv

\* A bad move, which is answered with nothing, changes nothing at all: another
\* move being possible, the mover's flag was up and is found up again.
LEMMA BadMoveChangesNothing ==
    ASSUME IInv, status = "playing", NEW s \in Side, NEW d \in Direction, BadMove(s, d)
    PROVE  UNCHANGED vars
<1>1. UNCHANGED <<grid, pos, score, status>>
  BY DEF BadMove, Refuse
<1>2. AnyMove(grid, pos[s]) /\ AnyMove(grid', pos'[s])
  BY <1>1, OtherMoveIsAMove DEF BadMove
<1>3. ~ InTheEnd(s)
  BY <1>2 DEF InTheEnd
<1>4. UNCHANGED <<gridString, view>>
  BY <1>3 DEF BadMove
<1>5. canMove[s] /\ canMove \in [Side -> BOOLEAN]
  BY <1>2, StuckIsNoMove DEF IInv, FlagDownMeansStuck, TypeOK
<1>6. canMove' = canMove
  <2>1. canMove' = [canMove EXCEPT ![s] = AnyMove(grid', pos'[s])]
    BY DEF BadMove, Judge
  <2>2. AnyMove(grid', pos'[s]) = TRUE
    BY <1>2 DEF AnyMove
  <2>3. canMove[s] = TRUE
    BY <1>5
  <2>4. QED
    BY <1>5, <2>1, <2>2, <2>3
<1>7. isOwnerTurn' = isOwnerTurn /\ announced' = announced
  BY <1>3, <1>5, <1>6 DEF BadMove, Judge
<1>8. QED
  BY <1>1, <1>4, <1>6, <1>7 DEF vars

\* Every query, and every stutter, preserves the invariant.
LEMMA StepPreserves == IInv /\ [Next]_vars => IInv'
<1> SUFFICES ASSUME IInv, [Next]_vars PROVE IInv'
  OBVIOUS
<1>1. ASSUME UNCHANGED vars PROVE IInv'
  BY <1>1 DEF vars, IInv, TypeOK, FlagDownMeansStuck, Stuck, TurnHasMover, OverIsDecided,
              AnnouncedIffOver, ShownIsCurrent, Message, PiecesStandOnBlanks
<1>2. ASSUME NEW ct \in ClientType, NEW d \in Direction, onboardQuery(ct, d)
      PROVE  IInv'
  <2> DEFINE s == SideOf(ct)
  <2>1. s \in Side
    BY DEF SideOf, Side
  <2>2. status = "playing"
    BY <1>2 DEF onboardQuery
  <2>3. CASE GoodMove(s, d)
    BY <2>1, <2>2, <2>3, GoodMovePreserves
  <2>4. CASE NoMoveLeft(s, d)
    BY <2>1, <2>2, <2>4, NoMoveLeftPreserves
  <2>5. CASE BadMove(s, d)
    BY <1>1, <2>1, <2>2, <2>5, BadMoveChangesNothing
  <2>6. CASE Crash(s, d)
    <3>1. status' = "crashed"
      BY <2>6 DEF Crash
    <3>2. UNCHANGED <<grid, gridString, pos, score, canMove, isOwnerTurn, view, announced>>
      BY <2>6 DEF Crash
    <3>3. TypeOK' /\ FlagDownMeansStuck' /\ ShownIsCurrent' /\ PiecesStandOnBlanks'
      BY <3>1, <3>2 DEF IInv, TypeOK, FlagDownMeansStuck, Stuck, ShownIsCurrent, Message,
                        PiecesStandOnBlanks
    <3>4. TurnHasMover' /\ OverIsDecided'
      BY <3>1 DEF TurnHasMover, OverIsDecided
    <3>5. AnnouncedIffOver'
      BY <2>2, <3>1, <3>2 DEF IInv, AnnouncedIffOver
    <3>6. QED
      BY <3>3, <3>4, <3>5 DEF IInv
  <2>7. QED
    BY <1>2, <2>3, <2>4, <2>5, <2>6 DEF onboardQuery
<1>3. QED
  BY <1>1, <1>2 DEF Next

\* The inductive invariant holds in every state of every game.
THEOREM Invariance == Spec => []IInv
BY InitEstablishes, StepPreserves, PTL DEF Spec

--------------------------------------------------------------------------------
(* The invariants the runs check, for every board.                             *)

\* Every variable keeps its type; no walk leaves the board (isValid).
THEOREM TypeCorrect == Spec => []TypeOK
<1>1. IInv => TypeOK
  BY DEF IInv
<1>2. QED
  BY <1>1, Invariance, PTL

\* ownerCanMove and rivalCanMove may be stale, but never claim too little: a
\* player whose flag is down has no move, now or later.
THEOREM FlagsNeverClaimTooLittle == Spec => []FlagDownMeansStuck
<1>1. IInv => FlagDownMeansStuck
  BY DEF IInv
<1>2. QED
  BY <1>1, Invariance, PTL

\* While the game is on, isOwnerTurn names a player whose flag is up.
THEOREM TurnIsNeverWedged == Spec => []TurnHasMover
<1>1. IInv => TurnHasMover
  BY DEF IInv
<1>2. QED
  BY <1>1, Invariance, PTL

\* onboardQuery erases a room only when its result can no longer change.
THEOREM EndIsDecided == Spec => []OverIsDecided
<1>1. IInv => OverIsDecided
  BY DEF IInv
<1>2. QED
  BY <1>1, Invariance, PTL

\* finalInfo is published exactly when the room is erased, with the last scores.
THEOREM EndIsAnnounced == Spec => []AnnouncedIffOver
<1>1. IInv => AnnouncedIffOver
  BY DEF IInv
<1>2. QED
  BY <1>1, Invariance, PTL

\* The audience, and a late joiner reading the cached text, see the game as it is.
THEOREM AudienceSeesTheGame == Spec => []ShownIsCurrent
<1>1. IInv => ShownIsCurrent
  BY DEF IInv
<1>2. QED
  BY <1>1, Invariance, PTL

\* Both pieces always stand on eaten cells, so neither is ever walked over.
THEOREM PiecesOnBlanks == Spec => []PiecesStandOnBlanks
<1>1. IInv => PiecesStandOnBlanks
  BY DEF IInv
<1>2. QED
  BY <1>1, Invariance, PTL

--------------------------------------------------------------------------------
(* The action properties.                                                      *)

\* What one query does to the pieces and the points, in a state of the
\* invariant: only a good move touches them.
LEMMA StepOnBoard ==
    ASSUME IInv, [Next]_vars
    PROVE  \/ UNCHANGED <<grid, pos, score>>
           \/ \E s \in Side, d \in Direction : Walk(s, d)
<1>1. CASE UNCHANGED vars
  BY <1>1 DEF vars
<1>2. ASSUME NEW ct \in ClientType, NEW d \in Direction, onboardQuery(ct, d)
      PROVE  \/ UNCHANGED <<grid, pos, score>>
             \/ \E s \in Side, e \in Direction : Walk(s, e)
  <2>1. SideOf(ct) \in Side
    BY DEF SideOf, Side
  <2>2. QED
    BY <1>2, <2>1 DEF onboardQuery, GoodMove, NoMoveLeft, BadMove, Crash, Refuse
<1>3. QED
  BY <1>1, <1>2 DEF Next

\* A piece never walks onto the other: the other stands on a cell eaten before.
THEOREM PiecesStayApart == Spec => PiecesNeverMeet
<1> DEFINE Apart == pos'["owner"] = pos'["rival"] => pos["owner"] = pos["rival"]
<1>1. IInv /\ [Next]_vars => [Apart]_vars
  <2> SUFFICES ASSUME IInv, [Next]_vars PROVE Apart
    OBVIOUS
  <2>1. CASE UNCHANGED <<grid, pos, score>>
    BY <2>1
  <2>2. ASSUME NEW s \in Side, NEW d \in Direction, Walk(s, d)
        PROVE  Apart
    <3>1. pos'[Other(s)] # pos'[s]
      BY <2>2, WalkIsSound
    <3>2. QED
      BY <3>1 DEF Other, Side
  <2>3. QED
    BY <2>1, <2>2, StepOnBoard
<1>2. QED
  BY <1>1, Invariance, PTL DEF Spec, PiecesNeverMeet

--------------------------------------------------------------------------------
(* What one query can do, for those who wait for its answer.                   *)

\* A flag that is down is right, so asking again finds it down again.
LEMMA JudgeLowersFlags ==
    ASSUME IInv, NEW s \in Side, NEW turn, Judge(s, turn),
           ~ canMove[s] => UNCHANGED <<grid, pos>>
    PROVE  \A t \in Side : canMove'[t] => canMove[t]
<1>1. canMove \in [Side -> BOOLEAN] /\ canMove' = [canMove EXCEPT ![s] = AnyMove(grid', pos'[s])]
  BY DEF IInv, TypeOK, Judge
<1>2. ASSUME ~ canMove[s] PROVE ~ canMove'[s]
  <2>1. ~ AnyMove(grid, pos[s]) /\ UNCHANGED <<grid, pos>>
    BY <1>2, StuckIsNoMove DEF IInv, FlagDownMeansStuck
  <2>2. QED  BY <1>1, <2>1
<1>3. QED  BY <1>1, <1>2

\* A query announces a result when it ends the game and not before, gives nobody a
\* move back, and changes nothing when it is refused for another move's sake.
LEMMA QueryFacts ==
    ASSUME IInv, NEW ct \in ClientType, NEW d \in Direction, onboardQuery(ct, d)
    PROVE  /\ announced = NotAnnounced /\ IInv'
           /\ status' = "over" <=> announced' # NotAnnounced
           /\ \A t \in Side : canMove'[t] => canMove[t]
           /\ status' # "crashed" /\ ~ CanWalk(grid, pos[SideOf(ct)], d)
                  /\ OtherMove(grid, pos[SideOf(ct)], d) => UNCHANGED vars
<1> DEFINE s == SideOf(ct)
<1>1. s \in Side /\ status = "playing" /\ announced = NotAnnounced
  BY DEF SideOf, Side, onboardQuery, IInv, AnnouncedIffOver
<1>2. IInv'
  BY StepPreserves DEF Next
<1>3. status' = "over" <=> announced' # NotAnnounced
  <2>1. score' \in [Side -> Nat]
    BY <1>2 DEF IInv, TypeOK
  <2>2. score' # NotAnnounced
    BY <2>1, GameAssumption DEF Side
  <2>3. QED  BY <1>2, <2>2 DEF IInv, AnnouncedIffOver
<1>4. CASE GoodMove(s, d)
  <2>1. CanWalk(grid, pos[s], d) /\ Judge(s, TurnAfterWalk(s))
    BY <1>4 DEF GoodMove, Walk
  <2>2. canMove[s]
    BY <1>1, <2>1 DEF IInv, FlagDownMeansStuck, Stuck
  <2>3. QED  BY <1>1, <1>2, <1>3, <2>1, <2>2, JudgeLowersFlags
<1>5. CASE NoMoveLeft(s, d)
  <2>1. /\ ~ OtherMove(grid, pos[s], d) /\ Judge(s, isOwnerTurn)
        /\ UNCHANGED <<grid, pos>>
    BY <1>5 DEF NoMoveLeft, Refuse
  <2>2. QED  BY <1>1, <1>2, <1>3, <2>1, JudgeLowersFlags
<1>6. CASE BadMove(s, d)
  <2>1. UNCHANGED vars
    BY <1>1, <1>6, BadMoveChangesNothing
  <2>2. QED  BY <1>1, <1>2, <1>3, <2>1 DEF vars
<1>7. CASE Crash(s, d)
  BY <1>1, <1>2, <1>3, <1>7 DEF Crash
<1>8. QED  BY <1>4, <1>5, <1>6, <1>7 DEF onboardQuery

\* A flag that is down stays down: a player who was told that no move is left is never
\* told later that there is one.
THEOREM FlagsFallForGood == Spec => [][\A t \in Side : canMove'[t] => canMove[t]]_vars
<1>1. IInv /\ [Next]_vars => [\A t \in Side : canMove'[t] => canMove[t]]_vars
  BY QueryFacts DEF Next
<1>2. QED  BY <1>1, Invariance, PTL DEF Spec

--------------------------------------------------------------------------------
(* Refinement.                                                                 *)

\* Every query is a step of the race or none of its business.
LEMMA StepIsRaceStep ==
    ASSUME IInv, NEW ct \in ClientType, NEW d \in Direction, onboardQuery(ct, d)
    PROVE  Race!Next \/ UNCHANGED Race!vars
<1> DEFINE s == SideOf(ct)
<1>1. s \in Side /\ status = "playing" /\ announced = NotAnnounced
  BY DEF SideOf, Side, onboardQuery, IInv, AnnouncedIffOver
<1>2. grid \in Grid /\ pos[s] \in Cell
  BY <1>1 DEF IInv, TypeOK
<1>3. CASE GoodMove(s, d)
  <2> DEFINE n == Distance(grid, pos[s], d)
             P == Path(pos[s], d, n)
  <2>1. CanWalk(grid, pos[s], d) /\ grid' = Erase(grid, P)
        /\ score' = [score EXCEPT ![s] = @ + n]
    BY <1>3 DEF GoodMove, Walk, Eaten
  <2>2. n \in 1 .. MaxDigit
    BY <1>2, <2>1, WalkFacts
  <2>3. Blank(grid) \subseteq Blank(grid') /\ Blank(grid') \ Blank(grid) = P
        /\ Cardinality(P) = n
    BY <1>2, <2>1, WalkBlanks
  <2>4. Blank(grid') \subseteq Cell
    BY DEF Blank
  <2>5. announced' \in {announced, score'}
    BY <1>3 DEF GoodMove, Judge
  <2>6. Race!Eat(s)
    <3>1. Race!Cardinality(P) = Cardinality(P)
      BY DEF Race!Cardinality, Cardinality
    <3> HIDE DEF n, P
    <3>2. QED
      BY <2>1, <2>2, <2>3, <2>4, <2>5, <3>1 DEF Race!Eat, Blank
  <2>7. QED
    BY <1>1, <2>6 DEF Race!Next
<1>4. CASE NoMoveLeft(s, d)
  <2>1. UNCHANGED <<grid, score>> /\ announced' \in {announced, score'}
    BY <1>4 DEF NoMoveLeft, Refuse, Judge
  <2>2. Blank(grid') = Blank(grid)
    BY <2>1
  <2>3. QED
    BY <1>1, <2>1, <2>2 DEF Race!Next, Race!End, Race!vars, Blank
<1>5. CASE BadMove(s, d)
  <2>1. UNCHANGED vars
    BY <1>1, <1>5, BadMoveChangesNothing
  <2>2. QED
    BY <2>1 DEF vars, Race!vars, Blank
<1>6. CASE Crash(s, d)
  BY <1>6 DEF Crash, Race!vars, Blank
<1>7. QED
  BY <1>3, <1>4, <1>5, <1>6 DEF onboardQuery

\* onboardQuery plays the race: every point is one cell eaten and every cell eaten
\* is a point, and the result is announced once, at the end, for good.
THEOREM GameIsRace == Spec => ImplementsRace
<1>1. Init => Race!Init
  BY DEF Init, Race!Init, Blank
<1>2. IInv /\ [Next]_vars => [Race!Next]_(Race!vars)
  <2>1. ASSUME UNCHANGED vars PROVE UNCHANGED Race!vars
    BY <2>1 DEF vars, Race!vars, Blank
  <2>2. QED
    BY <2>1, StepIsRaceStep DEF Next
<1>3. QED
  BY <1>1, <1>2, Invariance, PTL DEF Spec, Race!Spec, ImplementsRace

================================================================================
