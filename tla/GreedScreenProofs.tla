--------------------------- MODULE GreedScreenProofs ---------------------------
(***************************************************************************)
(* Drawing digits once and blanks afterwards is enough, on boards of every *)
(* size.                                                                   *)
(***************************************************************************)
EXTENDS GreedScreen, TLAPS

--------------------------------------------------------------------------------
(* The board.                                                                  *)

\* Setting cells of a board to 0 gives a board.
LEMMA EraseType ==
    ASSUME NEW g \in Grid, NEW S
    PROVE  Erase(g, S) \in Grid
BY BoardAssumption DEF Erase, Grid

\* Reading a board after cells have been erased.
LEMMA EraseValue ==
    ASSUME NEW g \in Grid, NEW S, NEW c \in Cell
    PROVE  /\ c \in S => Erase(g, S)[c] = 0
           /\ c \notin S => Erase(g, S)[c] = g[c]
BY DEF Erase

\* A possible walk has a length between 1 and MaxDigit, stays on the board, eats
\* only digits, and ends on the last cell it eats.
LEMMA WalkFacts ==
    ASSUME NEW g \in Grid, NEW p \in Cell, NEW d \in Direction, CanWalk(g, p, d)
    PROVE  /\ Distance(g, p, d) \in 1 .. MaxDigit
           /\ At(p, d, Distance(g, p, d)) \in Path(p, d, Distance(g, p, d))
           /\ \A c \in Path(p, d, Distance(g, p, d)) : c \in Cell /\ g[c] # 0
<1>1. Distance(g, p, d) \in 0 .. MaxDigit
  BY BoardAssumption DEF Distance, Grid
<1>2. Distance(g, p, d) # 0
  BY DEF CanWalk
<1>3. Distance(g, p, d) \in 1 .. MaxDigit
  BY <1>1, <1>2, BoardAssumption
<1>4. Distance(g, p, d) \in 1 .. Distance(g, p, d)
  BY <1>3, BoardAssumption
<1>5. At(p, d, Distance(g, p, d)) \in Path(p, d, Distance(g, p, d))
  BY <1>4 DEF Path
<1>6. QED
  BY <1>3, <1>5 DEF CanWalk

--------------------------------------------------------------------------------
(* The inductive invariant.                                                    *)

\* Pieces stand on eaten cells, so drawing one never hides a digit.
PiecesOnBlanks == \A s \in Side : pos[s] \in Blank(grid)

\* Also before a good move has swept the field, the digits are all there.
DigitsAreShown == drawn /\ ~ foreign => \A c \in Cell : grid[c] # 0 => screen[c] = grid[c]

\* The field is right from the first good move on, whether or not the seat is kept.
FieldIsRight == drawn /\ swept /\ ~ foreign => screen = Picture

IInv == TypeOK /\ PiecesOnBlanks /\ DigitsAreShown /\ FieldIsRight

--------------------------------------------------------------------------------
(* What drawing does to a screen.                                              *)

Character == Digit \cup {ME, RIVAL, Space, Letter}
Screen == [Cell -> Character]

\* The pieces are drawn on their two cells and nowhere else.
LEMMA DrawPiecesFacts ==
    ASSUME NEW scr \in Screen, NEW ct, NEW p \in [Side -> Cell]
    PROVE  /\ DrawPieces(scr, ct, p) \in Screen
           /\ \A c \in Cell : (\A s \in Side : c # p[s]) => DrawPieces(scr, ct, p)[c] = scr[c]
<1>1. p["owner"] \in Cell /\ p["rival"] \in Cell /\ ME \in Character /\ RIVAL \in Character
  BY DEF Side, Character
<1>2. "owner" \in Side /\ "rival" \in Side
  BY DEF Side
<1>3. CASE ct = cRival
  BY <1>1, <1>2, <1>3 DEF DrawPieces, mvaddch, Screen
<1>4. CASE ct # cRival
  BY <1>1, <1>2, <1>4 DEF DrawPieces, mvaddch, Screen
<1>5. QED  BY <1>3, <1>4

\* Digits, blanks and the empty field are screens.
LEMMA DrawFieldFacts ==
    ASSUME NEW scr \in Screen, NEW g \in Grid
    PROVE  /\ Empty \in Screen
           /\ DrawDigits(scr, g) \in Screen
           /\ Sweep(scr, g) \in Screen
<1>1. \A c \in Cell : g[c] # 0 => g[c] \in Character
  BY BoardAssumption DEF Grid, Character, Digit
<1>2. Space \in Character
  BY DEF Character
<1>3. QED  BY <1>1, <1>2 DEF Empty, DrawDigits, Sweep, Screen

\* A screen that shows the digits and is swept is the board on an empty field.
LEMMA SweepCompletes ==
    ASSUME NEW scr, NEW g \in Grid, \A c \in Cell : g[c] # 0 => scr[c] = g[c]
    PROVE  Sweep(scr, g) = DrawDigits(Empty, g)
BY DEF Sweep, DrawDigits, Empty

\* After the digits, or a screen that has them, and the pieces on eaten cells, every
\* digit is shown.
LEMMA DigitsRemain ==
    ASSUME NEW scr \in Screen, NEW g \in Grid, NEW ct, NEW p \in [Side -> Blank(g)],
           \A c \in Cell : g[c] # 0 => scr[c] = g[c]
    PROVE  \A c \in Cell : g[c] # 0 => DrawPieces(scr, ct, p)[c] = g[c]
<1>1. p \in [Side -> Cell] /\ \A s \in Side : g[p[s]] = 0
  BY DEF Blank
<1>2. QED  BY <1>1, DrawPiecesFacts

--------------------------------------------------------------------------------
(* The steps.                                                                  *)

LEMMA InitIInv == Init => IInv
<1> SUFFICES ASSUME Init PROVE IInv
  OBVIOUS
<1>1. pos \in [Side -> Cell] /\ PiecesOnBlanks
  BY DEF Init, Places, Blank, PiecesOnBlanks
<1>2. screen \in Screen
  BY DEF Init, Empty, Screen, Character
<1>3. TypeOK
  BY <1>1, <1>2 DEF Init, TypeOK, ClientType, Screen, Character
<1>4. QED
  BY <1>1, <1>3 DEF Init, IInv, DigitsAreShown, FieldIsRight

\* A room is drawn for somebody who is let into it.
LEMMA JoinStep == IInv /\ Join => IInv'
<1> SUFFICES ASSUME IInv, Join PROVE IInv'
  OBVIOUS
<1>1. PICK ct \in ClientType \ {cTourist} :
          /\ grid' \in Grid /\ pos' \in Places(grid')
          /\ seat' = ct /\ clientType_' = ct
          /\ screen' = DrawPieces(DrawDigits(screen, grid'), ct, pos')
  BY DEF Join, onGridInfo
<1>2. drawn' = TRUE /\ foreign' = FALSE /\ swept' = (screen = Empty) /\ lingers' = lingers
  BY DEF Join
<1>3. pos' \in [Side -> Blank(grid')] /\ pos' \in [Side -> Cell] /\ PiecesOnBlanks'
  BY <1>1 DEF Places, Blank, PiecesOnBlanks
<1>4. screen \in Screen
  BY DEF IInv, TypeOK, Screen, Character
<1>5. DrawDigits(screen, grid') \in Screen
  BY <1>1, <1>4, DrawFieldFacts
<1>6. screen' \in Screen
  BY <1>1, <1>3, <1>5, DrawPiecesFacts
<1>7. TypeOK'
  <2>1. screen' \in [Cell -> Digit \cup {ME, RIVAL, Space, Letter}]
    BY <1>6 DEF Screen, Character
  <2>2. seat' \in ClientType /\ clientType_' \in ClientType
    BY <1>1
  <2>3. lingers' \in BOOLEAN /\ drawn' \in BOOLEAN /\ swept' \in BOOLEAN /\ foreign' \in BOOLEAN
    BY <1>2 DEF IInv, TypeOK
  <2>4. QED  BY <1>1, <1>3, <2>1, <2>2, <2>3 DEF TypeOK
<1>8. DigitsAreShown'
  <2>1. \A c \in Cell : grid'[c] # 0 => DrawDigits(screen, grid')[c] = grid'[c]
    BY DEF DrawDigits
  <2>2. \A c \in Cell : grid'[c] # 0 => screen'[c] = grid'[c]
    BY <1>1, <1>3, <1>5, <2>1, DigitsRemain
  <2>3. QED  BY <2>2 DEF DigitsAreShown
<1>9. FieldIsRight'
  <2>1. swept' => screen' = Picture'
    BY <1>1, <1>2 DEF Picture, DrawPieces, DrawDigits, Empty, mvaddch
  <2>2. QED  BY <2>1 DEF FieldIsRight
<1>10. QED  BY <1>3, <1>7, <1>8, <1>9 DEF IInv

\* A good move blanks eaten cells, and leaves every digit that is left on the screen.
LEMMA GoodMoveStep == IInv /\ GoodMove => IInv'
<1> SUFFICES ASSUME IInv, GoodMove PROVE IInv'
  OBVIOUS
<1>1. PICK s \in Side, d \in Direction :
          /\ CanWalk(grid, pos[s], d)
          /\ grid' = Erase(grid, Path(pos[s], d, Distance(grid, pos[s], d)))
          /\ pos' = [pos EXCEPT ![s] = At(pos[s], d, Distance(grid, pos[s], d))]
  BY DEF GoodMove
<1>2. /\ screen' = DrawPieces(Sweep(screen, grid'), clientType_, pos') /\ swept' = TRUE
      /\ UNCHANGED <<seat, lingers, clientType_, drawn, foreign>>
  BY DEF GoodMove, onBoardAns
<1>3. grid \in Grid /\ pos \in [Side -> Cell] /\ screen \in Screen /\ pos[s] \in Cell
  BY DEF IInv, TypeOK, Screen, Character
<1>4. grid' \in Grid
  BY <1>1, <1>3, EraseType
<1> DEFINE P == Path(pos[s], d, Distance(grid, pos[s], d))
           e == At(pos[s], d, Distance(grid, pos[s], d))
<1>5. e \in P /\ e \in Cell
  BY <1>1, <1>3, WalkFacts
<1>6. \A c \in Cell : grid'[c] # 0 => grid'[c] = grid[c] /\ grid[c] # 0
  BY <1>1, <1>3, EraseValue
<1>7. \A c \in Cell : grid[c] = 0 \/ c \in P => grid'[c] = 0
  BY <1>1, <1>3, EraseValue
<1>8. pos' \in [Side -> Cell] /\ \A t \in Side : pos'[t] = IF t = s THEN e ELSE pos[t]
  BY <1>1, <1>3, <1>5
<1>9. PiecesOnBlanks' /\ pos' \in [Side -> Blank(grid')]
  <2>1. \A t \in Side : pos'[t] \in Cell /\ grid'[pos'[t]] = 0
    BY <1>3, <1>5, <1>7, <1>8 DEF IInv, PiecesOnBlanks, Blank
  <2>2. QED  BY <1>8, <2>1 DEF PiecesOnBlanks, Blank
<1>10. Sweep(screen, grid') \in Screen
  BY <1>3, <1>4, DrawFieldFacts
<1>11. TypeOK'
  <2>1. screen' \in Screen
    BY <1>2, <1>8, <1>10, DrawPiecesFacts
  <2>2. screen' \in [Cell -> Digit \cup {ME, RIVAL, Space, Letter}]
    BY <2>1 DEF Screen, Character
  <2>3. QED  BY <1>2, <1>4, <1>8, <2>2 DEF IInv, TypeOK
<1>12. ASSUME drawn, ~ foreign
       PROVE  /\ \A c \in Cell : grid'[c] # 0 => screen'[c] = grid'[c]
              /\ screen' = Picture'
  <2>1. \A c \in Cell : grid'[c] # 0 => screen[c] = grid'[c]
    BY <1>6, <1>12 DEF IInv, DigitsAreShown
  <2>2. \A c \in Cell : grid'[c] # 0 => Sweep(screen, grid')[c] = grid'[c]
    BY <2>1 DEF Sweep
  <2>3. \A c \in Cell : grid'[c] # 0 => screen'[c] = grid'[c]
    BY <1>2, <1>4, <1>9, <1>10, <2>2, DigitsRemain
  <2>4. Sweep(screen, grid') = DrawDigits(Empty, grid')
    BY <1>4, <2>1, SweepCompletes
  <2>5. screen' = Picture'
    BY <1>2, <2>4 DEF Picture, DrawPieces, DrawDigits, Empty, mvaddch
  <2>6. QED  BY <2>3, <2>5
<1>13. DigitsAreShown' /\ FieldIsRight'
  BY <1>2, <1>12 DEF DigitsAreShown, FieldIsRight
<1>14. QED  BY <1>9, <1>11, <1>13 DEF IInv

\* A board of another room promises nothing.
LEMMA MoveElsewhereStep == IInv /\ MoveElsewhere => IInv'
<1> SUFFICES ASSUME IInv, MoveElsewhere PROVE IInv'
  OBVIOUS
<1>1. PICK g \in Grid, p \in [Side -> Cell] :
          screen' = DrawPieces(Sweep(screen, g), clientType_, p)
  BY DEF MoveElsewhere, onBoardAns
<1>2. foreign' = TRUE /\ UNCHANGED <<grid, pos, seat, lingers, clientType_, drawn, swept>>
  BY DEF MoveElsewhere, room
<1>3. screen \in Screen
  BY DEF IInv, TypeOK, Screen, Character
<1>4. screen' \in Screen
  BY <1>1, <1>3, DrawFieldFacts, DrawPiecesFacts
<1>5. screen' \in [Cell -> Digit \cup {ME, RIVAL, Space, Letter}]
  BY <1>4 DEF Screen, Character
<1>6. TypeOK'
  BY <1>2, <1>5 DEF IInv, TypeOK
<1>7. QED
  BY <1>2, <1>6 DEF IInv, PiecesOnBlanks, DigitsAreShown, FieldIsRight

\* A screen that has been cleared, or covered by the list of rooms, promises nothing.
LEMMA ClearedStep ==
    ASSUME IInv, screen' \in Screen, drawn' = FALSE,
           UNCHANGED <<grid, pos, swept, foreign>>,
           seat' \in ClientType, clientType_' \in ClientType, lingers' \in BOOLEAN
    PROVE  IInv'
<1>1. screen' \in [Cell -> Digit \cup {ME, RIVAL, Space, Letter}]
  BY DEF Screen, Character
<1>2. TypeOK'
  BY <1>1 DEF IInv, TypeOK
<1>3. QED
  BY <1>2 DEF IInv, PiecesOnBlanks, DigitsAreShown, FieldIsRight

LEMMA ClearStep ==
    IInv /\ (Quit \/ RoomDeleted \/ GameOver \/ EndElsewhere \/ timePublish) => IInv'
<1> SUFFICES ASSUME IInv, Quit \/ RoomDeleted \/ GameOver \/ EndElsewhere \/ timePublish
             PROVE  IInv'
  OBVIOUS
<1>1. /\ screen' = Empty /\ drawn' = FALSE
      /\ UNCHANGED <<grid, pos, swept, foreign>>
  BY DEF Quit, RoomDeleted, GameOver, EndElsewhere, timePublish, clear, room
<1>2. seat' \in ClientType
  BY DEF Quit, RoomDeleted, GameOver, EndElsewhere, timePublish, ClientType, IInv, TypeOK
<1>3. clientType_' \in ClientType
  BY DEF Quit, RoomDeleted, GameOver, EndElsewhere, timePublish, ClientType, IInv, TypeOK
<1>4. lingers' \in BOOLEAN
  BY DEF Quit, RoomDeleted, GameOver, EndElsewhere, timePublish, IInv, TypeOK
<1>5. Empty \in Screen
  BY DEF Empty, Screen, Character
<1>6. QED  BY <1>1, <1>2, <1>3, <1>4, <1>5, ClearedStep

LEMMA ShowStep == IInv /\ Show => IInv'
<1> SUFFICES ASSUME IInv, Show PROVE IInv'
  OBVIOUS
<1>1. screen' \in Screen
  BY DEF Show, showRoomInfo, Screen, Character
<1>2. drawn' = FALSE /\ UNCHANGED <<grid, pos, seat, lingers, clientType_, swept, foreign>>
  BY DEF Show, room
<1>3. seat' \in ClientType /\ clientType_' \in ClientType /\ lingers' \in BOOLEAN
  BY <1>2 DEF IInv, TypeOK
<1>4. QED  BY <1>1, <1>2, <1>3, ClearedStep

\* A refused quit draws nothing and costs the seat.
LEMMA QuitRefusedStep == IInv /\ QuitRefused => IInv'
BY DEF QuitRefused, IInv, TypeOK, PiecesOnBlanks, DigitsAreShown, FieldIsRight, Picture,
       ClientType, room, history

--------------------------------------------------------------------------------
(* The theorems.                                                               *)

\* What the screen shows, as an invariant that does not depend on the seat.
THEOREM Invariance == Spec => []IInv
<1>1. IInv /\ UNCHANGED vars => IInv'
  BY DEF vars, room, history, IInv, TypeOK, PiecesOnBlanks, DigitsAreShown, FieldIsRight, Picture
<1>2. IInv /\ [Next]_vars => IInv'
  BY <1>1, JoinStep, GoodMoveStep, MoveElsewhereStep, ClearStep, ShowStep, QuitRefusedStep
     DEF Next
<1>3. QED  BY <1>2, InitIInv, PTL DEF Spec

\* Nothing is drawn beside the field.
THEOREM TypeCorrect == Spec => []TypeOK
<1>1. IInv => TypeOK  BY DEF IInv
<1>2. QED  BY <1>1, Invariance, PTL

\* Once drawn and swept, the field shows the game after every message, on boards of
\* every size.
THEOREM FieldShowsTheGame == Spec => []ShowsTheGame
<1>1. IInv => ShowsTheGame  BY DEF IInv, FieldIsRight, ShowsTheGame
<1>2. QED  BY <1>1, Invariance, PTL

================================================================================
