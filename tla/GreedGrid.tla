------------------------------- MODULE GreedGrid -------------------------------
(***************************************************************************)
(* The board of a Greed game and the three scans greedServer.cc runs over  *)
(* it: anymove, othermove and the walk inside isValid.  The code keeps the *)
(* board as int** grid (row, column); here it is a function on cells.  A   *)
(* digit is what is left to eat, 0 a cell already eaten.                   *)
(*                                                                         *)
(* No variables: every operator takes the board as a parameter, as the     *)
(* functions of the code do.  Nothing here is recursive, so the module can *)
(* be reasoned about in proofs.                                            *)
(***************************************************************************)
EXTENDS Integers, FiniteSets

CONSTANTS
    HEIGHT,    \* rows of the board                    (19 in the code)
    WIDTH,     \* columns of the board                 (80 in the code)
    MaxDigit   \* largest digit a fresh cell may hold  (9 in the code)

ASSUME BoardAssumption ==
    /\ HEIGHT \in Nat \ {0}
    /\ WIDTH \in Nat \ {0}
    /\ MaxDigit \in Nat \ {0}

Row  == 0 .. HEIGHT - 1
Col  == 0 .. WIDTH - 1
Cell == Row \X Col

\* What rnd(9) puts into a cell of a new board, and the boards of a game.
Digit == 1 .. MaxDigit
Grid  == [Cell -> 0 .. MaxDigit]

\* <<dy, dx>>: the eight directions a key of the client stands for.
Direction == ((-1 .. 1) \X (-1 .. 1)) \ {<<0, 0>>}

\* The k-th cell met when walking from p in direction d.
At(p, d, k) == <<p[1] + k * d[1], p[2] + k * d[2]>>

\* The n cells eaten by a walk of length n; p itself is not among them.
Path(p, d, n) == {At(p, d, k) : k \in 1 .. n}

\* The length of the walk: the digit next to p, 0 when there is no such cell.
Distance(g, p, d) == IF At(p, d, 1) \in Cell THEN g[At(p, d, 1)] ELSE 0

\* Seeded fault: only the first cell of the walk is looked at.
CanWalkUnchecked(g, p, d) == Distance(g, p, d) # 0

\* Seeded fault: the walk is stopped by the edge of the board only.
CanWalkOverEaten(g, p, d) ==
    /\ Distance(g, p, d) # 0
    /\ Path(p, d, Distance(g, p, d)) \subseteq Cell

\* A move is good when the digit next to p can be walked in full: every cell
\* of the walk is on the board and still holds a digit.
CanWalk(g, p, d) ==
    /\ Distance(g, p, d) # 0
    /\ \A c \in Path(p, d, Distance(g, p, d)) : c \in Cell /\ g[c] # 0

\* Seeded off-by-one: the loop over dx stops before 1.
AnyMoveSkippingRight(g, p) == \E d \in Direction : d[2] < 1 /\ CanWalk(g, p, d)

\* anymove: is any move possible from p?
AnyMove(g, p) == \E d \in Direction : CanWalk(g, p, d)

\* Seeded fault: the other directions are judged by their first cell alone.
OtherMoveFirstCell(g, p, bad) == \E d \in Direction \ {bad} : Distance(g, p, d) # 0

\* othermove: is any move other than the rejected direction possible from p?
\* It reads a first cell beyond the board too, but whatever it finds there the
\* walk leaves at once, so such a direction is never a move.
OtherMove(g, p, bad) == \E d \in Direction \ {bad} : CanWalk(g, p, d)

\* othermove scans dy = -1, 0, 1 and, for each, dx = -1, 0, 1.
ScannedBefore(e, d) == 3 * e[1] + e[2] < 3 * d[1] + d[2]

\* othermove reads a cell of a row that does not exist (through a row pointer
\* that was never allocated) before it has found a move and returned.
OtherMoveStrays(g, p, bad) ==
    \E d \in Direction \ {bad} :
        /\ At(p, d, 1)[1] \notin Row
        /\ ~ \E e \in Direction \ {bad} : ScannedBefore(e, d) /\ CanWalk(g, p, e)

\* The board after the cells of S have been set to 0.
Erase(g, S) == [c \in Cell |-> IF c \in S THEN 0 ELSE g[c]]

Blank(g) == {c \in Cell : g[c] = 0}

================================================================================
