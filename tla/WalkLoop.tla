--------------------------------- MODULE WalkLoop --------------------------------
(***************************************************************************)
(* The loops of one boardQuery, a cell at a time: the two do-while loops   *)
(* of isValid, othermove when the walk is no good, the while loop over the *)
(* cells of a walk that was refused, and anymove at the end.  GreedGrid    *)
(* says in one formula each what they find out; here they count a digit    *)
(* down, break and go on as the code does.                                 *)
(***************************************************************************)
EXTENDS GreedGrid

VARIABLES
    grid, pos,     \* the board, and the piece of the player that moves
    want,          \* the direction of the query
    start, from,   \* board and piece as they were before the query
    pc,            \* "valid", "eat", "scan", "walk", "retrace", "done" or "crashed"
    scanner,       \* whose loop "scan" and "walk" are: "othermove" or "anymove"
    at, d,         \* the cell a loop is at, and the digit it counts down
    stop,          \* the last cell isValid's first loop came to (its j and i)
    k,             \* how many of the nine directions a scan has done with
    score,         \* the local variable of isValid
    res, anyM      \* what isValid and anymove have returned

given == <<want, start, from>>
vars  == <<grid, pos, given, pc, scanner, at, d, stop, k, score, res, anyM>>

Init ==
    /\ grid \in Grid /\ pos \in Cell /\ grid[pos] = 0
    /\ want \in Direction
    /\ start = grid /\ from = pos
    /\ pc = "valid"
    /\ scanner = "othermove"
    /\ at = pos /\ stop = pos
    /\ d = Distance(grid, pos, want)
    /\ k = 0
    /\ score = 0
    /\ res = -1 /\ anyM = FALSE

\* The cell the loops look at next, and whether they may walk over it.
Ahead(dir) == At(at, dir, 1)

OpenCell(c) == c \in Cell /\ grid[c] # 0

--------------------------------------------------------------------------------
(* isValid.                                                                    *)

StartScan(who) ==
    /\ pc' = "scan" /\ scanner' = who
    /\ k' = 0

\* The first loop: is the path good?
ValidGoOn ==
    /\ pc = "valid"
    /\ OpenCell(Ahead(want))
    /\ IF d - 1 # 0
       THEN pc' = "valid" /\ at' = Ahead(want) /\ d' = d - 1
       ELSE pc' = "eat" /\ at' = pos /\ d' = Distance(grid, pos, want)
    /\ UNCHANGED <<grid, pos, given, scanner, stop, k, score, res, anyM>>

\* The cell that cannot be walked over is left again before j and i are used.
ValidStop ==
    /\ pc = "valid"
    /\ ~ OpenCell(Ahead(want))
    /\ stop' = at
    /\ StartScan("othermove")
    /\ UNCHANGED <<grid, pos, given, at, d, score, res, anyM>>

\* Seeded off-by-one: the loop tests the digit before it counts it down.
LastBiteLate == d = 0

LastBite == d - 1 = 0

\* The second loop: the path is eaten, and the piece moves to its end.
Eat ==
    /\ pc = "eat"
    /\ at' = Ahead(want)
    /\ grid' = Erase(grid, {Ahead(want)})
    /\ score' = score + 1
    /\ d' = d - 1
    /\ IF LastBite
       THEN pos' = Ahead(want) /\ res' = 2 /\ StartScan("anymove")
       ELSE UNCHANGED <<pos, res, pc, scanner, k>>
    /\ UNCHANGED <<given, stop, anyM>>

--------------------------------------------------------------------------------
(* othermove and anymove.                                                      *)

\* dy = -1, 0, 1 and, for each, dx = -1, 0, 1.
Dir(n) == <<(n \div 3) - 1, (n % 3) - 1>>

\* Seeded fault: the test for standing still is joined with || too.
SkippedStraight(dir) ==
    \/ dir[1] = 0 \/ dir[2] = 0
    \/ scanner = "othermove" /\ dir = want
    \/ scanner = "anymove" /\ At(pos, dir, 1) \notin Cell

\* Seeded fault: the bounds of anymove are joined as those of othermove are.
SkippedUnbounded(dir) == dir = <<0, 0>> \/ (scanner = "othermove" /\ dir = want)

\* othermove skips the direction of the query, anymove the cells beyond the board.
Skipped(dir) ==
    \/ dir = <<0, 0>>
    \/ scanner = "othermove" /\ dir = want
    \/ scanner = "anymove" /\ At(pos, dir, 1) \notin Cell

\* What grid_[y+dy][x+dx] may yield.  Beyond the columns it is a word of the heap,
\* beyond the rows whatever is found where no row pointer was stored; what is not 0
\* makes no difference from MaxDigit.
Read(c) == IF c \in Cell THEN {grid[c]} ELSE 0 .. MaxDigit

\* anymove's answer is the last of the query.
AnyMoveReturns(found) ==
    /\ anyM' = found
    /\ pc' = "done"
    /\ UNCHANGED <<res, scanner, k>>

Skip ==
    /\ pc = "scan" /\ k < 9
    /\ Skipped(Dir(k))
    /\ k' = k + 1
    /\ UNCHANGED <<grid, pos, given, pc, scanner, at, d, stop, score, res, anyM>>

Look ==
    /\ pc = "scan" /\ k < 9
    /\ ~ Skipped(Dir(k))
    /\ \E v \in Read(At(pos, Dir(k), 1)) :
           IF v = 0
           THEN k' = k + 1 /\ UNCHANGED <<pc, at, d>>
           ELSE pc' = "walk" /\ at' = pos /\ d' = v /\ UNCHANGED k
    /\ UNCHANGED <<grid, pos, given, scanner, stop, score, res, anyM>>

\* The row pointer that is read is no pointer.
Fault ==
    /\ pc = "scan" /\ k < 9
    /\ ~ Skipped(Dir(k))
    /\ At(pos, Dir(k), 1)[1] \notin Row
    /\ pc' = "crashed"
    /\ UNCHANGED <<grid, pos, given, scanner, at, d, stop, k, score, res, anyM>>

NoneFound ==
    /\ pc = "scan" /\ k = 9
    /\ IF scanner = "othermove"
       THEN pc' = "retrace" /\ at' = pos /\ UNCHANGED <<scanner, k, res, anyM>>
       ELSE AnyMoveReturns(FALSE) /\ UNCHANGED at
    /\ UNCHANGED <<grid, pos, given, d, stop, score>>

\* Seeded fault: a walk that breaks does not go on with the next direction.
WalkBreakAgain ==
    /\ pc = "walk"
    /\ ~ OpenCell(Ahead(Dir(k)))
    /\ pc' = "scan"
    /\ UNCHANGED <<grid, pos, given, scanner, at, d, stop, k, score, res, anyM>>

\* One turn of the do-while loop: it breaks, counts down, or has come to the end.
WalkBreak ==
    /\ pc = "walk"
    /\ ~ OpenCell(Ahead(Dir(k)))
    /\ pc' = "scan" /\ k' = k + 1
    /\ UNCHANGED <<grid, pos, given, scanner, at, d, stop, score, res, anyM>>

WalkGoOn ==
    /\ pc = "walk"
    /\ OpenCell(Ahead(Dir(k)))
    /\ d - 1 # 0
    /\ at' = Ahead(Dir(k)) /\ d' = d - 1
    /\ UNCHANGED <<grid, pos, given, pc, scanner, stop, k, score, res, anyM>>

WalkEnd ==
    /\ pc = "walk"
    /\ OpenCell(Ahead(Dir(k)))
    /\ d - 1 = 0
    /\ at' = Ahead(Dir(k)) /\ d' = d - 1
    /\ IF scanner = "othermove"
       THEN res' = 1 /\ StartScan("anymove") /\ UNCHANGED anyM
       ELSE AnyMoveReturns(TRUE)
    /\ UNCHANGED <<grid, pos, given, stop, score>>

--------------------------------------------------------------------------------
(* isValid goes on: there is no other move either.                             *)

\* Seeded fault: the two conditions of the loop are joined with &&.
RetracedEither == at[1] = stop[1] \/ at[2] = stop[2]

\* The while loop's y != j || x != i no longer holds.
Retraced == at = stop

\* The refused walk is gone over once more, and scored.
Retrace ==
    /\ pc = "retrace"
    /\ ~ Retraced
    /\ at' = Ahead(want)
    /\ score' = score + 1
    /\ UNCHANGED <<grid, pos, given, pc, scanner, d, stop, k, res, anyM>>

RetraceEnd ==
    /\ pc = "retrace"
    /\ Retraced
    /\ res' = 0
    /\ StartScan("anymove")
    /\ UNCHANGED <<grid, pos, given, at, d, stop, score, anyM>>

Next ==
    \/ ValidGoOn \/ ValidStop \/ Eat
    \/ Skip \/ Look \/ Fault \/ NoneFound
    \/ WalkBreak \/ WalkGoOn \/ WalkEnd
    \/ Retrace \/ RetraceEnd

Spec == Init /\ [][Next]_vars

\* A handler that runs goes on.
FairSpec == Spec /\ WF_vars(Next)

--------------------------------------------------------------------------------
(* Properties.                                                                 *)

\* Type correctness; no loop leaves the board.
TypeOK ==
    /\ grid \in Grid /\ start \in Grid
    /\ pos \in Cell /\ from \in Cell /\ at \in Cell /\ stop \in Cell
    /\ want \in Direction
    /\ pc \in {"valid", "eat", "scan", "walk", "retrace", "done", "crashed"}
    /\ scanner \in {"othermove", "anymove"}
    /\ d \in 0 .. MaxDigit /\ k \in 0 .. 9
    /\ score \in 0 .. MaxDigit
    /\ res \in -1 .. 2 /\ anyM \in BOOLEAN

\* What the query's walk meets: s cells that still hold a digit, and then none.
StoppedAfter(s) ==
    LET Holds(c) == c \in Cell /\ start[c] # 0
    IN  (\A i \in 1 .. s : Holds(At(from, want, i))) /\ ~ Holds(At(from, want, s + 1))

\* isValid returns 2 for a walk that is good, and has then played it in full;
\* otherwise it has touched nothing, and tells whether there is another move.  Its
\* count of cells is the walk's length, also of a walk refused for good, which it
\* goes over up to the cell that stopped it; nothing is done with that count.
IsValidComputesTheWalk ==
    LET n == Distance(start, from, want)
    IN  pc = "done" =>
            IF CanWalk(start, from, want)
            THEN /\ res = 2
                 /\ grid = Erase(start, Path(from, want, n))
                 /\ pos = At(from, want, n)
                 /\ score = n
            ELSE /\ grid = start /\ pos = from
                 /\ IF OtherMove(start, from, want)
                    THEN res = 1 /\ score = 0
                    ELSE res = 0 /\ StoppedAfter(score)

\* anymove says whether there is a move on the board it is given.
AnyMoveIsComputed == pc = "done" => anyM = AnyMove(grid, pos)

\* othermove strays only where GreedGrid says it does, and anymove never.
StraysAreKnown ==
    pc = "crashed" => ~ CanWalk(start, from, want) /\ OtherMoveStrays(start, from, want)

\* Every query comes to an end; no loop, the one with the != exit included, runs past it.
LoopsEnd == <>(pc \in {"done", "crashed"})

================================================================================
