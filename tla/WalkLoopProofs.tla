----------------------------- MODULE WalkLoopProofs -----------------------------
(***************************************************************************)
(* The loops of isValid, othermove and anymove compute what GreedGrid says *)
(* of a walk, on boards of every size: proved by the loops' invariants.    *)
(***************************************************************************)
EXTENDS WalkLoop, TLAPS

--------------------------------------------------------------------------------
(* The board.                                                                  *)

\* Setting cells of a board to 0 gives a board.
LEMMA EraseType ==
    ASSUME NEW g \in Grid, NEW S
    PROVE  Erase(g, S) \in Grid
BY BoardAssumption DEF Erase, Grid

\* A possible walk has a length between 1 and MaxDigit, stays on the board, eats
\* only digits, and ends on the last cell it eats.
LEMMA WalkFacts ==
    ASSUME NEW g \in Grid, NEW p \in Cell, NEW dir \in Direction, CanWalk(g, p, dir)
    PROVE  /\ Distance(g, p, dir) \in 1 .. MaxDigit
           /\ At(p, dir, Distance(g, p, dir)) \in Path(p, dir, Distance(g, p, dir))
           /\ \A c \in Path(p, dir, Distance(g, p, dir)) : c \in Cell /\ g[c] # 0
<1>1. Distance(g, p, dir) \in 0 .. MaxDigit
  BY BoardAssumption DEF Distance, Grid
<1>2. Distance(g, p, dir) # 0
  BY DEF CanWalk
<1>3. Distance(g, p, dir) \in 1 .. MaxDigit
  BY <1>1, <1>2, BoardAssumption
<1>4. Distance(g, p, dir) \in 1 .. Distance(g, p, dir)
  BY <1>3, BoardAssumption
<1>5. At(p, dir, Distance(g, p, dir)) \in Path(p, dir, Distance(g, p, dir))
  BY <1>4 DEF Path
<1>6. QED
  BY <1>3, <1>5 DEF CanWalk

--------------------------------------------------------------------------------
(* The loops' invariants.                                                      *)

\* isValid has changed nothing, and returned nothing, yet.
Unmoved   == grid = start /\ pos = from /\ res = -1
Untouched == Unmoved /\ score = 0

\* A loop has done n - d of the n steps of a walk: it is at the cell the last one
\* led to, and all it has walked over is open.
WalkedTo(dir, n) ==
    /\ d \in 1 .. n
    /\ at = At(pos, dir, n - d)
    /\ \A i \in 1 .. n - d : OpenCell(At(pos, dir, i))

\* The first loop of isValid.  A distance of 0 is never counted down.
ValidLoop ==
    LET n == Distance(start, from, want)
    IN  pc = "valid" => Untouched /\ (WalkedTo(want, n) \/ (n = 0 /\ d = 0 /\ at = pos))

\* The second loop: as many cells are eaten, and scored, as steps are done.
EatLoop ==
    LET n == Distance(start, from, want)
    IN  pc = "eat" =>
            /\ CanWalk(start, from, want)
            /\ pos = from /\ res = -1
            /\ d \in 1 .. n /\ at = At(from, want, n - d)
            /\ grid = Erase(start, Path(from, want, n - d))
            /\ score = n - d

\* What isValid has returned and done, by the time anymove runs.
ValidHasReturned ==
    LET n == Distance(start, from, want)
    IN  IF CanWalk(start, from, want)
        THEN /\ res = 2
             /\ grid = Erase(start, Path(from, want, n))
             /\ pos = At(from, want, n)
             /\ score = n
        ELSE /\ grid = start /\ pos = from
             /\ IF OtherMove(start, from, want)
                THEN res = 1 /\ score = 0
                ELSE res = 0 /\ StoppedAfter(score)

\* isValid remembers where its first loop has come to.
StopIs(s) == s \in 0 .. MaxDigit /\ stop = At(from, want, s) /\ StoppedAfter(s)

\* The while loop: it has gone over the first cells of the refused walk, not beyond
\* the place where that was stopped.
RetraceLoop ==
    pc = "retrace" =>
        /\ Unmoved
        /\ ~ CanWalk(start, from, want) /\ ~ OtherMove(start, from, want)
        /\ at = At(from, want, score)
        /\ \E s \in Nat : StopIs(s) /\ score <= s

\* othermove runs before isValid returns and anymove afterwards.
ScanOrder ==
    pc \in {"scan", "walk"} =>
        IF scanner = "othermove" THEN /\ Untouched /\ ~ CanWalk(start, from, want)
             /\ \E s \in Nat : StopIs(s)
        ELSE ValidHasReturned

\* The directions a scan is to look at.
Scanned(dir) == dir \in Direction /\ ~ (scanner = "othermove" /\ dir = want)

\* A scan that still runs has found no move in the directions it has done with.
ScanLoop ==
    pc \in {"scan", "walk"} =>
        \A m \in 0 .. k - 1 : Scanned(Dir(m)) => ~ CanWalk(grid, pos, Dir(m))

\* The innermost loop; beyond the board its digit is an accident, but it goes nowhere.
WalkInScan ==
    pc = "walk" =>
        /\ k \in 0 .. 8 /\ Scanned(Dir(k))
        /\ d \in 1 .. MaxDigit
        /\ \/ At(pos, Dir(k), 1) \notin Cell /\ at = pos
           \/ At(pos, Dir(k), 1) \in Cell /\ WalkedTo(Dir(k), Distance(grid, pos, Dir(k)))

Finished == pc = "done" => ValidHasReturned /\ anyM = AnyMove(grid, pos)

IInv ==
    /\ TypeOK
    /\ ValidLoop /\ EatLoop /\ RetraceLoop
    /\ ScanOrder /\ ScanLoop /\ WalkInScan
    /\ Finished /\ StraysAreKnown

--------------------------------------------------------------------------------
(* Steps of a walk, and the order of the directions.                           *)

\* The place a walk of j steps leads to is one step before that of j + 1.
LEMMA AtStep ==
    ASSUME NEW p \in Cell, NEW dir \in (-1 .. 1) \X (-1 .. 1), NEW j \in Nat
    PROVE  /\ At(p, dir, 0) = p
           /\ At(At(p, dir, j), dir, 1) = At(p, dir, j + 1)
<1>1. p = <<p[1], p[2]>> /\ p[1] \in Int /\ p[2] \in Int
  BY BoardAssumption DEF Cell, Row, Col
<1>2. dir[1] \in -1 .. 1 /\ dir[2] \in -1 .. 1
  OBVIOUS
<1>3. \A x \in -1 .. 1 : 0 * x = 0 /\ (j * x) + x = (j + 1) * x /\ j * x \in Int /\ 1 * x = x
  <2>1. \A x \in {-1, 0, 1} : 0 * x = 0 /\ (j * x) + x = (j + 1) * x /\ j * x \in Int /\ 1 * x = x
    BY SMT
  <2>2. -1 .. 1 = {-1, 0, 1}
    OBVIOUS
  <2>3. QED  BY <2>1, <2>2
<1>4. At(p, dir, 0) = p
  BY <1>1, <1>2, <1>3 DEF At
<1>5. At(p, dir, j) = <<p[1] + j * dir[1], p[2] + j * dir[2]>>
  BY DEF At
<1>6. At(At(p, dir, j), dir, 1) =
          <<(p[1] + j * dir[1]) + dir[1], (p[2] + j * dir[2]) + dir[2]>>
  BY <1>2, <1>3, <1>5 DEF At
<1>7. /\ (p[1] + j * dir[1]) + dir[1] = p[1] + (j + 1) * dir[1]
      /\ (p[2] + j * dir[2]) + dir[2] = p[2] + (j + 1) * dir[2]
  <2>1. /\ (j * dir[1]) + dir[1] = (j + 1) * dir[1]
        /\ (j * dir[2]) + dir[2] = (j + 1) * dir[2]
        /\ j * dir[1] \in Int /\ j * dir[2] \in Int
    BY <1>2, <1>3
  <2> DEFINE a == j * dir[1]  b == j * dir[2]
  <2>2. /\ (p[1] + a) + dir[1] = p[1] + (a + dir[1])
        /\ (p[2] + b) + dir[2] = p[2] + (b + dir[2])
    <3> HIDE DEF a, b
    <3>1. a \in Int /\ b \in Int  BY <2>1 DEF a, b
    <3>2. QED  BY <1>1, <1>2, <3>1
  <2>3. QED  BY <2>1, <2>2
<1>8. At(p, dir, j + 1) = <<p[1] + (j + 1) * dir[1], p[2] + (j + 1) * dir[2]>>
  BY DEF At
<1>9. QED  BY <1>4, <1>6, <1>7, <1>8

\* A path grows by the cell it leads to.
LEMMA PathStep ==
    ASSUME NEW p, NEW dir, NEW j \in Nat
    PROVE  /\ Path(p, dir, 0) = {}
           /\ Path(p, dir, j + 1) = Path(p, dir, j) \cup {At(p, dir, j + 1)}
<1>1. 1 .. 0 = {} /\ 1 .. (j + 1) = (1 .. j) \cup {j + 1}
  OBVIOUS
<1>2. QED  BY <1>1 DEF Path

\* Eating cell by cell is eating the path.
LEMMA EraseStep ==
    ASSUME NEW g \in Grid, NEW S, NEW T
    PROVE  Erase(g, {}) = g /\ Erase(Erase(g, S), T) = Erase(g, S \cup T)
<1>1. Erase(g, {}) = g
  BY DEF Erase, Grid
<1>2. \A c \in Cell : Erase(Erase(g, S), T)[c] = Erase(g, S \cup T)[c]
  BY DEF Erase
<1>3. QED  BY <1>1, <1>2 DEF Erase

\* The two for loops: dy and, within, dx.
LEMMA DirTable ==
    /\ Dir(0) = <<-1, -1>> /\ Dir(1) = <<-1, 0>> /\ Dir(2) = <<-1, 1>>
    /\ Dir(3) = <<0, -1>>  /\ Dir(4) = <<0, 0>>  /\ Dir(5) = <<0, 1>>
    /\ Dir(6) = <<1, -1>>  /\ Dir(7) = <<1, 0>>  /\ Dir(8) = <<1, 1>>
BY DEF Dir

\* They meet every direction once, in the order of ScannedBefore.
LEMMA DirFacts ==
    /\ \A m \in 0 .. 8 : Dir(m) \in (-1 .. 1) \X (-1 .. 1)
    /\ \A e \in Direction : \E m \in 0 .. 8 : Dir(m) = e
    /\ \A m, n \in 0 .. 8 : ScannedBefore(Dir(m), Dir(n)) => m < n
<1>1. 0 .. 8 = {0, 1, 2, 3, 4, 5, 6, 7, 8} /\ -1 .. 1 = {-1, 0, 1}
  OBVIOUS
<1>2. \A m \in 0 .. 8 : Dir(m) \in (-1 .. 1) \X (-1 .. 1)
  BY <1>1, DirTable
<1>3. ASSUME NEW e \in Direction
      PROVE  \E m \in 0 .. 8 : Dir(m) = e
  <2>1. e = <<e[1], e[2]>> /\ e[1] \in {-1, 0, 1} /\ e[2] \in {-1, 0, 1}
    BY DEF Direction
  <2>2. QED  BY <2>1, DirTable
<1>4. \A m \in 0 .. 8 : 3 * Dir(m)[1] + Dir(m)[2] = m - 4
  BY <1>1, DirTable
<1>5. ASSUME NEW m \in 0 .. 8, NEW n \in 0 .. 8, ScannedBefore(Dir(m), Dir(n))
      PROVE  m < n
  BY <1>4, <1>5 DEF ScannedBefore
<1>6. QED  BY <1>2, <1>3, <1>5

\* A scan that has done with all nine directions has found what there is.
LEMMA ScanIsComplete ==
    ASSUME k = 9,
           \A m \in 0 .. k - 1 : Scanned(Dir(m)) => ~ CanWalk(grid, pos, Dir(m))
    PROVE  \A e \in Direction : Scanned(e) => ~ CanWalk(grid, pos, e)
BY DirFacts

\* A walk whose cells are all open is a move.
LEMMA OpenWalkIsAMove ==
    ASSUME NEW dir, Distance(grid, pos, dir) # 0,
           \A i \in 1 .. Distance(grid, pos, dir) : OpenCell(At(pos, dir, i))
    PROVE  CanWalk(grid, pos, dir)
BY DEF CanWalk, Path, OpenCell

\* A walk with a cell on its way that is not open is none.
LEMMA BlockedWalkIsNone ==
    ASSUME NEW dir, NEW i \in 1 .. Distance(grid, pos, dir), ~ OpenCell(At(pos, dir, i))
    PROVE  ~ CanWalk(grid, pos, dir)
BY DEF CanWalk, Path, OpenCell

--------------------------------------------------------------------------------
(* The steps.                                                                  *)

LEMMA InitIInv == Init => IInv
<1> SUFFICES ASSUME Init PROVE IInv
  OBVIOUS
<1>1. d \in 0 .. MaxDigit
  BY BoardAssumption DEF Init, Distance, Grid
<1>2. TypeOK
  <2>1. start = grid /\ from = pos /\ at = pos /\ k = 0 /\ score = 0 /\ res = -1
    BY DEF Init
  <2>2. res \in -1 .. 2 /\ score \in 0 .. MaxDigit /\ k \in 0 .. 9
    BY <2>1, BoardAssumption
  <2>3. anyM \in BOOLEAN
    BY DEF Init
  <2>4. QED  BY <1>1, <2>1, <2>2, <2>3 DEF Init, TypeOK
<1>3. ValidLoop
  <2> DEFINE n == Distance(start, from, want)
  <2>1. d = n /\ at = pos /\ pos \in Cell /\ want \in (-1 .. 1) \X (-1 .. 1)
    BY DEF Init, Direction
  <2>2. CASE d = 0
    BY <2>1, <2>2 DEF Init, ValidLoop, Untouched, Unmoved
  <2>3. CASE d # 0
    <3>1. n - d = 0 /\ d \in 1 .. n
      BY <1>1, <2>1, <2>3, BoardAssumption
    <3>2. at = At(pos, want, n - d)
      BY <2>1, <3>1, AtStep
    <3>3. WalkedTo(want, n)
      BY <3>1, <3>2 DEF WalkedTo
    <3>4. QED  BY <3>3 DEF Init, ValidLoop, Untouched, Unmoved
  <2>4. QED  BY <2>2, <2>3
<1>4. QED
  BY <1>2, <1>3 DEF Init, IInv, EatLoop, RetraceLoop, ScanOrder, ScanLoop, WalkInScan,
                    Finished, StraysAreKnown

\* The first loop goes on, or its walk is good and the second loop begins.
LEMMA ValidGoOnStep == IInv /\ ValidGoOn => IInv'
<1> SUFFICES ASSUME IInv, ValidGoOn PROVE IInv'
  OBVIOUS
<1> DEFINE n == Distance(start, from, want)
<1>0. /\ pos \in Cell /\ at \in Cell /\ grid \in Grid /\ start \in Grid
      /\ want \in (-1 .. 1) \X (-1 .. 1)
      /\ pc = "valid" /\ OpenCell(At(at, want, 1))
      /\ Untouched
      /\ n = Distance(grid, pos, want)
      /\ UNCHANGED <<grid, pos, given, scanner, stop, k, score, res, anyM>>
  BY DEF IInv, TypeOK, ValidGoOn, ValidLoop, Ahead, Direction, Untouched, Unmoved
<1>1. WalkedTo(want, n)
  <2>1. CASE n = 0 /\ d = 0 /\ at = pos
    BY <1>0, <2>1 DEF OpenCell, Distance
  <2>2. QED  BY <1>0, <2>1 DEF IInv, ValidLoop
<1>2. n \in 0 .. MaxDigit /\ d \in 1 .. n
  <2>1. n \in 0 .. MaxDigit
    BY <1>0, BoardAssumption DEF Distance, Grid
  <2>2. QED  BY <1>1, <2>1 DEF WalkedTo
<1> DEFINE j == n - d
<1>3. j \in Nat /\ j + 1 = n - (d - 1) /\ n \in Int /\ d \in Int /\ MaxDigit \in Nat
  BY <1>2, BoardAssumption
<1>4. At(at, want, 1) = At(pos, want, j + 1)
  BY <1>0, <1>1, <1>3, AtStep DEF WalkedTo
<1>5. \A i \in 1 .. j + 1 : OpenCell(At(pos, want, i))
  <2>1. \A i \in 1 .. j : OpenCell(At(pos, want, i))
    BY <1>1 DEF WalkedTo
  <2>2. \A i \in 1 .. j + 1 : i = j + 1 \/ i \in 1 .. j
    BY <1>3
  <2>3. QED  BY <1>0, <1>4, <2>1, <2>2
<1>6. At(at, want, 1) \in Cell
  BY <1>0 DEF OpenCell
<1>7. CASE d - 1 # 0
  <2>1. pc' = "valid" /\ at' = At(at, want, 1) /\ d' = d - 1
    BY <1>7 DEF ValidGoOn, Ahead
  <2>2. d - 1 \in 1 .. n /\ d - 1 \in 0 .. MaxDigit
    BY <1>2, <1>3, <1>7
  <2>3. TypeOK'
    BY <1>0, <1>6, <2>1, <2>2 DEF IInv, TypeOK, given
  <2>4. WalkedTo(want, n)'
    BY <1>0, <1>3, <1>4, <1>5, <2>1, <2>2 DEF WalkedTo, OpenCell, given
  <2>5. ValidLoop'
    BY <1>0, <2>4 DEF ValidLoop, Untouched, Unmoved, given
  <2>6. QED
    BY <2>1, <2>3, <2>5 DEF IInv, EatLoop, RetraceLoop, ScanOrder, ScanLoop,
                            WalkInScan, Finished,
                            StraysAreKnown
<1>8. CASE d - 1 = 0
  <2>1. pc' = "eat" /\ at' = pos /\ d' = n
    BY <1>0, <1>8 DEF ValidGoOn
  <2>2. TypeOK'
    BY <1>0, <1>2, <2>1 DEF IInv, TypeOK, given
  <2>3. j + 1 = n /\ n # 0
    BY <1>2, <1>3, <1>8
  <2>4. CanWalk(start, from, want)
    BY <1>0, <1>5, <2>3, OpenWalkIsAMove DEF Untouched, Unmoved
  <2>5. n - n = 0 /\ n \in 1 .. n
    BY <1>2
  <2>6. at' = At(from, want, n - n) /\ grid' = Erase(start, Path(from, want, n - n))
    BY <1>0, <2>1, <2>5, AtStep, PathStep, EraseStep DEF Untouched, Unmoved
  <2>7. EatLoop'
    BY <1>0, <2>1, <2>4, <2>5, <2>6 DEF EatLoop, Untouched, Unmoved, given
  <2>8. QED
    BY <2>1, <2>2, <2>7 DEF IInv, ValidLoop, RetraceLoop, ScanOrder, ScanLoop,
                            WalkInScan, Finished,
                            StraysAreKnown
<1>9. QED  BY <1>7, <1>8

\* The first loop breaks, and othermove is asked.
LEMMA ValidStopStep == IInv /\ ValidStop => IInv'
<1> SUFFICES ASSUME IInv, ValidStop PROVE IInv'
  OBVIOUS
<1> DEFINE n == Distance(start, from, want)
<1>0. /\ pos \in Cell /\ at \in Cell /\ grid \in Grid /\ start \in Grid
      /\ want \in (-1 .. 1) \X (-1 .. 1)
      /\ pc = "valid" /\ ~ OpenCell(At(at, want, 1))
      /\ Untouched
      /\ n = Distance(grid, pos, want)
      /\ pc' = "scan" /\ scanner' = "othermove" /\ k' = 0 /\ stop' = at
      /\ UNCHANGED <<grid, pos, given, at, d, score, res, anyM>>
  BY DEF IInv, TypeOK, ValidStop, StartScan, ValidLoop, Ahead, Direction, Untouched,
         Unmoved
<1>1. n \in 0 .. MaxDigit /\ MaxDigit \in Nat
  BY <1>0, BoardAssumption DEF Distance, Grid
<1>2. PICK s \in 0 .. MaxDigit :
          /\ at = At(from, want, s)
          /\ \A i \in 1 .. s : OpenCell(At(from, want, i))
          /\ n # 0 => s + 1 \in 1 .. n
  <2>1. CASE n = 0 /\ d = 0 /\ at = pos
    <3>1. at = At(from, want, 0) /\ 1 .. 0 = {} /\ 0 \in 0 .. MaxDigit
      BY <1>0, <1>1, <2>1, AtStep DEF Untouched, Unmoved
    <3>2. QED  BY <2>1, <3>1
  <2>2. CASE WalkedTo(want, n)
    <3>1. n - d \in 0 .. MaxDigit /\ (n - d) + 1 \in 1 .. n
      BY <1>1, <2>2 DEF WalkedTo
    <3>2. QED  BY <1>0, <2>2, <3>1 DEF WalkedTo, Untouched, Unmoved
  <2>3. QED  BY <1>0, <2>1, <2>2 DEF IInv, ValidLoop
<1>3. At(at, want, 1) = At(from, want, s + 1)
  BY <1>0, <1>1, <1>2, AtStep DEF Untouched, Unmoved
<1>4. ~ CanWalk(start, from, want)
  <2>1. CASE n = 0
    BY <2>1 DEF CanWalk
  <2>2. CASE n # 0
    <3>1. ~ CanWalk(grid, pos, want)
      BY <1>0, <1>2, <1>3, <2>2, BlockedWalkIsNone DEF Untouched, Unmoved
    <3>2. QED  BY <1>0, <3>1 DEF Untouched, Unmoved
  <2>3. QED  BY <2>1, <2>2
<1>5. StopIs(s)'
  BY <1>0, <1>2, <1>3 DEF StopIs, StoppedAfter, OpenCell, Untouched, Unmoved, given
<1>6. TypeOK'
  BY <1>0, BoardAssumption DEF IInv, TypeOK, given
<1>7. ScanOrder'
  <2>1. s \in Nat
    BY <1>1
  <2>2. QED  BY <1>0, <1>4, <1>5, <2>1 DEF ScanOrder, Untouched, Unmoved, given
<1>8. ScanLoop'
  BY <1>0 DEF ScanLoop
<1>9. QED
  BY <1>0, <1>6, <1>7, <1>8
     DEF IInv, ValidLoop, EatLoop, RetraceLoop, WalkInScan, Finished, StraysAreKnown

\* The second loop eats one more cell of a walk that is good, and moves the piece at
\* its end.
LEMMA EatStep == IInv /\ Eat => IInv'
<1> SUFFICES ASSUME IInv, Eat PROVE IInv'
  OBVIOUS
<1> DEFINE n == Distance(start, from, want)
           j == n - d
<1>0. /\ pos \in Cell /\ from \in Cell /\ start \in Grid
      /\ want \in Direction /\ want \in (-1 .. 1) \X (-1 .. 1)
      /\ CanWalk(start, from, want)
      /\ pos = from /\ at = At(from, want, j) /\ score = j
      /\ grid = Erase(start, Path(from, want, j))
      /\ at' = At(at, want, 1) /\ grid' = Erase(grid, {At(at, want, 1)})
      /\ score' = score + 1 /\ d' = d - 1
      /\ UNCHANGED <<given, stop, anyM>>
  BY DEF IInv, TypeOK, Eat, EatLoop, Ahead, Direction
<1>1. n \in 1 .. MaxDigit /\ d \in 1 .. n /\ MaxDigit \in Nat
  BY <1>0, WalkFacts, BoardAssumption DEF IInv, EatLoop, Eat
<1>2. j \in Nat /\ j + 1 \in 1 .. n /\ j + 1 = n - (d - 1)
  BY <1>1
<1>3. at' = At(from, want, j + 1)
  BY <1>0, <1>2, AtStep
<1>4. at' \in Cell
  BY <1>0, <1>2, <1>3, WalkFacts DEF Path
<1>5. grid' = Erase(start, Path(from, want, j + 1))
  BY <1>0, <1>2, <1>3, PathStep, EraseStep
<1>6. grid' \in Grid
  BY <1>0, <1>5, EraseType
<1>7. d' \in 0 .. MaxDigit /\ score' \in 0 .. MaxDigit
  BY <1>0, <1>1, <1>2
<1>8. CASE LastBite
  <2>1. /\ pos' = at' /\ res' = 2 /\ pc' = "scan" /\ scanner' = "anymove" /\ k' = 0
    BY <1>0, <1>8 DEF Eat, StartScan, Ahead
  <2>2. j + 1 = n
    BY <1>1, <1>2, <1>8 DEF LastBite
  <2>3. ValidHasReturned'
    BY <1>0, <1>2, <1>3, <1>5, <2>1, <2>2 DEF ValidHasReturned, given
  <2>4. ScanOrder' /\ ScanLoop'
    BY <2>1, <2>3 DEF ScanOrder, ScanLoop
  <2>5. TypeOK'
    BY <1>0, <1>4, <1>6, <1>7, <2>1 DEF IInv, TypeOK, given
  <2>6. QED
    BY <2>1, <2>4, <2>5 DEF IInv, ValidLoop, EatLoop, RetraceLoop, WalkInScan,
                            Finished, StraysAreKnown
<1>9. CASE ~ LastBite
  <2>1. UNCHANGED <<pos, res, pc, scanner, k>> /\ pc = "eat"
    BY <1>9 DEF Eat
  <2>2. d' \in 1 .. n /\ n - d' = j + 1 /\ score' = n - d'
    BY <1>0, <1>1, <1>2, <1>9 DEF LastBite
  <2>3. EatLoop'
    BY <1>0, <1>3, <1>5, <2>1, <2>2 DEF EatLoop, IInv, given
  <2>4. TypeOK'
    BY <1>0, <1>4, <1>6, <1>7, <2>1 DEF IInv, TypeOK, given
  <2>5. QED
    BY <2>1, <2>3, <2>4 DEF IInv, ValidLoop, RetraceLoop, ScanOrder, ScanLoop,
                            WalkInScan, Finished,
                            StraysAreKnown
<1>10. QED  BY <1>8, <1>9

\* A scan that goes on to the next direction, because the one it was at is not to be
\* looked at or is no move, keeps its invariant.
LEMMA NextDirectionStep ==
    ASSUME IInv, pc \in {"scan", "walk"}, k \in 0 .. 8,
           Scanned(Dir(k)) => ~ CanWalk(grid, pos, Dir(k)),
           pc' = "scan", k' = k + 1,
           UNCHANGED <<grid, pos, given, scanner, at, d, stop, score, res, anyM>>
    PROVE  IInv'
<1>1. TypeOK'
  <2>1. k' \in 0 .. 9
    OBVIOUS
  <2>2. QED  BY <2>1 DEF IInv, TypeOK, given
<1>2. ScanOrder'
  BY DEF IInv, ScanOrder, Untouched, Unmoved, StopIs, StoppedAfter, ValidHasReturned,
         given
<1>3. ScanLoop'
  <2>1. \A m \in 0 .. k' - 1 : m = k \/ m \in 0 .. k - 1
    OBVIOUS
  <2>2. \A m \in 0 .. k' - 1 : Scanned(Dir(m)) => ~ CanWalk(grid, pos, Dir(m))
    BY <2>1 DEF IInv, ScanLoop
  <2>3. \A m : Scanned(Dir(m))' <=> Scanned(Dir(m))
    BY DEF Scanned, Dir, given
  <2>4. \A m : Dir(m)' = Dir(m)
    BY DEF Dir
  <2>5. QED  BY <2>2, <2>3, <2>4 DEF ScanLoop
<1>4. QED
  BY <1>1, <1>2, <1>3 DEF IInv, ValidLoop, EatLoop, RetraceLoop, WalkInScan, Finished,
                          StraysAreKnown

\* anymove returns what there is to be found, and the query is at its end.
LEMMA AnyMoveReturnsStep ==
    ASSUME IInv, pc \in {"scan", "walk"}, scanner = "anymove",
           NEW found \in BOOLEAN, AnyMoveReturns(found),
           found <=> \E e \in Direction : Scanned(e) /\ CanWalk(grid, pos, e),
           at' \in Cell, d' \in 0 .. MaxDigit,
           UNCHANGED <<grid, pos, given, stop, score>>
    PROVE  IInv'
<1>1. anyM' = found /\ pc' = "done" /\ UNCHANGED <<res, scanner, k>>
  BY DEF AnyMoveReturns
<1>2. ValidHasReturned'
  BY <1>1 DEF IInv, ScanOrder, ValidHasReturned, StoppedAfter, given
<1>3. found <=> AnyMove(grid, pos)
  BY DEF AnyMove, Scanned
<1>4. AnyMove(grid, pos) \in BOOLEAN
  BY DEF AnyMove
<1>5. anyM' = AnyMove(grid, pos)
  BY <1>1, <1>3, <1>4
<1>6. Finished'
  BY <1>2, <1>5 DEF Finished
<1>7. TypeOK'
  BY <1>1 DEF IInv, TypeOK, given
<1>8. QED
  BY <1>1, <1>6, <1>7
     DEF IInv, ValidLoop, EatLoop, RetraceLoop, ScanOrder, ScanLoop, WalkInScan,
         StraysAreKnown

\* isValid returns, and anymove begins: nothing is known of its scan yet.
LEMMA ValidReturnsStep ==
    ASSUME IInv, ValidHasReturned', pc' = "scan", scanner' = "anymove", k' = 0, TypeOK'
    PROVE  IInv'
<1>1. ScanOrder' /\ ScanLoop'
  BY DEF ScanOrder, ScanLoop
<1>2. QED
  BY <1>1
     DEF IInv, ValidLoop, EatLoop, RetraceLoop, WalkInScan, Finished, StraysAreKnown

\* A direction that is skipped is none to be looked at, or leads off the board.
LEMMA SkipStep == IInv /\ Skip => IInv'
<1> SUFFICES ASSUME IInv, Skip PROVE IInv'
  OBVIOUS
<1>1. /\ pc = "scan" /\ k \in 0 .. 8 /\ Skipped(Dir(k)) /\ pc' = "scan" /\ k' = k + 1
      /\ UNCHANGED <<grid, pos, given, scanner, at, d, stop, score, res, anyM>>
  BY DEF IInv, TypeOK, Skip
<1>2. Scanned(Dir(k)) => ~ CanWalk(grid, pos, Dir(k))
  BY <1>1 DEF Skipped, Scanned, Direction, CanWalk, Distance
<1>3. QED  BY <1>1, <1>2, NextDirectionStep

\* A direction whose first cell is blank is no move; any other digit is walked.
LEMMA LookStep == IInv /\ Look => IInv'
<1> SUFFICES ASSUME IInv, Look PROVE IInv'
  OBVIOUS
<1> DEFINE c == At(pos, Dir(k), 1)
           n == Distance(grid, pos, Dir(k))
<1>0. /\ pc = "scan" /\ k \in 0 .. 8 /\ ~ Skipped(Dir(k))
      /\ pos \in Cell /\ grid \in Grid
      /\ UNCHANGED <<grid, pos, given, scanner, stop, score, res, anyM>>
  BY DEF IInv, TypeOK, Look
<1>1. PICK v \in Read(c) :
          IF v = 0
          THEN k' = k + 1 /\ UNCHANGED <<pc, at, d>>
          ELSE pc' = "walk" /\ at' = pos /\ d' = v /\ UNCHANGED k
  BY DEF Look
<1>2. v \in 0 .. MaxDigit /\ (c \in Cell => v = grid[c])
  BY <1>0, BoardAssumption DEF Read, Grid
<1>3. CASE v = 0
  <2>1. n = 0
    BY <1>2, <1>3 DEF Distance
  <2>2. QED
    BY <1>0, <1>1, <1>3, <2>1, NextDirectionStep DEF CanWalk
<1>4. CASE v # 0
  <2>1. pc' = "walk" /\ at' = pos /\ d' = v /\ k' = k
    BY <1>1, <1>4
  <2>2. d' \in 1 .. MaxDigit
    BY <1>2, <1>4, <2>1, BoardAssumption
  <2>3. Scanned(Dir(k))
    BY <1>0, DirFacts DEF Skipped, Scanned, Direction
  <2>4. CASE c \in Cell
    <3>1. n = v /\ n - v = 0 /\ v \in 1 .. n /\ 1 .. 0 = {}
      BY <1>2, <2>2, <2>4, <2>1, BoardAssumption DEF Distance
    <3>2. at' = At(pos, Dir(k), n - v)
      BY <1>0, <2>1, <3>1, AtStep, DirFacts
    <3>3. WalkedTo(Dir(k), n)'
      BY <1>0, <2>1, <3>1, <3>2 DEF WalkedTo, OpenCell
    <3>4. WalkInScan'
      BY <1>0, <2>1, <2>2, <2>3, <2>4, <3>3 DEF WalkInScan, Scanned, Dir, given
    <3>5. QED
      BY <1>0, <2>1, <2>2, <3>4, BoardAssumption
         DEF IInv, TypeOK, ValidLoop, EatLoop, RetraceLoop, ScanOrder, ScanLoop,
             Finished, StraysAreKnown,
             Untouched, Unmoved, StopIs, StoppedAfter, ValidHasReturned, Scanned, Dir,
             given
  <2>5. CASE c \notin Cell
    <3>1. WalkInScan'
      BY <1>0, <2>1, <2>2, <2>3, <2>5 DEF WalkInScan, Scanned, Dir, given
    <3>2. QED
      BY <1>0, <2>1, <2>2, <3>1, BoardAssumption
         DEF IInv, TypeOK, ValidLoop, EatLoop, RetraceLoop, ScanOrder, ScanLoop,
             Finished, StraysAreKnown,
             Untouched, Unmoved, StopIs, StoppedAfter, ValidHasReturned, Scanned, Dir,
             given
  <2>6. QED  BY <2>4, <2>5
<1>5. QED  BY <1>3, <1>4

\* Only othermove reads beyond the rows, and only before it has found a move.
LEMMA FaultStep == IInv /\ Fault => IInv'
<1> SUFFICES ASSUME IInv, Fault PROVE IInv'
  OBVIOUS
<1>0. /\ pc = "scan" /\ k \in 0 .. 8 /\ ~ Skipped(Dir(k))
      /\ At(pos, Dir(k), 1)[1] \notin Row
      /\ pc' = "crashed"
      /\ UNCHANGED <<grid, pos, given, scanner, at, d, stop, k, score, res, anyM>>
  BY DEF IInv, TypeOK, Fault
<1>1. At(pos, Dir(k), 1) \notin Cell
  BY <1>0 DEF Cell
<1>2. scanner = "othermove"
  BY <1>0, <1>1 DEF IInv, TypeOK, Skipped
<1>3. Untouched /\ ~ CanWalk(start, from, want)
  BY <1>0, <1>2 DEF IInv, ScanOrder
<1>4. Dir(k) \in Direction \ {want}
  BY <1>0, <1>2, DirFacts DEF Skipped, Direction
<1>5. ASSUME NEW e \in Direction \ {want}, ScannedBefore(e, Dir(k))
      PROVE  ~ CanWalk(grid, pos, e)
  <2>1. PICK m \in 0 .. 8 : Dir(m) = e
    BY DirFacts
  <2>2. m \in 0 .. k - 1
    BY <1>0, <1>5, <2>1, DirFacts
  <2>3. QED
    BY <1>0, <2>1, <2>2 DEF IInv, ScanLoop, Scanned
<1>6. OtherMoveStrays(start, from, want)
  BY <1>0, <1>3, <1>4, <1>5 DEF OtherMoveStrays, Untouched, Unmoved
<1>7. StraysAreKnown'
  BY <1>0, <1>3, <1>6 DEF StraysAreKnown, given
<1>8. QED
  BY <1>0, <1>7 DEF IInv, TypeOK, ValidLoop, EatLoop, RetraceLoop, ScanOrder, ScanLoop,
                    WalkInScan,
                    Finished, given

\* A scan that has done with all directions has none to return.
LEMMA NoneFoundStep == IInv /\ NoneFound => IInv'
<1> SUFFICES ASSUME IInv, NoneFound PROVE IInv'
  OBVIOUS
<1>1. /\ pc = "scan" /\ k = 9 /\ pos \in Cell /\ want \in (-1 .. 1) \X (-1 .. 1)
      /\ UNCHANGED <<grid, pos, given, d, stop, score>>
  BY DEF IInv, TypeOK, Direction, NoneFound
<1>2. ~ \E e \in Direction : Scanned(e) /\ CanWalk(grid, pos, e)
  BY <1>1, ScanIsComplete DEF IInv, ScanLoop
<1>3. CASE scanner = "othermove"
  <2>1. pc' = "retrace" /\ at' = pos /\ UNCHANGED <<scanner, k, res, anyM>>
    BY <1>3 DEF NoneFound
  <2>2. /\ Unmoved /\ score = 0 /\ ~ CanWalk(start, from, want)
        /\ \E s \in Nat : StopIs(s)
    BY <1>1, <1>3 DEF IInv, ScanOrder, Untouched
  <2>3. ~ OtherMove(start, from, want)
    BY <1>2, <1>3, <2>2 DEF OtherMove, Scanned, Unmoved
  <2>4. at' = At(from, want, score)
    BY <1>1, <2>1, <2>2, AtStep DEF Unmoved
  <2>5. \E s \in Nat : StopIs(s) /\ score <= s
    BY <2>2
  <2>6. RetraceLoop'
    BY <1>1, <2>1, <2>2, <2>3, <2>4, <2>5 DEF RetraceLoop, Unmoved, StopIs,
                                              StoppedAfter, given
  <2>7. TypeOK'
    BY <1>1, <2>1 DEF IInv, TypeOK, given
  <2>8. QED
    BY <2>1, <2>6, <2>7
       DEF IInv, ValidLoop, EatLoop, ScanOrder, ScanLoop, WalkInScan, Finished,
           StraysAreKnown
<1>4. CASE scanner # "othermove"
  <2>1. scanner = "anymove" /\ AnyMoveReturns(FALSE)
    BY <1>4 DEF IInv, TypeOK, NoneFound
  <2>2. at' \in Cell /\ d' \in 0 .. MaxDigit
    BY <1>1, <1>4 DEF IInv, TypeOK, NoneFound
  <2>3. QED  BY <1>1, <1>2, <2>1, <2>2, AnyMoveReturnsStep
<1>5. QED  BY <1>3, <1>4

--------------------------------------------------------------------------------
(* The innermost loop.                                                         *)

\* What is known in a turn of it whose cell is open: the walk is on the board, and
\* has come one step further.
LEMMA OpenTurn ==
    ASSUME IInv, pc = "walk", OpenCell(Ahead(Dir(k)))
    PROVE  LET n == Distance(grid, pos, Dir(k))
           IN  /\ At(pos, Dir(k), 1) \in Cell
               /\ n \in 1 .. MaxDigit /\ d \in 1 .. n /\ n - d \in Nat
               /\ Ahead(Dir(k)) = At(pos, Dir(k), (n - d) + 1)
               /\ \A i \in 1 .. (n - d) + 1 : OpenCell(At(pos, Dir(k), i))
<1> DEFINE n == Distance(grid, pos, Dir(k))
           j == n - d
<1>0. /\ k \in 0 .. 8 /\ Dir(k) \in (-1 .. 1) \X (-1 .. 1)
      /\ pos \in Cell /\ grid \in Grid /\ at \in Cell
      /\ OpenCell(At(at, Dir(k), 1))
  BY DirFacts DEF IInv, TypeOK, WalkInScan, Ahead
<1>1. At(pos, Dir(k), 1) \in Cell /\ WalkedTo(Dir(k), n)
  BY <1>0 DEF IInv, WalkInScan, OpenCell
<1>2. n \in 0 .. MaxDigit /\ d \in 1 .. n /\ at = At(pos, Dir(k), j)
  BY <1>0, <1>1, BoardAssumption DEF Distance, Grid, WalkedTo
<1>3. n \in 1 .. MaxDigit /\ j \in Nat
  BY <1>2, BoardAssumption
<1>4. Ahead(Dir(k)) = At(pos, Dir(k), j + 1)
  BY <1>0, <1>2, <1>3, AtStep DEF Ahead
<1>5. \A i \in 1 .. j + 1 : OpenCell(At(pos, Dir(k), i))
  <2>1. \A i \in 1 .. j + 1 : i = j + 1 \/ i \in 1 .. j
    BY <1>3
  <2>2. \A i \in 1 .. j : OpenCell(At(pos, Dir(k), i))
    BY <1>1 DEF WalkedTo
  <2>3. QED  BY <1>4, <2>1, <2>2
<1>6. QED  BY <1>1, <1>2, <1>3, <1>4, <1>5

\* It breaks at a cell that is not open: no move there, and the next direction.
LEMMA WalkBreakStep == IInv /\ WalkBreak => IInv'
<1> SUFFICES ASSUME IInv, WalkBreak PROVE IInv'
  OBVIOUS
<1> DEFINE n == Distance(grid, pos, Dir(k))
<1>0. /\ pc = "walk" /\ ~ OpenCell(At(at, Dir(k), 1)) /\ pc' = "scan" /\ k' = k + 1
      /\ k \in 0 .. 8 /\ Dir(k) \in (-1 .. 1) \X (-1 .. 1)
      /\ pos \in Cell /\ grid \in Grid
      /\ UNCHANGED <<grid, pos, given, scanner, at, d, stop, score, res, anyM>>
  BY DirFacts DEF IInv, TypeOK, WalkInScan, WalkBreak, Ahead
<1>1. ~ CanWalk(grid, pos, Dir(k))
  <2>1. CASE At(pos, Dir(k), 1) \notin Cell
    BY <2>1 DEF CanWalk, Distance
  <2>2. CASE At(pos, Dir(k), 1) \in Cell /\ WalkedTo(Dir(k), n)
    <3>1. n \in 0 .. MaxDigit
      BY <1>0, <2>2, BoardAssumption DEF Distance, Grid
    <3>2. n - d \in Nat /\ (n - d) + 1 \in 1 .. n
      BY <2>2, <3>1, BoardAssumption DEF WalkedTo
    <3>3. At(at, Dir(k), 1) = At(pos, Dir(k), (n - d) + 1)
      BY <1>0, <2>2, <3>2, AtStep DEF WalkedTo
    <3>4. QED  BY <1>0, <3>2, <3>3, BlockedWalkIsNone
  <2>3. QED  BY <1>0, <2>1, <2>2 DEF IInv, WalkInScan
<1>2. QED  BY <1>0, <1>1, NextDirectionStep

\* It goes on.
LEMMA WalkGoOnStep == IInv /\ WalkGoOn => IInv'
<1> SUFFICES ASSUME IInv, WalkGoOn PROVE IInv'
  OBVIOUS
<1> DEFINE n == Distance(grid, pos, Dir(k))
           j == n - d
<1>0. /\ pc = "walk" /\ OpenCell(Ahead(Dir(k))) /\ d - 1 # 0
      /\ at' = Ahead(Dir(k)) /\ d' = d - 1
      /\ UNCHANGED <<grid, pos, given, pc, scanner, stop, k, score, res, anyM>>
  BY DEF WalkGoOn
<1>1. /\ At(pos, Dir(k), 1) \in Cell
      /\ n \in 1 .. MaxDigit /\ d \in 1 .. n /\ j \in Nat
      /\ Ahead(Dir(k)) = At(pos, Dir(k), j + 1)
      /\ \A i \in 1 .. j + 1 : OpenCell(At(pos, Dir(k), i))
  BY <1>0, OpenTurn
<1>2. /\ d' \in 1 .. n /\ n - d' = j + 1
      /\ d' \in 1 .. MaxDigit /\ d' \in 0 .. MaxDigit
  BY <1>0, <1>1, BoardAssumption
<1>3. WalkedTo(Dir(k), n)'
  BY <1>0, <1>1, <1>2 DEF WalkedTo, OpenCell, Dir
<1>4. WalkInScan'
  BY <1>0, <1>1, <1>2, <1>3 DEF IInv, WalkInScan, Scanned, Dir, given
<1>5. TypeOK'
  <2>1. at' \in Cell
    BY <1>0 DEF OpenCell
  <2>2. QED  BY <1>0, <1>2, <2>1 DEF IInv, TypeOK, given
<1>6. QED
  BY <1>0, <1>4, <1>5
     DEF IInv, ValidLoop, EatLoop, RetraceLoop, ScanOrder, ScanLoop, Finished,
         StraysAreKnown,
         Untouched, Unmoved, StopIs, StoppedAfter, ValidHasReturned, Scanned, Dir, given

\* It comes to the end of a walk, and the scan returns.
LEMMA WalkEndStep == IInv /\ WalkEnd => IInv'
<1> SUFFICES ASSUME IInv, WalkEnd PROVE IInv'
  OBVIOUS
<1> DEFINE n == Distance(grid, pos, Dir(k))
<1>0. /\ pc = "walk" /\ OpenCell(Ahead(Dir(k))) /\ d - 1 = 0
      /\ at' = Ahead(Dir(k)) /\ d' = d - 1
      /\ UNCHANGED <<grid, pos, given, stop, score>>
  BY DEF WalkEnd
<1>1. /\ n \in 1 .. MaxDigit /\ (n - d) + 1 = n /\ n # 0
      /\ \A i \in 1 .. (n - d) + 1 : OpenCell(At(pos, Dir(k), i))
  BY <1>0, OpenTurn, BoardAssumption
<1>2. CanWalk(grid, pos, Dir(k))
  BY <1>1, OpenWalkIsAMove
<1>3. \E e \in Direction : Scanned(e) /\ CanWalk(grid, pos, e)
  BY <1>0, <1>2 DEF IInv, WalkInScan, Scanned
<1>4. at' \in Cell /\ d' \in 0 .. MaxDigit
  BY <1>0, BoardAssumption DEF OpenCell
<1>5. CASE scanner = "othermove"
  <2>1. res' = 1 /\ pc' = "scan" /\ scanner' = "anymove" /\ k' = 0 /\ UNCHANGED anyM
    BY <1>5 DEF WalkEnd, StartScan
  <2>2. Untouched /\ ~ CanWalk(start, from, want)
    BY <1>0, <1>5 DEF IInv, ScanOrder
  <2>3. OtherMove(start, from, want)
    BY <1>3, <1>5, <2>2 DEF OtherMove, Scanned, Untouched, Unmoved
  <2>4. ValidHasReturned'
    BY <1>0, <2>1, <2>2, <2>3 DEF ValidHasReturned, Untouched, Unmoved, given
  <2>5. TypeOK'
    <3>1. res' \in -1 .. 2 /\ k' \in 0 .. 9
      BY <2>1
    <3>2. QED  BY <1>0, <1>4, <2>1, <3>1 DEF IInv, TypeOK, given
  <2>6. QED  BY <2>1, <2>4, <2>5, ValidReturnsStep
<1>6. CASE scanner # "othermove"
  <2>1. scanner = "anymove" /\ AnyMoveReturns(TRUE)
    BY <1>6 DEF IInv, TypeOK, WalkEnd
  <2>2. QED  BY <1>0, <1>3, <1>4, <2>1, AnyMoveReturnsStep
<1>7. QED  BY <1>5, <1>6

--------------------------------------------------------------------------------
(* The while loop.                                                             *)

\* Different numbers of steps lead to different places.
LEMMA AtInjective ==
    ASSUME NEW p \in Cell, NEW dir \in Direction, NEW i \in Nat, NEW j \in Nat,
           At(p, dir, i) = At(p, dir, j)
    PROVE  i = j
<1>1. p[1] \in Int /\ p[2] \in Int
  BY BoardAssumption DEF Cell, Row, Col
<1>2. /\ p[1] + i * dir[1] = p[1] + j * dir[1]
      /\ p[2] + i * dir[2] = p[2] + j * dir[2]
  BY DEF At
<1>3. \/ dir[1] \in {-1, 1}
      \/ dir[2] \in {-1, 1}
  <2>1. dir = <<dir[1], dir[2]>> /\ dir[1] \in {-1, 0, 1} /\ dir[2] \in {-1, 0, 1}
    BY DEF Direction
  <2>2. dir # <<0, 0>>
    BY DEF Direction
  <2>3. QED  BY <2>1, <2>2
<1>4. \A a \in Int, x \in {-1, 1} : a + i * x = a + j * x => i = j
  OBVIOUS
<1>5. QED  BY <1>1, <1>2, <1>3, <1>4

\* One more cell of the refused walk: the loop has not been where that was stopped.
LEMMA RetraceStep == IInv /\ Retrace => IInv'
<1> SUFFICES ASSUME IInv, Retrace PROVE IInv'
  OBVIOUS
<1>0. /\ pc = "retrace" /\ at # stop
      /\ pos \in Cell /\ from \in Cell /\ want \in (-1 .. 1) \X (-1 .. 1)
      /\ score \in Nat /\ MaxDigit \in Nat
      /\ Unmoved /\ at = At(from, want, score)
      /\ ~ CanWalk(start, from, want) /\ ~ OtherMove(start, from, want)
      /\ at' = At(at, want, 1) /\ score' = score + 1
      /\ UNCHANGED <<grid, pos, given, pc, scanner, d, stop, k, res, anyM>>
  BY BoardAssumption DEF IInv, TypeOK, Direction, Retrace, Retraced, RetraceLoop, Ahead
<1>1. PICK s \in Nat : StopIs(s) /\ score <= s
  BY <1>0 DEF IInv, RetraceLoop
<1>2. score # s
  BY <1>0, <1>1 DEF StopIs
<1>3. score + 1 <= s /\ score + 1 \in 1 .. s /\ score + 1 \in 0 .. MaxDigit
  BY <1>0, <1>1, <1>2 DEF StopIs
<1>4. at' = At(from, want, score + 1)
  BY <1>0, AtStep
<1>5. at' \in Cell
  BY <1>1, <1>3, <1>4 DEF StopIs, StoppedAfter
<1>6. RetraceLoop'
  <2>1. StopIs(s)' /\ score' <= s
    BY <1>0, <1>1, <1>3 DEF StopIs, StoppedAfter, given
  <2>2. QED  BY <1>0, <1>1, <1>4, <2>1 DEF RetraceLoop, Unmoved, given
<1>7. TypeOK'
  BY <1>0, <1>3, <1>5 DEF IInv, TypeOK, given
<1>8. QED
  BY <1>0, <1>6, <1>7
     DEF IInv, ValidLoop, EatLoop, ScanOrder, ScanLoop, WalkInScan, Finished,
         StraysAreKnown

\* It is left where the walk was stopped, with as many cells counted.
LEMMA RetraceEndStep == IInv /\ RetraceEnd => IInv'
<1> SUFFICES ASSUME IInv, RetraceEnd PROVE IInv'
  OBVIOUS
<1>0. /\ pc = "retrace" /\ at = stop
      /\ from \in Cell /\ want \in Direction /\ score \in Nat
      /\ Unmoved /\ at = At(from, want, score)
      /\ ~ CanWalk(start, from, want) /\ ~ OtherMove(start, from, want)
      /\ res' = 0 /\ pc' = "scan" /\ scanner' = "anymove" /\ k' = 0
      /\ UNCHANGED <<grid, pos, given, at, d, stop, score, anyM>>
  BY BoardAssumption DEF IInv, TypeOK, RetraceEnd, Retraced, RetraceLoop, StartScan
<1>1. PICK s \in Nat : StopIs(s)
  BY <1>0 DEF IInv, RetraceLoop
<1>2. score = s
  BY <1>0, <1>1, AtInjective DEF StopIs
<1>3. StoppedAfter(score)
  BY <1>1, <1>2 DEF StopIs
<1>4. ValidHasReturned'
  BY <1>0, <1>3 DEF ValidHasReturned, StoppedAfter, Unmoved, given
<1>5. TypeOK'
  <2>1. res' \in -1 .. 2 /\ k' \in 0 .. 9
    BY <1>0
  <2>2. QED  BY <1>0, <2>1 DEF IInv, TypeOK, given
<1>6. QED  BY <1>0, <1>4, <1>5, ValidReturnsStep

--------------------------------------------------------------------------------
(* The theorems.                                                               *)

\* The loops' invariants hold throughout a query.
THEOREM Invariance == Spec => []IInv
<1>1. IInv /\ [Next]_vars => IInv'
  <2> SUFFICES ASSUME IInv, [Next]_vars PROVE IInv'
    OBVIOUS
  <2>1. CASE UNCHANGED vars
    BY <2>1 DEF vars, given, IInv, TypeOK, ValidLoop, EatLoop, RetraceLoop, ScanOrder,
                ScanLoop, WalkInScan,
                WalkedTo, OpenCell, Finished, StraysAreKnown, Untouched, Unmoved,
                StopIs, StoppedAfter, ValidHasReturned,
                Scanned, Dir
  <2>2. QED
    BY <2>1, ValidGoOnStep, ValidStopStep, EatStep, SkipStep, LookStep, FaultStep,
       NoneFoundStep, WalkBreakStep, WalkGoOnStep, WalkEndStep, RetraceStep,
       RetraceEndStep
       DEF Next
<1>2. QED
  BY <1>1, InitIInv, PTL DEF Spec

\* No loop leaves the board or counts a digit below zero.
THEOREM TypeCorrect == Spec => []TypeOK
<1>1. IInv => TypeOK  BY DEF IInv
<1>2. QED  BY <1>1, Invariance, PTL

\* The three loops of isValid, with othermove between them, do what CanWalk, Path and
\* OtherMove say, on every board: a good walk is played in full and scored, a bad one
\* touches nothing, and the while loop stops where it was stopped.
THEOREM IsValidIsTheWalk == Spec => []IsValidComputesTheWalk
<1>1. IInv => IsValidComputesTheWalk
  BY DEF IInv, Finished, ValidHasReturned, IsValidComputesTheWalk
<1>2. QED  BY <1>1, Invariance, PTL

\* anymove finds a move exactly when there is one.
THEOREM AnyMoveIsFound == Spec => []AnyMoveIsComputed
<1>1. IInv => AnyMoveIsComputed
  BY DEF IInv, Finished, AnyMoveIsComputed
<1>2. QED  BY <1>1, Invariance, PTL

\* A row that does not exist is read only where OtherMoveStrays says so.
THEOREM StraysAreForetold == Spec => []StraysAreKnown
<1>1. IInv => StraysAreKnown  BY DEF IInv
<1>2. QED  BY <1>1, Invariance, PTL
--------------------------------------------------------------------------------
(* Why the loops end: what LoopsEnd needs besides fairness.                    *)

\* The loops follow one another and none is entered twice.
Stage ==
    CASE pc = "valid" -> 5
      [] pc = "eat" -> 4
      [] pc = "retrace" -> 2
      [] pc \in {"scan", "walk"} -> IF scanner = "othermove" THEN 3 ELSE 1
      [] OTHER -> 0

\* What is left of a scan, directions to look at or to walk in, or of the while loop.
Round ==
    CASE pc = "scan" -> 2 * (9 - k) + 1
      [] pc = "walk" -> 2 * (9 - k)
      [] pc = "retrace" -> MaxDigit - score
      [] OTHER -> 0

\* The digit counts within a round.
CloserToTheEnd ==
    \/ Stage' < Stage
    \/ Stage' = Stage /\ Round' < Round
    \/ Stage' = Stage /\ Round' = Round /\ d' < d

LEMMA Ranks == TypeOK => Stage \in 0 .. 5 /\ Round \in Nat /\ d \in Nat
<1> SUFFICES ASSUME TypeOK PROVE Stage \in 0 .. 5 /\ Round \in Nat /\ d \in Nat
  OBVIOUS
<1>1. Stage \in 0 .. 5
  BY DEF Stage
<1>2. k \in 0 .. 9 /\ d \in Nat /\ MaxDigit - score \in Nat
  BY BoardAssumption DEF TypeOK
<1>3. Round \in Nat
  BY <1>2 DEF Round
<1>4. QED  BY <1>1, <1>2, <1>3

LEMMA StepIsCloser ==
    ASSUME IInv, Next
    PROVE  CloserToTheEnd
<1> USE DEF CloserToTheEnd, Stage, Round
<1>1. TypeOK /\ k \in 0 .. 9 /\ d \in 0 .. MaxDigit
  BY DEF IInv, TypeOK
<1>2. CASE ValidGoOn
  <2>1. d \in Int /\ d - 1 < d
    BY <1>1, BoardAssumption
  <2>2. QED  BY <1>2, <2>1 DEF ValidGoOn
<1>3. CASE ValidStop
  BY <1>3 DEF ValidStop, StartScan
<1>4. CASE Eat
  <2>1. d \in Int /\ d - 1 < d
    BY <1>1, BoardAssumption
  <2>2. QED  BY <1>4, <2>1 DEF Eat, LastBite, StartScan
<1>5. CASE Skip
  BY <1>1, <1>5 DEF Skip
<1>6. CASE Look
  <2>1. \/ pc' = "scan" /\ k' = k + 1
        \/ pc' = "walk" /\ k' = k
    BY <1>6 DEF Look
  <2>2. QED  BY <1>1, <1>6, <2>1 DEF Look
<1>7. CASE Fault
  BY <1>7 DEF Fault
<1>8. CASE NoneFound
  BY <1>1, <1>8 DEF IInv, TypeOK, NoneFound, AnyMoveReturns
<1>9. CASE WalkBreak
  BY <1>1, <1>9 DEF WalkBreak
<1>10. CASE WalkGoOn
  <2>1. d \in Int /\ d - 1 < d
    BY <1>1, BoardAssumption
  <2>2. QED  BY <1>10, <2>1 DEF WalkGoOn
<1>11. CASE WalkEnd
  BY <1>1, <1>11 DEF IInv, TypeOK, WalkEnd, StartScan, AnyMoveReturns
<1>12. CASE Retrace
  <2>1. score' \in 0 .. MaxDigit
    BY <1>12, RetraceStep DEF IInv, TypeOK
  <2>2. score \in 0 .. MaxDigit /\ score' = score + 1 /\ MaxDigit \in Nat
    BY <1>1, <1>12, BoardAssumption DEF TypeOK, Retrace
  <2>3. MaxDigit - score' < MaxDigit - score
    BY <2>1, <2>2
  <2>4. QED  BY <1>12, <2>3 DEF Retrace
<1>13. CASE RetraceEnd
  BY <1>13 DEF RetraceEnd, StartScan
<1>14. QED
  BY <1>2, <1>3, <1>4, <1>5, <1>6, <1>7, <1>8, <1>9, <1>10, <1>11, <1>12, <1>13 DEF Next

\* No loop runs away, whatever the digits it reads beyond the board: each of its turns
\* brings the query closer to its end, in an order of triples of numbers that has no
\* endless descent.
THEOREM LoopsComeCloser ==
    Spec => [][/\ Stage \in 0 .. 5 /\ Round \in Nat /\ d \in Nat
               /\ CloserToTheEnd]_vars
<1>1. IInv /\ [Next]_vars =>
          [/\ Stage \in 0 .. 5 /\ Round \in Nat /\ d \in Nat
           /\ CloserToTheEnd]_vars
  BY StepIsCloser, Ranks DEF IInv
<1>2. QED  BY <1>1, Invariance, PTL DEF Spec

================================================================================
