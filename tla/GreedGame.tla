------------------------------- MODULE GreedGame -------------------------------
(***************************************************************************)
(* One room's game: the state of class Topic that a match needs and the    *)
(* handler GreedServer::onboardQuery that plays it, together with every    *)
(* function the handler calls (isValid, anymove, othermove,                *)
(* publishBoardUpdate, publishFinalInfo).  The server runs one event loop, *)
(* so a handler is one atomic step.                                        *)
(*                                                                         *)
(* The handler does not look at whose turn it is: it plays whatever        *)
(* boardQuery arrives.  Next therefore lets any client type move at any    *)
(* time; the turn is enforced by the clients, from what they were told.    *)
(***************************************************************************)
EXTENDS GreedGrid

CONSTANTS
    cTourist, cOwner, cRival, cSubscribe,   \* enum clientType
    NotAnnounced                            \* no finalInfo has been sent yet

ASSUME GameAssumption ==
    /\ cTourist \notin {cOwner, cRival, cSubscribe}
    /\ cOwner \notin {cRival, cSubscribe} /\ cRival # cSubscribe
    /\ NotAnnounced \notin [{"owner", "rival"} -> Nat]

VARIABLES
    grid,          \* Topic::grid
    gridString,    \* Topic::gridString, the copy that is put into messages
    pos,           \* Topic::o and Topic::r
    score,         \* Topic::ownerScore_ and Topic::rivalScore_
    canMove,       \* Topic::ownerCanMove and Topic::rivalCanMove
    isOwnerTurn,   \* Topic::isOwnerTurn
    view,          \* what the audience was last shown of the game
    announced,     \* the scores of the finalInfo that was published
    status         \* "playing", "over" (topic erased) or "crashed" (server)

vars == <<grid, gridString, pos, score, canMove, isOwnerTurn, view, announced, status>>

Side == {"owner", "rival"}
Other(s) == IF s = "owner" THEN "rival" ELSE "owner"

ClientType == {cTourist, cOwner, cRival, cSubscribe}

\* The handler plays the owner's piece for an owner, the rival's for any other.
SideOf(ct) == IF ct = cOwner THEN "owner" ELSE "rival"

\* The contents of a boardAns or GridInfo built from a board text s and the
\* present values of the other fields.
Message(s) == [grid |-> s, pos |-> pos, score |-> score,
               canMove |-> canMove, isOwnerTurn |-> isOwnerTurn]

View == [grid : Grid, pos : [Side -> Cell], score : [Side -> Nat],
         canMove : [Side -> BOOLEAN], isOwnerTurn : BOOLEAN]

\* Topic::Topic, and the GridInfo that shows the new room to its owner.  The two
\* pieces are placed independently: they may start on the same cell.
Init ==
    /\ pos \in [Side -> Cell]
    /\ \E digits \in [Cell -> Digit] : grid = Erase(digits, {pos[s] : s \in Side})
    /\ gridString = grid
    /\ score = [s \in Side |-> 0]
    /\ canMove = [s \in Side |-> TRUE]
    /\ isOwnerTurn = TRUE
    /\ view = Message(gridString)
    /\ announced = NotAnnounced
    /\ status = "playing"

--------------------------------------------------------------------------------
(* isValid: the part of the handler that walks.                               *)

\* Seeded off-by-one: the cell the piece comes to rest on is not eaten.
EatenButLast(s, d) == Path(pos[s], d, Distance(grid, pos[s], d) - 1)

\* The cells the walk of side s in direction d sets to 0.
Eaten(s, d) == Path(pos[s], d, Distance(grid, pos[s], d))

\* isValid returns 2: the walk is played and the digit is added to the score.
Walk(s, d) ==
    LET n == Distance(grid, pos[s], d)
    IN  /\ CanWalk(grid, pos[s], d)
        /\ grid' = Erase(grid, Eaten(s, d))
        /\ pos' = [pos EXCEPT ![s] = At(@, d, n)]
        /\ score' = [score EXCEPT ![s] = @ + n]

\* isValid returns 0 or 1 and leaves the game as it is.
Refuse(s, d) ==
    /\ ~ CanWalk(grid, pos[s], d)
    /\ UNCHANGED <<grid, pos, score>>

\* Seeded fault: the turn passes whether or not the other player can move.
TurnAfterWalkAlways(s) == ~ isOwnerTurn

\* A good move passes the turn if the other player is believed able to move.
TurnAfterWalk(s) == IF canMove[Other(s)] THEN ~ isOwnerTurn ELSE isOwnerTurn

--------------------------------------------------------------------------------
(* The rest of onboardQuery: can the mover still move, and is the game over?  *)

\* Seeded fault: the scores are compared the wrong way round.
DecidedSwapped(s, sc) ==
    IF s = "owner"
    THEN sc["owner"] > sc["rival"] \/ ~ canMove["rival"]
    ELSE sc["rival"] < sc["rival"] \/ ~ canMove["owner"]

\* A player who cannot move ends the game when this holds.  The rival's branch
\* compares the rival's score with itself, as the code does.
Decided(s, sc) ==
    IF s = "owner"
    THEN sc["owner"] <= sc["rival"] \/ ~ canMove["rival"]
    ELSE sc["rival"] < sc["rival"] \/ ~ canMove["owner"]

InTheEnd(s) == ~ AnyMove(grid', pos'[s]) /\ Decided(s, score')

\* Seeded fault: a player who is out of moves keeps the turn.
JudgeKeepingTurn(s, turn) ==
    /\ canMove' = [canMove EXCEPT ![s] = AnyMove(grid', pos'[s])]
    /\ isOwnerTurn' = turn
    /\ announced' = IF InTheEnd(s) THEN score' ELSE announced

\* The mover's flag is recomputed.  A player who is out of moves either ends the
\* game, which announces the final scores, or hands the turn to the other.
Judge(s, turn) ==
    /\ canMove' = [canMove EXCEPT ![s] = AnyMove(grid', pos'[s])]
    /\ isOwnerTurn' = IF canMove'[s] \/ InTheEnd(s) THEN turn ELSE s = "rival"
    /\ announced' = IF InTheEnd(s) THEN score' ELSE announced

\* Seeded fault: the message is built from the cached text of the board.
PublishCachedBoard ==
    /\ UNCHANGED gridString
    /\ view' = Message(gridString)'

\* publishBoardUpdate: the text of the board is rebuilt and sent to the audience.
PublishBoardUpdate ==
    /\ gridString' = grid'
    /\ view' = Message(gridString)'

\* The topic is erased when the game has ended.
EraseIfOver(s) == status' = IF InTheEnd(s) THEN "over" ELSE status

--------------------------------------------------------------------------------
(* onboardQuery, by the result of isValid.                                     *)

GoodMove(s, d) ==
    /\ Walk(s, d)
    /\ Judge(s, TurnAfterWalk(s))
    /\ PublishBoardUpdate
    /\ EraseIfOver(s)

\* The move is bad and no other would be good: result 0 is published.
NoMoveLeft(s, d) ==
    /\ Refuse(s, d)
    /\ ~ OtherMove(grid, pos[s], d)
    /\ Judge(s, isOwnerTurn)
    /\ PublishBoardUpdate
    /\ EraseIfOver(s)

\* The move is bad but another would be good: the handler returns before its
\* last part, without an answer and without erasing the topic.
BadMove(s, d) ==
    /\ Refuse(s, d)
    /\ OtherMove(grid, pos[s], d)
    /\ Judge(s, isOwnerTurn)
    /\ IF InTheEnd(s) THEN PublishBoardUpdate ELSE UNCHANGED <<gridString, view>>
    /\ UNCHANGED status

\* othermove has read through a row pointer that does not exist.  With the build's
\* allocator the read faults; that it yields some digit is the case of BadMove
\* and NoMoveLeft.
Crash(s, d) ==
    /\ ~ CanWalk(grid, pos[s], d)
    /\ OtherMoveStrays(grid, pos[s], d)
    /\ status' = "crashed"
    /\ UNCHANGED <<grid, gridString, pos, score, canMove, isOwnerTurn, view, announced>>

onboardQuery(ct, d) ==
    /\ status = "playing"
    /\ \/ GoodMove(SideOf(ct), d)
       \/ NoMoveLeft(SideOf(ct), d)
       \/ BadMove(SideOf(ct), d)
       \/ Crash(SideOf(ct), d)

Next == \E ct \in ClientType, d \in Direction : onboardQuery(ct, d)

Spec == Init /\ [][Next]_vars

\* The player whose turn it is keeps trying keys until one changes the game.
TurnHolderPlays ==
    \E d \in Direction : onboardQuery(IF isOwnerTurn THEN cOwner ELSE cRival, d)

FairSpec == Spec /\ WF_vars(TurnHolderPlays)

--------------------------------------------------------------------------------
(* Properties.                                                                 *)

Stuck(s) == \A d \in Direction : ~ CanWalk(grid, pos[s], d)

\* The variables keep their types; in particular no walk leaves the board.
TypeOK ==
    /\ grid \in Grid
    /\ gridString \in Grid
    /\ pos \in [Side -> Cell]
    /\ score \in [Side -> Nat]
    /\ canMove \in [Side -> BOOLEAN]
    /\ isOwnerTurn \in BOOLEAN
    /\ view \in View
    /\ announced \in [Side -> Nat] \cup {NotAnnounced}
    /\ status \in {"playing", "over", "crashed"}

\* ownerCanMove / rivalCanMove are recomputed only when that player asks, so they
\* go stale while the other eats.  A flag may be too optimistic, but a player
\* whose flag is down really has no move, and nothing the other does later
\* gives one back: onboardQuery may rely on the flag of the absent player.
FlagDownMeansStuck == \A s \in Side : ~ canMove[s] => Stuck(s)

\* isOwnerTurn never rests with a player whose flag is down: the client of such a
\* player refuses to send a move, so the room would be wedged for ever.
TurnHasMover ==
    status = "playing" => canMove[IF isOwnerTurn THEN "owner" ELSE "rival"]

\* The game ends only when its result can no longer change: nobody can move, or
\* the owner cannot and is not ahead.  The flags it is decided on may be stale.
OverIsDecided ==
    status = "over" =>
        \/ Stuck("owner") /\ Stuck("rival")
        \/ Stuck("owner") /\ score["owner"] <= score["rival"]

\* finalInfo is published exactly when the topic is erased, with the scores the
\* game ended on: no early return announces a result and leaves the room alive.
AnnouncedIffOver ==
    announced = IF status = "over" THEN score ELSE NotAnnounced

\* What the audience was last shown is the game as it is, and so is the cached
\* text a late joiner is sent by sendGridInfo: in particular a bad move, which is
\* answered with nothing, has changed nothing.
ShownIsCurrent == gridString = grid /\ view = Message(grid)

\* Each piece stands on an eaten cell, which is what keeps the other from
\* walking over it.
PiecesStandOnBlanks == \A s \in Side : grid[pos[s]] = 0

\* The game implements the race: a cell is eaten once and for one point, at most
\* MaxDigit at a time, and a result is the score, is given once and is final.
Race == INSTANCE GreedRace WITH eaten <- Blank(grid), result <- announced

ImplementsRace == Race!Spec

\* The pieces never come to share a cell (they may start on a common one).
PiecesNeverMeet ==
    [][pos'["owner"] = pos'["rival"] => pos["owner"] = pos["rival"]]_vars

\* If the player to move keeps trying, the game comes to an end (or the server
\* does): the flags and the turn never leave both players waiting.
GameEnds == <>(status # "playing")

\* The comment in othermove: "don't do 0,0 or bad coordinates".
NoBadCoordinates == status # "crashed"

\* The rule of the commented-out end of onboardQuery, "if(trivalscore <=
\* townerscore) inTheEnd = true" for a rival whose query is answered 0, which is
\* also the mirror image of the owner's branch.  A rival with a row above and one
\* below is meant: next to the edge othermove strays before it answers.
RivalLossEndsGame ==
    [][ /\ ~ isOwnerTurn /\ canMove["rival"] /\ ~ canMove'["rival"]
        /\ grid' = grid
        /\ pos["rival"][1] - 1 \in Row /\ pos["rival"][1] + 1 \in Row
        /\ score["rival"] <= score["owner"]
        => status' = "over" ]_vars

================================================================================
