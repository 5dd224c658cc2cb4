------------------------------- MODULE GreedMatch -------------------------------
(***************************************************************************)
(* A match: one room (GreedGame), the owner's client and the rival's, and  *)
(* the connections between them.  A client knows the game only from the    *)
(* messages it has handled, and decides from what it knows whether a key   *)
(* is sent as a move.  Queries and messages are in order and none is lost  *)
(* (Channel), but they take their time.                                    *)
(*                                                                         *)
(* A match begins when both have their seats and have handled their        *)
(* GridInfo.  The step of a client's thread is atomic here; how the two    *)
(* threads of a client mix is the subject of GreedClient.                  *)
(***************************************************************************)
EXTENDS Integers, Sequences

CONSTANTS
    HEIGHT, WIDTH, MaxDigit,
    cTourist, cOwner, cRival, cSubscribe,
    NotAnnounced,
    Key,       \* the directions whose keys the players use: the others are off the board
    MaxUp,     \* bound on the queries of a client that are under way
    MaxDown    \* bound on the messages to a client that are under way

ASSUME MatchAssumption ==
    /\ HEIGHT \in Nat \ {0} /\ WIDTH \in Nat \ {0} /\ MaxDigit \in Nat \ {0}
    /\ cTourist \notin {cOwner, cRival, cSubscribe}
    /\ cOwner \notin {cRival, cSubscribe} /\ cRival # cSubscribe
    /\ NotAnnounced \notin [{"owner", "rival"} -> Nat]
    /\ Key \subseteq (-1 .. 1) \X (-1 .. 1) /\ <<0, 0>> \notin Key
    /\ MaxUp \in Nat \ {0} /\ MaxDown \in Nat /\ MaxDown >= 3

VARIABLES
    grid, gridString, pos, score, canMove, isOwnerTurn, view, announced, status,
    up,        \* the queries a client has sent
    down,      \* the messages the room has sent to a client
    app,       \* PubsubClient: clientType_, gameModel, isOwnerTune, canmove
    main,      \* main thread: "cmd" or "tunnel"
    dialog,    \* the loop thread waits for a key in onFinalInfo
    verdict    \* what onFinalInfo has written into its window

room    == <<grid, gridString, pos, score, canMove, isOwnerTurn, view, announced, status>>
network == <<up, down>>
client  == <<app, main, dialog, verdict>>
vars    == <<room, network, client>>

Game == INSTANCE GreedGame

Side == Game!Side

\* onGridInfo, for the owner and for the rival of a new room.
Seated(ct) == [clientType_ |-> ct, gameModel |-> TRUE, isOwnerTune |-> TRUE, canmove |-> TRUE]

Init ==
    /\ Game!Init
    /\ up = [s \in Side |-> <<>>]
    /\ down = [s \in Side |-> <<>>]
    /\ app = [s \in Side |-> Seated(IF s = "owner" THEN cOwner ELSE cRival)]
    /\ main = [s \in Side |-> "cmd"]
    /\ dialog = [s \in Side |-> FALSE]
    /\ verdict = [s \in Side |-> "none"]

--------------------------------------------------------------------------------
(* The main thread of a client.                                                *)

\* Key 'g' at the prompt.
Enter(s) ==
    /\ main[s] = "cmd" /\ app[s].gameModel
    /\ main' = [main EXCEPT ![s] = "tunnel"]
    /\ UNCHANGED <<room, network, app, dialog, verdict>>

\* tunnel returns -1: on any key out of game model, and on escape.  A player without
\* a move is told so before the key is looked at, and does not get out.
Leave(s) ==
    /\ main[s] = "tunnel"
    /\ ~ app[s].gameModel \/ app[s].canmove
    /\ main' = [main EXCEPT ![s] = "cmd"]
    /\ UNCHANGED <<room, network, app, dialog, verdict>>

\* "Not you tune yet!"
NotYourTurn(a) ==
    \/ a.isOwnerTune /\ a.clientType_ = cRival
    \/ ~ a.isOwnerTune /\ a.clientType_ = cOwner

\* tunnel sends a key.
Willing(s) == app[s].gameModel /\ app[s].canmove /\ ~ NotYourTurn(app[s])

Move(s, d) ==
    /\ main[s] = "tunnel"
    /\ Willing(s)
    /\ Len(up[s]) < MaxUp
    /\ up' = [up EXCEPT ![s] = Append(@, [type |-> app[s].clientType_, x |-> d])]
    /\ UNCHANGED <<room, down, client>>

--------------------------------------------------------------------------------
(* The server: onboardQuery and what it sends.                                 *)

\* What isValid returns.
isValid(s, d) ==
    IF Game!CanWalk(grid, pos[s], d) THEN 2
    ELSE IF Game!OtherMove(grid, pos[s], d) THEN 1
    ELSE 0

boardAns(code) == [msg |-> "boardAns", code |-> code, isownertune |-> isOwnerTurn,
                   canmove |-> canMove]
finalInfo      == [msg |-> "finalInfo", score |-> announced]
systemAns      == [msg |-> "SystemAns"]

\* Seeded fault: a query that finds no move left is answered like a bad move.
AnsweredBut0(code) == code = 2

\* Every query but one for a bad move is answered.
Answered(code) == code # 1

\* Seeded fault: the result is told only when it is a good move that ends the game.
PublishedGoodMove(code) ==
    LET ended == announced # NotAnnounced
    IN  (IF Answered(code) \/ ended THEN <<boardAns(code)>> ELSE <<>>)
        \o (IF ended /\ code = 2 THEN <<finalInfo>> ELSE <<>>)
        \o (IF status = "over" THEN <<systemAns>> ELSE <<>>)

\* The end of a game is announced after the last update, and is followed by the
\* notice of publish.
Published(code) ==
    LET ended == announced # NotAnnounced
    IN  (IF Answered(code) \/ ended THEN <<boardAns(code)>> ELSE <<>>)
        \o (IF ended THEN <<finalInfo>> ELSE <<>>)
        \o (IF status = "over" THEN <<systemAns>> ELSE <<>>)

\* onboardQuery plays what comes first from a client.  Nobody knows the room any
\* more once it is erased: getTopic uses topics_.end().
Play(s) ==
    /\ up[s] # <<>>
    /\ up' = [up EXCEPT ![s] = Tail(@)]
    /\ UNCHANGED client
    /\ \/ /\ status = "playing"
          /\ \E q \in {Head(up[s])} :
                 /\ Game!onboardQuery(q.type, q.x)
                 /\ \E code \in {isValid(Game!SideOf(q.type), q.x)} :
                        down' = IF status' = "crashed" THEN down
                                ELSE [t \in Side |-> down[t] \o Published(code)']
       \/ /\ status = "over"
          /\ status' = "crashed"
          /\ UNCHANGED <<grid, gridString, pos, score, canMove, isOwnerTurn, view,
                         announced, down>>
    /\ \A t \in Side : Len(down'[t]) <= MaxDown

--------------------------------------------------------------------------------
(* The loop thread of a client.                                                *)

\* Seeded fault: the flags are taken for one another.
onBoardAnsSwapped(a, m) ==
    CASE m.code = 0 -> [a EXCEPT !.isOwnerTune = m.isownertune]
      [] m.code = 2 ->
             [a EXCEPT !.isOwnerTune = m.isownertune,
                       !.canmove = m.canmove[IF a.clientType_ = cOwner THEN "rival" ELSE "owner"]]
      [] OTHER -> a

\* onBoardAns: the turn, and after a good move whether there is a move left.
onBoardAns(a, m) ==
    CASE m.code = 0 -> [a EXCEPT !.isOwnerTune = m.isownertune]
      [] m.code = 2 ->
             [a EXCEPT !.isOwnerTune = m.isownertune,
                       !.canmove = m.canmove[IF a.clientType_ = cOwner THEN "owner" ELSE "rival"]]
      [] OTHER -> a

\* Seeded fault: the rival wins only with more points.
WinsStrictly(ct, sc) ==
    IF ct = cOwner THEN sc["owner"] > sc["rival"] ELSE sc["rival"] > sc["owner"]

\* A tie is the rival's.
Wins(ct, sc) ==
    IF ct = cOwner THEN sc["owner"] > sc["rival"] ELSE ~ sc["owner"] > sc["rival"]

\* The messages are handled one by one; while onFinalInfo waits for its key none is.
Receive(s) ==
    /\ down[s] # <<>> /\ ~ dialog[s]
    /\ down' = [down EXCEPT ![s] = Tail(@)]
    /\ LET m == Head(down[s])
       IN  CASE m.msg = "boardAns" ->
                    /\ app' = [app EXCEPT ![s] = onBoardAns(@, m)]
                    /\ UNCHANGED <<dialog, verdict>>
             [] m.msg = "finalInfo" ->
                    /\ dialog' = [dialog EXCEPT ![s] = TRUE]
                    /\ verdict' = [verdict EXCEPT ![s] =
                           IF Wins(app[s].clientType_, m.score) THEN "You Win!" ELSE "You Loss!"]
                    /\ UNCHANGED app
             [] m.msg = "SystemAns" -> UNCHANGED <<app, dialog, verdict>>
    /\ UNCHANGED <<room, up, main>>

OutOfGame(a) == [a EXCEPT !.clientType_ = cTourist, !.gameModel = FALSE, !.canmove = FALSE]

\* The key that onFinalInfo waits for.
Tap(s) ==
    /\ dialog[s]
    /\ dialog' = [dialog EXCEPT ![s] = FALSE]
    /\ app' = [app EXCEPT ![s] = OutOfGame(@)]
    /\ UNCHANGED <<room, network, main, verdict>>

Next ==
    \E s \in Side :
        \/ Enter(s) \/ Leave(s) \/ (\E d \in Key : Move(s, d))
        \/ Play(s) \/ Receive(s) \/ Tap(s)

Spec == Init /\ [][Next]_vars

\* A key that gets on with the game, if there is one.
GoodKey(s, d) ==
    Game!CanWalk(grid, pos[s], d) \/ \A e \in Key : ~ Game!CanWalk(grid, pos[s], e)

\* The event loops run, what was sent arrives, and players enter game model and keep
\* trying good keys.  Whether they tap the key they are asked for is up to them.
FairSpec ==
    /\ Spec
    /\ \A s \in Side :
           /\ WF_vars(Play(s))
           /\ WF_vars(Receive(s))
           /\ WF_vars(Enter(s))
           /\ SF_vars(\E d \in Key : Move(s, d) /\ GoodKey(s, d))

--------------------------------------------------------------------------------
(* Properties.                                                                 *)

\* A client that has handled all it was sent knows whose turn it is, and does not
\* refuse a player the server believes able to move: whatever was answered with
\* nothing, or with a code that updates only half of what the client keeps.
InformedClientsAgree ==
    \A s \in Side :
        status = "playing" /\ down[s] = <<>> =>
            /\ app[s].isOwnerTune = isOwnerTurn
            /\ canMove[s] => app[s].canmove

\* When everything has been handled, exactly one of the two clients accepts keys:
\* they never both wait for the other, and never both play.
OneIsWilling ==
    status = "playing" /\ up = [s \in Side |-> <<>>] /\ down = [s \in Side |-> <<>>] =>
        \E s \in Side : Willing(s) /\ ~ Willing(Game!Other(s))

\* The clients tell their players the same story, also of a tie.
OneWinner ==
    (\A s \in Side : verdict[s] # "none") => verdict["owner"] # verdict["rival"]

\* However slow the network and however stale what a client knows: the match ends.
MatchEnds == <>(status # "playing")

\* And both players are told how it ended, also when a query that comes after the end
\* takes the server down before its last answers have been handled.
ResultReachesBoth ==
    announced # NotAnnounced ~> \A s \in Side : verdict[s] # "none"

\* What the client answers to a key out of turn: "Not you tune yet!".
MovesInTurn ==
    [][\A s \in Side : pos'[s] # pos[s] => isOwnerTurn = (s = "owner")]_vars

\* The notice at the end: "Game is finsh, tap any key to back cmd model."
AnyKeyLeadsBack == [][\A s \in Side : dialog[s] => Len(up'[s]) <= Len(up[s])]_vars

================================================================================
