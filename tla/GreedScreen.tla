------------------------------- MODULE GreedScreen ------------------------------
(***************************************************************************)
(* The field of a client's screen: the 19 by 80 characters on which        *)
(* PubsubClient draws the board.  GridInfo draws the digits and skips      *)
(* eaten cells, boardAns blanks eaten cells and skips the digits, some     *)
(* notices and the list of rooms clear everything; no callback asks which  *)
(* room a message is about.                                                *)
(*                                                                         *)
(* Messages are handled one by one and in order (Channel), so a message is *)
(* drawn in the step in which its cause happens.  The other lines of the   *)
(* screen, and the window of onFinalInfo, which is gone after its key, are *)
(* left out.                                                               *)
(***************************************************************************)
EXTENDS GreedGrid

CONSTANTS
    cTourist, cOwner, cRival, cSubscribe,   \* enum clientType
    ME, RIVAL,                              \* the two pieces: '#' and '@'
    Space, Letter                          \* ' ', and a character of the list of rooms

ASSUME ScreenAssumption ==
    /\ cTourist \notin {cOwner, cRival, cSubscribe}
    /\ cOwner \notin {cRival, cSubscribe} /\ cRival # cSubscribe
    /\ Cardinality({ME, RIVAL, Space, Letter}) = 4

VARIABLES
    grid, pos,     \* the game of the room the client was last let into
    seat,          \* ClientInfo::ct_
    lingers,       \* the server has the client in the audience of another room, too
    clientType_,   \* PubsubClient::clientType_
    screen,        \* what stands in the field
    drawn,         \* history: a GridInfo was drawn, and the screen not cleared since
    swept,         \* history: ... on an empty field, or a good move was drawn since
    foreign        \* history: ... and a move of another room was drawn since

room    == <<grid, pos>>
history == <<drawn, swept, foreign>>
vars    == <<room, seat, lingers, clientType_, screen, history>>

ClientType == {cTourist, cOwner, cRival, cSubscribe}
Side == {"owner", "rival"}
Empty == [c \in Cell |-> Space]

\* What a room may look like to somebody who is let into it.
Places(g) == [Side -> Blank(g)]

Init ==
    /\ grid \in Grid /\ Blank(grid) # {} /\ pos \in Places(grid)
    /\ seat = cTourist /\ clientType_ = cTourist
    /\ lingers = FALSE
    /\ screen = Empty
    /\ drawn = FALSE /\ swept = FALSE /\ foreign = FALSE

--------------------------------------------------------------------------------
(* Drawing.                                                                    *)

\* Seeded fault: row and column are swapped, as in movecur.
mvaddchSwapped(scr, c, ch) ==
    [d \in Cell \cup {<<c[2], c[1]>>} |-> IF d = <<c[2], c[1]>> THEN ch ELSE scr[d]]

mvaddch(scr, c, ch) == [scr EXCEPT ![c] = ch]

\* The player's own piece first; to others the owner's is ME.
DrawPieces(scr, ct, p) ==
    IF ct = cRival
    THEN mvaddch(mvaddch(scr, p["rival"], ME), p["owner"], RIVAL)
    ELSE mvaddch(mvaddch(scr, p["owner"], ME), p["rival"], RIVAL)

\* onGridInfo: the digits over whatever was there, eaten cells are skipped.
DrawDigits(scr, g) == [c \in Cell |-> IF g[c] = 0 THEN scr[c] ELSE g[c]]

\* Seeded fault: the eaten cells are left alone.
SweepNothing(scr, g) == scr

\* onBoardAns, after a good move: eaten cells only.
Sweep(scr, g) == [c \in Cell |-> IF g[c] = 0 THEN Space ELSE scr[c]]

onGridInfo(ct, g, p) ==
    /\ clientType_' = ct
    /\ screen' = DrawPieces(DrawDigits(screen, g), ct, p)

onBoardAns(g, p) == screen' = DrawPieces(Sweep(screen, g), clientType_, p)

clear == screen' = Empty /\ drawn' = FALSE

\* showRoomInfo: a head line, and a line for every room.
showRoomInfo ==
    \E lines \in 1 .. HEIGHT, columns \in 1 .. WIDTH :
        screen' = [c \in Cell |-> IF c[1] < lines /\ c[2] < columns THEN Letter ELSE Space]

--------------------------------------------------------------------------------
(* What happens in rooms, and how the client draws it.                         *)

\* "new", "getin" or "watch" is granted.  A new room is full of digits.
Join ==
    /\ seat = cTourist
    /\ \E ct \in ClientType \ {cTourist} :
           /\ grid' \in Grid /\ Blank(grid') # {} /\ pos' \in Places(grid')
           /\ ct = cOwner => Blank(grid') = {pos'["owner"], pos'["rival"]}
           /\ seat' = ct
           /\ onGridInfo(ct, grid', pos')
    /\ drawn' = TRUE /\ foreign' = FALSE
    /\ swept' = (screen = Empty)
    /\ UNCHANGED lingers

\* A good move in the room.  A query that is not good changes no cell.
GoodMove ==
    /\ seat # cTourist
    /\ \E s \in Side, d \in Direction :
           LET n == Distance(grid, pos[s], d)
           IN  /\ CanWalk(grid, pos[s], d)
               /\ grid' = Erase(grid, Path(pos[s], d, n))
               /\ pos' = [pos EXCEPT ![s] = At(pos[s], d, n)]
    /\ onBoardAns(grid', pos')
    /\ swept' = TRUE
    /\ UNCHANGED <<seat, lingers, clientType_, drawn, foreign>>

\* A good move in a room the client has not left.
MoveElsewhere ==
    /\ lingers
    /\ \E g \in Grid, p \in [Side -> Cell] :
           /\ \A s \in Side : g[p[s]] = 0
           /\ onBoardAns(g, p)
    /\ foreign' = TRUE
    /\ UNCHANGED <<room, seat, lingers, clientType_, drawn, swept>>

\* QUIT_CURRENT.
Quit ==
    /\ seat \in {cRival, cSubscribe}
    /\ seat' = cTourist /\ clientType_' = cTourist
    /\ clear
    /\ UNCHANGED <<room, lingers, swept, foreign>>

\* QUIT_ERROR: the seat is lost, the place in the audience is not.
QuitRefused ==
    /\ seat \in {cRival, cSubscribe}
    /\ seat' = cTourist
    /\ lingers' = TRUE
    /\ UNCHANGED <<room, clientType_, screen, history>>

\* The owner's quit, whoever the owner is: OWNER_DISSAPER.
RoomDeleted ==
    /\ seat # cTourist
    /\ seat' = cTourist
    /\ clear
    /\ UNCHANGED <<room, lingers, clientType_, swept, foreign>>

\* finalInfo, and publish, which puts OWNER_DISSAPER into every message.
GameOver ==
    /\ seat # cTourist
    /\ seat' = cTourist /\ clientType_' = cTourist
    /\ clear
    /\ UNCHANGED <<room, lingers, swept, foreign>>

\* The other room is deleted, or its game over: it takes the seat as well, but not
\* the place in the audience that came with it.
EndElsewhere ==
    /\ lingers
    /\ lingers' \in {seat # cTourist, TRUE}
    /\ seat' = cTourist
    /\ clientType_' \in {cTourist, clientType_}
    /\ clear
    /\ UNCHANGED <<room, swept, foreign>>

\* The time, for whoever is in "utc_time": it comes with OWNER_DISSAPER, too.
timePublish ==
    /\ seat \in {cRival, cSubscribe} \/ lingers
    /\ clear
    /\ UNCHANGED <<room, seat, lingers, clientType_, swept, foreign>>

\* "show", at any time.
Show ==
    /\ showRoomInfo
    /\ drawn' = FALSE
    /\ UNCHANGED <<room, seat, lingers, clientType_, swept, foreign>>

Next ==
    \/ Join \/ GoodMove \/ MoveElsewhere
    \/ Quit \/ QuitRefused \/ RoomDeleted \/ GameOver \/ EndElsewhere
    \/ timePublish \/ Show

Spec == Init /\ [][Next]_vars

--------------------------------------------------------------------------------
(* Properties.                                                                 *)

\* Type correctness; nothing is drawn beside the field.
TypeOK ==
    /\ grid \in Grid /\ pos \in [Side -> Cell]
    /\ seat \in ClientType /\ clientType_ \in ClientType
    /\ lingers \in BOOLEAN
    /\ screen \in [Cell -> Digit \cup {ME, RIVAL, Space, Letter}]
    /\ drawn \in BOOLEAN /\ swept \in BOOLEAN /\ foreign \in BOOLEAN

\* The board as it would look on an empty field.
Picture == DrawPieces(DrawDigits(Empty, grid), clientType_, pos)

\* Drawing only the digits first and only the blanks afterwards is enough: once the
\* room has been drawn, and the first good move has swept what was on the field
\* before, the screen shows the game after every message, through lost seats and
\* refused commands, as long as nothing of another room comes.
ShowsTheGame == drawn /\ swept /\ ~ foreign /\ seat # cTourist => screen = Picture

\* "Board init finsh!", says the client when it has drawn a GridInfo: the screen
\* shows the board then.
BoardIsInitialised == drawn /\ ~ foreign /\ seat # cTourist => screen = Picture

\* "you are not in room", the server answers to a quit it refuses: of that room
\* nothing more is seen, and the screen shows the room the client is in.
OnlyItsOwnRoom == drawn /\ swept /\ seat # cTourist => screen = Picture

================================================================================
