# play-greed in TLA+

play-greed is the curses game *Greed* for two players over the network: a server
(`greedServer.cc`) keeps rooms, a client (`greedClient.cc`, `pubsub.cc`) opens a
room, gets into one, or watches one, and two players eat a common 19 x 80 board
of digits. A move in a direction walks as many cells as the digit next to the
piece says, eats them, and scores one point each; it is good only if every cell
of the walk is on the board and not yet eaten. This directory holds a model of
the program, the configurations that model-check it and the proofs about it.

All line numbers are those of the repository's sources.

## 1. Inventory

| Component | State | Operations | Talks to |
|---|---|---|---|
| `Topic` (`greedServer.cc` 81-322), one room's game | board `grid` and its cached text `gridString`, positions `o`, `r`, two scores, `isOwnerTurn`, `ownerCanMove`, `rivalCanMove` | constructor (84), `publishBoardUpdate` (150), `publishFinalInfo` (196), and on its state `isValid` (534), `anymove` (510), `othermove` (485), `onboardQuery` (357) | called by `GreedServer`; sends to its audience |
| `GreedServer` (328-854), rooms and users | `topics_`, `users_`; per user a `ClientInfo` (role, topic); per connection a subscription set; per `Topic` its owner, rival and audience | `onConnection`, `removeUser`, `onQuery` (new, getin, quit, watch, show), `onboardQuery`'s end of a game, `timePublish` every second | one muduo event loop: every handler runs to its end before the next |
| `PubsubClient` (`pubsub.cc`) | `clientType_`, `topic`, `gameModel`, `isOwnerTune`, `canmove`, the positions, a copy of the board, and the curses screen | callbacks `onGridInfo`, `onBoardAns`, `onSystemAns`, `onFinalInfo`, `onRoomInfo`; `tunnel` (a key in game model), `dealCmd` (a command line) | callbacks on the loop's thread, `tunnel` and `dealCmd` on the main thread |
| main loop (`greedClient.cc` 55-142) | none of its own | command model, game model | calls `dealCmd` and `tunnel` |
| `ProtobufCodec` | the receive buffer | `onMessage` (148), `parse` (199), `fillEmptyBuffer` (55) | between connection and dispatcher |
| `ProtobufDispatcher` | a constant table | look up and call | between codec and handlers |
| generated messages (`info.pb.cc`, `info.pb.h`) | has bits, fields, unknown fields, cached sizes | per class: accessors, `MergePartialFromCodedStream`, `SerializeWithCachedSizesToArray`, `ByteSize`, `MergeFrom`, `IsInitialized` | written by `fillEmptyBuffer`, read by `parse` |
| `codec.cc` | - | `parseMessage` | called by nobody |

What is hard in it:

* **State that is cached and used later.** The flags `ownerCanMove` and
  `rivalCanMove` are recomputed only when their own player asks, and decide the
  turn and the end of the game in between. `gridString` is rebuilt only when an
  update is published, and shown to late joiners. Audiences, subscription sets and
  `ClientInfo` are three records of one thing, changed by different handlers.
* **Order.** Announcing a result, unseating the audience and erasing the room are
  three calls; an early return (429-432) stands between branches that may announce
  and the block that erases. A refused `quit` undoes half of a seat.
* **Who is entitled.** The server does not check whose turn it is, nor that the
  sender of a move has a seat: it plays whatever `boardQuery` arrives. The client
  enforces the turn, from what it was last told.
* **Bounds.** Three `do ... while` walks count a digit down with bounds that are
  not written the same way.
* **Names of rooms that are gone.** `getTopic` dereferences `end()` for them.
* **The client's two threads** share all fields without a lock.

* **Bytes.** Frames arrive in any pieces, raw text may stand among them, and after
  an error the reader neither consumes what it could not read nor closes its side.
* **Two schemas.** `info.pb.*` was not generated from the `info.proto` beside it.

What makes each component correct. A room: what `FlagDownMeansStuck` to
`GameEnds` say in section 3. The lobby: seats, audiences, subscriptions and what
clients believe agree. The codec: a stream is cut into exactly the messages that
were sent, and nothing is delivered after an error. The messages: what is read is
what was said, and nothing incomplete is delivered. A match: the two clients agree
with the server and never both wait. The client: at rest it knows its seat, and it
sends only moves it is entitled to. The screen: it shows the game.

`PROJECT.json` lists the hazards with their lines and the property that watches
each.

## 2. Modules

| Module | What it is |
|---|---|
| `GreedGrid` | the board, the walk and the three scans, as operators without state |
| `GreedRace` | abstract: two sides eat the cells of a set, one point per cell, and a result is given once |
| `GreedGame` | one room's game: `onboardQuery` and everything it calls; implements `GreedRace` |
| `GreedLobby` | the server's rooms, users, seats and subscriptions, and the client's record of its seat |
| `MCGreedLobby` | the symmetry set of `GreedLobby` for TLC |
| `WalkLoop` | the loops of `isValid`, `othermove` and `anymove`, a cell at a time; they compute what `GreedGrid` says |
| `GreedMatch` | `GreedGame` composed with an owner's and a rival's client and the connections between them |
| `MCGreedMatch` | the keys players use on a board of one row |
| `GreedClient` | one client process: two threads, access by access, and its seat at the server |
| `MCGreedClient` | the symmetry set of `GreedClient` |
| `GreedScreen` | the field of the screen, as the callbacks draw it |
| `Channel` | abstract: what is sent is handled once and in order, up to the first thing that cannot be read |
| `ProtobufCodec` | `onMessage`, `parse` and the dispatcher, fed with pieces of bytes; implements `Channel` |
| `MCProtobufCodec` | items of every kind, with small lengths |
| `InfoPb` | the nine generated message classes, as operators without state |
| `MessageTrip` | one message: built by its sender, serialised, changed on the way, parsed |
| `MCMessageTrip` | texts and numbers at the boundaries of the encoding |
| `GreedGameProofs` | lemmas about the operators of `GreedGrid`, and the theorems about `GreedGame` |
| `GreedLobbyProofs` | the theorems about `GreedLobby` |
| `ProtobufCodecProofs` | the theorems about `ProtobufCodec` |
| `WalkLoopProofs` | the loops' invariants, what the loops compute, and that each turn brings them closer to their end |
| `GreedMatchProofs` | the theorems about `GreedMatch`, on top of `GreedGameProofs` |
| `GreedClientProofs` | the theorems about `GreedClient` |
| `GreedScreenProofs` | the theorems about `GreedScreen` |
| `MessageTripProofs` | the theorems about `MessageTrip`, and what each class of `InfoPb` writes and reads |

How they hang together: `WalkLoop` and `GreedGame` extend `GreedGrid`; `GreedMatch`
instantiates `GreedGame` and calls its `onboardQuery`; `MessageTrip` extends
`InfoPb`. `ProtobufCodec` implements `Channel`, and `GreedMatch`, `GreedClient` and
`GreedScreen` take their connections for what `Channel` promises: in order, nothing
lost or repeated. `GreedClient` and `GreedScreen` keep of the lobby the seat and the
audiences of one client, and let everybody else's part of it happen at any time.

### GreedGrid

A board is a function from cells `<<row, column>>` to `0 .. MaxDigit`; `0` is an
eaten cell. `Distance` is line 541, `CanWalk` the loop 545-568, `AnyMove` and
`OtherMove` the functions `anymove` and `othermove`. The walks are stated by what
they compute ("every cell of the path is on the board and not eaten"), not cell by
cell.

`othermove` is meant to skip cells beyond the board, but its test joins the bounds
with `&&` (492). A column beyond the board is read from the same row's heap block
or the word next to it; whatever is found, the walk breaks at its first cell, so
the result is the same. A row beyond the board is read through `grid_[-1]` or
`grid_[19]`, a row pointer that was never stored: undefined behaviour. With the
build's allocator those words are block sizes, and the read faults.
`OtherMoveStrays` says when this happens (before a good move is found, in scan
order), and the model chooses between a crash of the server and any digit, which
again changes nothing.

### GreedGame

| Variable | Code |
|---|---|
| `grid`, `gridString` | `Topic::grid`, `Topic::gridString` (a board instead of its text) |
| `pos`, `score`, `canMove` | `o`/`r`, `ownerScore_`/`rivalScore_`, `ownerCanMove`/`rivalCanMove`, by side |
| `isOwnerTurn` | the same |
| `view` | what the last `GridInfo` or `boardAns` put before the audience |
| `announced` | the scores of the `finalInfo`, or `NotAnnounced` |
| `status` | `"playing"`, `"over"` (the topic is erased), `"crashed"` |

`onboardQuery(ct, d)` has one disjunct per result of `isValid`: `GoodMove` (2),
`NoMoveLeft` (0), `BadMove` (1, the early return) and `Crash`. Each is the whole
handler: the walk, the recomputed flag, the turn, the announcement, the update
sent to the audience, the erasure. `Next` lets every client type send every
direction at any time, since the server checks nothing: whatever clients and
network do, they do no more.

### GreedLobby

| Variable | Code |
|---|---|
| `conn` | the TCP connection; `"closing"` once the client's codec has given up |
| `info` | `ClientInfo::ct_`, `topic_` |
| `connSub` | the `ConnectionSubscription` in the connection's context |
| `topics`, `room` | `topics_`; of each `Topic` the owner, rival, audience and `ownerCanMove` |
| `lastPub` | `lastPubTime_` of `utc_time` is valid |
| `app` | the client's `clientType_`, `topic`, `gameModel` |
| `query` | the `boardQuery` that `tunnel` is making, step by step, or that is under way |
| `server` | `"undefined"` once `getTopic` has used `end()` or `othermove` has strayed |

`users_` is the set of connections that are up. Actions: `Connect`, `Disconnect`
(with `removeUser`), `New`, `Getin`, `Watch`, `Quit` (its three branches),
`UnknownRoom`, `onboardQuery` (what it does to rooms) and `timePublish`, and of the
client's main thread `TunnelBegins`, `set_type` and `set_topic`. A refused command and
`show` only answer and are stuttering steps.

A query is not what a client was last told. `tunnel` reads the role (356) and then the
room (360) while `onGridInfo` writes the role (453) and then the room (458), on another
thread. `WhileGridInfo` has the outcome that neither an earlier nor a later query could
have: the new role with the old room. The steps of `tunnel` may be separated by anything
else, and a query that has been sent is played whenever the server comes to it, in
rooms that may have changed hands or gone.

Two abstractions. An answer is handled as soon as it is sent, and a client has one query
under way at a time; delayed answers and several queries are the subject of
`GreedMatch`, the client's threads, access by access, that of `GreedClient`. Of the game only "the owner has run out of moves" is kept, because that is what
decides whose query can end it (`GreedGame!Decided`): the owner's own, or any
other once the owner is out of moves. That the owner runs out, and that a query
strays, may happen in any query here; `GreedGame` says when.

A room may have the empty name ("new " with nothing behind it). It is a room name
like any other: the empty topic of a user without a seat, `NoTopic`, is never
looked up, so nothing depends on the two being the same string.

A room that has been published to greets a new listener with raw text (109-112),
which the client's codec takes for an impossible length and answers with
`shutdown`: `TakeSeat` takes such a client to `"closing"`. Only `utc_time` can be
such a room, as every other is erased in the handler that publishes to it.

### WalkLoop

`GreedGrid` states the walks by what they find out. `WalkLoop` runs them as they are
written. `pc` says which loop runs: `"valid"` is 547-569, `"eat"` 570-594, `"scan"` the
two nested `for` of the function `scanner` names (487-490 or `anymove`'s), `"walk"` its
`do ... while` (499-506), `"retrace"` the `while` of 556-561. `at` and `d` are the loop's
cell and the digit it counts down, `stop` the cell the first loop of `isValid` came to
(its `j` and `i`), `score` `isValid`'s local variable, `k` the number of directions done
with, `start` and `from` remember the input. A query runs `isValid`, in it `othermove` if
the walk is no good, and `anymove` on what comes out. If `othermove` finds nothing,
`isValid` goes from the piece over the refused walk once more and counts its cells,
`while (y != j || x != i)`: the one loop that ends by `!=`, so it must start from the
piece and meet `j` and `i`. Its count is thrown away with the 0 that is returned. `Read` is the access `grid_[y+dy][x+dx]`: outside the board any digit, and
for a row that is not there also `Fault`.

### GreedMatch

| Variable | Code |
|---|---|
| those of `GreedGame` | the room |
| `up[s]`, `down[s]` | queries and messages between client `s` and the room that are under way, in order |
| `app[s]` | `clientType_`, `gameModel`, `isOwnerTune`, `canmove` of client `s` |
| `main[s]` | the main thread is at the prompt or in game model |
| `dialog[s]` | `onFinalInfo` waits for its key (188) |
| `verdict[s]` | "You Win!" or "You Loss!" |

`Enter`, `Leave` and `Move` are the main thread (`tunnel`'s early returns are `Willing`),
`Play` is `onboardQuery` with all it publishes, in its order, or the use of
`topics_.end()` when the room is erased; `Receive` handles one message, `Tap` is the
key after a result. `GreedGame` lets any query come at any time, so it knows more
games than a match has (a match implements it, section 6); here only what a client would
send is sent, and the subject is what the clients know.

### GreedClient

`pc` is the main thread's place: the prompt, game model waiting for a key, and in
`tunnel` one place per field that is read (299, 300, 347 twice, 351 twice, 356, 360); the
second field of an `&&` is read only if the first holds, and both are read anew for the
second test. `todo` holds
what the running callback has still to write, in the code's order, or the key it
waits for; between any two of these accesses the other thread may do its own.
`app` is the shared fields, `query` the `boardQuery` being built, `down` the messages
to come. `seat` and `aud` are the server's `ClientInfo` and audiences of this client,
changed by its own commands and by others' ends of games and deletions of rooms.
`told` (the last `GridInfo`) and `mixed` (a callback ran while `tunnel` did) are history
variables. A read or a write of one field is taken as atomic, a `string`'s as well.

### GreedScreen

`screen` is the character at each cell of the field. `onGridInfo` draws the digits
only (466-470), `onBoardAns` blanks eaten cells only and only after a good move
(207-218), both draw the pieces last; `clear` comes with some notices and the list of
rooms. `grid`, `pos` are the game of the room the client was last let into, `lingers`
that a refused quit has left it in the audience of another. `drawn`, `swept` and
`foreign` are history variables that say which promise holds.

### ProtobufCodec and Channel

Bytes are counted. The peer writes items: frames, or the raw text of `Topic::add`.
`stream` remembers each item with the offset at which it begins; the reader knows
only `arrived` and `retrieved`, and finds the beginning of an item where it reads, or
does not (`Front`). `Arrive` puts any number of written bytes into the buffer and calls
`onMessage`; `inLoop` is its `while` loop (152-180), whose turn is one of
`InvalidLength`, `Incomplete`, `Deliver` and `Unreadable`. `parse` gives the error codes in
the order of the code's tests. `Fail` is `errorCallback_`: `defaultErrorCallback` shuts
the writing side down, reading goes on. `dispatch` is the dispatcher's: a registered
message's handler or the default callback, which on the server shuts the connection
down from within the loop. In `Channel` a thing is `good` or not, and `Receive` takes the
next one if it is good. The checksum is a flag of the item: that an altered frame
has the checksum of another is not modelled.

### InfoPb and MessageTrip

A message is a record whose domain is its set of has bits; `unknown` keeps fields its
class does not know. A wire is a sequence of items, one per tag and value, with
sub-messages as wires inside. For each of the nine classes `X` there are `X_Class` (what
a complete object holds), `X_MergePartial` (one turn of the parsing loop, for a field that
is no message), `X_Into` (the field a message belongs to), `X_Serialize`,
`X_ByteSize`, `X_MergeFrom` and `X_IsInitialized`. The varint, tag and text primitives
are libprotobuf's and marked external.

`MessageTrip` builds each message the program sends, at each place that sends one
(`Sendable`), and takes it through `how`: as sent, fields in another order, with a field
of a later version, damaged at any depth (a field missing, of another type, cut
short), followed by a second wire, or sent by a program generated from `info.proto`.

| Variable | Code |
|---|---|
| `type`, `sent` | the message the sender has, with its class |
| `more`, `how` | what is appended to the wire, and what happened to the wire |
| `class`, `got`, `rest` | the `MergePartialFromCodedStream` that runs, its object, and what is left of its input |
| `callers` | the ones that wait for it (`ReadMessageNoVirtual` calls), each with the field `into` which it reads |
| `status` | `"built"`, `"reading"`, `"delivered"` or `"refused"` |

A reader takes one item per step. `ReadField` is a turn of its loop; at a message
`EnterMessage` calls the reader of that field's class, for the object that is already in
the field or a new one of a list; `LeaveMessage` returns to the caller; `Fail` is a
value that is cut short, at which one reader after the other returns false; `Finish` is
the end of `ParseFromArray`, which accepts what `IsInitialized`. The classes nest three
deep, so the operators that go through nested messages (`WireSize`, `Damaged`, `Thinned`)
are written out for three levels, without recursion.

## 3. Runs

`CHECK_DEADLOCK FALSE` stands where the modelled system really stops: a finished game
takes no more queries, a closed connection no more bytes, a message that has been
read is the end of its trip, and undefined behaviour ends the server.

| Run | Instance | Shows |
|---|---|---|
| `GreedGame` | 3 rows, 2 columns, digits 1-2; every board and every pair of starting cells; any queries; fairness | all properties of `GreedGame`, and that it implements `GreedRace` |
| `WalkLoop` | 2 rows, 3 columns, digits 1-2; every board, piece and direction | the loops compute the formulas, and end |
| `MCGreedLobby` | 2 users, 1 room name and `utc_time`, symmetric | all safety properties of `GreedLobby` |
| `GreedMatch` | one row of 3 cells, digits 1-2, the keys left and right; one query of each client and 4 messages to it under way; fairness | clients and server agree, matches end, and both players are told how |
| `GreedClient` | 2 rooms, symmetric, one message under way besides the one being handled | the client's two threads |
| `GreedScreen` | one row of 3 cells, digits 1-2, every board | the screen shows the game |
| `ProtobufCodec` | 3 items of nine kinds, header of 1 byte, frames of up to 7; any pieces; fairness | the reader implements `Channel`, with its liveness |
| `MessageTrip` | every place that sends, every change of one field at any depth | messages are read correctly or refused |
| `GreedGameBadCoordinates` | as `GreedGame` | finding 1 |
| `GreedGameRivalLoss` | as `GreedGame` | finding 2 |
| `MCGreedLobbyOneRoom` | 2 users, 2 room names and `utc_time` | finding 3 |
| `MCGreedLobbyPlayers` | 2 users, 2 room names and `utc_time` | finding 4 |

Properties of `GreedGame`: `FlagDownMeansStuck` (a flag may be too hopeful, never
too gloomy, however stale), `TurnHasMover` (the turn never rests with a player
whose client refuses to move), `OverIsDecided` (a game ends only when its result
is settled), `AnnouncedIffOver`, `ShownIsCurrent` (the last message and the cached
text are the game as it is), `PiecesStandOnBlanks`, `PiecesNeverMeet`,
`ImplementsRace`, `GameEnds`.

Properties of `GreedLobby`: `SeatedUsersHaveTheirRoom` (the handlers' unchecked
`getTopic(user.getTopic())` is safe), `OwnersOwnTheirRoom`,
`SubscriptionsMatchAudiences`, `ClientKnowsItsSeat`.

Properties of `WalkLoop`: `IsValidComputesTheWalk` (a good walk is played in full and
scored; a bad one touches nothing, 0 and 1 are told apart as `OtherMove` does, and for 0
the `while` loop has counted exactly the cells that were open),
`AnyMoveIsComputed`, `StraysAreKnown` (reads outside the board happen only where
`OtherMoveStrays` says, never in `anymove`), `LoopsEnd`. They justify that `GreedGame`
uses the formulas.

Properties of `GreedMatch`: `InformedClientsAgree` (a client that has handled all it was
sent has the server's turn, and does not refuse a player the server believes able to
move, though some answers carry half of that and some queries get none),
`OneIsWilling` (when nothing is under way exactly one of the two accepts keys),
`OneWinner` (the two verdicts differ, also for a tie), `MatchEnds`, `ResultReachesBoth` (once
the result is announced both players are told it, also when a query that comes after
the end takes the server down while its last messages are still under way).

Properties of `GreedClient`: `QuietClientKnowsItsSeat`, `UndisturbedMovesAreSound` (a key
with no callback in between is sent for the room of the last `GridInfo`, in its role or
as a tourist, in game model and in turn). Of `GreedScreen`: `ShowsTheGame`. Of
`ProtobufCodec`: `InStep`, `NoFrameLeftBehind`, `ErrorIsFinal`, `ImplementsChannel` and
`ImplementsFairChannel`. Of `MessageTrip`: `WhatIsSentIsRead`,
`NothingIncompleteIsDelivered`, `SizesAgree` (a mismatch ends the sender's program),
`ReadingTwiceMerges`.

**Bounds.** On a 3 x 2 board with digits up to 2 there are walks of length one
and two, walks stopped by an edge, by an eaten cell and at the second cell, games
in which each player is stuck first, flags that have gone stale in both
directions of play, both ends of the game, and rows beyond the board on either
side of a piece. Positions, boards and queries are exhaustive within it; the
theorems of section 6 cover every size. `WalkLoop`'s 2 x 3 board has the same cases, and
all nine directions.

In a match, one row of three cells leaves one digit between or beside the pieces: a walk
may be good, too long, or blocked, either player may be stuck first, and the end may be
reached by a good move or by a query that finds none. `Key` is the two directions along the
row (the others leave the board and would only add strays). `MaxUp = 1` lets a client
send its next query once the one before has been played, before it has handled any
answer: that is enough to send on stale knowledge, also for the room that is gone.
`MaxDown = 4` is the three last messages (update, result, notice) behind an older answer that has
not been handled. The bound holds back only a `Play` that would send more; a query for the
erased room sends nothing and is never held back, so that the server may be down
while all three last messages are under way. What the server wrote before it went down is
taken to arrive. `InformedClientsAgree`, `OneIsWilling` and `OneWinner` are theorems
for every board and all bounds (section 6).

`GreedClient`'s `MaxDown = 1` gives a callback in progress and one message behind it,
which is all the order of two messages needs. On the screen a row of three cells has
both pieces, an eaten cell and a digit. The codec's header is one byte and its frames
are few bytes long: nothing in the reader depends on the size, only on whether
bytes are there, and every cut of every item occurs; three items put one before and
one after a bad one. The run takes the server's default callback (`ShutsDown`); the
theorems cover the client's as well. `MCText` and `MCNumber` have lengths and numbers of
one and of two bytes, the empty text, and the 1520 characters of a board. In the lobby two users, one room name and `utc_time` are enough
for a stale audience entry of one room to meet a seat in another, for a move to mix
the two, for either room to be deleted, by quitting, by disconnecting or by the end of a
game, for a name to be used again, and for each user to be owner, rival and spectator; the
theorems cover any number of either. Owning two rooms takes a second name.

**Fairness.** `GameEnds` assumes weak fairness of `TurnHolderPlays`: the player
whose turn it is, as long as that is possible, in the end presses a key that
does something. Neither server nor client forces a player to move, and a player
may of course walk away; what is shown is that the program never is the
obstacle. Queries of everybody else are arbitrary and not fair. Weak fairness
is enough because `TurnHolderPlays` includes the queries that report that no move
is left, so it stays possible until the game ends. An end by `Crash` counts as
an end here; finding 1 is about it.

In `GreedMatch` the event loops run (weak fairness of `Play` and `Receive`), players enter
game model (`Enter`), and a player who again and again can send a good key does (strong
fairness of `Move`, because the main thread's leaving game model, or a full `up`,
interrupts it). Nothing makes a player leave, and bad keys are not excluded. No fairness
is assumed of `Tap`: which thread gets the key is up to curses (`AnyKeyLeadsBack` in section
5), so what is shown of the result is that it is told, not that the player gets out of
the dialog. In `ProtobufCodec` TCP delivers what was written
while the connection lasts (`Arrive`) and a loop that has been entered goes on
(`onMessage`); peers need not send. In `WalkLoop` a running handler goes on.

Each property of a passing run has a mutant: a definition marked "Seeded fault" or
"Seeded off-by-one" stands before the one it would replace, and TLC then finds the
property violated.

## 4. What the runs found

The first four have a run; section 5 lists what else TLC exhibits.

1. **`othermove` reads rows that do not exist** (`greedServer.cc` 492). The comment
   says "don't do 0,0 or bad coordinates"; the condition joins four bounds by `&&`
   and never holds. One bad move from the first or last row is enough. The
   client's copy (`pubsub.cc` 408) has the same line and is never called.
2. **A rival who is out of moves and not ahead does not end the game** (406):
   `trivalscore < trivalscore`. The owner's branch ends it in the mirror case
   (376), and so did the commented-out rule (440). In the run the rival stands in the middle
   row, where `othermove` reads no row that does not exist: its query is answered 0 and
   the turn goes back to the owner, so the game still ends, later (`GameEnds`) and correctly (`OverIsDecided`).
3. **A user may own two rooms.** A refused `quit` (692-699) makes its sender a
   tourist but leaves it in the audience. It opens a room of its own; the first
   room is deleted; `userUnsubscribe` makes everybody in its audience a tourist
   (126), so the user may open another, for instance under the name that is free
   again, and nobody is left who can quit the one it opened before. The answer to `new` says "you have a room already" (649).
4. **A client plays in a room that is gone.** "Owner delete room, you become
   tourist." (688) makes the client clear its screen and nothing else
   (`pubsub.cc` 133-140). Its next key is a query for an erased room.

## 5. Other deviations TLC exhibits

Each of these is a property of a module that says what the program, or its text,
promises, and a configuration in which TLC finds it violated
(`tlc -config X.cfg M`). They are kept beside the runs.

| Property | Configuration | What happens |
|---|---|---|
| `GreedLobby!AtMostOneRivalEach` | `MCGreedLobbyRivals.cfg` | `quit` of a spectator empties `rival_` (`greedServer.cc` 677) while the rival plays; a second rival gets in |
| `GreedLobby!UtcTimeAlive` | `MCGreedLobbyClock.cfg` | `timePublish` looks `utc_time` up every second (`greedServer.cc` 784). A user has been the rival there, has quit and opens a room; a key pressed meanwhile sends the new role, owner (`pubsub.cc` 356), for the old room (360); the owner's move may end the game, and the room is erased under the timer |
| `GreedMatch!MovesInTurn` | `MCGreedMatchTurn.cfg` | the server plays a second key that was pressed before the answer to the first (`greedServer.cc` 366; "Not you tune yet!" is said by the client only) |
| `GreedMatch!AnyKeyLeadsBack` | `MCGreedMatchKey.cfg` | "tap any key to back cmd model" (480): the main thread gets the key and sends it as a move for the erased room (`pubsub.cc` 188, `greedClient.cc` 102) |
| `GreedClient!MovesAreWhole` | `MCGreedClientWhole.cfg` | `gameModel` is set (`pubsub.cc` 456) before `topic` and the turn: a move goes to the old room in the new role |
| `GreedClient!TouristsSendNoMoves` | `MCGreedClientTourist.cfg` | "you are a tourist now" (680) sets `clientType_` and leaves `gameModel` (`pubsub.cc` 138): the tourist's keys are still sent |
| `GreedClient!SpectatorsSendNoMoves` | `MCGreedClientSpectator.cfg` | the `GridInfo` of a spectator does not take `gameModel` back (`pubsub.cc` 454): a former player that watches a room still sends its keys, which move the rival's piece there (`greedServer.cc` 539-540) |
| `GreedScreen!BoardIsInitialised` | `GreedScreenInit.cfg` | "Board init finsh!" (`pubsub.cc` 460), but the list of rooms stays where cells are eaten, until the first good move |
| `GreedScreen!OnlyItsOwnRoom` | `GreedScreenOther.cfg` | `onBoardAns` does not look at the topic: after a refused quit the old room is drawn over the new one |
| `MessageTrip!InfoProtoIsUnderstood` | `MCMessageTripProto.cfg` | `SystemAns::IsInitialized` requires an id that is a comment in `info.proto` 10, and `GridInfo` seven fields that are not in it |

## 6. Proofs

Everything below is checked by TLAPS for every board size, every `MaxDigit`, every
set of users and of room names, every kind of item, and any number of messages under
way, from the assumptions the modules state: `BoardAssumption` (positive sizes),
`GameAssumption`, `LobbyAssumption`, `ClientAssumption` and `ScreenAssumption` (the
constants that stand for different things are different, bounds are large enough for a
step), `MatchAssumption` (the same, of the constants of the game that a match
instantiates; keys are directions), `CodecAssumption` (a frame is no shorter than an empty one,
and raw text begins with an impossible length), `TextAssumption` (texts have lengths),
`NumberAssumption` (the scores at the end are among the numbers of a message) and
`WordAssumption` (the words that stand for what the program sends are texts). TLC evaluates them in the runs of the
modules that declare them.

**The board** (the beginning of `GreedGameProofs`; `WalkLoopProofs` and `GreedScreenProofs`
prove those they need beside their own). The lemmas say what a walk does: it stays on
the board, its length is a digit, it eats exactly as many cells as it is long and
none of them was eaten before; it does not come to rest on a cell that was eaten
already; and eating cells never makes a move possible that was not.

**The game** (`GreedGameProofs`). The inductive invariant `IInv` joins the
conjuncts that support one another. `PiecesStandOnBlanks` keeps a walk from
ending on the other piece. `FlagDownMeansStuck` is inductive because eating never
opens a move and a player without one does not leave its cell. `TurnHasMover`
needs it in turn: a good move refutes a mover's lowered flag, and a stuck mover
who does not end the game has, by the branch taken, an opponent whose flag is
up. `OverIsDecided` uses it for the player whose flag was not recomputed.
`AnnouncedIffOver` rests on the fact that a bad move, one for which another move
exists, cannot have found its player stuck, so the early return never follows
an announcement; the same fact makes a bad move change nothing at all
(`BadMoveChangesNothing`), which `ShownIsCurrent` needs. From `Invariance` follow
the theorems `TypeCorrect`, `FlagsNeverClaimTooLittle`, `TurnIsNeverWedged`,
`EndIsDecided`, `EndIsAnnounced`, `PiecesOnBlanks` and `AudienceSeesTheGame`, and with the lemmas
about one step `PiecesStayApart` and the refinement `GameIsRace`, with `eaten` mapped
to the blank cells and `result` to `announced`. `QueryFacts` is what one query can do as
seen from outside: it announces a result exactly when it erases the room, and it
raises no flag, because a recomputed flag can only fall (`FlagsFallForGood`).

**The loops** (`WalkLoopProofs`). The invariant of a walking loop is `WalkedTo`: the loop
is where `n - d` steps lead, and all cells up to there are open. `EatLoop` adds that as
many cells are eaten and scored. `ScanLoop` says that a scan that still runs has found no
move in the directions it has done with, and the table of the nine directions turns
that into a statement about all of them. `RetraceLoop` says that the `while` loop is on the
refused walk, `score` cells from the piece and not beyond `stop`, so that the cells it steps on differ
from `stop` until it is there. A digit read beyond the board may be anything:
`WalkInScan` says that such a walk is still at the piece, where its first turn breaks,
so what was read does not matter. The theorems are `TypeCorrect`, `IsValidIsTheWalk`,
`AnyMoveIsFound`, `StraysAreForetold`, and `LoopsComeCloser`: every turn descends in the
lexicographic order of the loop that runs, what is left of its scan or of the way to
`stop`, and the digit. This is all of `LoopsEnd` but its fairness.

**The match** (`GreedMatchProofs`). `RoomIsSound` is the invariant of `GreedGame`, by instance,
while the match is played; `QueryFacts` does the steps of `onboardQuery`. `TurnIsTold`:
the last message under way, or the client if none is, has the room's turn; a bad move, the
one query that gets no answer, leaves the turn alone. `FlagIsTold`: a client or
message that denies a player a move is right, also when it is old, for flags only
fall; this is why an answer of code 0, which brings no flags, does no harm. `AnswersFirst`
and `OneResult`: nothing but answers comes before the result, and each client gets one
result, the same, while it has its seat. The theorems are `ClientsAgree`, `OneIsToMove`
(with `TurnHasMover` of the room) and `OneIsToldToHaveWon`. `MatchIsGame` is the refinement:
a match implements `GreedGame`, with a room whose result has been announced taken for
one that is over, whatever a late query does to the server. It carries over
`GreedGame`'s theorems; `MatchIsDecided` is the one about results.

**The client** (`GreedClientProofs`). The difficulty is that a callback writes field by field.
`Settles` says where a field will be when the callback that runs has done: it has a
value already and will not be written, or is still to be written with it.
`SeatIsForeseen`: the last message about seats under way is the `GridInfo` of the seat the
server keeps, or none is and the fields settle on that seat. `ToldIsShown`: they
settle on the last `GridInfo` begun, or on a tourist. `TunnelIsCurrent`: as long as no
callback has come between, what `tunnel` has read still holds. The theorems are
`TypeCorrect`, `SeatsAreKnown` and `MovesAreSound`.

**The screen** (`GreedScreenProofs`). The field is right (`FieldIsRight`) because a sweep
completes digits that are all shown already (`DigitsAreShown`, which holds before the
first sweep too), and a piece never hides a digit (`PiecesOnBlanks`). None of these
depends on the seat, which is why losing it does no harm. The theorems are
`TypeCorrect` and `FieldShowsTheGame`.

**The lobby** (`GreedLobbyProofs`). Its `IInv` adds one fact to the checked properties,
`NewHasNoSeat`: a connection that is not yet up has no seat. The conjuncts need one another:
that a deletion unseats everybody with a seat in the room is
`SeatedUsersHaveTheirRoom` (a seat implies an audience entry), that it reaches the clients
of the unseated is `ClientKnowsItsSeat`, and that an owner deletes no other's
room is `OwnersOwnTheirRoom`. No fact about queries is needed, and none holds: a query may name any
room and claim any role (`TornQueryType` and `QueryIsFree` say that it has its type and
touches nothing else). The theorems are `TypeCorrect`, `SeatsAreReal`,
`OwnersDeleteTheirOwn`, `SubscriptionsAgree` and `SeatsAreShown`.

**The codec** (`ProtobufCodecProofs`). `IInv` says where things are. `Layout`: every item
begins where the one before it ends, and the last ends at `written`, so offsets
are distinct and only the beginning of an item looks like one. `HandledFirst`: what
has been handled is what was sent first, and all of it good. `InStep`: `retrieved` is
the offset of the item after those. `OpenInLoop`: the loop runs only while the
connection does. `NoFrameLeftBehind`, and `ErrorStands`: an error is the one the next
item has, and that item is still at the front. A turn of the loop can then only
concern the next item, and takes out exactly its bytes. The theorems are
`TypeCorrect`, `ReaderStaysInStep`, `NothingLeftBehind`, `ErrorsAreFinal` and the
refinement `ReaderIsChannel`.

**The messages** (`MessageTripProofs`). Two invariants, one on top of the other. `IInv` is
about any wire at all: the reader that runs and every reader that waits is a `Frame`, with
an object that is `Sound` (no field but those of its class, no value but of its field's
type, and so in the messages within) and a `rest` of items that some version may have
written (`Arriving`); the callers' fields have the classes of the readers they called. It
needs every class's `MergePartial` to keep objects sound, and every change of `how` to
leave items that may arrive, at any depth (`PlainWritten`, `DamagedDeep`, `ThinnedPlain`).
`IsInitialized` of a sound object then says that it is complete (`CompleteIfInitialized`),
which is `NothingIncomplete`.

`TrackInv` is about wires that say no less than was sent. There is a `plan` for each
reader: a `goal`, which is the whole message for the outermost one and for each other one
the part of its caller's goal that the caller waits for, and what the wire `says`, from
which the goal is to be made of what was in the object before. Each reader is `OnTheWay` to its
goal. Where every field occurs once (`ByField`), a field of the goal has been read, is waited
for, or its item is still to come, and all items to come are such, or `Unheard` in the
outermost reader: no order is assumed, so reversing the wire does not matter. A list of rooms
has the same number for all of them, and there the order counts (`ByIndex`): what has been
made is the beginning of the goal, and what is to come are the others in their order, with
`Unheard` in one place at most. The lemmas it rests on are that each class writes exactly the
items of its fields (`WholeHolds`), that its `switch` reads each of them back into its field
(`FieldReads`), and that no two fields share a number (`NumbersDiffer`); what the program
builds is `Plain` and complete (`SendablePlain`, `SendableInitialized`). A reader with nothing
left of its own has its goal (`Made`), so the message delivered is the one that was
sent: `WhatIsSentIsUnderstood`.

Of two messages, the second is `later` for the readers of the first (`ReadingFirst`): the
outermost reader's own part of the wire ends before it, and the readers it calls know nothing
of it. When only that is left, the first message has been made (`TrackMade`), and the second
wire, which is `OnTheWay` from the first message to `MergeFrom` of the two (`Continues`), is
the outermost reader's own (`SecondBegins`, `ReadingBoth`). `Continues` needs what `MergeFrom`
of each class does field by field (`IsMerge`), at every depth, since a reader of a message
within finds in its object what the first message had there. What comes out is complete,
though the second message may lack fields, because the first lacks none
(`MergedInitialized`): `ReadingTwice`.

The texts, the scores and the length of a wire are arbitrary in all of these. `TrackInv`
quantifies over plans and is only proved; what follows from it is checked as well.

**Model-checked only.** `GameEnds`, `MatchEnds`, `ResultReachesBoth`, `LoopsEnd` and
`ImplementsFairChannel`: the prover has no fairness and no `ENABLED`. `SizesAgree` of
`MessageTrip`: it is about sums over wires of any length, which is induction over data. The
findings are counterexamples of TLC. The other 33 of the 39 properties of the passing runs
are theorems.

## 7. Not modelled, and the plan

Not modelled:

* `codec.cc` (`parseMessage` is called by nobody).
* Of the generated classes: `Swap`, `Clear`, `CopyFrom` and reflection, none of
  which the program calls; descriptors and registration at start.
* Of the screen: the system line, the score board, the window of a result, the cursor;
  `movecur`, `updatexy`, `botmsg` and the client's `othermove`, which nobody calls.
* The connection of the client (`start`, `stop`, `onConnection`), which is muduo's
  `TcpClient`, and what curses does when two threads call it.
* Editing of the command line (what `dealCmd` makes of it is in `MessageTrip`).
* The width of integers: a score is at most the number of cells, 1520. Random numbers
  are any numbers of their range. The checksum, beyond whether it agrees.

Next:

1. Relate `GreedClient`'s view of a seat to `GreedLobby`'s `ClientKnowsItsSeat`, by a module that
   composes the two.
2. The safety half of `ResultReachesBoth`: from the result on, the messages before it and
   the key are all that stands between a client and the end of its game.
