------------------------------- MODULE MessageTrip -------------------------------
(***************************************************************************)
(* One message on its way: built by one of the places of greedServer.cc    *)
(* and pubsub.cc that send one, written by fillEmptyBuffer, and read field *)
(* by field by the peer, which accepts it if it is complete                *)
(* (ParseFromArray).  Where a field is a message, the reader of its class  *)
(* is called, as MergePartialFromCodedStream calls it.  The peer may have  *)
(* been generated from another version of info.proto: fields may come in   *)
(* another order, be unknown, missing or of another type, and a second     *)
(* message may follow that is read into the same object.                   *)
(***************************************************************************)
EXTENDS InfoPb

CONSTANT Number   \* the scores a game may end with

ASSUME NumberAssumption == Number \subseteq Int32

Blank == ""   \* a text that has been set, to nothing

\* The texts that stand for those the program puts into its messages.
ASSUME WordAssumption == {Blank, "show", "room", "answer", "board"} \subseteq Text

VARIABLES
    type,     \* the class of the message
    sent,     \* the message the sender has built
    more,     \* a second message of the class, perhaps not complete
    how,      \* what has happened to the wire
    class,    \* the class whose reader is running
    got,      \* the object it is reading into
    rest,     \* what it has not read yet
    callers,  \* the readers that have called it, the last first
    status    \* "built", "reading", "delivered" or "refused"

message == <<type, sent, more, how>>
vars    == <<message, class, got, rest, callers, status>>

--------------------------------------------------------------------------------
(* The messages the program sends.                                             *)

\* enum clientType; nobody is sent a board as a tourist (0).
cOwner == 1
cRival == 2
cSubscribe == 3

\* What an answer is about.
OWNER_DISSAPER == 1
CREATE_SAME_NAME == 2
GETIN_ERROR == 3
TIME_PUBLISH == 4
QUIT_ERROR == 5
ALREADLY_IN_ROOM == 6
UNKNOW_CMD == 7
QUIT_CURRENT == 8
FINSH_COMPELE == 9

Known(fields) == Put(fields, "unknown", <<>>)

\* A Pos of the game or of a key: mutable_o(), mutable_r(), mutable_x().
PosOf(p) == Known([x |-> p[1], y |-> p[2]])

\* The GridInfo of topic t for a client of type ct, as sendGridInfo and
\* publishBoardUpdate both fill it in.
GridInfoOf(t, ct) ==
    Known([grid |-> t.grid, type |-> ct, topic |-> t.topic, isownertune |-> t.isOwnerTurn,
           rivalScore |-> t.score[2], ownerScore |-> t.score[1],
           ownercanmove |-> t.canMove[1], rivalcanmove |-> t.canMove[2],
           o |-> PosOf(t.o), r |-> PosOf(t.r)])

\* What is sent to a member of the audience: whoever neither watches nor is the
\* rival is addressed as the owner.
publishBoardUpdate(code, t, ct) ==
    Known([code |-> code,
           g |-> GridInfoOf(t, IF ct \in {cSubscribe, cRival} THEN ct ELSE cOwner)])

\* What is told of each room: the rival is set, even to the empty name.
show(rooms) ==
    IF rooms = <<>> THEN New
    ELSE Known([ri |-> [k \in DOMAIN rooms |->
                            Known([createdTime |-> "answer", name |-> rooms[k][1],
                                   owner |-> "room", rival |-> rooms[k][2]])]])

\* publish puts OWNER_DISSAPER into every message, whatever id it is called with.
publish(content, id) == Known([id |-> OWNER_DISSAPER, content |-> content])

\* The answers of onQuery that are not a board.
answer(content, id) == Known([id |-> id, content |-> content])

publishFinalInfo(score) == Known([ownerScore |-> score[1], rivalScore |-> score[2]])

\* A line of the command model: a word, or a word, a blank and the rest.  A single
\* word other than show and quit is sent as the empty command.
dealCmd(line) ==
    IF Len(line) = 2 THEN Known([cmd |-> line[1], topic |-> line[2]])
    ELSE Known([cmd |-> IF line[1] \in {"show", "quit"} THEN line[1] ELSE Blank,
                topic |-> Blank])

tunnel(d, ct, topic) == Known([type |-> ct, x |-> PosOf(d), topic |-> topic])

TopicState ==
    [grid : {"board"}, topic : {"room"}, isOwnerTurn : BOOLEAN, canMove : BOOLEAN \X BOOLEAN,
     score : {<<0, 128>>, <<1520, 127>>}, o : {<<18, 79>>}, r : {<<0, 79>>}]

Sendable == [
    SystemQuery |-> {dealCmd(line) : line \in (Text \X Text) \cup {<<w>> : w \in Text}},
    SystemAns   |-> {answer("answer", id) : id \in {CREATE_SAME_NAME, GETIN_ERROR, QUIT_ERROR,
                                                     ALREADLY_IN_ROOM, UNKNOW_CMD, QUIT_CURRENT}}
                    \cup {publish("answer", id) : id \in {OWNER_DISSAPER, TIME_PUBLISH,
                                                           FINSH_COMPELE}},
    ShowInfo    |-> {show(rooms) : rooms \in UNION {[1 .. n -> {Blank, "board"} \X {Blank, "show"}] :
                                                     n \in 0 .. 2}},
    GridInfo    |-> {GridInfoOf(t, ct) : t \in TopicState, ct \in {cOwner, cRival, cSubscribe}},
    boardQuery  |-> {tunnel(d, ct, "room") : d \in (-1 .. 1) \X (-1 .. 1),
                                             ct \in {cOwner, cRival, cSubscribe}},
    boardAns    |-> {publishBoardUpdate(code, t, ct) :
                         code \in {0, 2}, t \in TopicState,
                         ct \in {cOwner, cRival, cSubscribe}},
    finalInfo   |-> {publishFinalInfo(score) : score \in Number \X Number}]

MessageType == DOMAIN Sendable

--------------------------------------------------------------------------------
(* The virtual functions of Message.                                           *)

Serialize(t, m) ==
    CASE t = "SystemQuery" -> SystemQuery_Serialize(m)
      [] t = "SystemAns"   -> SystemAns_Serialize(m)
      [] t = "ShowInfo"    -> ShowInfo_Serialize(m)
      [] t = "GridInfo"    -> GridInfo_Serialize(m)
      [] t = "boardQuery"  -> boardQuery_Serialize(m)
      [] t = "boardAns"    -> boardAns_Serialize(m)
      [] t = "finalInfo"   -> finalInfo_Serialize(m)

MergePartial(c, m, i) ==
    CASE c = "SystemQuery" -> SystemQuery_MergePartial(m, i)
      [] c = "SystemAns"   -> SystemAns_MergePartial(m, i)
      [] c = "RoomInfo"    -> RoomInfo_MergePartial(m, i)
      [] c = "ShowInfo"    -> ShowInfo_MergePartial(m, i)
      [] c = "Pos"         -> Pos_MergePartial(m, i)
      [] c = "GridInfo"    -> GridInfo_MergePartial(m, i)
      [] c = "boardQuery"  -> boardQuery_MergePartial(m, i)
      [] c = "boardAns"    -> boardAns_MergePartial(m, i)
      [] c = "finalInfo"   -> finalInfo_MergePartial(m, i)

\* The field that item i is the message of, and the class of that message.
Into(c, i) ==
    CASE c = "ShowInfo"   -> ShowInfo_Into(i)
      [] c = "GridInfo"   -> GridInfo_Into(i)
      [] c = "boardQuery" -> boardQuery_Into(i)
      [] c = "boardAns"   -> boardAns_Into(i)
      [] OTHER -> NoMessage

ClassOf(f) ==
    CASE f = "ri" -> "RoomInfo"
      [] f = "g"  -> "GridInfo"
      [] f \in {"o", "r", "x"} -> "Pos"

ByteSize(t, m) ==
    CASE t = "SystemQuery" -> SystemQuery_ByteSize(m)
      [] t = "SystemAns"   -> SystemAns_ByteSize(m)
      [] t = "ShowInfo"    -> ShowInfo_ByteSize(m)
      [] t = "GridInfo"    -> GridInfo_ByteSize(m)
      [] t = "boardQuery"  -> boardQuery_ByteSize(m)
      [] t = "boardAns"    -> boardAns_ByteSize(m)
      [] t = "finalInfo"   -> finalInfo_ByteSize(m)

MergeFrom(t, a, b) ==
    CASE t = "SystemQuery" -> SystemQuery_MergeFrom(a, b)
      [] t = "SystemAns"   -> SystemAns_MergeFrom(a, b)
      [] t = "ShowInfo"    -> ShowInfo_MergeFrom(a, b)
      [] t = "GridInfo"    -> GridInfo_MergeFrom(a, b)
      [] t = "boardQuery"  -> boardQuery_MergeFrom(a, b)
      [] t = "boardAns"    -> boardAns_MergeFrom(a, b)
      [] t = "finalInfo"   -> finalInfo_MergeFrom(a, b)

IsInitialized(t, m) ==
    CASE t = "SystemQuery" -> SystemQuery_IsInitialized(m)
      [] t = "SystemAns"   -> SystemAns_IsInitialized(m)
      [] t = "ShowInfo"    -> ShowInfo_IsInitialized(m)
      [] t = "GridInfo"    -> GridInfo_IsInitialized(m)
      [] t = "boardQuery"  -> boardQuery_IsInitialized(m)
      [] t = "boardAns"    -> boardAns_IsInitialized(m)
      [] t = "finalInfo"   -> finalInfo_IsInitialized(m)

IsComplete(t, m) ==
    CASE t = "SystemQuery" -> SystemQuery_Class(m)
      [] t = "SystemAns"   -> SystemAns_Class(m)
      [] t = "ShowInfo"    -> ShowInfo_Class(m)
      [] t = "GridInfo"    -> GridInfo_Class(m)
      [] t = "boardQuery"  -> boardQuery_Class(m)
      [] t = "boardAns"    -> boardAns_Class(m)
      [] t = "finalInfo"   -> finalInfo_Class(m)

--------------------------------------------------------------------------------
(* What another version of the program may make of a wire.                     *)

Unheard == Item(15, "int", 1)

\* The same value under a tag of the other wire type.
Retyped(i) == Item(i.num, IF i.kind = "int" THEN "text" ELSE "int", IF i.kind = "int" THEN Blank ELSE 0)

\* A value that is cut short, or a tag that ends the message before its end.
Malformed(i) == Item(i.num, "malformed", Blank)

\* Wires with one item missing, retyped or malformed, or with a sub-message that is
\* damaged.
DamagedAround(wire, DamagedWithin(_)) ==
    UNION {{RemoveAt(wire, k),
            [wire EXCEPT ![k] = Retyped(@)],
            [wire EXCEPT ![k] = Malformed(@)]}
           \cup (IF wire[k].kind = "message"
                 THEN {[wire EXCEPT ![k].val = w] : w \in DamagedWithin(wire[k].val)}
                 ELSE {}) : k \in DOMAIN wire}

\* At any depth: the classes nest three deep.
DamagedPos(wire)  == DamagedAround(wire, LAMBDA w : {})
DamagedGrid(wire) == DamagedAround(wire, DamagedPos)
Damaged(wire)     == DamagedAround(wire, DamagedGrid)

\* The message without one of its fields, and with less in one of the fields fs.
Without(m) == {Restrict(m, DOMAIN m \ {f}) : f \in DOMAIN m \ {"unknown"}}
ThinnedIn(m, fs, ThinnedWithin(_)) ==
    UNION {{Put(m, f, sub) : sub \in ThinnedWithin(m[f])} : f \in fs \cap DOMAIN m}

ThinnedGrid(m) == Without(m) \cup ThinnedIn(m, {"o", "r"}, Without)

Thinned(t, m) ==
    CASE t = "boardAns"   -> Without(m) \cup ThinnedIn(m, {"g"}, ThinnedGrid)
      [] t = "GridInfo"   -> ThinnedGrid(m)
      [] t = "boardQuery" -> Without(m) \cup ThinnedIn(m, {"x"}, Without)
      [] OTHER            -> Without(m)

\* What a sender generated from info.proto as it is in the repository has to write:
\* its SystemAns has no id, and its GridInfo ends with the board.
InInfoProto == [SystemAns |-> {"content"}, GridInfo |-> {"o", "r", "grid"}]

--------------------------------------------------------------------------------

Init ==
    /\ type \in MessageType
    /\ sent \in Sendable[type]
    /\ more = New
    /\ how = "asSent"
    /\ class = type
    /\ got = New
    /\ rest = <<>>
    /\ callers = <<>>
    /\ status = "built"

\* fillEmptyBuffer writes the message, and this is what reaches the peer.
Arrive(change, wire) ==
    /\ status = "built"
    /\ how' = change
    /\ rest' = wire
    /\ status' = "reading"
    /\ UNCHANGED <<type, sent, class, got, callers>>

AsSent == Arrive("asSent", Serialize(type, sent)) /\ UNCHANGED more
Reordered == Arrive("reordered", Reverse(Serialize(type, sent))) /\ type # "ShowInfo" /\ UNCHANGED more
Extended ==
    /\ \E k \in 1 .. Len(Serialize(type, sent)) + 1 :
           Arrive("extended", InsertAt(Serialize(type, sent), k, Unheard))
    /\ UNCHANGED more
OtherVersion ==
    /\ \E w \in Damaged(Serialize(type, sent)) : Arrive("damaged", w)
    /\ UNCHANGED more
OfInfoProto ==
    /\ type \in DOMAIN InInfoProto
    /\ Arrive("infoProto",
              Serialize(type, Restrict(sent, InInfoProto[type] \cup {"unknown"})))
    /\ UNCHANGED more
Followed ==
    /\ LET m == CHOOSE x \in Sendable[type] : TRUE IN more' \in {m} \cup Thinned(type, m)
    /\ Arrive("followed", Serialize(type, sent) \o Serialize(type, more'))

--------------------------------------------------------------------------------
(* The reader: MergePartialFromCodedStream of a class, and of the classes it calls. *)

\* One turn of the loop, for an item that is not a message of its own.
ReadField ==
    /\ status = "reading" /\ rest # <<>>
    /\ Head(rest).kind # "malformed"
    /\ Into(class, Head(rest)) = NoMessage
    /\ got' = MergePartial(class, got, Head(rest))
    /\ rest' = Tail(rest)
    /\ UNCHANGED <<message, class, callers, status>>

\* ReadMessageNoVirtual calls the reader of the field's class, for what is already in
\* the field, or for a new element of a repeated one.
EnterMessage ==
    /\ status = "reading" /\ rest # <<>>
    /\ Head(rest).kind # "malformed"
    /\ \E f \in {Into(class, Head(rest))} :
           /\ f # NoMessage
           /\ callers' = <<[class |-> class, got |-> got, rest |-> Tail(rest), into |-> f]>>
                          \o callers
           /\ class' = ClassOf(f)
           /\ got' = IF f = "ri" THEN New ELSE Mutable(got, f)
           /\ rest' = Head(rest).val
    /\ UNCHANGED <<message, status>>

\* The message of the field has been read, and the caller goes on.
LeaveMessage ==
    /\ status = "reading" /\ rest = <<>> /\ callers # <<>>
    /\ LET caller == Head(callers)
       IN  /\ class' = caller.class
           /\ got' = IF caller.into = "ri" THEN add_ri(caller.got, got)
                     ELSE Put(caller.got, caller.into, got)
           /\ rest' = caller.rest
    /\ callers' = Tail(callers)
    /\ UNCHANGED <<message, status>>

\* One reader after the other returns false.
Fail ==
    /\ status = "reading" /\ rest # <<>>
    /\ Head(rest).kind = "malformed"
    /\ status' = "refused"
    /\ UNCHANGED <<message, class, got, rest, callers>>

\* ParseFromArray: the message has been read; it must be complete.
Finish ==
    /\ status = "reading" /\ rest = <<>> /\ callers = <<>>
    /\ status' = IF IsInitialized(type, got) THEN "delivered" ELSE "refused"
    /\ UNCHANGED <<message, class, got, rest, callers>>

Next ==
    \/ AsSent \/ Reordered \/ Extended \/ OtherVersion \/ OfInfoProto \/ Followed
    \/ ReadField \/ EnterMessage \/ LeaveMessage \/ Fail \/ Finish

Spec == Init /\ [][Next]_vars

--------------------------------------------------------------------------------
(* Properties.                                                                 *)

Forget(m) == Put(m, "unknown", <<>>)

\* Every message one of the program's places sends is accepted, and says to the
\* reader what it said to the sender; so it does with its fields in another order
\* or with a field of a later version among them.  The classes set, write, read
\* and require the same fields under the same numbers.
WhatIsSentIsRead ==
    status \in {"delivered", "refused"} /\ how \in {"asSent", "reordered", "extended"}
        => status = "delivered" /\ Forget(got) = sent

\* No handler is given a message that lacks a required field, at any depth, or
\* has a value of another type, whatever has arrived: handlers read fields
\* without asking whether they are set.
NothingIncompleteIsDelivered == status = "delivered" => IsComplete(type, got)

\* fillEmptyBuffer ends the program when the bytes written are not as many as
\* ByteSize has announced: they are, for what is sent and for what would be sent
\* on, unknown fields included.
SizesAgree ==
    /\ status = "built" => WireSize(Serialize(type, sent)) = ByteSize(type, sent)
    /\ status = "delivered" => WireSize(Serialize(type, got)) = ByteSize(type, got)

\* Reading two wires into one object, one after the other, is MergeFrom of what they
\* say; the copy constructors with which handlers take o, r, x and the rooms out of
\* a message rely on it too.
ReadingTwiceMerges ==
    status \in {"delivered", "refused"} /\ how = "followed"
        => status = "delivered" /\ got = MergeFrom(type, sent, more)

\* "required string content = 2;" of info.proto, where the line that requires an id
\* is a comment: what a program generated from that file sends is understood.
InfoProtoIsUnderstood ==
    status \in {"delivered", "refused"} /\ how = "infoProto" => status = "delivered"

================================================================================
