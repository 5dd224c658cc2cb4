--------------------------------- MODULE InfoPb ---------------------------------
(***************************************************************************)
(* The generated messages of info.pb.cc.  Of a message only the fields     *)
(* that are set are kept: a message is a record whose domain is its set of *)
(* has bits, and "unknown" holds the fields its class does not know.       *)
(*                                                                         *)
(* A wire is a sequence of items, one per tag and value.  A sub-message is *)
(* an item that holds a wire.  Bytes are counted, not spelled out.  For    *)
(* each class X of the code there are                                      *)
(*   X_Class             its accessors: what a complete object holds       *)
(*   X_MergePartial      one turn of MergePartialFromCodedStream's loop    *)
(*   X_Into              the field whose sub-message that turn goes to     *)
(*                       read, for the classes that have any               *)
(*   X_Serialize         SerializeWithCachedSizesToArray                   *)
(*   X_ByteSize, X_MergeFrom, X_IsInitialized                              *)
(***************************************************************************)
EXTENDS Integers, Sequences, FiniteSetsExt, SequencesExt, Functions

CONSTANTS
    Text,         \* strings, told apart by their value and their length
    TextLength    \* how many bytes each takes

ASSUME TextAssumption == TextLength \in [Text -> Nat]

Int32 == -1 .. 1520   \* the numbers the program puts into messages
Int64 == Int32

--------------------------------------------------------------------------------
(* Messages.                                                                   *)

New == [unknown |-> <<>>]
Has(m, f) == f \in DOMAIN m
Put(m, f, v) == [g \in DOMAIN m \cup {f} |-> IF g = f THEN v ELSE m[g]]

\* The values of a repeated field, of which no has bit is kept.
Repeated(m, f) == IF Has(m, f) THEN m[f] ELSE <<>>

\* A sub-message is created when it is first written to.
Mutable(m, f) == IF Has(m, f) THEN m[f] ELSE New

--------------------------------------------------------------------------------
(* Items of a wire, and how the classes write and read them.                   *)

Item(n, k, v) == [num |-> n, kind |-> k, val |-> v]

\* Numbers and booleans are varints; texts and sub-messages are sent with their
\* length.  "malformed" stands for an item the reader cannot get past.
WireType(kind) == IF kind = "message" THEN "text" ELSE kind

\* The tag of item i is the one of field n with a value of kind k.
Is(i, n, k) == i.num = n /\ WireType(i.kind) = WireType(k)

WriteInt(m, n, f)  == IF Has(m, f) THEN <<Item(n, "int", m[f])>> ELSE <<>>
WriteBool(m, n, f) == IF Has(m, f) THEN <<Item(n, "int", IF m[f] THEN 1 ELSE 0)>> ELSE <<>>
WriteText(m, n, f) == IF Has(m, f) THEN <<Item(n, "text", m[f])>> ELSE <<>>
WriteMessage(m, n, f, Serialize(_)) ==
    IF Has(m, f) THEN <<Item(n, "message", Serialize(m[f]))>> ELSE <<>>

ReadValue(m, f, i) == Put(m, f, i.val)
ReadBool(m, f, i)  == Put(m, f, i.val # 0)

\* An item that is no sub-message of the class is read in the turn itself.
NoMessage == "none"

\* handle_unusual: a field the class does not know, or of another wire type.
SkipField(m, i) == Put(m, "unknown", Append(m.unknown, i))

\* What MergeFrom does with the fields fs, none of which is a message.
MergeSet(a, b, fs) ==
    [f \in DOMAIN a \cup (fs \cap DOMAIN b) |->
        IF f = "unknown" THEN a.unknown \o b.unknown
        ELSE IF f \in fs \cap DOMAIN b THEN b[f] ELSE a[f]]

--------------------------------------------------------------------------------
(* Sizes.                                                                      *)

VarintSize(v) == IF v < 0 THEN 10 ELSE Min({n \in 1 .. 4 : v < 128 ^ n})

ItemSize(i, SizeWithin(_)) ==
    1 + CASE i.kind = "int"     -> VarintSize(i.val)
          [] i.kind = "text"    -> VarintSize(TextLength[i.val]) + TextLength[i.val]
          [] i.kind = "message" -> VarintSize(SizeWithin(i.val)) + SizeWithin(i.val)
SizeOf(wire, SizeWithin(_)) == FoldLeft(LAMBDA n, i : n + ItemSize(i, SizeWithin), 0, wire)

\* The number of bytes a wire takes.  The classes nest three deep.
PosSize(wire)  == SizeOf(wire, LAMBDA w : 0)
GridSize(wire) == SizeOf(wire, PosSize)
WireSize(wire) == SizeOf(wire, GridSize)

IntSize(m, f)  == IF Has(m, f) THEN 1 + VarintSize(m[f]) ELSE 0
BoolSize(m, f) == IF Has(m, f) THEN 1 + 1 ELSE 0
TextSize(m, f) ==
    IF Has(m, f) THEN 1 + VarintSize(TextLength[m[f]]) + TextLength[m[f]] ELSE 0
MessageSize(m, f, ByteSize(_)) ==
    IF Has(m, f) THEN 1 + VarintSize(ByteSize(m[f])) + ByteSize(m[f]) ELSE 0
UnknownSize(m) == WireSize(m.unknown)

--------------------------------------------------------------------------------
(* Complete objects: the fields that must be set, those that may be, and the   *)
(* values they take.                                                           *)

Class(m, required, optional) ==
    /\ DOMAIN required \subseteq DOMAIN m
    /\ DOMAIN m \subseteq DOMAIN required \cup DOMAIN optional \cup {"unknown"}
    /\ \A f \in DOMAIN required : required[f] # {} => m[f] \in required[f]
    /\ \A f \in DOMAIN m \cap DOMAIN optional : optional[f] # {} => m[f] \in optional[f]

\* The field is a sub-message: it has a class of its own, which is asked for it.
Sub == {}
NoField == [f \in {} |-> {}]

SystemQuery_Class(m) == Class(m, [cmd |-> Text], [topic |-> Text])
SystemAns_Class(m)   == Class(m, [id |-> Int32, content |-> Text], NoField)
RoomInfo_Class(m) ==
    Class(m, [name |-> Text, createdTime |-> Text, owner |-> Text], [rival |-> Text])
ShowInfo_Class(m) ==
    /\ Class(m, NoField, [ri |-> Sub])
    /\ \A i \in DOMAIN Repeated(m, "ri") : RoomInfo_Class(m.ri[i])
Pos_Class(m) == Class(m, [x |-> Int32, y |-> Int32], NoField)
GridInfo_Class(m) ==
    /\ Class(m, [o |-> Sub, r |-> Sub, grid |-> Text, type |-> Int64, topic |-> Text,
                 ownerScore |-> Int64, rivalScore |-> Int64, isownertune |-> BOOLEAN,
                 ownercanmove |-> BOOLEAN, rivalcanmove |-> BOOLEAN], NoField)
    /\ Pos_Class(m.o) /\ Pos_Class(m.r)
boardQuery_Class(m) ==
    Class(m, [x |-> Sub, type |-> Int64, topic |-> Text], NoField) /\ Pos_Class(m.x)
boardAns_Class(m) ==
    Class(m, [code |-> Int64], [g |-> Sub]) /\ (Has(m, "g") => GridInfo_Class(m.g))
finalInfo_Class(m) == Class(m, [ownerScore |-> Int32, rivalScore |-> Int32], NoField)

--------------------------------------------------------------------------------
(* class SystemQuery                                                           *)

SystemQuery_MergePartial(m, i) ==
    CASE Is(i, 2, "text") -> ReadValue(m, "cmd", i)
      [] Is(i, 3, "text") -> ReadValue(m, "topic", i)
      [] OTHER -> SkipField(m, i)
SystemQuery_Serialize(m) == WriteText(m, 2, "cmd") \o WriteText(m, 3, "topic") \o m.unknown
SystemQuery_ByteSize(m) == TextSize(m, "cmd") + TextSize(m, "topic") + UnknownSize(m)
SystemQuery_MergeFrom(a, b) == MergeSet(a, b, {"cmd", "topic"})
SystemQuery_IsInitialized(m) == Has(m, "cmd")

(* class SystemAns                                                             *)

SystemAns_MergePartial(m, i) ==
    CASE Is(i, 1, "int")  -> ReadValue(m, "id", i)
      [] Is(i, 2, "text") -> ReadValue(m, "content", i)
      [] OTHER -> SkipField(m, i)
SystemAns_Serialize(m) == WriteInt(m, 1, "id") \o WriteText(m, 2, "content") \o m.unknown
SystemAns_ByteSize(m) == IntSize(m, "id") + TextSize(m, "content") + UnknownSize(m)
SystemAns_MergeFrom(a, b) == MergeSet(a, b, {"id", "content"})
SystemAns_IsInitialized(m) == Has(m, "id") /\ Has(m, "content")

(* class RoomInfo                                                              *)

RoomInfo_MergePartial(m, i) ==
    CASE Is(i, 1, "text") -> ReadValue(m, "name", i)
      [] Is(i, 2, "text") -> ReadValue(m, "createdTime", i)
      [] Is(i, 3, "text") -> ReadValue(m, "owner", i)
      [] Is(i, 4, "text") -> ReadValue(m, "rival", i)
      [] OTHER -> SkipField(m, i)
RoomInfo_Serialize(m) ==
    WriteText(m, 1, "name") \o WriteText(m, 2, "createdTime") \o
    WriteText(m, 3, "owner") \o WriteText(m, 4, "rival") \o m.unknown
RoomInfo_ByteSize(m) ==
    TextSize(m, "name") + TextSize(m, "createdTime") + TextSize(m, "owner")
    + TextSize(m, "rival") + UnknownSize(m)
RoomInfo_MergeFrom(a, b) == MergeSet(a, b, {"name", "createdTime", "owner", "rival"})
RoomInfo_IsInitialized(m) == Has(m, "name") /\ Has(m, "createdTime") /\ Has(m, "owner")

(* class ShowInfo: its only field is repeated.                                 *)

add_ri(m, ri) == Put(m, "ri", Append(Repeated(m, "ri"), ri))
ShowInfo_Into(i) == IF Is(i, 1, "message") THEN "ri" ELSE NoMessage
ShowInfo_MergePartial(m, i) == SkipField(m, i)
ShowInfo_Serialize(m) ==
    [k \in DOMAIN Repeated(m, "ri") |-> Item(1, "message", RoomInfo_Serialize(m.ri[k]))]
    \o m.unknown
ShowInfo_ByteSize(m) ==
    FoldLeft(LAMBDA n, ri : n + 1 + VarintSize(RoomInfo_ByteSize(ri)) + RoomInfo_ByteSize(ri),
             0, Repeated(m, "ri")) + UnknownSize(m)
ShowInfo_MergeFrom(a, b) ==
    LET m == Put(a, "unknown", a.unknown \o b.unknown)
    IN  IF Has(b, "ri") THEN Put(m, "ri", Repeated(a, "ri") \o b.ri) ELSE m
ShowInfo_IsInitialized(m) == \A k \in DOMAIN Repeated(m, "ri") : RoomInfo_IsInitialized(m.ri[k])

(* class Pos                                                                   *)

\* Seeded fault: the size of y is left out.
Pos_ByteSizeXOnly(m) == IntSize(m, "x") + UnknownSize(m)

Pos_MergePartial(m, i) ==
    CASE Is(i, 1, "int") -> ReadValue(m, "x", i)
      [] Is(i, 2, "int") -> ReadValue(m, "y", i)
      [] OTHER -> SkipField(m, i)
Pos_Serialize(m) == WriteInt(m, 1, "x") \o WriteInt(m, 2, "y") \o m.unknown
Pos_ByteSize(m) == IntSize(m, "x") + IntSize(m, "y") + UnknownSize(m)
Pos_MergeFrom(a, b) == MergeSet(a, b, {"x", "y"})
Pos_IsInitialized(m) == Has(m, "x") /\ Has(m, "y")

(* class GridInfo                                                              *)

\* Seeded fault: the places of the two pieces are written into each other's field.
GridInfo_SerializeSwapped(m) ==
    WriteMessage(m, 1, "r", Pos_Serialize) \o WriteMessage(m, 2, "o", Pos_Serialize) \o
    WriteText(m, 3, "grid") \o WriteInt(m, 4, "type") \o WriteText(m, 5, "topic") \o
    WriteInt(m, 6, "ownerScore") \o WriteInt(m, 7, "rivalScore") \o
    WriteBool(m, 8, "isownertune") \o WriteBool(m, 9, "ownercanmove") \o
    WriteBool(m, 10, "rivalcanmove") \o m.unknown

GridInfo_Into(i) ==
    CASE Is(i, 1, "message") -> "o"
      [] Is(i, 2, "message") -> "r"
      [] OTHER -> NoMessage
GridInfo_MergePartial(m, i) ==
    CASE Is(i, 3, "text") -> ReadValue(m, "grid", i)
      [] Is(i, 4, "int")  -> ReadValue(m, "type", i)
      [] Is(i, 5, "text") -> ReadValue(m, "topic", i)
      [] Is(i, 6, "int")  -> ReadValue(m, "ownerScore", i)
      [] Is(i, 7, "int")  -> ReadValue(m, "rivalScore", i)
      [] Is(i, 8, "int")  -> ReadBool(m, "isownertune", i)
      [] Is(i, 9, "int")  -> ReadBool(m, "ownercanmove", i)
      [] Is(i, 10, "int") -> ReadBool(m, "rivalcanmove", i)
      [] OTHER -> SkipField(m, i)
GridInfo_Serialize(m) ==
    WriteMessage(m, 1, "o", Pos_Serialize) \o WriteMessage(m, 2, "r", Pos_Serialize) \o
    WriteText(m, 3, "grid") \o WriteInt(m, 4, "type") \o WriteText(m, 5, "topic") \o
    WriteInt(m, 6, "ownerScore") \o WriteInt(m, 7, "rivalScore") \o
    WriteBool(m, 8, "isownertune") \o WriteBool(m, 9, "ownercanmove") \o
    WriteBool(m, 10, "rivalcanmove") \o m.unknown
GridInfo_ByteSize(m) ==
    MessageSize(m, "o", Pos_ByteSize) + MessageSize(m, "r", Pos_ByteSize)
    + TextSize(m, "grid") + IntSize(m, "type") + TextSize(m, "topic")
    + IntSize(m, "ownerScore") + IntSize(m, "rivalScore") + BoolSize(m, "isownertune")
    + BoolSize(m, "ownercanmove") + BoolSize(m, "rivalcanmove") + UnknownSize(m)
MergeMessage(a, b, f, MergeFrom(_, _)) ==
    IF Has(b, f) THEN Put(a, f, MergeFrom(Mutable(a, f), b[f])) ELSE a
GridInfo_MergeFrom(a, b) ==
    MergeSet(MergeMessage(MergeMessage(a, b, "o", Pos_MergeFrom), b, "r", Pos_MergeFrom), b,
             {"grid", "type", "topic", "ownerScore", "rivalScore", "isownertune",
              "ownercanmove", "rivalcanmove"})
GridInfo_IsInitialized(m) ==
    /\ {"o", "r", "grid", "type", "topic", "ownerScore", "rivalScore", "isownertune",
        "ownercanmove", "rivalcanmove"} \subseteq DOMAIN m
    /\ Pos_IsInitialized(m.o) /\ Pos_IsInitialized(m.r)

(* class boardQuery                                                            *)

\* Seeded fault: a sub-message is replaced instead of being merged into.
boardQuery_MergeFromReplacing(a, b) == MergeSet(a, b, {"x", "type", "topic"})

boardQuery_Into(i) == IF Is(i, 1, "message") THEN "x" ELSE NoMessage
boardQuery_MergePartial(m, i) ==
    CASE Is(i, 2, "int")  -> ReadValue(m, "type", i)
      [] Is(i, 3, "text") -> ReadValue(m, "topic", i)
      [] OTHER -> SkipField(m, i)
boardQuery_Serialize(m) ==
    WriteMessage(m, 1, "x", Pos_Serialize) \o WriteInt(m, 2, "type") \o
    WriteText(m, 3, "topic") \o m.unknown
boardQuery_ByteSize(m) ==
    MessageSize(m, "x", Pos_ByteSize) + IntSize(m, "type") + TextSize(m, "topic")
    + UnknownSize(m)
boardQuery_MergeFrom(a, b) ==
    MergeSet(MergeMessage(a, b, "x", Pos_MergeFrom), b, {"type", "topic"})
boardQuery_IsInitialized(m) ==
    {"x", "type", "topic"} \subseteq DOMAIN m /\ Pos_IsInitialized(m.x)

(* class boardAns                                                              *)

\* Seeded fault: the optional board is not asked whether it is complete.
boardAns_IsInitializedOutside(m) == Has(m, "code")

boardAns_Into(i) == IF Is(i, 2, "message") THEN "g" ELSE NoMessage
boardAns_MergePartial(m, i) ==
    IF Is(i, 1, "int") THEN ReadValue(m, "code", i) ELSE SkipField(m, i)
boardAns_Serialize(m) ==
    WriteInt(m, 1, "code") \o WriteMessage(m, 2, "g", GridInfo_Serialize) \o m.unknown
boardAns_ByteSize(m) ==
    IntSize(m, "code") + MessageSize(m, "g", GridInfo_ByteSize) + UnknownSize(m)
boardAns_MergeFrom(a, b) ==
    MergeSet(MergeMessage(a, b, "g", GridInfo_MergeFrom), b, {"code"})
boardAns_IsInitialized(m) ==
    Has(m, "code") /\ (Has(m, "g") => GridInfo_IsInitialized(m.g))

(* class finalInfo                                                             *)

finalInfo_MergePartial(m, i) ==
    CASE Is(i, 1, "int") -> ReadValue(m, "ownerScore", i)
      [] Is(i, 2, "int") -> ReadValue(m, "rivalScore", i)
      [] OTHER -> SkipField(m, i)
finalInfo_Serialize(m) ==
    WriteInt(m, 1, "ownerScore") \o WriteInt(m, 2, "rivalScore") \o m.unknown
finalInfo_ByteSize(m) == IntSize(m, "ownerScore") + IntSize(m, "rivalScore") + UnknownSize(m)
finalInfo_MergeFrom(a, b) == MergeSet(a, b, {"ownerScore", "rivalScore"})
finalInfo_IsInitialized(m) == Has(m, "ownerScore") /\ Has(m, "rivalScore")

================================================================================
