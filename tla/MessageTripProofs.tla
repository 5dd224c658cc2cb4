---------------------------- MODULE MessageTripProofs ----------------------------
(***************************************************************************)
(* What a reader of a message may hold at any moment, whatever has come    *)
(* down the wire, and that what one of the program's places sends is read  *)
(* as it was sent: for any texts and any numbers, any length of the wire   *)
(* and any place of an unknown field in it.                                *)
(***************************************************************************)
EXTENDS MessageTrip, SequenceTheorems, TLAPS

--------------------------------------------------------------------------------
(* What an object may hold while it is read.                                   *)

Classes == {"SystemQuery", "SystemAns", "RoomInfo", "ShowInfo", "Pos", "GridInfo",
            "boardQuery", "boardAns", "finalInfo"}

\* The fields of each class, and the values they take.
Values == [
    SystemQuery |-> [cmd |-> Text, topic |-> Text],
    SystemAns   |-> [id |-> Int32, content |-> Text],
    RoomInfo    |-> [name |-> Text, createdTime |-> Text, owner |-> Text, rival |-> Text],
    ShowInfo    |-> [ri |-> Sub],
    Pos         |-> [x |-> Int32, y |-> Int32],
    GridInfo    |-> [o |-> Sub, r |-> Sub, grid |-> Text, type |-> Int64, topic |-> Text,
                     ownerScore |-> Int64, rivalScore |-> Int64, isownertune |-> BOOLEAN,
                     ownercanmove |-> BOOLEAN, rivalcanmove |-> BOOLEAN],
    boardQuery  |-> [x |-> Sub, type |-> Int64, topic |-> Text],
    boardAns    |-> [code |-> Int64, g |-> Sub],
    finalInfo   |-> [ownerScore |-> Int32, rivalScore |-> Int32]]

\* No field but those of its class, and none with a value of another type.
Partial(c, m) == Class(m, NoField, Values[c])

\* The fields fs that are set hold places of pieces.
PlacesIn(m, fs) == \A f \in fs \cap DOMAIN m : Partial("Pos", m[f])

Rooms(m) ==
    /\ Repeated(m, "ri") \in Seq(Range(Repeated(m, "ri")))
    /\ \A k \in DOMAIN Repeated(m, "ri") : Partial("RoomInfo", m.ri[k])

\* So it is at every depth.
Sound(c, m) ==
    /\ Partial(c, m)
    /\ c = "ShowInfo" => Rooms(m)
    /\ c = "GridInfo" => PlacesIn(m, {"o", "r"})
    /\ c = "boardQuery" => PlacesIn(m, {"x"})
    /\ c = "boardAns" /\ Has(m, "g") => Partial("GridInfo", m.g) /\ PlacesIn(m.g, {"o", "r"})

--------------------------------------------------------------------------------
(* What a wire may hold.                                                       *)

\* Numbers, texts, and under the numbers nums messages that hold items inside.
Written(nums, inside) ==
    [num : Nat \ nums, kind : {"int"}, val : Int32]
    \cup [num : Nat \ nums, kind : {"text"}, val : Text]
    \cup [num : nums, kind : {"message"}, val : Seq(inside)]

\* What else may arrive: another number for a message, or an item that is malformed.
Arriving(nums, inside) ==
    Written(nums, inside)
    \cup [num : nums, kind : {"int"}, val : Int32]
    \cup [num : Nat, kind : {"malformed"}, val : {Blank}]

\* The wires of each class, whose messages hold items of the kind Items.
Items(Kind(_, _), c) ==
    CASE c = "ShowInfo"   -> Kind({1}, Kind({}, {}))
      [] c = "GridInfo"   -> Kind({1, 2}, Kind({}, {}))
      [] c = "boardQuery" -> Kind({1}, Kind({}, {}))
      [] c = "boardAns"   -> Kind({2}, Kind({1, 2}, Kind({}, {})))
      [] OTHER            -> Kind({}, {})

\* Field f of class c is a message.
IsSub(c, f) ==
    <<c, f>> \in {<<"ShowInfo", "ri">>, <<"GridInfo", "o">>, <<"GridInfo", "r">>,
                  <<"boardQuery", "x">>, <<"boardAns", "g">>}

--------------------------------------------------------------------------------
(* The invariant.                                                              *)

\* A reader of class c that has read g and is to read r.
Frame(c, g, r) == c \in Classes /\ Sound(c, g) /\ r \in Seq(Items(Arriving, c))

\* The class whose reader was called by callers[k].
CalledBy(k) == IF k = 1 THEN class ELSE callers[k - 1].class

\* Every reader that waits has called the reader of one of its fields.
CallersWait ==
    /\ callers \in Seq(Range(callers))
    /\ \A k \in DOMAIN callers :
           /\ Frame(callers[k].class, callers[k].got, callers[k].rest)
           /\ IsSub(callers[k].class, callers[k].into)
           /\ ClassOf(callers[k].into) = CalledBy(k)
    /\ type = IF callers = <<>> THEN class ELSE callers[Len(callers)].class

\* What is read and what is to be read is of the class of its reader, in every reader
\* that runs or waits.
IInv ==
    /\ type \in MessageType
    /\ status \in {"built", "reading", "delivered", "refused"}
    /\ status = "built" => sent \in Sendable[type] /\ callers = <<>>
    /\ Frame(class, got, rest)
    /\ CallersWait
    /\ status = "delivered" => callers = <<>> /\ IsInitialized(type, got)

--------------------------------------------------------------------------------
(* Reading keeps an object sound.                                              *)

\* A field may be given any value of its type, and the unknown fields any.
LEMMA PutPartial ==
    ASSUME NEW c, NEW m, NEW f, NEW v, Partial(c, m),
           f = "unknown" \/ (f \in DOMAIN Values[c] /\ (Values[c][f] # {} => v \in Values[c][f])),
           "unknown" \notin DOMAIN Values[c]
    PROVE  Partial(c, Put(m, f, v))
  <1>1. DOMAIN NoField = {}
    BY DEF NoField
  <1>2. DOMAIN m \subseteq DOMAIN Values[c] \cup {"unknown"}
    BY <1>1 DEF Partial, Class
  <1>3. \A g \in DOMAIN m \cap DOMAIN Values[c] : Values[c][g] # {} => m[g] \in Values[c][g]
    BY DEF Partial, Class
  <1>4. DOMAIN Put(m, f, v) \subseteq DOMAIN Values[c] \cup {"unknown"}
    BY <1>2 DEF Put
  <1>5. \A g \in DOMAIN Put(m, f, v) \cap DOMAIN Values[c] :
            Values[c][g] # {} => Put(m, f, v)[g] \in Values[c][g]
    BY <1>3 DEF Put
  <1>6. QED
    BY <1>1, <1>4, <1>5 DEF Partial, Class

\* No class has a field called "unknown".
LEMMA ValuesFacts ==
    ASSUME NEW c \in Classes
    PROVE  "unknown" \notin DOMAIN Values[c]
  BY DEF Values, Classes

\* For a field that is a message the table of values says nothing.
LEMMA SubFacts ==
    ASSUME NEW c, NEW f, IsSub(c, f)
    PROVE  f \in DOMAIN Values[c] /\ Values[c][f] = {}
  BY DEF IsSub, Values, Sub

\* Writing a value of its type, or an unknown field, disturbs no message within.
LEMMA PutSound ==
    ASSUME NEW c \in Classes, NEW m, NEW f, NEW v, Sound(c, m), ~ IsSub(c, f),
           f = "unknown" \/ (f \in DOMAIN Values[c] /\ v \in Values[c][f])
    PROVE  Sound(c, Put(m, f, v))
  <1>2. Partial(c, Put(m, f, v))
    BY ValuesFacts, PutPartial DEF Sound
  <1>3. c = "ShowInfo" => Rooms(Put(m, f, v))
    <2>1. SUFFICES ASSUME c = "ShowInfo" PROVE Rooms(Put(m, f, v))
      OBVIOUS
    <2>2. f # "ri"
      BY <2>1 DEF IsSub
    <2>3. Rooms(m)
      BY <2>1 DEF Sound
    <2>4. Has(Put(m, f, v), "ri") <=> Has(m, "ri")
      BY <2>2 DEF Has, Put
    <2>5. Has(m, "ri") => Put(m, f, v).ri = m.ri
      BY <2>2 DEF Has, Put
    <2>6. QED
      BY <2>3, <2>4, <2>5 DEF Rooms, Repeated
  <1>4. c = "GridInfo" => PlacesIn(Put(m, f, v), {"o", "r"})
    BY DEF IsSub, Sound, PlacesIn, Put
  <1>5. c = "boardQuery" => PlacesIn(Put(m, f, v), {"x"})
    BY DEF IsSub, Sound, PlacesIn, Put
  <1>6. c = "boardAns" /\ Has(Put(m, f, v), "g")
            => Has(m, "g") /\ Put(m, f, v).g = m.g
    BY DEF IsSub, Has, Put
  <1>7. QED
    BY <1>2, <1>3, <1>4, <1>5, <1>6 DEF Sound

\* The items of the nine classes: those that hold no message, those that hold places
\* or rooms, and boardAns, which holds a board.
LEMMA ItemsFacts ==
    /\ \A c \in Classes \ {"ShowInfo", "GridInfo", "boardQuery", "boardAns"} :
           Items(Arriving, c) = Arriving({}, {})
    /\ Items(Arriving, "ShowInfo") = Arriving({1}, Arriving({}, {}))
    /\ Items(Arriving, "GridInfo") = Arriving({1, 2}, Arriving({}, {}))
    /\ Items(Arriving, "boardQuery") = Arriving({1}, Arriving({}, {}))
    /\ Items(Arriving, "boardAns") = Arriving({2}, Arriving({1, 2}, Arriving({}, {})))
  BY Zenon DEF Items, Classes

\* An item that can be read is a message, under one of its numbers, or it is none.
LEMMA ArrivingFacts ==
    ASSUME NEW nums \in SUBSET Nat, NEW inside,
           NEW i \in Arriving(nums, inside), i.kind # "malformed"
    PROVE  /\ \A n \in nums : Is(i, n, "message") => i.val \in Seq(inside)
           /\ (\A n \in nums : ~ Is(i, n, "message"))
                => \/ i.kind = "int" /\ i.val \in Int32
                   \/ i.kind = "text" /\ i.val \in Text
  BY DEF Arriving, Written, Is, WireType

\* An item is read by the class itself, or it is a message of one of its fields.
LEMMA ItemFacts ==
    ASSUME NEW c \in Classes, NEW i \in Items(Arriving, c), i.kind # "malformed"
    PROVE  \/ /\ Into(c, i) = NoMessage
              /\ \/ i.kind = "int" /\ i.val \in Int32
                 \/ i.kind = "text" /\ i.val \in Text
           \/ /\ IsSub(c, Into(c, i)) /\ Into(c, i) # NoMessage
              /\ ClassOf(Into(c, i)) \in Classes
              /\ i.val \in Seq(Items(Arriving, ClassOf(Into(c, i))))
  <1>1. CASE c \in Classes \ {"ShowInfo", "GridInfo", "boardQuery", "boardAns"}
    <2>1. i \in Arriving({}, {})
      BY <1>1, ItemsFacts
    <2>2. Into(c, i) = NoMessage
      BY <1>1 DEF Into
    <2>3. QED
      BY <2>1, <2>2, ArrivingFacts
  <1>2. CASE c = "ShowInfo"
    <2>1. i \in Arriving({1}, Arriving({}, {}))
      BY <1>2, ItemsFacts
    <2>2. Into(c, i) = IF Is(i, 1, "message") THEN "ri" ELSE NoMessage
      BY <1>2 DEF Into, ShowInfo_Into
    <2>3. ClassOf("ri") = "RoomInfo" /\ Items(Arriving, "RoomInfo") = Arriving({}, {})
      BY ItemsFacts DEF ClassOf, Classes
    <2>4. \/ \E n \in {1} : Is(i, n, "message") /\ i.val \in Seq(Arriving({}, {}))
          \/ /\ \A n \in {1} : ~ Is(i, n, "message")
             /\ \/ i.kind = "int" /\ i.val \in Int32
                \/ i.kind = "text" /\ i.val \in Text
      BY <2>1, ArrivingFacts
    <2>5. QED
      BY <1>2, <2>2, <2>3, <2>4 DEF NoMessage, IsSub, Classes
  <1>3. CASE c = "GridInfo"
    <2>1. i \in Arriving({1, 2}, Arriving({}, {}))
      BY <1>3, ItemsFacts
    <2>2. Into(c, i) = IF Is(i, 1, "message") THEN "o"
                       ELSE IF Is(i, 2, "message") THEN "r" ELSE NoMessage
      BY <1>3 DEF Into, GridInfo_Into, Is
    <2>3. ClassOf("o") = "Pos" /\ ClassOf("r") = "Pos" /\ Items(Arriving, "Pos") = Arriving({}, {})
      BY ItemsFacts DEF ClassOf, Classes
    <2>4. \/ \E n \in {1, 2} : Is(i, n, "message") /\ i.val \in Seq(Arriving({}, {}))
          \/ /\ \A n \in {1, 2} : ~ Is(i, n, "message")
             /\ \/ i.kind = "int" /\ i.val \in Int32
                \/ i.kind = "text" /\ i.val \in Text
      BY <2>1, ArrivingFacts
    <2>5. QED
      BY <1>3, <2>2, <2>3, <2>4 DEF NoMessage, IsSub, Classes
  <1>4. CASE c = "boardQuery"
    <2>1. i \in Arriving({1}, Arriving({}, {}))
      BY <1>4, ItemsFacts
    <2>2. Into(c, i) = IF Is(i, 1, "message") THEN "x" ELSE NoMessage
      BY <1>4 DEF Into, boardQuery_Into
    <2>3. ClassOf("x") = "Pos" /\ Items(Arriving, "Pos") = Arriving({}, {})
      BY ItemsFacts DEF ClassOf, Classes
    <2>4. \/ \E n \in {1} : Is(i, n, "message") /\ i.val \in Seq(Arriving({}, {}))
          \/ /\ \A n \in {1} : ~ Is(i, n, "message")
             /\ \/ i.kind = "int" /\ i.val \in Int32
                \/ i.kind = "text" /\ i.val \in Text
      BY <2>1, ArrivingFacts
    <2>5. QED
      BY <1>4, <2>2, <2>3, <2>4 DEF NoMessage, IsSub, Classes
  <1>5. CASE c = "boardAns"
    <2>1. i \in Arriving({2}, Arriving({1, 2}, Arriving({}, {})))
      BY <1>5, ItemsFacts
    <2>2. Into(c, i) = IF Is(i, 2, "message") THEN "g" ELSE NoMessage
      BY <1>5 DEF Into, boardAns_Into
    <2>3. ClassOf("g") = "GridInfo"
          /\ Items(Arriving, "GridInfo") = Arriving({1, 2}, Arriving({}, {}))
      BY ItemsFacts DEF ClassOf
    <2>4. \/ \E n \in {2} : Is(i, n, "message") /\ i.val \in Seq(Arriving({1, 2}, Arriving({}, {})))
          \/ /\ \A n \in {2} : ~ Is(i, n, "message")
             /\ \/ i.kind = "int" /\ i.val \in Int32
                \/ i.kind = "text" /\ i.val \in Text
      BY <2>1, ArrivingFacts
    <2>5. QED
      BY <1>5, <2>2, <2>3, <2>4 DEF NoMessage, IsSub, Classes
  <1>6. QED
    BY <1>1, <1>2, <1>3, <1>4, <1>5 DEF Classes

\* A turn of the loop keeps the object sound: values go into fields of their type.
LEMMA ReadingIsSound ==
    ASSUME NEW c \in Classes, NEW m, Sound(c, m), NEW i,
           \/ i.kind = "int" /\ i.val \in Int32
           \/ i.kind = "text" /\ i.val \in Text
    PROVE  Sound(c, MergePartial(c, m, i))
  <1>1. \A f, v : ~ IsSub(c, f) /\ f \in DOMAIN Values[c] /\ v \in Values[c][f]
                 => Sound(c, Put(m, f, v))
    BY PutSound
  <1>2. Sound(c, SkipField(m, i))
    <2>1. ~ IsSub(c, "unknown")
      BY DEF IsSub
    <2>2. QED
      BY <2>1, PutSound DEF SkipField
  <1>3. CASE c = "SystemQuery"
    <2>1. MergePartial(c, m, i) = SystemQuery_MergePartial(m, i)
      BY <1>3, Zenon DEF MergePartial
    <2>2. i.kind = "text" =>
           /\ Sound(c, ReadValue(m, "cmd", i))
           /\ Sound(c, ReadValue(m, "topic", i))
      BY <1>1, <1>3 DEF ReadValue, IsSub, Values
    <2>3. QED
      BY <2>1, <1>2, <2>2 DEF SystemQuery_MergePartial, Is, WireType
  <1>4. CASE c = "SystemAns"
    <2>1. MergePartial(c, m, i) = SystemAns_MergePartial(m, i)
      BY <1>4, Zenon DEF MergePartial
    <2>2. i.kind = "int" =>
           Sound(c, ReadValue(m, "id", i))
      BY <1>1, <1>4 DEF ReadValue, IsSub, Values
    <2>3. i.kind = "text" =>
           Sound(c, ReadValue(m, "content", i))
      BY <1>1, <1>4 DEF ReadValue, IsSub, Values
    <2>4. QED
      BY <2>1, <1>2, <2>2, <2>3 DEF SystemAns_MergePartial, Is, WireType
  <1>5. CASE c = "RoomInfo"
    <2>1. MergePartial(c, m, i) = RoomInfo_MergePartial(m, i)
      BY <1>5, Zenon DEF MergePartial
    <2>2. i.kind = "text" =>
           /\ Sound(c, ReadValue(m, "name", i))
           /\ Sound(c, ReadValue(m, "createdTime", i))
           /\ Sound(c, ReadValue(m, "owner", i))
           /\ Sound(c, ReadValue(m, "rival", i))
      BY <1>1, <1>5 DEF ReadValue, IsSub, Values
    <2>3. QED
      BY <2>1, <1>2, <2>2 DEF RoomInfo_MergePartial, Is, WireType
  <1>6. CASE c = "ShowInfo"
    <2>1. MergePartial(c, m, i) = ShowInfo_MergePartial(m, i)
      BY <1>6, Zenon DEF MergePartial
    <2>2. QED
      BY <2>1, <1>2 DEF ShowInfo_MergePartial, Is, WireType
  <1>7. CASE c = "Pos"
    <2>1. MergePartial(c, m, i) = Pos_MergePartial(m, i)
      BY <1>7, Zenon DEF MergePartial
    <2>2. i.kind = "int" =>
           /\ Sound(c, ReadValue(m, "x", i))
           /\ Sound(c, ReadValue(m, "y", i))
      BY <1>1, <1>7 DEF ReadValue, IsSub, Values
    <2>3. QED
      BY <2>1, <1>2, <2>2 DEF Pos_MergePartial, Is, WireType
  <1>8. CASE c = "GridInfo"
    <2>1. MergePartial(c, m, i) = GridInfo_MergePartial(m, i)
      BY <1>8, Zenon DEF MergePartial
    <2>2. i.kind = "int" =>
           /\ Sound(c, ReadValue(m, "type", i))
           /\ Sound(c, ReadValue(m, "ownerScore", i))
           /\ Sound(c, ReadValue(m, "rivalScore", i))
      BY <1>1, <1>8 DEF ReadValue, IsSub, Values, Int32, Int64
    <2>3. i.kind = "text" =>
           /\ Sound(c, ReadValue(m, "grid", i))
           /\ Sound(c, ReadValue(m, "topic", i))
      BY <1>1, <1>8 DEF ReadValue, IsSub, Values, Int32, Int64
    <2>4. /\ Sound(c, ReadBool(m, "isownertune", i))
          /\ Sound(c, ReadBool(m, "ownercanmove", i))
          /\ Sound(c, ReadBool(m, "rivalcanmove", i))
      <3>1. (i.val # 0) \in BOOLEAN
        OBVIOUS
      <3>2. QED
        BY <3>1, <1>1, <1>8 DEF ReadBool, IsSub, Values
    <2>5. QED
      BY <2>1, <1>2, <2>2, <2>3, <2>4 DEF GridInfo_MergePartial, Is, WireType
  <1>9. CASE c = "boardQuery"
    <2>1. MergePartial(c, m, i) = boardQuery_MergePartial(m, i)
      BY <1>9, Zenon DEF MergePartial
    <2>2. i.kind = "int" =>
           Sound(c, ReadValue(m, "type", i))
      BY <1>1, <1>9 DEF ReadValue, IsSub, Values, Int32, Int64
    <2>3. i.kind = "text" =>
           Sound(c, ReadValue(m, "topic", i))
      BY <1>1, <1>9 DEF ReadValue, IsSub, Values, Int32, Int64
    <2>4. QED
      BY <2>1, <1>2, <2>2, <2>3 DEF boardQuery_MergePartial, Is, WireType
  <1>10. CASE c = "boardAns"
    <2>1. MergePartial(c, m, i) = boardAns_MergePartial(m, i)
      BY <1>10, Zenon DEF MergePartial
    <2>2. i.kind = "int" =>
           Sound(c, ReadValue(m, "code", i))
      BY <1>1, <1>10 DEF ReadValue, IsSub, Values, Int32, Int64
    <2>3. QED
      BY <2>1, <1>2, <2>2 DEF boardAns_MergePartial, Is, WireType
  <1>11. CASE c = "finalInfo"
    <2>1. MergePartial(c, m, i) = finalInfo_MergePartial(m, i)
      BY <1>11, Zenon DEF MergePartial
    <2>2. i.kind = "int" =>
           /\ Sound(c, ReadValue(m, "ownerScore", i))
           /\ Sound(c, ReadValue(m, "rivalScore", i))
      BY <1>1, <1>11 DEF ReadValue, IsSub, Values
    <2>3. QED
      BY <2>1, <1>2, <2>2 DEF finalInfo_MergePartial, Is, WireType
  <1>12. QED
    BY <1>3, <1>4, <1>5, <1>6, <1>7, <1>8, <1>9, <1>10, <1>11 DEF Classes

\* An object that has just been made is sound.
LEMMA NewSound == ASSUME NEW c \in Classes PROVE Sound(c, New)
  <1>1. DOMAIN New = {"unknown"}
    BY DEF New
  <1>2. Partial(c, New)
    BY <1>1, ValuesFacts DEF Partial, Class, NoField
  <1>3. Repeated(New, "ri") = <<>>
    BY <1>1 DEF Repeated, Has
  <1>4. Rooms(New)
    <2>1. <<>> \in Seq(Range(<<>>)) /\ DOMAIN <<>> = {}
      BY EmptySeq, LenProperties
    <2>2. QED
      BY <1>3, <2>1 DEF Rooms
  <1>5. QED
    BY <1>1, <1>2, <1>4 DEF Sound, PlacesIn, Has

\* The reader that is called goes on with a sound object of the field's class.
LEMMA EnteringIsSound ==
    ASSUME NEW c, NEW m, Sound(c, m), NEW f, IsSub(c, f)
    PROVE  Sound(ClassOf(f), IF f = "ri" THEN New ELSE Mutable(m, f))
  <1>1. CASE f = "ri"
    <2>1. ClassOf(f) = "RoomInfo"
      BY <1>1, Zenon DEF ClassOf
    <2>2. QED
      BY <1>1, <2>1, NewSound DEF Classes
  <1>2. CASE f \in {"o", "r", "x"}
    <2>1. ClassOf(f) = "Pos"
      BY <1>2 DEF ClassOf
    <2>2. Has(m, f) => Sound("Pos", m[f])
      BY <1>2 DEF IsSub, Sound, PlacesIn, Has
    <2>3. QED
      BY <1>2, <2>1, <2>2, NewSound DEF Mutable, Classes
  <1>3. CASE f = "g"
    <2>1. ClassOf(f) = "GridInfo"
      BY <1>3, Zenon DEF ClassOf
    <2>2. Has(m, f) => Sound("GridInfo", m[f])
      BY <1>3 DEF IsSub, Sound
    <2>3. QED
      BY <1>3, <2>1, <2>2, NewSound DEF Mutable, Classes
  <1>4. QED
    BY <1>1, <1>2, <1>3 DEF IsSub

\* A room more in the list.
LEMMA AddedRoom ==
    ASSUME NEW m, Sound("ShowInfo", m), NEW ri, Partial("RoomInfo", ri)
    PROVE  Sound("ShowInfo", add_ri(m, ri))
  <1> DEFINE old == Repeated(m, "ri")
             S == Range(old) \cup {ri}
             new == Append(old, ri)
  <1>1. old \in Seq(Range(old)) /\ \A k \in DOMAIN old : Partial("RoomInfo", old[k])
    BY DEF Sound, Rooms, Repeated
  <1>2. old \in Seq(S)
    BY <1>1, SeqMonotonic
  <1>3. new \in Seq(S) /\ Len(new) = Len(old) + 1 /\ new[Len(old) + 1] = ri
        /\ \A k \in 1 .. Len(old) : new[k] = old[k]
    BY <1>2, AppendProperties
  <1>4. DOMAIN new = 1 .. Len(old) + 1 /\ DOMAIN old = 1 .. Len(old) /\ Len(old) \in Nat
    BY <1>2, <1>3, LenProperties
  <1>5. new \in Seq(Range(new))
    BY <1>3, SeqOfRange
  <1>6. \A k \in DOMAIN new : Partial("RoomInfo", new[k])
    <2>1. SUFFICES ASSUME NEW k \in 1 .. Len(old) + 1 PROVE Partial("RoomInfo", new[k])
      BY <1>4
    <2>2. CASE k = Len(old) + 1
      BY <2>2, <1>3
    <2>3. CASE k \in 1 .. Len(old)
      BY <2>3, <1>1, <1>3, <1>4
    <2>4. QED
      BY <2>1, <2>2, <2>3, <1>4
  <1>7. Repeated(add_ri(m, ri), "ri") = new /\ add_ri(m, ri).ri = new
    BY DEF add_ri, Repeated, Has, Put
  <1>8. Rooms(add_ri(m, ri))
    BY <1>5, <1>6, <1>7 DEF Rooms
  <1>9. Partial("ShowInfo", add_ri(m, ri))
    <2>1. "ri" \in DOMAIN Values["ShowInfo"] /\ Values["ShowInfo"]["ri"] = {}
      BY SubFacts DEF IsSub
    <2>2. QED
      BY <2>1, PutPartial, ValuesFacts DEF add_ri, Sound, Classes
  <1>10. QED
    BY <1>8, <1>9 DEF Sound

\* What has been read goes back into the field it was read for.
LEMMA LeavingIsSound ==
    ASSUME NEW c \in Classes, NEW m, Sound(c, m), NEW f, IsSub(c, f), NEW s, Sound(ClassOf(f), s)
    PROVE  Sound(c, IF f = "ri" THEN add_ri(m, s) ELSE Put(m, f, s))
  <1>1. CASE f = "ri"
    <2>1. ClassOf(f) = "RoomInfo"
      BY <1>1, Zenon DEF ClassOf
    <2>2. c = "ShowInfo" /\ Partial("RoomInfo", s)
      BY <1>1, <2>1 DEF IsSub, Sound
    <2>3. QED
      BY <1>1, <2>2, AddedRoom
  <1>2. ASSUME f # "ri" PROVE Partial(c, Put(m, f, s)) /\ c # "ShowInfo"
    <2>1. f \in DOMAIN Values[c] /\ Values[c][f] = {}
      BY SubFacts
    <2>2. QED
      BY <1>2, <2>1, PutPartial, ValuesFacts DEF Sound, IsSub
  <1>3. CASE f \in {"o", "r", "x"}
    <2>1. ClassOf(f) = "Pos"
      BY <1>3 DEF ClassOf
    <2>2. Partial("Pos", s)
      BY <2>1 DEF Sound
    <2>3. \A fs : PlacesIn(m, fs) => PlacesIn(Put(m, f, s), fs)
      BY <2>2 DEF PlacesIn, Put
    <2>4. c \in {"GridInfo", "boardQuery"}
      BY <1>3 DEF IsSub
    <2>5. QED
      BY <1>2, <1>3, <2>3, <2>4 DEF Sound
  <1>4. CASE f = "g"
    <2>1. ClassOf(f) = "GridInfo"
      BY <1>4, Zenon DEF ClassOf
    <2>2. Partial("GridInfo", s) /\ PlacesIn(s, {"o", "r"})
      BY <2>1 DEF Sound
    <2>3. Put(m, f, s).g = s
      BY <1>4 DEF Put
    <2>4. c = "boardAns"
      BY <1>4 DEF IsSub
    <2>5. QED
      BY <1>2, <1>4, <2>2, <2>3, <2>4 DEF Sound
  <1>5. QED
    BY <1>1, <1>3, <1>4 DEF IsSub

\* A complete object is one whose fields fit and whose required fields are set.
LEMMA CompleteIfSet ==
    ASSUME NEW m
    PROVE  /\ Partial("SystemQuery", m) /\ SystemQuery_IsInitialized(m) => SystemQuery_Class(m)
           /\ Partial("SystemAns", m) /\ SystemAns_IsInitialized(m) => SystemAns_Class(m)
           /\ Partial("RoomInfo", m) /\ RoomInfo_IsInitialized(m) => RoomInfo_Class(m)
           /\ Partial("Pos", m) /\ Pos_IsInitialized(m) => Pos_Class(m)
           /\ Partial("finalInfo", m) /\ finalInfo_IsInitialized(m) => finalInfo_Class(m)
  <1> USE DEF Partial, Class, Values, NoField, Has
  <1>1. Partial("SystemQuery", m) /\ SystemQuery_IsInitialized(m) => SystemQuery_Class(m)
    BY DEF SystemQuery_IsInitialized, SystemQuery_Class
  <1>2. Partial("SystemAns", m) /\ SystemAns_IsInitialized(m) => SystemAns_Class(m)
    BY DEF SystemAns_IsInitialized, SystemAns_Class
  <1>3. Partial("RoomInfo", m) /\ RoomInfo_IsInitialized(m) => RoomInfo_Class(m)
    BY DEF RoomInfo_IsInitialized, RoomInfo_Class
  <1>4. Partial("Pos", m) /\ Pos_IsInitialized(m) => Pos_Class(m)
    BY DEF Pos_IsInitialized, Pos_Class
  <1>5. Partial("finalInfo", m) /\ finalInfo_IsInitialized(m) => finalInfo_Class(m)
    BY DEF finalInfo_IsInitialized, finalInfo_Class
  <1>6. QED
    BY <1>1, <1>2, <1>3, <1>4, <1>5

\* So it is with those that hold messages, if these are complete too.
LEMMA CompleteWithin ==
    ASSUME NEW m
    PROVE  /\ Sound("ShowInfo", m) /\ ShowInfo_IsInitialized(m) => ShowInfo_Class(m)
           /\ Sound("GridInfo", m) /\ GridInfo_IsInitialized(m) => GridInfo_Class(m)
           /\ Sound("boardQuery", m) /\ boardQuery_IsInitialized(m) => boardQuery_Class(m)
  <1>1. Sound("ShowInfo", m) /\ ShowInfo_IsInitialized(m) => ShowInfo_Class(m)
    <2>1. SUFFICES ASSUME Sound("ShowInfo", m), ShowInfo_IsInitialized(m) PROVE ShowInfo_Class(m)
      OBVIOUS
    <2>2. \A k \in DOMAIN Repeated(m, "ri") : RoomInfo_Class(m.ri[k])
      BY <2>1, CompleteIfSet DEF Sound, Rooms, ShowInfo_IsInitialized
    <2>3. Class(m, NoField, [ri |-> Sub])
      BY <2>1 DEF Sound, Partial, Values
    <2>4. QED
      BY <2>2, <2>3 DEF ShowInfo_Class
  <1>2. Sound("GridInfo", m) /\ GridInfo_IsInitialized(m) => GridInfo_Class(m)
    <2>1. SUFFICES ASSUME Sound("GridInfo", m), GridInfo_IsInitialized(m) PROVE GridInfo_Class(m)
      OBVIOUS
    <2>2. Pos_Class(m.o) /\ Pos_Class(m.r)
      BY <2>1, CompleteIfSet DEF Sound, PlacesIn, GridInfo_IsInitialized
    <2>3. Class(m, Values["GridInfo"], NoField)
      BY <2>1 DEF Sound, Partial, Class, Values, NoField, GridInfo_IsInitialized
    <2>4. QED
      BY <2>2, <2>3 DEF GridInfo_Class, Values
  <1>3. Sound("boardQuery", m) /\ boardQuery_IsInitialized(m) => boardQuery_Class(m)
    <2>1. SUFFICES ASSUME Sound("boardQuery", m), boardQuery_IsInitialized(m)
                   PROVE  boardQuery_Class(m)
      OBVIOUS
    <2>2. Pos_Class(m.x)
      BY <2>1, CompleteIfSet DEF Sound, PlacesIn, boardQuery_IsInitialized
    <2>3. Class(m, Values["boardQuery"], NoField)
      BY <2>1 DEF Sound, Partial, Class, Values, NoField, boardQuery_IsInitialized
    <2>4. QED
      BY <2>2, <2>3 DEF boardQuery_Class, Values
  <1>4. QED
    BY <1>1, <1>2, <1>3

\* What is sound and passes IsInitialized is complete at every depth.
LEMMA CompleteIfInitialized ==
    ASSUME NEW t \in MessageType, NEW m, Sound(t, m), IsInitialized(t, m)
    PROVE  IsComplete(t, m)
  <1>1. CASE t \in {"SystemQuery", "SystemAns", "finalInfo"}
    BY <1>1, CompleteIfSet DEF Sound, IsInitialized, IsComplete
  <1>2. CASE t \in {"ShowInfo", "GridInfo", "boardQuery"}
    BY <1>2, CompleteWithin DEF IsInitialized, IsComplete
  <1>3. CASE t = "boardAns"
    <2>1. boardAns_IsInitialized(m)
      BY <1>3 DEF IsInitialized
    <2>2. Has(m, "g") => GridInfo_Class(m.g)
      <3>1. SUFFICES ASSUME Has(m, "g") PROVE GridInfo_Class(m.g)
        OBVIOUS
      <3>2. Sound("GridInfo", m.g)
        BY <1>3, <3>1 DEF Sound
      <3>3. QED
        BY <2>1, <3>1, <3>2, CompleteWithin DEF boardAns_IsInitialized
    <2>3. Class(m, [code |-> Int64], [g |-> Sub])
      BY <1>3, <2>1 DEF Sound, Partial, Class, Values, NoField, Has, boardAns_IsInitialized
    <2>4. QED
      BY <1>3, <2>2, <2>3 DEF IsComplete, boardAns_Class
  <1>4. QED
    BY <1>1, <1>2, <1>3 DEF MessageType, Sendable

--------------------------------------------------------------------------------
(* What becomes of a wire.                                                     *)

\* A peer of another version sends what its own classes would write, or one item that
\* is none of theirs: an item missing, retyped, malformed or damaged within, or one
\* that nobody has heard of.
LEMMA ChangedWire ==
    ASSUME NEW nums \in SUBSET (0 .. 14), NEW W, NEW A, W \subseteq A,
           NEW w \in Seq(Written(nums, W))
    PROVE  /\ w \in Seq(Arriving(nums, A))
           /\ Reverse(w) \in Seq(Arriving(nums, A))
           /\ \A k \in 1 .. Len(w) + 1 : InsertAt(w, k, Unheard) \in Seq(Arriving(nums, A))
           /\ \A k \in DOMAIN w :
                  /\ RemoveAt(w, k) \in Seq(Arriving(nums, A))
                  /\ [w EXCEPT ![k] = Retyped(@)] \in Seq(Arriving(nums, A))
                  /\ [w EXCEPT ![k] = Malformed(@)] \in Seq(Arriving(nums, A))
                  /\ w[k].kind = "message" =>
                         /\ w[k].val \in Seq(W)
                         /\ \A v \in Seq(A) : [w EXCEPT ![k].val = v] \in Seq(Arriving(nums, A))
  <1> DEFINE S == Arriving(nums, A)
  <1>1. Seq(W) \subseteq Seq(A)
    BY SeqMonotonic
  <1>2. Written(nums, W) \subseteq S
    BY <1>1 DEF Arriving, Written
  <1>3. w \in Seq(S)
    BY <1>2, SeqMonotonic
  <1>4. Unheard \in S
    BY DEF Unheard, Item, Arriving, Written, Int32
  <1>5. \A k \in DOMAIN w : w[k] \in Written(nums, W)
    BY ElementOfSeq, LenProperties
  <1>6. \A k \in DOMAIN w : Retyped(w[k]) \in S
    <2>1. SUFFICES ASSUME NEW i \in Written(nums, W) PROVE Retyped(i) \in S
      BY <1>5
    <2>2. Blank \in Text /\ 0 \in Int32
      BY WordAssumption DEF Int32
    <2>3. CASE i.kind = "int"
      BY <2>2, <2>3 DEF Retyped, Item, Arriving, Written
    <2>4. CASE i.kind = "text"
      BY <2>2, <2>4 DEF Retyped, Item, Arriving, Written
    <2>5. CASE i.kind = "message"
      BY <2>2, <2>5 DEF Retyped, Item, Arriving, Written
    <2>6. QED
      BY <2>3, <2>4, <2>5 DEF Written
  <1>7. \A k \in DOMAIN w : Malformed(w[k]) \in S
    <2>1. SUFFICES ASSUME NEW i \in Written(nums, W) PROVE Malformed(i) \in S
      BY <1>5
    <2>2. i.num \in Nat
      <3>1. \A n \in nums : n \in Nat
        OBVIOUS
      <3>2. QED
        BY <3>1 DEF Written
    <2>3. QED
      BY <2>2 DEF Malformed, Item, Arriving
  <1>8. \A k \in DOMAIN w : w[k].kind = "message" =>
            w[k].val \in Seq(W) /\ \A v \in Seq(A) : [w[k] EXCEPT !.val = v] \in S
    <2>1. SUFFICES ASSUME NEW i \in Written(nums, W), i.kind = "message"
                   PROVE  i.val \in Seq(W) /\ \A v \in Seq(A) : [i EXCEPT !.val = v] \in S
      BY <1>5
    <2>2. i \in [num : nums, kind : {"message"}, val : Seq(W)]
      BY <2>1 DEF Written
    <2>3. \A v \in Seq(A) : [i EXCEPT !.val = v] \in [num : nums, kind : {"message"}, val : Seq(A)]
      BY <2>2
    <2>4. QED
      BY <2>2, <2>3 DEF Arriving, Written
  <1> HIDE DEF S
  <1>9. \A k \in DOMAIN w : \A e \in S : [w EXCEPT ![k] = e] \in Seq(S)
    BY <1>3, ExceptSeq, LenProperties
  <1>10. Reverse(w) \in Seq(S)
    BY <1>3 DEF Reverse
  <1>11. \A k \in 1 .. Len(w) + 1 : InsertAt(w, k, Unheard) \in Seq(S)
    BY <1>3, <1>4 DEF InsertAt
  <1>12. \A k \in DOMAIN w : RemoveAt(w, k) \in Seq(S)
    BY <1>3 DEF RemoveAt
  <1>13. QED
    BY <1>3, <1>6, <1>7, <1>8, <1>9, <1>10, <1>11, <1>12 DEF S

--------------------------------------------------------------------------------
(* What a message writes.                                                      *)

\* The number of each field; the list of rooms is spoken of apart.
Numbers == [
    SystemQuery |-> [cmd |-> 2, topic |-> 3],
    SystemAns   |-> [id |-> 1, content |-> 2],
    RoomInfo    |-> [name |-> 1, createdTime |-> 2, owner |-> 3, rival |-> 4],
    Pos         |-> [x |-> 1, y |-> 2],
    GridInfo    |-> [o |-> 1, r |-> 2, grid |-> 3, type |-> 4, topic |-> 5, ownerScore |-> 6,
                     rivalScore |-> 7, isownertune |-> 8, ownercanmove |-> 9, rivalcanmove |-> 10],
    boardQuery  |-> [x |-> 1, type |-> 2, topic |-> 3],
    boardAns    |-> [code |-> 1, g |-> 2],
    finalInfo   |-> [ownerScore |-> 1, rivalScore |-> 2]]

Texts == {"cmd", "topic", "content", "name", "createdTime", "owner", "rival", "grid"}
Booleans == {"isownertune", "ownercanmove", "rivalcanmove"}

\* The wire of a message of class c.
Wire(c, m) ==
    IF c = "Pos" THEN Pos_Serialize(m)
    ELSE IF c = "RoomInfo" THEN RoomInfo_Serialize(m)
    ELSE Serialize(c, m)

\* The item that carries field f of message m.
ItemOf(c, m, f) ==
    IF IsSub(c, f) THEN Item(Numbers[c][f], "message", Wire(ClassOf(f), m[f]))
    ELSE IF f \in Texts THEN Item(Numbers[c][f], "text", m[f])
    ELSE Item(Numbers[c][f], "int", IF f \in Booleans THEN IF m[f] THEN 1 ELSE 0 ELSE m[f])

FieldItems(c, m) == {ItemOf(c, m, f) : f \in DOMAIN m \ {"unknown"}}

\* Wire w holds the items T and no others.
Holds(w, T) == w \in Seq(T) /\ Range(w) = T

\* Wires that are put together hold what their parts hold.
LEMMA HoldsFacts ==
    /\ Holds(<<>>, {})
    /\ \A e : Holds(<<e>>, {e})
    /\ \A s, t, S, T : Holds(s, S) /\ Holds(t, T) => Holds(s \o t, S \cup T)
  <1>1. Holds(<<>>, {})
    <2>1. <<>> \in Seq({}) /\ Len(<<>>) = 0
      BY EmptySeq
    <2>2. Range(<<>>) = {<<>>[i] : i \in 1 .. 0}
      BY <2>1, RangeEquality
    <2>3. QED
      BY <2>1, <2>2 DEF Holds
  <1>2. \A e : Holds(<<e>>, {e})
    <2>1. SUFFICES ASSUME NEW e PROVE Holds(<<e>>, {e})
      OBVIOUS
    <2>2. <<e>> \in Seq({e}) /\ Len(<<e>>) = 1 /\ <<e>>[1] = e
      OBVIOUS
    <2>3. Range(<<e>>) = {<<e>>[i] : i \in 1 .. 1}
      BY <2>2, RangeEquality
    <2>4. QED
      BY <2>2, <2>3 DEF Holds
  <1>3. ASSUME NEW s, NEW t, NEW S, NEW T, Holds(s, S), Holds(t, T)
        PROVE  Holds(s \o t, S \cup T)
    <2>1. s \in Seq(S \cup T) /\ t \in Seq(S \cup T)
      BY <1>3, SeqMonotonic DEF Holds
    <2>2. s \o t \in Seq(S \cup T) /\ Range(s \o t) = Range(s) \cup Range(t)
      BY <2>1, ConcatProperties, RangeConcatenation
    <2>3. QED
      BY <1>3, <2>2 DEF Holds
  <1>4. QED
    BY <1>1, <1>2, <1>3

\* The fields fs of m that are set, as items.
Part(c, m, f) == IF f \in DOMAIN m THEN {ItemOf(c, m, f)} ELSE {}

\* Each step of a serializer writes the item of its field, if the field is set.
LEMMA PieceHolds ==
    ASSUME NEW c, NEW m, NEW f, NEW piece,
           piece = IF Has(m, f) THEN <<ItemOf(c, m, f)>> ELSE <<>>
    PROVE  Holds(piece, Part(c, m, f))
  BY HoldsFacts DEF Part, Has

\* So each of the eight classes without a repeated field writes exactly the items of the
\* fields that are set.  SystemQuery:
LEMMA SystemQueryWire ==
    ASSUME NEW m, DOMAIN m \subseteq DOMAIN Values["SystemQuery"] \cup {"unknown"}, m.unknown = <<>>
    PROVE  Holds(Wire("SystemQuery", m), FieldItems("SystemQuery", m))
  <1>1. Holds(WriteText(m, 2, "cmd"), Part("SystemQuery", m, "cmd"))
    BY PieceHolds DEF WriteText, ItemOf, IsSub, Numbers, Texts, Booleans
  <1>2. Holds(WriteText(m, 3, "topic"), Part("SystemQuery", m, "topic"))
    BY PieceHolds DEF WriteText, ItemOf, IsSub, Numbers, Texts, Booleans
  <1>3. Wire("SystemQuery", m) = SystemQuery_Serialize(m)
    BY Zenon DEF Wire, Serialize
  <1> DEFINE P(f) == Part("SystemQuery", m, f)
  <1>4. Holds(WriteText(m, 2, "cmd") \o WriteText(m, 3, "topic"), P("cmd") \cup P("topic"))
    BY <1>1, <1>2, HoldsFacts
  <1>5. Holds(WriteText(m, 2, "cmd") \o WriteText(m, 3, "topic") \o m.unknown,
               P("cmd") \cup P("topic") \cup {})
    BY <1>4, HoldsFacts
  <1>6. FieldItems("SystemQuery", m) = P("cmd") \cup P("topic") \cup {}
    BY DEF FieldItems, Part, Values
  <1>7. QED
    BY <1>3, <1>5, <1>6 DEF SystemQuery_Serialize

\* SystemAns:
LEMMA SystemAnsWire ==
    ASSUME NEW m, DOMAIN m \subseteq DOMAIN Values["SystemAns"] \cup {"unknown"}, m.unknown = <<>>
    PROVE  Holds(Wire("SystemAns", m), FieldItems("SystemAns", m))
  <1>1. Holds(WriteInt(m, 1, "id"), Part("SystemAns", m, "id"))
    BY PieceHolds DEF WriteInt, ItemOf, IsSub, Numbers, Texts, Booleans
  <1>2. Holds(WriteText(m, 2, "content"), Part("SystemAns", m, "content"))
    BY PieceHolds DEF WriteText, ItemOf, IsSub, Numbers, Texts, Booleans
  <1>3. Wire("SystemAns", m) = SystemAns_Serialize(m)
    BY Zenon DEF Wire, Serialize
  <1> DEFINE P(f) == Part("SystemAns", m, f)
  <1>4. Holds(WriteInt(m, 1, "id") \o WriteText(m, 2, "content"), P("id") \cup P("content"))
    BY <1>1, <1>2, HoldsFacts
  <1>5. Holds(WriteInt(m, 1, "id") \o WriteText(m, 2, "content") \o m.unknown,
               P("id") \cup P("content") \cup {})
    BY <1>4, HoldsFacts
  <1>6. FieldItems("SystemAns", m) = P("id") \cup P("content") \cup {}
    BY DEF FieldItems, Part, Values
  <1>7. QED
    BY <1>3, <1>5, <1>6 DEF SystemAns_Serialize

\* RoomInfo:
LEMMA RoomInfoWire ==
    ASSUME NEW m, DOMAIN m \subseteq DOMAIN Values["RoomInfo"] \cup {"unknown"}, m.unknown = <<>>
    PROVE  Holds(Wire("RoomInfo", m), FieldItems("RoomInfo", m))
  <1>1. Holds(WriteText(m, 1, "name"), Part("RoomInfo", m, "name"))
    BY PieceHolds DEF WriteText, ItemOf, IsSub, Numbers, Texts, Booleans
  <1>2. Holds(WriteText(m, 2, "createdTime"), Part("RoomInfo", m, "createdTime"))
    BY PieceHolds DEF WriteText, ItemOf, IsSub, Numbers, Texts, Booleans
  <1>3. Holds(WriteText(m, 3, "owner"), Part("RoomInfo", m, "owner"))
    BY PieceHolds DEF WriteText, ItemOf, IsSub, Numbers, Texts, Booleans
  <1>4. Holds(WriteText(m, 4, "rival"), Part("RoomInfo", m, "rival"))
    BY PieceHolds DEF WriteText, ItemOf, IsSub, Numbers, Texts, Booleans
  <1>5. Wire("RoomInfo", m) = RoomInfo_Serialize(m)
    BY Zenon DEF Wire
  <1> DEFINE P(f) == Part("RoomInfo", m, f)
             w1 == WriteText(m, 1, "name")
             T1 == P("name")
             w2 == w1 \o WriteText(m, 2, "createdTime")
             T2 == T1 \cup P("createdTime")
             w3 == w2 \o WriteText(m, 3, "owner")
             T3 == T2 \cup P("owner")
             w4 == w3 \o WriteText(m, 4, "rival")
             T4 == T3 \cup P("rival")
  <1>6. Holds(w2, T2)
    BY <1>1, <1>2, HoldsFacts
  <1>7. Holds(w3, T3)
    BY <1>6, <1>3, HoldsFacts
  <1>8. Holds(w4, T4)
    BY <1>7, <1>4, HoldsFacts
  <1>9. Holds(w4 \o m.unknown, T4 \cup {})
    BY <1>8, HoldsFacts
  <1>10. FieldItems("RoomInfo", m) = T4 \cup {}
    BY DEF FieldItems, Part, Values
  <1>11. QED
    BY <1>5, <1>9, <1>10 DEF RoomInfo_Serialize

\* Pos:
LEMMA PosWire ==
    ASSUME NEW m, DOMAIN m \subseteq DOMAIN Values["Pos"] \cup {"unknown"}, m.unknown = <<>>
    PROVE  Holds(Wire("Pos", m), FieldItems("Pos", m))
  <1>1. Holds(WriteInt(m, 1, "x"), Part("Pos", m, "x"))
    BY PieceHolds DEF WriteInt, ItemOf, IsSub, Numbers, Texts, Booleans
  <1>2. Holds(WriteInt(m, 2, "y"), Part("Pos", m, "y"))
    BY PieceHolds DEF WriteInt, ItemOf, IsSub, Numbers, Texts, Booleans
  <1>3. Wire("Pos", m) = Pos_Serialize(m)
    BY Zenon DEF Wire
  <1> DEFINE P(f) == Part("Pos", m, f)
  <1>4. Holds(WriteInt(m, 1, "x") \o WriteInt(m, 2, "y"), P("x") \cup P("y"))
    BY <1>1, <1>2, HoldsFacts
  <1>5. Holds(WriteInt(m, 1, "x") \o WriteInt(m, 2, "y") \o m.unknown, P("x") \cup P("y") \cup {})
    BY <1>4, HoldsFacts
  <1>6. FieldItems("Pos", m) = P("x") \cup P("y") \cup {}
    BY DEF FieldItems, Part, Values
  <1>7. QED
    BY <1>3, <1>5, <1>6 DEF Pos_Serialize

\* GridInfo:
LEMMA GridInfoWire ==
    ASSUME NEW m, DOMAIN m \subseteq DOMAIN Values["GridInfo"] \cup {"unknown"}, m.unknown = <<>>
    PROVE  Holds(Wire("GridInfo", m), FieldItems("GridInfo", m))
  <1>1. Holds(WriteMessage(m, 1, "o", Pos_Serialize), Part("GridInfo", m, "o"))
    <2>1. ItemOf("GridInfo", m, "o") = Item(1, "message", Pos_Serialize(m.o))
      <3>1. ClassOf("o") = "Pos"
        BY Zenon DEF ClassOf
      <3>2. Wire("Pos", m.o) = Pos_Serialize(m.o)
        BY Zenon DEF Wire
      <3>3. QED
        BY <3>1, <3>2 DEF ItemOf, IsSub, Numbers
    <2>2. QED
      BY <2>1, PieceHolds DEF WriteMessage
  <1>2. Holds(WriteMessage(m, 2, "r", Pos_Serialize), Part("GridInfo", m, "r"))
    <2>1. ItemOf("GridInfo", m, "r") = Item(2, "message", Pos_Serialize(m.r))
      <3>1. ClassOf("r") = "Pos"
        BY Zenon DEF ClassOf
      <3>2. Wire("Pos", m.r) = Pos_Serialize(m.r)
        BY Zenon DEF Wire
      <3>3. QED
        BY <3>1, <3>2 DEF ItemOf, IsSub, Numbers
    <2>2. QED
      BY <2>1, PieceHolds DEF WriteMessage
  <1>3. Holds(WriteText(m, 3, "grid"), Part("GridInfo", m, "grid"))
    BY PieceHolds DEF WriteText, ItemOf, IsSub, Numbers, Texts, Booleans
  <1>4. Holds(WriteInt(m, 4, "type"), Part("GridInfo", m, "type"))
    BY PieceHolds DEF WriteInt, ItemOf, IsSub, Numbers, Texts, Booleans
  <1>5. Holds(WriteText(m, 5, "topic"), Part("GridInfo", m, "topic"))
    BY PieceHolds DEF WriteText, ItemOf, IsSub, Numbers, Texts, Booleans
  <1>6. Holds(WriteInt(m, 6, "ownerScore"), Part("GridInfo", m, "ownerScore"))
    BY PieceHolds DEF WriteInt, ItemOf, IsSub, Numbers, Texts, Booleans
  <1>7. Holds(WriteInt(m, 7, "rivalScore"), Part("GridInfo", m, "rivalScore"))
    BY PieceHolds DEF WriteInt, ItemOf, IsSub, Numbers, Texts, Booleans
  <1>8. Holds(WriteBool(m, 8, "isownertune"), Part("GridInfo", m, "isownertune"))
    BY PieceHolds DEF WriteBool, ItemOf, IsSub, Numbers, Texts, Booleans
  <1>9. Holds(WriteBool(m, 9, "ownercanmove"), Part("GridInfo", m, "ownercanmove"))
    BY PieceHolds DEF WriteBool, ItemOf, IsSub, Numbers, Texts, Booleans
  <1>10. Holds(WriteBool(m, 10, "rivalcanmove"), Part("GridInfo", m, "rivalcanmove"))
    BY PieceHolds DEF WriteBool, ItemOf, IsSub, Numbers, Texts, Booleans
  <1>11. Wire("GridInfo", m) = GridInfo_Serialize(m)
    BY Zenon DEF Wire, Serialize
  <1> DEFINE P(f) == Part("GridInfo", m, f)
             w1 == WriteMessage(m, 1, "o", Pos_Serialize)
             T1 == P("o")
             w2 == w1 \o WriteMessage(m, 2, "r", Pos_Serialize)
             T2 == T1 \cup P("r")
             w3 == w2 \o WriteText(m, 3, "grid")
             T3 == T2 \cup P("grid")
             w4 == w3 \o WriteInt(m, 4, "type")
             T4 == T3 \cup P("type")
             w5 == w4 \o WriteText(m, 5, "topic")
             T5 == T4 \cup P("topic")
             w6 == w5 \o WriteInt(m, 6, "ownerScore")
             T6 == T5 \cup P("ownerScore")
             w7 == w6 \o WriteInt(m, 7, "rivalScore")
             T7 == T6 \cup P("rivalScore")
             w8 == w7 \o WriteBool(m, 8, "isownertune")
             T8 == T7 \cup P("isownertune")
             w9 == w8 \o WriteBool(m, 9, "ownercanmove")
             T9 == T8 \cup P("ownercanmove")
             w10 == w9 \o WriteBool(m, 10, "rivalcanmove")
             T10 == T9 \cup P("rivalcanmove")
  <1>12. Holds(w2, T2)
    BY <1>1, <1>2, HoldsFacts
  <1>13. Holds(w3, T3)
    BY <1>12, <1>3, HoldsFacts
  <1>14. Holds(w4, T4)
    BY <1>13, <1>4, HoldsFacts
  <1>15. Holds(w5, T5)
    BY <1>14, <1>5, HoldsFacts
  <1>16. Holds(w6, T6)
    BY <1>15, <1>6, HoldsFacts
  <1>17. Holds(w7, T7)
    BY <1>16, <1>7, HoldsFacts
  <1>18. Holds(w8, T8)
    BY <1>17, <1>8, HoldsFacts
  <1>19. Holds(w9, T9)
    BY <1>18, <1>9, HoldsFacts
  <1>20. Holds(w10, T10)
    BY <1>19, <1>10, HoldsFacts
  <1>21. Holds(w10 \o m.unknown, T10 \cup {})
    BY <1>20, HoldsFacts
  <1>22. FieldItems("GridInfo", m) = T10 \cup {}
    BY DEF FieldItems, Part, Values
  <1>23. QED
    BY <1>11, <1>21, <1>22 DEF GridInfo_Serialize

\* boardQuery:
LEMMA boardQueryWire ==
    ASSUME NEW m, DOMAIN m \subseteq DOMAIN Values["boardQuery"] \cup {"unknown"}, m.unknown = <<>>
    PROVE  Holds(Wire("boardQuery", m), FieldItems("boardQuery", m))
  <1>1. Holds(WriteMessage(m, 1, "x", Pos_Serialize), Part("boardQuery", m, "x"))
    <2>1. ItemOf("boardQuery", m, "x") = Item(1, "message", Pos_Serialize(m.x))
      <3>1. ClassOf("x") = "Pos"
        BY Zenon DEF ClassOf
      <3>2. Wire("Pos", m.x) = Pos_Serialize(m.x)
        BY Zenon DEF Wire
      <3>3. QED
        BY <3>1, <3>2 DEF ItemOf, IsSub, Numbers
    <2>2. QED
      BY <2>1, PieceHolds DEF WriteMessage
  <1>2. Holds(WriteInt(m, 2, "type"), Part("boardQuery", m, "type"))
    BY PieceHolds DEF WriteInt, ItemOf, IsSub, Numbers, Texts, Booleans
  <1>3. Holds(WriteText(m, 3, "topic"), Part("boardQuery", m, "topic"))
    BY PieceHolds DEF WriteText, ItemOf, IsSub, Numbers, Texts, Booleans
  <1>4. Wire("boardQuery", m) = boardQuery_Serialize(m)
    BY Zenon DEF Wire, Serialize
  <1> DEFINE P(f) == Part("boardQuery", m, f)
  <1>5. Holds(WriteMessage(m, 1, "x", Pos_Serialize) \o WriteInt(m, 2, "type"),
                P("x") \cup P("type"))
    BY <1>1, <1>2, HoldsFacts
  <1>6. Holds(WriteMessage(m, 1, "x", Pos_Serialize) \o WriteInt(m, 2, "type") \o WriteText(m, 3, "topic"),
                P("x") \cup P("type") \cup P("topic"))
    BY <1>5, <1>3, HoldsFacts
  <1>7. Holds(WriteMessage(m, 1, "x", Pos_Serialize) \o WriteInt(m, 2, "type") \o WriteText(m, 3, "topic") \o m.unknown,
               P("x") \cup P("type") \cup P("topic") \cup {})
    BY <1>6, HoldsFacts
  <1>8. FieldItems("boardQuery", m) = P("x") \cup P("type") \cup P("topic") \cup {}
    BY DEF FieldItems, Part, Values
  <1>9. QED
    BY <1>4, <1>7, <1>8 DEF boardQuery_Serialize

\* boardAns:
LEMMA boardAnsWire ==
    ASSUME NEW m, DOMAIN m \subseteq DOMAIN Values["boardAns"] \cup {"unknown"}, m.unknown = <<>>
    PROVE  Holds(Wire("boardAns", m), FieldItems("boardAns", m))
  <1>1. Holds(WriteInt(m, 1, "code"), Part("boardAns", m, "code"))
    BY PieceHolds DEF WriteInt, ItemOf, IsSub, Numbers, Texts, Booleans
  <1>2. Holds(WriteMessage(m, 2, "g", GridInfo_Serialize), Part("boardAns", m, "g"))
    <2>1. ItemOf("boardAns", m, "g") = Item(2, "message", GridInfo_Serialize(m.g))
      <3>1. ClassOf("g") = "GridInfo"
        BY Zenon DEF ClassOf
      <3>2. Wire("GridInfo", m.g) = GridInfo_Serialize(m.g)
        BY Zenon DEF Wire, Serialize
      <3>3. QED
        BY <3>1, <3>2 DEF ItemOf, IsSub, Numbers
    <2>2. QED
      BY <2>1, PieceHolds DEF WriteMessage
  <1>3. Wire("boardAns", m) = boardAns_Serialize(m)
    BY Zenon DEF Wire, Serialize
  <1> DEFINE P(f) == Part("boardAns", m, f)
  <1>4. Holds(WriteInt(m, 1, "code") \o WriteMessage(m, 2, "g", GridInfo_Serialize),
                P("code") \cup P("g"))
    BY <1>1, <1>2, HoldsFacts
  <1>5. Holds(WriteInt(m, 1, "code") \o WriteMessage(m, 2, "g", GridInfo_Serialize) \o m.unknown,
               P("code") \cup P("g") \cup {})
    BY <1>4, HoldsFacts
  <1>6. FieldItems("boardAns", m) = P("code") \cup P("g") \cup {}
    BY DEF FieldItems, Part, Values
  <1>7. QED
    BY <1>3, <1>5, <1>6 DEF boardAns_Serialize

\* finalInfo:
LEMMA finalInfoWire ==
    ASSUME NEW m, DOMAIN m \subseteq DOMAIN Values["finalInfo"] \cup {"unknown"}, m.unknown = <<>>
    PROVE  Holds(Wire("finalInfo", m), FieldItems("finalInfo", m))
  <1>1. Holds(WriteInt(m, 1, "ownerScore"), Part("finalInfo", m, "ownerScore"))
    BY PieceHolds DEF WriteInt, ItemOf, IsSub, Numbers, Texts, Booleans
  <1>2. Holds(WriteInt(m, 2, "rivalScore"), Part("finalInfo", m, "rivalScore"))
    BY PieceHolds DEF WriteInt, ItemOf, IsSub, Numbers, Texts, Booleans
  <1>3. Wire("finalInfo", m) = finalInfo_Serialize(m)
    BY Zenon DEF Wire, Serialize
  <1> DEFINE P(f) == Part("finalInfo", m, f)
  <1>4. Holds(WriteInt(m, 1, "ownerScore") \o WriteInt(m, 2, "rivalScore"),
                P("ownerScore") \cup P("rivalScore"))
    BY <1>1, <1>2, HoldsFacts
  <1>5. Holds(WriteInt(m, 1, "ownerScore") \o WriteInt(m, 2, "rivalScore") \o m.unknown,
               P("ownerScore") \cup P("rivalScore") \cup {})
    BY <1>4, HoldsFacts
  <1>6. FieldItems("finalInfo", m) = P("ownerScore") \cup P("rivalScore") \cup {}
    BY DEF FieldItems, Part, Values
  <1>7. QED
    BY <1>3, <1>5, <1>6 DEF finalInfo_Serialize

\* A field that is no message has values.
LEMMA ValuesGiven ==
    ASSUME NEW c \in Classes, NEW f \in DOMAIN Values[c], ~ IsSub(c, f)
    PROVE  Values[c][f] # {}
  <1>1. Blank \in Text /\ 0 \in Int32 /\ 0 \in Int64 /\ TRUE \in BOOLEAN
    BY WordAssumption DEF Int32, Int64
  <1>2. CASE c = "SystemQuery"
    BY <1>1, <1>2 DEF Values, IsSub
  <1>3. CASE c = "SystemAns"
    BY <1>1, <1>3 DEF Values, IsSub
  <1>4. CASE c = "RoomInfo"
    BY <1>1, <1>4 DEF Values, IsSub
  <1>5. CASE c = "ShowInfo"
    BY <1>1, <1>5 DEF Values, IsSub
  <1>6. CASE c = "Pos"
    BY <1>1, <1>6 DEF Values, IsSub
  <1>7. CASE c = "GridInfo"
    <2>1. f \in {"grid", "topic"} \cup {"type", "ownerScore", "rivalScore"}
              \cup {"isownertune", "ownercanmove", "rivalcanmove"}
      BY <1>7 DEF Values, IsSub
    <2>2. f \in {"grid", "topic"} => Values[c][f] = Text
      BY <1>7 DEF Values
    <2>3. f \in {"type", "ownerScore", "rivalScore"} => Values[c][f] = Int64
      BY <1>7 DEF Values
    <2>4. f \in {"isownertune", "ownercanmove", "rivalcanmove"} => Values[c][f] = BOOLEAN
      BY <1>7 DEF Values
    <2>5. QED
      BY <1>1, <2>1, <2>2, <2>3, <2>4
  <1>8. CASE c = "boardQuery"
    BY <1>1, <1>8 DEF Values, IsSub
  <1>9. CASE c = "boardAns"
    BY <1>1, <1>9 DEF Values, IsSub
  <1>10. CASE c = "finalInfo"
    BY <1>1, <1>10 DEF Values, IsSub
  <1>11. QED
    BY <1>2, <1>3, <1>4, <1>5, <1>6, <1>7, <1>8, <1>9, <1>10 DEF Classes

\* Numbers and texts, under other numbers than nums.
Scalars(nums) ==
    [num : Nat \ nums, kind : {"int"}, val : Int32]
    \cup [num : Nat \ nums, kind : {"text"}, val : Text]

\* The items that a sender of each class may write.
LEMMA ItemsWritten ==
    /\ \A c \in Classes \ {"ShowInfo", "GridInfo", "boardQuery", "boardAns"} :
           Items(Written, c) = Written({}, {})
    /\ Items(Written, "ShowInfo") = Written({1}, Written({}, {}))
    /\ Items(Written, "GridInfo") = Written({1, 2}, Written({}, {}))
    /\ Items(Written, "boardQuery") = Written({1}, Written({}, {}))
    /\ Items(Written, "boardAns") = Written({2}, Written({1, 2}, Written({}, {})))
  BY Zenon DEF Items, Classes

\* A field that is no message is written as a number or a text, under a number that
\* is no message's.
LEMMA ScalarItem ==
    ASSUME NEW c \in Classes, NEW m, NEW f \in DOMAIN Values[c], ~ IsSub(c, f), m[f] \in Values[c][f]
    PROVE  ItemOf(c, m, f) \in Items(Written, c)
  <1>1. \A nums, inside : \A i \in Scalars(nums) : i \in Written(nums, inside)
    BY DEF Scalars, Written
  <1>2. CASE c = "SystemQuery"
    <2>1. ItemOf(c, m, f) \in Scalars({})
      BY <1>2 DEF Scalars, ItemOf, Item, IsSub, Values, Numbers, Texts, Booleans, Int32, Int64
    <2>2. Items(Written, c) = Written({}, {})
      BY <1>2, ItemsWritten DEF Classes
    <2>3. QED
      BY <2>1, <2>2, <1>1
  <1>3. CASE c = "SystemAns"
    <2>1. ItemOf(c, m, f) \in Scalars({})
      BY <1>3 DEF Scalars, ItemOf, Item, IsSub, Values, Numbers, Texts, Booleans, Int32, Int64
    <2>2. Items(Written, c) = Written({}, {})
      BY <1>3, ItemsWritten DEF Classes
    <2>3. QED
      BY <2>1, <2>2, <1>1
  <1>4. CASE c = "RoomInfo"
    <2>1. ItemOf(c, m, f) \in Scalars({})
      BY <1>4 DEF Scalars, ItemOf, Item, IsSub, Values, Numbers, Texts, Booleans, Int32, Int64
    <2>2. Items(Written, c) = Written({}, {})
      BY <1>4, ItemsWritten DEF Classes
    <2>3. QED
      BY <2>1, <2>2, <1>1
  <1>5. CASE c = "Pos"
    <2>1. ItemOf(c, m, f) \in Scalars({})
      BY <1>5 DEF Scalars, ItemOf, Item, IsSub, Values, Numbers, Texts, Booleans, Int32, Int64
    <2>2. Items(Written, c) = Written({}, {})
      BY <1>5, ItemsWritten DEF Classes
    <2>3. QED
      BY <2>1, <2>2, <1>1
  <1>6. CASE c = "GridInfo"
    <2>1. ItemOf(c, m, f) \in Scalars({1, 2})
      BY <1>6 DEF Scalars, ItemOf, Item, IsSub, Values, Numbers, Texts, Booleans, Int32, Int64
    <2>2. Items(Written, c) = Written({1, 2}, Written({}, {}))
      BY <1>6, ItemsWritten DEF Classes
    <2>3. QED
      BY <2>1, <2>2, <1>1
  <1>7. CASE c = "boardQuery"
    <2>1. ItemOf(c, m, f) \in Scalars({1})
      BY <1>7 DEF Scalars, ItemOf, Item, IsSub, Values, Numbers, Texts, Booleans, Int32, Int64
    <2>2. Items(Written, c) = Written({1}, Written({}, {}))
      BY <1>7, ItemsWritten DEF Classes
    <2>3. QED
      BY <2>1, <2>2, <1>1
  <1>8. CASE c = "boardAns"
    <2>1. ItemOf(c, m, f) \in Scalars({2})
      BY <1>8 DEF Scalars, ItemOf, Item, IsSub, Values, Numbers, Texts, Booleans, Int32, Int64
    <2>2. Items(Written, c) = Written({2}, Written({1, 2}, Written({}, {})))
      BY <1>8, ItemsWritten DEF Classes
    <2>3. QED
      BY <2>1, <2>2, <1>1
  <1>9. CASE c = "finalInfo"
    <2>1. ItemOf(c, m, f) \in Scalars({})
      BY <1>9 DEF Scalars, ItemOf, Item, IsSub, Values, Numbers, Texts, Booleans, Int32, Int64
    <2>2. Items(Written, c) = Written({}, {})
      BY <1>9, ItemsWritten DEF Classes
    <2>3. QED
      BY <2>1, <2>2, <1>1
  <1>10. CASE c = "ShowInfo"
    BY <1>10 DEF IsSub, Values
  <1>11. QED
    BY <1>2, <1>3, <1>4, <1>5, <1>6, <1>7, <1>8, <1>9, <1>10 DEF Classes

\* A message as its sender has it: nothing unknown in it, at any depth.
Whole(c, m) ==
    /\ Partial(c, m)
    /\ m = [f \in DOMAIN m |-> m[f]]
    /\ "unknown" \in DOMAIN m /\ m.unknown = <<>>

\* Objects are functions from the fields that are set.
LEMMA ObjectFacts ==
    /\ \A m, f, v : Put(m, f, v) = [g \in DOMAIN Put(m, f, v) |-> Put(m, f, v)[g]]
    /\ \A m, S : Restrict(m, S) = [g \in DOMAIN Restrict(m, S) |-> Restrict(m, S)[g]]
  BY DEF Put, Restrict

WholePlaces(m, fs) == \A f \in fs \cap DOMAIN m : Whole("Pos", m[f])

\* A message that is whole, and so is every message in it.
Plain(c, m) ==
    /\ Whole(c, m)
    /\ c = "ShowInfo" =>
           /\ Has(m, "ri") => m.ri # <<>>
           /\ Repeated(m, "ri") \in Seq(Range(Repeated(m, "ri")))
           /\ \A k \in DOMAIN Repeated(m, "ri") : Whole("RoomInfo", m.ri[k])
    /\ c = "GridInfo" => WholePlaces(m, {"o", "r"})
    /\ c = "boardQuery" => WholePlaces(m, {"x"})
    /\ c = "boardAns" /\ Has(m, "g") => Whole("GridInfo", m.g) /\ WholePlaces(m.g, {"o", "r"})

\* A whole message writes exactly the items of its fields.
LEMMA WholeHolds ==
    ASSUME NEW c \in Classes \ {"ShowInfo"}, NEW m, Whole(c, m)
    PROVE  Holds(Wire(c, m), FieldItems(c, m))
  <1>1. DOMAIN m \subseteq DOMAIN Values[c] \cup {"unknown"} /\ m.unknown = <<>>
    BY DEF Whole, Partial, Class, NoField
  <1>2. QED
    BY <1>1, SystemQueryWire, SystemAnsWire, RoomInfoWire, PosWire, GridInfoWire, boardQueryWire,
       boardAnsWire, finalInfoWire DEF Classes

\* If the messages within are written as they should be, so is the message.
LEMMA WholeWritten ==
    ASSUME NEW c \in Classes \ {"ShowInfo"}, NEW m, Whole(c, m),
           \A f \in DOMAIN m : IsSub(c, f) => ItemOf(c, m, f) \in Items(Written, c)
    PROVE  Wire(c, m) \in Seq(Items(Written, c))
  <1>1. ASSUME NEW f \in DOMAIN m \ {"unknown"} PROVE ItemOf(c, m, f) \in Items(Written, c)
    <2>1. f \in DOMAIN Values[c]
      BY DEF Whole, Partial, Class, NoField
    <2>2. CASE IsSub(c, f)
      BY <2>2
    <2>3. CASE ~ IsSub(c, f)
      <3>1. Values[c][f] # {}
        BY <2>1, <2>3, ValuesGiven
      <3>2. m[f] \in Values[c][f]
        BY <2>1, <3>1 DEF Whole, Partial, Class
      <3>3. QED
        BY <2>1, <2>3, <3>2, ScalarItem
    <2>4. QED
      BY <2>2, <2>3
  <1>2. FieldItems(c, m) \subseteq Items(Written, c)
    BY <1>1 DEF FieldItems
  <1>3. QED
    BY <1>2, WholeHolds, SeqMonotonic DEF Holds

\* A place is written as numbers.
LEMMA PlaceWritten ==
    ASSUME NEW m, Whole("Pos", m)
    PROVE  Pos_Serialize(m) \in Seq(Written({}, {}))
  <1>1. Wire("Pos", m) = Pos_Serialize(m) /\ Items(Written, "Pos") = Written({}, {})
    BY ItemsWritten DEF Wire, Classes
  <1>2. \A f \in DOMAIN m : ~ IsSub("Pos", f)
    BY DEF IsSub
  <1>3. QED
    BY <1>1, <1>2, WholeWritten DEF Classes

\* A room is written as texts.
LEMMA RoomWritten ==
    ASSUME NEW m, Whole("RoomInfo", m)
    PROVE  RoomInfo_Serialize(m) \in Seq(Written({}, {}))
  <1>1. Wire("RoomInfo", m) = RoomInfo_Serialize(m) /\ Items(Written, "RoomInfo") = Written({}, {})
    BY ItemsWritten DEF Wire, Classes
  <1>2. \A f \in DOMAIN m : ~ IsSub("RoomInfo", f)
    BY DEF IsSub
  <1>3. QED
    BY <1>1, <1>2, WholeWritten DEF Classes

\* A message within is written under a number of its own.
LEMMA MessageWritten ==
    ASSUME NEW nums \in SUBSET Nat, NEW inside, NEW n \in nums, NEW w \in Seq(inside)
    PROVE  Item(n, "message", w) \in Written(nums, inside)
  BY DEF Item, Written

\* A board is written as scalars and two places.
LEMMA BoardWritten ==
    ASSUME NEW m, Whole("GridInfo", m), WholePlaces(m, {"o", "r"})
    PROVE  GridInfo_Serialize(m) \in Seq(Written({1, 2}, Written({}, {})))
  <1>1. Wire("GridInfo", m) = GridInfo_Serialize(m)
    BY Zenon DEF Wire, Serialize
  <1>2. Items(Written, "GridInfo") = Written({1, 2}, Written({}, {}))
    BY ItemsWritten
  <1>3. ASSUME NEW f \in DOMAIN m, IsSub("GridInfo", f)
        PROVE  ItemOf("GridInfo", m, f) \in Written({1, 2}, Written({}, {}))
    <2>1. f \in {"o", "r"} /\ Numbers["GridInfo"][f] \in {1, 2}
      BY <1>3 DEF IsSub, Numbers
    <2>2. Pos_Serialize(m[f]) \in Seq(Written({}, {}))
      BY <2>1, PlaceWritten DEF WholePlaces
    <2>3. ClassOf(f) = "Pos"
      BY <2>1 DEF ClassOf
    <2>4. ItemOf("GridInfo", m, f) = Item(Numbers["GridInfo"][f], "message", Pos_Serialize(m[f]))
      BY <1>3, <2>3 DEF ItemOf, Wire
    <2>5. QED
      BY <2>1, <2>2, <2>4, MessageWritten
  <1>4. QED
    BY <1>1, <1>2, <1>3, WholeWritten DEF Classes

\* The classes that are sent on their own.
LEMMA MessageTypes ==
    MessageType = {"SystemQuery", "SystemAns", "ShowInfo", "GridInfo", "boardQuery", "boardAns",
                   "finalInfo"}
  BY DEF MessageType, Sendable

\* What the sender has is written as items of its class, at every depth.
LEMMA PlainWritten ==
    ASSUME NEW t \in MessageType, NEW m, Plain(t, m)
    PROVE  Serialize(t, m) \in Seq(Items(Written, t))
  <1>1. t \in Classes \ {"Pos", "RoomInfo"} /\ Whole(t, m)
    BY MessageTypes DEF Classes, Plain
  <1>2. Serialize(t, m) = Wire(t, m)
    BY <1>1 DEF Wire
  <1>3. CASE t \in {"SystemQuery", "SystemAns", "finalInfo"}
    <2>1. \A f \in DOMAIN m : ~ IsSub(t, f)
      BY <1>3 DEF IsSub
    <2>2. QED
      BY <1>1, <1>2, <1>3, <2>1, WholeWritten
  <1>4. CASE t = "GridInfo"
    <2>1. Serialize(t, m) = GridInfo_Serialize(m)
      BY <1>4, Zenon DEF Serialize
    <2>2. QED
      BY <1>4, <2>1, BoardWritten, ItemsWritten DEF Plain
  <1>5. CASE t = "boardQuery"
    <2>1. ASSUME NEW f \in DOMAIN m, IsSub(t, f) PROVE ItemOf(t, m, f) \in Items(Written, t)
      <3>1. f = "x" /\ Numbers[t][f] = 1 /\ ClassOf(f) = "Pos"
        BY <1>5, <2>1 DEF IsSub, Numbers, ClassOf
      <3>2. Pos_Serialize(m[f]) \in Seq(Written({}, {}))
        BY <1>5, <3>1, PlaceWritten DEF Plain, WholePlaces
      <3>3. ItemOf(t, m, f) = Item(1, "message", Pos_Serialize(m[f]))
        BY <2>1, <3>1 DEF ItemOf, Wire
      <3>4. QED
        <4>1. Item(1, "message", Pos_Serialize(m[f])) \in Written({1}, Written({}, {}))
          BY <3>2, MessageWritten
        <4>2. QED
          BY <1>5, <3>3, <4>1, ItemsWritten
    <2>2. QED
      BY <1>1, <1>2, <1>5, <2>1, WholeWritten
  <1>6. CASE t = "boardAns"
    <2>1. ASSUME NEW f \in DOMAIN m, IsSub(t, f) PROVE ItemOf(t, m, f) \in Items(Written, t)
      <3>1. f = "g" /\ Numbers[t][f] = 2
        BY <1>6, <2>1 DEF IsSub, Numbers
      <3>2. ClassOf(f) = "GridInfo"
        BY <3>1, Zenon DEF ClassOf
      <3>3. GridInfo_Serialize(m[f]) \in Seq(Written({1, 2}, Written({}, {})))
        BY <1>6, <2>1, <3>1, BoardWritten DEF Plain, Has
      <3>4. Wire("GridInfo", m[f]) = GridInfo_Serialize(m[f])
        BY Zenon DEF Wire, Serialize
      <3>5. ItemOf(t, m, f) = Item(2, "message", GridInfo_Serialize(m[f]))
        BY <2>1, <3>1, <3>2, <3>4 DEF ItemOf
      <3>6. QED
        <4>1. Item(2, "message", GridInfo_Serialize(m[f]))
                  \in Written({2}, Written({1, 2}, Written({}, {})))
          BY <3>3, MessageWritten
        <4>2. QED
          BY <1>6, <3>5, <4>1, ItemsWritten
    <2>2. QED
      BY <1>1, <1>2, <1>6, <2>1, WholeWritten
  <1>7. CASE t = "ShowInfo"
    <2> DEFINE ri == Repeated(m, "ri")
               S == Written({1}, Written({}, {}))
               items == [k \in DOMAIN ri |-> Item(1, "message", RoomInfo_Serialize(m.ri[k]))]
    <2>1. Serialize(t, m) = items \o m.unknown
      <3>1. Serialize(t, m) = ShowInfo_Serialize(m)
        BY <1>7, Zenon DEF Serialize
      <3>2. QED
        BY <3>1 DEF ShowInfo_Serialize
    <2>2. ri \in Seq(Range(ri)) /\ \A k \in DOMAIN ri : Whole("RoomInfo", m.ri[k])
      BY <1>7 DEF Plain
    <2>3. DOMAIN ri = 1 .. Len(ri) /\ Len(ri) \in Nat
      BY <2>2, LenProperties
    <2>4. \A k \in DOMAIN ri : Item(1, "message", RoomInfo_Serialize(m.ri[k])) \in S
      BY <2>2, RoomWritten, MessageWritten
    <2>5. items \in Seq(S)
      BY <2>3, <2>4
    <2>6. m.unknown \in Seq(S)
      BY <1>1, EmptySeq DEF Whole
    <2>7. QED
      <3>1. items \o m.unknown \in Seq(S)
        BY <2>5, <2>6, ConcatProperties
      <3>2. S = Items(Written, t)
        BY <1>7, ItemsWritten
      <3>3. QED
        BY <2>1, <3>1, <3>2
  <1>8. QED
    BY <1>3, <1>4, <1>5, <1>6, <1>7, MessageTypes

--------------------------------------------------------------------------------
(* What the program sends.                                                     *)

\* A message all of whose fields the program has set with values of their types is whole.
LEMMA KnownWhole ==
    ASSUME NEW c \in Classes, NEW fields, DOMAIN fields \subseteq DOMAIN Values[c],
           \A f \in DOMAIN fields : Values[c][f] # {} => fields[f] \in Values[c][f]
    PROVE  /\ Whole(c, Known(fields))
           /\ DOMAIN Known(fields) = DOMAIN fields \cup {"unknown"}
           /\ \A f \in DOMAIN fields : Known(fields)[f] = fields[f]
  <1>1. "unknown" \notin DOMAIN Values[c]
    BY ValuesFacts
  <1>2. /\ DOMAIN Known(fields) = DOMAIN fields \cup {"unknown"}
        /\ \A f \in DOMAIN fields : Known(fields)[f] = fields[f]
        /\ Known(fields).unknown = <<>>
    BY <1>1 DEF Known, Put
  <1>3. Partial(c, Known(fields))
    BY <1>1, <1>2 DEF Partial, Class, NoField
  <1>4. Known(fields) = [f \in DOMAIN Known(fields) |-> Known(fields)[f]]
    BY ObjectFacts DEF Known
  <1>5. QED
    BY <1>2, <1>3, <1>4 DEF Whole

\* The messages each place of the program builds are plain, to begin with a place,
LEMMA PosOfWhole ==
    ASSUME NEW p, p[1] \in Int32, p[2] \in Int32
    PROVE  Whole("Pos", PosOf(p))
  <1> DEFINE F == [x |-> p[1], y |-> p[2]]
  <1>1. DOMAIN F \subseteq DOMAIN Values["Pos"]
        /\ \A f \in DOMAIN F : Values["Pos"][f] # {} => F[f] \in Values["Pos"][f]
    BY DEF Values
  <1>2. QED
    BY <1>1, KnownWhole DEF PosOf, Classes

\* a command,
LEMMA dealCmdPlain ==
    ASSUME NEW line \in (Text \X Text) \cup {<<w>> : w \in Text}
    PROVE  Whole("SystemQuery", dealCmd(line))
  <1>1. \A a \in Text, b \in Text : Whole("SystemQuery", Known([cmd |-> a, topic |-> b]))
    <2>1. SUFFICES ASSUME NEW a \in Text, NEW b \in Text
                   PROVE  Whole("SystemQuery", Known([cmd |-> a, topic |-> b]))
      OBVIOUS
    <2> DEFINE F == [cmd |-> a, topic |-> b]
    <2>2. DOMAIN F \subseteq DOMAIN Values["SystemQuery"]
          /\ \A f \in DOMAIN F : Values["SystemQuery"][f] # {} => F[f] \in Values["SystemQuery"][f]
      BY DEF Values
    <2>3. QED
      BY <2>2, KnownWhole DEF Classes
  <1>2. Blank \in Text
    BY WordAssumption
  <1>3. CASE line \in Text \X Text
    <2>1. Len(line) = 2 /\ line[1] \in Text /\ line[2] \in Text
      BY <1>3
    <2>2. dealCmd(line) = Known([cmd |-> line[1], topic |-> line[2]])
      BY <2>1 DEF dealCmd
    <2>3. QED
      BY <1>1, <2>1, <2>2
  <1>4. CASE line \in {<<w>> : w \in Text}
    <2>1. Len(line) = 1 /\ line[1] \in Text
      BY <1>4
    <2> DEFINE a == IF line[1] \in {"show", "quit"} THEN line[1] ELSE Blank
    <2>2. dealCmd(line) = Known([cmd |-> a, topic |-> Blank])
      BY <2>1 DEF dealCmd
    <2>3. a \in Text
      BY <1>2, <2>1
    <2>4. QED
      BY <1>1, <1>2, <2>2, <2>3
  <1>5. QED
    BY <1>3, <1>4

\* an answer,
LEMMA answerPlain ==
    ASSUME NEW a \in Text, NEW id \in Int32
    PROVE  Whole("SystemAns", answer(a, id))
  <1> DEFINE F == [id |-> id, content |-> a]
  <1>1. DOMAIN F \subseteq DOMAIN Values["SystemAns"]
        /\ \A f \in DOMAIN F : Values["SystemAns"][f] # {} => F[f] \in Values["SystemAns"][f]
    BY DEF Values
  <1>2. answer(a, id) = Known(F) /\ "SystemAns" \in Classes
    BY DEF answer, Classes
  <1> HIDE DEF F
  <1>3. QED
    BY <1>1, <1>2, KnownWhole

\* the scores at the end,
LEMMA publishFinalInfoPlain ==
    ASSUME NEW score \in Number \X Number
    PROVE  Whole("finalInfo", publishFinalInfo(score))
  <1> DEFINE F == [ownerScore |-> score[1], rivalScore |-> score[2]]
  <1>1. score[1] \in Int32 /\ score[2] \in Int32
    BY NumberAssumption
  <1>2. DOMAIN F \subseteq DOMAIN Values["finalInfo"]
        /\ \A f \in DOMAIN F : Values["finalInfo"][f] # {} => F[f] \in Values["finalInfo"][f]
    BY <1>1 DEF Values
  <1>3. QED
    BY <1>2, KnownWhole DEF publishFinalInfo, Classes

\* a move,
LEMMA tunnelPlain ==
    ASSUME NEW d \in (-1 .. 1) \X (-1 .. 1), NEW ct \in {cOwner, cRival, cSubscribe}
    PROVE  Plain("boardQuery", tunnel(d, ct, "room"))
  <1> DEFINE F == [type |-> ct, x |-> PosOf(d), topic |-> "room"]
  <1>1. ct \in Int64 /\ "room" \in Text /\ d[1] \in Int32 /\ d[2] \in Int32
    BY WordAssumption DEF cOwner, cRival, cSubscribe, Int32, Int64
  <1>2. DOMAIN F \subseteq DOMAIN Values["boardQuery"]
        /\ \A f \in DOMAIN F : Values["boardQuery"][f] # {} => F[f] \in Values["boardQuery"][f]
    BY <1>1 DEF Values, Sub
  <1>3. tunnel(d, ct, "room") = Known(F) /\ "boardQuery" \in Classes
        /\ "x" \in DOMAIN F /\ F.x = PosOf(d)
    BY DEF tunnel, Classes
  <1> HIDE DEF F
  <1>4. Whole("boardQuery", tunnel(d, ct, "room")) /\ tunnel(d, ct, "room").x = PosOf(d)
    <2>1. /\ Whole("boardQuery", Known(F))
          /\ \A f \in DOMAIN F : Known(F)[f] = F[f]
      BY <1>2, <1>3, KnownWhole
    <2>2. QED
      BY <1>3, <2>1
  <1>5. QED
    BY <1>1, <1>4, PosOfWhole DEF Plain, WholePlaces

\* a board,
LEMMA GridInfoOfPlain ==
    ASSUME NEW t \in TopicState, NEW ct \in {cOwner, cRival, cSubscribe}
    PROVE  Whole("GridInfo", GridInfoOf(t, ct)) /\ WholePlaces(GridInfoOf(t, ct), {"o", "r"})
  <1> DEFINE F == [grid |-> t.grid, type |-> ct, topic |-> t.topic, isownertune |-> t.isOwnerTurn,
                   rivalScore |-> t.score[2], ownerScore |-> t.score[1],
                   ownercanmove |-> t.canMove[1], rivalcanmove |-> t.canMove[2],
                   o |-> PosOf(t.o), r |-> PosOf(t.r)]
  <1>1. /\ t.grid \in Text /\ t.topic \in Text /\ ct \in Int64
        /\ t.isOwnerTurn \in BOOLEAN /\ t.canMove[1] \in BOOLEAN /\ t.canMove[2] \in BOOLEAN
        /\ t.score[1] \in Int64 /\ t.score[2] \in Int64
    BY WordAssumption DEF TopicState, cOwner, cRival, cSubscribe, Int32, Int64
  <1>2. /\ t.o[1] \in Int32 /\ t.o[2] \in Int32 /\ t.r[1] \in Int32 /\ t.r[2] \in Int32
    BY DEF TopicState, Int32
  <1>3. DOMAIN F \subseteq DOMAIN Values["GridInfo"]
    BY DEF Values
  <1>4. \A f \in DOMAIN F : Values["GridInfo"][f] # {} => F[f] \in Values["GridInfo"][f]
    <2>1. SUFFICES ASSUME NEW f \in DOMAIN F
                   PROVE  Values["GridInfo"][f] # {} => F[f] \in Values["GridInfo"][f]
      OBVIOUS
    <2>2. CASE f \in {"grid", "topic"}
      BY <1>1, <2>2 DEF Values
    <2>3. CASE f \in {"type", "ownerScore", "rivalScore"}
      BY <1>1, <2>3 DEF Values
    <2>4. CASE f \in {"isownertune", "ownercanmove", "rivalcanmove"}
      BY <1>1, <2>4 DEF Values
    <2>5. CASE f \in {"o", "r"}
      BY <2>5 DEF Values, Sub
    <2>6. QED
      BY <2>2, <2>3, <2>4, <2>5
  <1>5. GridInfoOf(t, ct) = Known(F) /\ "GridInfo" \in Classes
        /\ {"o", "r"} \subseteq DOMAIN F /\ F.o = PosOf(t.o) /\ F.r = PosOf(t.r)
    BY DEF GridInfoOf, Classes
  <1> HIDE DEF F
  <1>6. /\ Whole("GridInfo", GridInfoOf(t, ct))
        /\ GridInfoOf(t, ct).o = PosOf(t.o) /\ GridInfoOf(t, ct).r = PosOf(t.r)
    BY <1>3, <1>4, <1>5, KnownWhole
  <1>7. QED
    BY <1>2, <1>6, PosOfWhole DEF WholePlaces

\* a board with a code,
LEMMA publishBoardUpdatePlain ==
    ASSUME NEW code \in Int64, NEW t \in TopicState, NEW ct \in {cOwner, cRival, cSubscribe}
    PROVE  Plain("boardAns", publishBoardUpdate(code, t, ct))
  <1> DEFINE g == GridInfoOf(t, IF ct \in {cSubscribe, cRival} THEN ct ELSE cOwner)
             F == [code |-> code, g |-> g]
  <1>1. DOMAIN F \subseteq DOMAIN Values["boardAns"]
        /\ \A f \in DOMAIN F : Values["boardAns"][f] # {} => F[f] \in Values["boardAns"][f]
    BY DEF Values, Sub
  <1>2. publishBoardUpdate(code, t, ct) = Known(F) /\ "boardAns" \in Classes
        /\ "g" \in DOMAIN F /\ F.g = g
    BY DEF publishBoardUpdate, Classes
  <1>3. Whole("GridInfo", g) /\ WholePlaces(g, {"o", "r"})
    BY GridInfoOfPlain
  <1> HIDE DEF F, g
  <1>4. Whole("boardAns", publishBoardUpdate(code, t, ct)) /\ publishBoardUpdate(code, t, ct).g = g
    BY <1>1, <1>2, KnownWhole
  <1>5. QED
    BY <1>3, <1>4 DEF Plain

\* and a list of rooms of any length.
LEMMA showPlain ==
    ASSUME NEW n \in Nat, NEW rooms \in [1 .. n -> Text \X Text]
    PROVE  Plain("ShowInfo", show(rooms))
  <1>1. CASE rooms = <<>>
    <2>1. Whole("ShowInfo", New) /\ DOMAIN New = {"unknown"}
      BY ValuesFacts DEF Whole, Partial, Class, NoField, New, Classes
    <2>2. Repeated(New, "ri") = <<>>
      BY <2>1 DEF Repeated, Has
    <2>3. <<>> \in Seq(Range(<<>>)) /\ DOMAIN <<>> = {}
      BY EmptySeq, LenProperties
    <2>4. QED
      BY <1>1, <2>1, <2>2, <2>3 DEF show, Plain, Has
  <1>2. CASE rooms # <<>>
    <2> DEFINE room == [k \in DOMAIN rooms |->
                            Known([createdTime |-> "answer", name |-> rooms[k][1],
                                   owner |-> "room", rival |-> rooms[k][2]])]
               F == [ri |-> room]
    <2>1. ASSUME NEW k \in DOMAIN rooms PROVE Whole("RoomInfo", room[k])
      <3> DEFINE R == [createdTime |-> "answer", name |-> rooms[k][1],
                       owner |-> "room", rival |-> rooms[k][2]]
      <3>1. rooms[k][1] \in Text /\ rooms[k][2] \in Text /\ "answer" \in Text /\ "room" \in Text
        BY WordAssumption
      <3>2. DOMAIN R \subseteq DOMAIN Values["RoomInfo"]
            /\ \A f \in DOMAIN R : Values["RoomInfo"][f] # {} => R[f] \in Values["RoomInfo"][f]
        BY <3>1 DEF Values
      <3>3. room[k] = Known(R) /\ "RoomInfo" \in Classes
        BY DEF Classes
      <3> HIDE DEF R, room
      <3>4. QED
        BY <3>2, <3>3, KnownWhole
    <2>2. show(rooms) = Known(F)
      BY <1>2 DEF show
    <2>3. DOMAIN room = 1 .. n
      OBVIOUS
    <2> HIDE DEF room
    <2>4. DOMAIN F \subseteq DOMAIN Values["ShowInfo"] /\ "ri" \in DOMAIN F /\ F.ri = room
          /\ \A f \in DOMAIN F : Values["ShowInfo"][f] # {} => F[f] \in Values["ShowInfo"][f]
      BY DEF Values, Sub
    <2> HIDE DEF F
    <2>5. Whole("ShowInfo", show(rooms)) /\ show(rooms).ri = room /\ "ri" \in DOMAIN show(rooms)
      <3>1. "ShowInfo" \in Classes
        BY DEF Classes
      <3>2. QED
        BY <2>2, <2>4, <3>1, KnownWhole
    <2>6. Repeated(show(rooms), "ri") = room
      BY <2>5 DEF Repeated, Has
    <2>7. room \in Seq(Range(room))
      <3>1. room = [k \in 1 .. n |-> room[k]]
        BY <2>3 DEF room
      <3>2. \A k \in 1 .. n : room[k] \in Range(room)
        BY <2>3 DEF Range
      <3>3. QED
        BY <3>1, <3>2
    <2>8. \A k \in DOMAIN room : Whole("RoomInfo", show(rooms).ri[k])
      BY <2>1, <2>3, <2>5
    <2>9. room # <<>>
      <3>1. n # 0
        BY <1>2, EmptySeq
      <3>2. 1 \in DOMAIN room
        BY <2>3, <3>1
      <3>3. QED
        BY <3>2, EmptySeq, LenProperties
    <2>10. QED
      BY <2>5, <2>6, <2>7, <2>8, <2>9 DEF Plain
  <1>3. QED
    BY <1>1, <1>2

\* So whatever the program sends is plain.
LEMMA SendablePlain ==
    ASSUME NEW t \in MessageType, NEW m \in Sendable[t]
    PROVE  Plain(t, m)
  <1>1. CASE t = "SystemQuery"
    <2>1. PICK line \in (Text \X Text) \cup {<<w>> : w \in Text} : m = dealCmd(line)
      BY <1>1 DEF Sendable
    <2>2. QED
      BY <1>1, <2>1, dealCmdPlain DEF Plain
  <1>2. CASE t = "SystemAns"
    <2>1. \E id \in 1 .. 9 : m = answer("answer", id)
      BY <1>2 DEF Sendable, answer, publish, OWNER_DISSAPER, CREATE_SAME_NAME, GETIN_ERROR,
                  TIME_PUBLISH, QUIT_ERROR, ALREADLY_IN_ROOM, UNKNOW_CMD, QUIT_CURRENT, FINSH_COMPELE
    <2>2. "answer" \in Text /\ \A id \in 1 .. 9 : id \in Int32
      BY WordAssumption DEF Int32
    <2>3. QED
      BY <1>2, <2>1, <2>2, answerPlain DEF Plain
  <1>3. CASE t = "ShowInfo"
    <2> DEFINE Lists(n) == [1 .. n -> {Blank, "board"} \X {Blank, "show"}]
    <2>1. m \in {show(rooms) : rooms \in UNION {Lists(n) : n \in 0 .. 2}}
      BY <1>3 DEF Sendable
    <2>2. PICK n \in 0 .. 2 : \E rooms \in Lists(n) : m = show(rooms)
      BY <2>1
    <2>3. {Blank, "board"} \X {Blank, "show"} \subseteq Text \X Text
      BY WordAssumption
    <2>4. Lists(n) \subseteq [1 .. n -> Text \X Text]
      BY <2>3
    <2>5. QED
      BY <1>3, <2>2, <2>4, showPlain
  <1>4. CASE t = "GridInfo"
    <2>1. \E x \in TopicState, ct \in {cOwner, cRival, cSubscribe} : m = GridInfoOf(x, ct)
      BY <1>4 DEF Sendable
    <2>2. QED
      BY <1>4, <2>1, GridInfoOfPlain DEF Plain
  <1>5. CASE t = "boardQuery"
    <2>1. \E d \in (-1 .. 1) \X (-1 .. 1), ct \in {cOwner, cRival, cSubscribe} :
              m = tunnel(d, ct, "room")
      BY <1>5 DEF Sendable
    <2>2. QED
      BY <1>5, <2>1, tunnelPlain
  <1>6. CASE t = "boardAns"
    <2>1. \E code \in {0, 2}, x \in TopicState, ct \in {cOwner, cRival, cSubscribe} :
              m = publishBoardUpdate(code, x, ct)
      BY <1>6 DEF Sendable
    <2>2. \A code \in {0, 2} : code \in Int64
      BY DEF Int32, Int64
    <2>3. QED
      BY <1>6, <2>1, <2>2, publishBoardUpdatePlain
  <1>7. CASE t = "finalInfo"
    <2>1. \E score \in Number \X Number : m = publishFinalInfo(score)
      BY <1>7 DEF Sendable
    <2>2. QED
      BY <1>7, <2>1, publishFinalInfoPlain DEF Plain
  <1>8. QED
    BY <1>1, <1>2, <1>3, <1>4, <1>5, <1>6, <1>7, MessageTypes

--------------------------------------------------------------------------------
(* What another sender may leave out.                                          *)

\* A message with fewer fields is still whole,
LEMMA RestrictWhole ==
    ASSUME NEW c, NEW m, Whole(c, m), NEW S \in SUBSET DOMAIN m, "unknown" \in S
    PROVE  Whole(c, Restrict(m, S))
  <1>1. DOMAIN Restrict(m, S) = S /\ \A f \in S : Restrict(m, S)[f] = m[f]
    BY DEF Restrict
  <1>2. Partial(c, Restrict(m, S))
    BY <1>1 DEF Whole, Partial, Class, NoField
  <1>3. QED
    BY <1>1, <1>2, ObjectFacts DEF Whole

\* and plain.
LEMMA RestrictPlain ==
    ASSUME NEW c, NEW m, Plain(c, m), NEW S \in SUBSET DOMAIN m, "unknown" \in S
    PROVE  Plain(c, Restrict(m, S))
  <1>1. DOMAIN Restrict(m, S) = S /\ \A f \in S : Restrict(m, S)[f] = m[f]
    BY DEF Restrict
  <1>2. Whole(c, Restrict(m, S))
    BY RestrictWhole DEF Plain
  <1>3. CASE c = "ShowInfo"
    <2>1. CASE "ri" \in S
      <3>1. Repeated(Restrict(m, S), "ri") = Repeated(m, "ri") /\ Restrict(m, S).ri = m.ri
        BY <1>1, <2>1 DEF Repeated, Has
      <3>2. QED
        BY <1>1, <1>2, <1>3, <2>1, <3>1 DEF Plain, Has
    <2>2. CASE "ri" \notin S
      <3>1. Repeated(Restrict(m, S), "ri") = <<>>
        BY <1>1, <2>2 DEF Repeated, Has
      <3>2. <<>> \in Seq(Range(<<>>)) /\ DOMAIN <<>> = {}
        BY EmptySeq, LenProperties
      <3>3. QED
        BY <1>1, <1>2, <1>3, <2>2, <3>1, <3>2 DEF Plain, Has
    <2>3. QED
      BY <2>1, <2>2
  <1>4. CASE c # "ShowInfo"
    BY <1>1, <1>2, <1>4 DEF Plain, WholePlaces, Has
  <1>5. QED
    BY <1>3, <1>4

\* Putting another message within into one disturbs nothing else of it.
LEMMA PutWhole ==
    ASSUME NEW c, NEW m, Whole(c, m), NEW f, IsSub(c, f), NEW s
    PROVE  Whole(c, Put(m, f, s))
  <1>1. c \in Classes /\ f # "unknown"
    BY DEF IsSub, Classes
  <1>2. f \in DOMAIN Values[c] /\ Values[c][f] = {}
    BY SubFacts
  <1>3. Partial(c, Put(m, f, s))
    BY <1>1, <1>2, PutPartial, ValuesFacts DEF Whole
  <1>4. "unknown" \in DOMAIN Put(m, f, s) /\ Put(m, f, s).unknown = m.unknown
    BY <1>1 DEF Put, Whole
  <1>5. QED
    BY <1>3, <1>4, ObjectFacts DEF Whole

\* A message that lacks a field is whole,
LEMMA WithoutWhole ==
    ASSUME NEW c, NEW m, Whole(c, m), NEW s \in Without(m)
    PROVE  Whole(c, s)
  <1>1. PICK f \in DOMAIN m \ {"unknown"} : s = Restrict(m, DOMAIN m \ {f})
    BY DEF Without
  <1>2. DOMAIN m \ {f} \in SUBSET DOMAIN m /\ "unknown" \in DOMAIN m \ {f}
    BY DEF Whole
  <1>3. QED
    BY <1>1, <1>2, RestrictWhole

\* and plain.
LEMMA WithoutPlain ==
    ASSUME NEW c, NEW m, Plain(c, m), NEW s \in Without(m)
    PROVE  Plain(c, s)
  <1>1. PICK f \in DOMAIN m \ {"unknown"} : s = Restrict(m, DOMAIN m \ {f})
    BY DEF Without
  <1>2. DOMAIN m \ {f} \in SUBSET DOMAIN m /\ "unknown" \in DOMAIN m \ {f}
    BY DEF Plain, Whole
  <1>3. QED
    BY <1>1, <1>2, RestrictPlain

\* So is a board that lacks one, at any depth,
LEMMA ThinnedGridPlain ==
    ASSUME NEW m, Plain("GridInfo", m), NEW s \in ThinnedGrid(m)
    PROVE  Plain("GridInfo", s)
  <1>1. CASE s \in Without(m)
    BY <1>1, WithoutPlain
  <1>2. CASE s \in ThinnedIn(m, {"o", "r"}, Without)
    <2>1. PICK f \in {"o", "r"} \cap DOMAIN m : \E sub \in Without(m[f]) : s = Put(m, f, sub)
      BY <1>2 DEF ThinnedIn
    <2>2. PICK sub \in Without(m[f]) : s = Put(m, f, sub)
      BY <2>1
    <2>3. Whole("Pos", sub)
      BY <2>1, WithoutWhole DEF Plain, WholePlaces
    <2>4. Whole("GridInfo", s)
      BY <2>1, <2>2, PutWhole DEF IsSub, Plain
    <2>5. WholePlaces(s, {"o", "r"})
      BY <2>1, <2>2, <2>3 DEF Plain, WholePlaces, Put
    <2>6. QED
      BY <2>4, <2>5 DEF Plain
  <1>3. QED
    BY <1>1, <1>2 DEF ThinnedGrid

\* and every message that lacks one.
LEMMA ThinnedPlain ==
    ASSUME NEW t \in MessageType, NEW m, Plain(t, m), NEW s \in Thinned(t, m)
    PROVE  Plain(t, s)
  <1>1. CASE s \in Without(m)
    BY <1>1, WithoutPlain
  <1>2. CASE t = "boardAns" /\ s \in ThinnedIn(m, {"g"}, ThinnedGrid)
    <2>1. PICK f \in {"g"} \cap DOMAIN m : \E sub \in ThinnedGrid(m[f]) : s = Put(m, f, sub)
      BY <1>2 DEF ThinnedIn
    <2>2. PICK sub \in ThinnedGrid(m[f]) : s = Put(m, f, sub)
      BY <2>1
    <2>3. Plain("GridInfo", m.g)
      BY <1>2, <2>1 DEF Plain, Has
    <2>4. Plain("GridInfo", sub)
      BY <2>1, <2>3, ThinnedGridPlain
    <2>5. Whole("boardAns", s)
      BY <1>2, <2>1, <2>2, PutWhole DEF IsSub, Plain
    <2>6. s.g = sub
      BY <2>1, <2>2 DEF Put
    <2>7. QED
      BY <1>2, <2>4, <2>5, <2>6 DEF Plain
  <1>3. CASE t = "GridInfo" /\ s \in ThinnedGrid(m)
    BY <1>3, ThinnedGridPlain
  <1>4. CASE t = "boardQuery" /\ s \in ThinnedIn(m, {"x"}, Without)
    <2>1. PICK f \in {"x"} \cap DOMAIN m : \E sub \in Without(m[f]) : s = Put(m, f, sub)
      BY <1>4 DEF ThinnedIn
    <2>2. PICK sub \in Without(m[f]) : s = Put(m, f, sub)
      BY <2>1
    <2>3. Whole("Pos", sub)
      BY <1>4, <2>1, WithoutWhole DEF Plain, WholePlaces
    <2>4. Whole("boardQuery", s)
      BY <1>4, <2>1, <2>2, PutWhole DEF IsSub, Plain
    <2>5. WholePlaces(s, {"x"})
      BY <2>1, <2>2, <2>3 DEF WholePlaces, Put
    <2>6. QED
      BY <1>4, <2>4, <2>5 DEF Plain
  <1>5. \/ s \in Without(m)
        \/ t = "boardAns" /\ s \in ThinnedIn(m, {"g"}, ThinnedGrid)
        \/ t = "GridInfo" /\ s \in ThinnedGrid(m)
        \/ t = "boardQuery" /\ s \in ThinnedIn(m, {"x"}, Without)
    BY Zenon DEF Thinned
  <1>6. QED
    BY <1>1, <1>2, <1>3, <1>4, <1>5

--------------------------------------------------------------------------------
(* What arrives.                                                               *)

\* What is written may arrive.
LEMMA WrittenArrives ==
    ASSUME NEW nums, NEW W, NEW A, W \subseteq A
    PROVE  Written(nums, W) \subseteq Arriving(nums, A)
  <1>1. Seq(W) \subseteq Seq(A)
    BY SeqMonotonic
  <1>2. QED
    BY <1>1 DEF Arriving, Written

\* Damage to a wire of scalars leaves a wire that may arrive,
LEMMA DamagedOutside ==
    ASSUME NEW w \in Seq(Written({}, {})), NEW d \in DamagedPos(w)
    PROVE  d \in Seq(Arriving({}, {}))
  <1>1. PICK k \in DOMAIN w :
            \/ d \in {RemoveAt(w, k), [w EXCEPT ![k] = Retyped(@)], [w EXCEPT ![k] = Malformed(@)]}
            \/ d \in (IF w[k].kind = "message"
                      THEN {[w EXCEPT ![k].val = v] : v \in {}} ELSE {})
    BY Zenon DEF DamagedPos, DamagedAround
  <1> DEFINE A == Arriving({}, {})
  <1>2. {} \subseteq {} /\ {} \in SUBSET (0 .. 14)
    OBVIOUS
  <1>3. /\ RemoveAt(w, k) \in Seq(A)
        /\ [w EXCEPT ![k] = Retyped(@)] \in Seq(A)
        /\ [w EXCEPT ![k] = Malformed(@)] \in Seq(A)
    BY <1>2, ChangedWire
  <1> HIDE DEF A
  <1>4. QED
    BY <1>1, <1>3 DEF A

\* so does damage to one with messages in it,
LEMMA DamagedWithin ==
    ASSUME NEW nums \in SUBSET (0 .. 14), NEW w \in Seq(Written(nums, Written({}, {}))),
           NEW d \in DamagedGrid(w)
    PROVE  d \in Seq(Arriving(nums, Arriving({}, {})))
  <1> DEFINE W == Written({}, {})
             A == Arriving({}, {})
  <1>1. PICK k \in DOMAIN w :
            \/ d \in {RemoveAt(w, k), [w EXCEPT ![k] = Retyped(@)], [w EXCEPT ![k] = Malformed(@)]}
            \/ d \in (IF w[k].kind = "message"
                      THEN {[w EXCEPT ![k].val = v] : v \in DamagedPos(w[k].val)} ELSE {})
    BY Zenon DEF DamagedGrid, DamagedAround
  <1>2. W \subseteq A
    BY WrittenArrives
  <1>3. \A u \in Seq(W) : \A v \in DamagedPos(u) : v \in Seq(A)
    BY DamagedOutside
  <1> HIDE DEF W, A
  <1>4. w[k].kind = "message" => \A v \in DamagedPos(w[k].val) :
            [w EXCEPT ![k].val = v] \in Seq(Arriving(nums, A))
    BY <1>2, <1>3, ChangedWire DEF W
  <1>5. /\ RemoveAt(w, k) \in Seq(Arriving(nums, A))
        /\ [w EXCEPT ![k] = Retyped(@)] \in Seq(Arriving(nums, A))
        /\ [w EXCEPT ![k] = Malformed(@)] \in Seq(Arriving(nums, A))
    BY <1>2, ChangedWire DEF W
  <1>6. QED
    BY <1>1, <1>4, <1>5 DEF A

\* and damage to one with messages in these.
LEMMA DamagedDeep ==
    ASSUME NEW nums \in SUBSET (0 .. 14), NEW inner \in SUBSET (0 .. 14),
           NEW w \in Seq(Written(nums, Written(inner, Written({}, {})))), NEW d \in Damaged(w)
    PROVE  d \in Seq(Arriving(nums, Arriving(inner, Arriving({}, {}))))
  <1> DEFINE W == Written(inner, Written({}, {}))
             A == Arriving(inner, Arriving({}, {}))
  <1>1. PICK k \in DOMAIN w :
            \/ d \in {RemoveAt(w, k), [w EXCEPT ![k] = Retyped(@)], [w EXCEPT ![k] = Malformed(@)]}
            \/ d \in (IF w[k].kind = "message"
                      THEN {[w EXCEPT ![k].val = v] : v \in DamagedGrid(w[k].val)} ELSE {})
    BY Zenon DEF Damaged, DamagedAround
  <1>2. W \subseteq A
    BY WrittenArrives
  <1>3. \A u \in Seq(W) : \A v \in DamagedGrid(u) : v \in Seq(A)
    BY DamagedWithin
  <1> HIDE DEF W, A
  <1>4. w[k].kind = "message" => \A v \in DamagedGrid(w[k].val) :
            [w EXCEPT ![k].val = v] \in Seq(Arriving(nums, A))
    BY <1>2, <1>3, ChangedWire DEF W
  <1>5. /\ RemoveAt(w, k) \in Seq(Arriving(nums, A))
        /\ [w EXCEPT ![k] = Retyped(@)] \in Seq(Arriving(nums, A))
        /\ [w EXCEPT ![k] = Malformed(@)] \in Seq(Arriving(nums, A))
    BY <1>2, ChangedWire DEF W
  <1>6. QED
    BY <1>1, <1>4, <1>5 DEF A

\* Whatever is made of a wire, items of the kinds that the peer knows arrive.
LEMMA WireArrives ==
    ASSUME NEW t \in MessageType, NEW w \in Seq(Items(Written, t))
    PROVE  /\ w \in Seq(Items(Arriving, t))
           /\ Reverse(w) \in Seq(Items(Arriving, t))
           /\ \A k \in 1 .. Len(w) + 1 : InsertAt(w, k, Unheard) \in Seq(Items(Arriving, t))
           /\ \A d \in Damaged(w) : d \in Seq(Items(Arriving, t))
  <1>1. \A X : Written({}, X) = Written({}, {}) /\ Arriving({}, X) = Arriving({}, {})
    BY DEF Written, Arriving
  <1>2. \E nums \in SUBSET (0 .. 14), inner \in SUBSET (0 .. 14) :
            /\ Items(Written, t) = Written(nums, Written(inner, Written({}, {})))
            /\ Items(Arriving, t) = Arriving(nums, Arriving(inner, Arriving({}, {})))
    <2>1. CASE t = "boardAns"
      <3>1. {2} \in SUBSET (0 .. 14) /\ {1, 2} \in SUBSET (0 .. 14)
        OBVIOUS
      <3>2. QED
        BY <2>1, <3>1, ItemsWritten, ItemsFacts
    <2>2. CASE t = "GridInfo"
      <3>1. {1, 2} \in SUBSET (0 .. 14) /\ {} \in SUBSET (0 .. 14)
        OBVIOUS
      <3>2. Items(Written, t) = Written({1, 2}, Written({}, Written({}, {})))
            /\ Items(Arriving, t) = Arriving({1, 2}, Arriving({}, Arriving({}, {})))
        BY <1>1, <2>2, ItemsWritten, ItemsFacts
      <3>3. QED
        BY <3>1, <3>2
    <2>3. CASE t \in {"boardQuery", "ShowInfo"}
      <3>1. {1} \in SUBSET (0 .. 14) /\ {} \in SUBSET (0 .. 14)
        OBVIOUS
      <3>2. Items(Written, t) = Written({1}, Written({}, Written({}, {})))
            /\ Items(Arriving, t) = Arriving({1}, Arriving({}, Arriving({}, {})))
        BY <1>1, <2>3, ItemsWritten, ItemsFacts
      <3>3. QED
        BY <3>1, <3>2
    <2>4. CASE t \in {"SystemQuery", "SystemAns", "finalInfo"}
      <3>1. t \in Classes \ {"ShowInfo", "GridInfo", "boardQuery", "boardAns"}
        BY <2>4 DEF Classes
      <3>2. Items(Written, t) = Written({}, Written({}, Written({}, {})))
            /\ Items(Arriving, t) = Arriving({}, Arriving({}, Arriving({}, {})))
        BY <1>1, <3>1, ItemsWritten, ItemsFacts
      <3>3. {} \in SUBSET (0 .. 14)
        OBVIOUS
      <3>4. QED
        BY <3>2, <3>3
    <2>5. QED
      BY <2>1, <2>2, <2>3, <2>4, MessageTypes
  <1>3. PICK nums \in SUBSET (0 .. 14), inner \in SUBSET (0 .. 14) :
            /\ Items(Written, t) = Written(nums, Written(inner, Written({}, {})))
            /\ Items(Arriving, t) = Arriving(nums, Arriving(inner, Arriving({}, {})))
    BY <1>2
  <1>4. Written(inner, Written({}, {})) \subseteq Arriving(inner, Arriving({}, {}))
    BY WrittenArrives
  <1>5. \A d \in Damaged(w) : d \in Seq(Items(Arriving, t))
    BY <1>3, DamagedDeep
  <1>6. QED
    BY <1>3, <1>4, <1>5, ChangedWire

--------------------------------------------------------------------------------
(* The invariant holds.                                                        *)

\* What a sender of the class writes may arrive.
LEMMA WhatAnyoneSends ==
    ASSUME NEW t \in MessageType, NEW m, Plain(t, m)
    PROVE  Serialize(t, m) \in Seq(Items(Arriving, t))
  BY PlainWritten, WireArrives

\* The fields that a sender generated from info.proto writes are set.
LEMMA InfoProtoFields ==
    ASSUME NEW t \in DOMAIN InInfoProto, NEW m \in Sendable[t]
    PROVE  t \in MessageType /\ InInfoProto[t] \cup {"unknown"} \subseteq DOMAIN m
  <1>1. t \in {"SystemAns", "GridInfo"}
    BY DEF InInfoProto
  <1>2. CASE t = "SystemAns"
    <2>1. (\E id : m = answer("answer", id)) \/ (\E id : m = publish("answer", id))
      BY <1>2 DEF Sendable
    <2>2. {"content", "unknown"} \subseteq DOMAIN m
      BY <2>1 DEF answer, publish, Known, Put
    <2>3. QED
      BY <1>2, <2>2, MessageTypes DEF InInfoProto
  <1>3. CASE t = "GridInfo"
    <2>1. \E x, ct : m = GridInfoOf(x, ct)
      BY <1>3 DEF Sendable
    <2>2. {"o", "r", "grid", "unknown"} \subseteq DOMAIN m
      BY <2>1 DEF GridInfoOf, Known, Put
    <2>3. QED
      BY <1>3, <2>2, MessageTypes DEF InInfoProto
  <1>4. QED
    BY <1>1, <1>2, <1>3

\* The invariant holds at the beginning,
LEMMA InitIInv == Init => IInv
  <1> SUFFICES ASSUME Init PROVE IInv
    OBVIOUS
  <1>1. type \in Classes
    BY MessageTypes DEF Init, Classes
  <1>2. Frame(class, got, rest)
    BY <1>1, NewSound, EmptySeq DEF Init, Frame
  <1>3. CallersWait
    <2>1. <<>> \in Seq(Range(<<>>)) /\ DOMAIN <<>> = {}
      BY EmptySeq, LenProperties
    <2>2. QED
      BY <2>1 DEF CallersWait, Init
  <1>4. QED
    BY <1>2, <1>3 DEF Init, IInv

\* Whatever reaches the peer, it starts to read into an empty object of its class.
LEMMA ArrivingInv ==
    ASSUME IInv, status = "built", rest' \in Seq(Items(Arriving, type)), status' = "reading",
           UNCHANGED <<type, sent, class, got, callers>>
    PROVE  IInv'
  <1>1. callers = <<>> /\ class = type
    BY DEF IInv, CallersWait
  <1>2. Frame(class, got, rest)'
    BY <1>1 DEF IInv, Frame
  <1>3. CallersWait'
    BY DEF IInv, CallersWait, CalledBy
  <1>4. QED
    BY <1>2, <1>3 DEF IInv

\* when a field is read,
LEMMA ReadFieldInv == ASSUME IInv, ReadField PROVE IInv'
  <1> DEFINE i == Head(rest)
  <1>1. class \in Classes /\ Sound(class, got) /\ rest \in Seq(Items(Arriving, class)) /\ rest # <<>>
    BY DEF IInv, Frame, ReadField
  <1>2. i \in Items(Arriving, class) /\ Tail(rest) \in Seq(Items(Arriving, class))
    BY <1>1, HeadTailProperties
  <1>3. i.kind # "malformed" /\ Into(class, i) = NoMessage
    BY DEF ReadField
  <1>4. \/ i.kind = "int" /\ i.val \in Int32
        \/ i.kind = "text" /\ i.val \in Text
    BY <1>1, <1>2, <1>3, ItemFacts
  <1>5. Sound(class, MergePartial(class, got, i))
    BY <1>1, <1>4, ReadingIsSound
  <1>6. Frame(class, got, rest)'
    BY <1>1, <1>2, <1>5 DEF ReadField, Frame
  <1>7. CallersWait'
    BY DEF IInv, ReadField, CallersWait, CalledBy, message
  <1>8. QED
    BY <1>6, <1>7 DEF IInv, ReadField, message

\* when the reader of a field's class is called,
LEMMA EnterMessageInv == ASSUME IInv, EnterMessage PROVE IInv'
  <1> DEFINE i == Head(rest)
             f == Into(class, i)
             caller == [class |-> class, got |-> got, rest |-> Tail(rest), into |-> f]
  <1>1. class \in Classes /\ Sound(class, got) /\ rest \in Seq(Items(Arriving, class)) /\ rest # <<>>
    BY DEF IInv, Frame, EnterMessage
  <1>2. i \in Items(Arriving, class) /\ Tail(rest) \in Seq(Items(Arriving, class))
    BY <1>1, HeadTailProperties
  <1>3. /\ i.kind # "malformed" /\ f # NoMessage /\ status = "reading"
        /\ callers' = <<caller>> \o callers
        /\ class' = ClassOf(f)
        /\ got' = IF f = "ri" THEN New ELSE Mutable(got, f)
        /\ rest' = i.val
        /\ UNCHANGED <<type, sent, status>>
    BY DEF EnterMessage, message
  <1>4. IsSub(class, f) /\ ClassOf(f) \in Classes /\ i.val \in Seq(Items(Arriving, ClassOf(f)))
    BY <1>1, <1>2, <1>3, ItemFacts
  <1>5. Frame(class, got, rest)'
    <2>1. Sound(ClassOf(f), IF f = "ri" THEN New ELSE Mutable(got, f))
      BY <1>1, <1>4, EnteringIsSound
    <2>2. QED
      BY <1>3, <1>4, <2>1 DEF Frame
  <1>6. /\ callers \in Seq(Range(callers))
        /\ \A k \in DOMAIN callers :
               /\ Frame(callers[k].class, callers[k].got, callers[k].rest)
               /\ IsSub(callers[k].class, callers[k].into)
               /\ ClassOf(callers[k].into) = CalledBy(k)
        /\ type = IF callers = <<>> THEN class ELSE callers[Len(callers)].class
    BY DEF IInv, CallersWait
  <1>7. /\ caller.class = class /\ caller.got = got /\ caller.rest = Tail(rest)
        /\ caller.into = f
    OBVIOUS
  <1> HIDE DEF caller, f, i
  <1>8. /\ callers' \in Seq(Range(callers'))
        /\ Len(callers') = Len(callers) + 1 /\ Len(callers) \in Nat
        /\ DOMAIN callers' = 1 .. Len(callers) + 1
        /\ callers'[1] = caller
        /\ \A k \in 1 .. Len(callers) : callers'[k + 1] = callers[k]
    <2> DEFINE S == Range(callers) \cup {caller}
    <2>1. callers \in Seq(S) /\ <<caller>> \in Seq(S) /\ Len(<<caller>>) = 1 /\ <<caller>>[1] = caller
      BY <1>6, SeqMonotonic
    <2>2. /\ callers' \in Seq(S) /\ Len(callers') = 1 + Len(callers)
          /\ \A k \in 1 .. 1 + Len(callers) :
                 callers'[k] = IF k <= 1 THEN <<caller>>[k] ELSE callers[k - 1]
      BY <1>3, <2>1, ConcatProperties
    <2>3. callers' \in Seq(Range(callers')) /\ DOMAIN callers' = 1 .. Len(callers')
          /\ Len(callers) \in Nat
      BY <2>1, <2>2, SeqOfRange, LenProperties
    <2>4. \A k \in 1 .. Len(callers) : callers'[k + 1] = callers[k]
      BY <2>2, <2>3
    <2>5. QED
      BY <2>1, <2>2, <2>3, <2>4
  <1>9. ASSUME NEW k \in DOMAIN callers'
        PROVE  /\ Frame(callers'[k].class, callers'[k].got, callers'[k].rest)
               /\ IsSub(callers'[k].class, callers'[k].into)
               /\ ClassOf(callers'[k].into) = CalledBy(k)'
    <2>1. CASE k = 1
      BY <2>1, <1>1, <1>2, <1>3, <1>4, <1>7, <1>8 DEF Frame, CalledBy
    <2>2. CASE k # 1
      <3>1. k - 1 \in 1 .. Len(callers) /\ callers'[k] = callers[k - 1]
        BY <1>8, <1>9, <2>2
      <3>2. k - 1 \in DOMAIN callers
        BY <1>6, <3>1, LenProperties
      <3>3. CalledBy(k)' = callers'[k - 1].class
        BY <2>2 DEF CalledBy
      <3>4. CalledBy(k)' = CalledBy(k - 1)
        <4>1. CASE k = 2
          BY <3>3, <4>1, <1>7, <1>8 DEF CalledBy
        <4>2. CASE k # 2
          <5>1. k - 2 \in 1 .. Len(callers) /\ callers'[k - 1] = callers[k - 2]
            BY <1>8, <3>1, <4>2
          <5>2. k - 1 # 1 /\ (k - 1) - 1 = k - 2
            BY <3>1, <4>2, <1>8
          <5>3. QED
            BY <3>3, <5>1, <5>2 DEF CalledBy
        <4>3. QED
          BY <4>1, <4>2
      <3>5. QED
        BY <1>6, <3>1, <3>2, <3>4
    <2>3. QED
      BY <2>1, <2>2
  <1>10. type' = IF callers' = <<>> THEN class' ELSE callers'[Len(callers')].class
    <2>1. callers' # <<>>
      BY <1>8, EmptySeq
    <2>2. CASE callers = <<>>
      BY <2>1, <2>2, <1>3, <1>6, <1>7, <1>8, EmptySeq
    <2>3. CASE callers # <<>>
      <3>1. Len(callers) \in 1 .. Len(callers)
        BY <2>3, <1>6, <1>8, EmptySeq
      <3>2. QED
        BY <2>1, <2>3, <3>1, <1>3, <1>6, <1>8
    <2>4. QED
      BY <2>2, <2>3
  <1>11. CallersWait'
    BY <1>8, <1>9, <1>10 DEF CallersWait
  <1>12. QED
    BY <1>3, <1>5, <1>11 DEF IInv

\* when it returns,
LEMMA LeaveMessageInv == ASSUME IInv, LeaveMessage PROVE IInv'
  <1> DEFINE caller == Head(callers)
  <1>1. /\ status = "reading" /\ callers # <<>>
        /\ class' = caller.class
        /\ got' = IF caller.into = "ri" THEN add_ri(caller.got, got)
                  ELSE Put(caller.got, caller.into, got)
        /\ rest' = caller.rest
        /\ callers' = Tail(callers)
        /\ UNCHANGED <<type, sent, status>>
    BY DEF LeaveMessage, message
  <1>2. /\ callers \in Seq(Range(callers))
        /\ \A k \in DOMAIN callers :
               /\ Frame(callers[k].class, callers[k].got, callers[k].rest)
               /\ IsSub(callers[k].class, callers[k].into)
               /\ ClassOf(callers[k].into) = CalledBy(k)
        /\ type = IF callers = <<>> THEN class ELSE callers[Len(callers)].class
    BY DEF IInv, CallersWait
  <1>3. /\ caller = callers[1]
        /\ callers' \in Seq(Range(callers'))
        /\ Len(callers') = Len(callers) - 1 /\ Len(callers) \in Nat \ {0}
        /\ DOMAIN callers' = 1 .. Len(callers) - 1 /\ DOMAIN callers = 1 .. Len(callers)
        /\ \A k \in 1 .. Len(callers) - 1 : callers'[k] = callers[k + 1]
    <2>1. /\ Len(callers) \in Nat \ {0} /\ DOMAIN callers = 1 .. Len(callers)
      BY <1>1, <1>2, LenProperties, EmptySeq
    <2>2. /\ caller = callers[1] /\ Tail(callers) \in Seq(Range(callers))
          /\ Len(Tail(callers)) = Len(callers) - 1
          /\ \A k \in 1 .. Len(Tail(callers)) : Tail(callers)[k] = callers[k + 1]
      BY <1>1, <1>2, HeadTailProperties
    <2>3. callers' \in Seq(Range(callers')) /\ DOMAIN callers' = 1 .. Len(callers')
      BY <1>1, <2>2, SeqOfRange, LenProperties
    <2>4. QED
      BY <1>1, <2>1, <2>2, <2>3
  <1>4. /\ Frame(caller.class, caller.got, caller.rest)
        /\ IsSub(caller.class, caller.into)
        /\ ClassOf(caller.into) = class
    BY <1>2, <1>3 DEF CalledBy
  <1>5. Sound(class, got)
    BY DEF IInv, Frame
  <1> HIDE DEF caller
  <1>6. Frame(class, got, rest)'
    <2>1. Sound(caller.class, IF caller.into = "ri" THEN add_ri(caller.got, got)
                              ELSE Put(caller.got, caller.into, got))
      BY <1>4, <1>5, LeavingIsSound DEF Frame
    <2>2. QED
      BY <1>1, <1>4, <2>1 DEF Frame
  <1>7. ASSUME NEW k \in DOMAIN callers'
        PROVE  /\ Frame(callers'[k].class, callers'[k].got, callers'[k].rest)
               /\ IsSub(callers'[k].class, callers'[k].into)
               /\ ClassOf(callers'[k].into) = CalledBy(k)'
    <2>1. k + 1 \in DOMAIN callers /\ callers'[k] = callers[k + 1] /\ k \in Nat /\ k + 1 # 1
      BY <1>3, <1>7
    <2>2. CalledBy(k + 1) = callers[k].class
      BY <2>1 DEF CalledBy
    <2>3. CalledBy(k)' = callers[k].class
      <3>1. CASE k = 1
        BY <3>1, <1>1, <1>3 DEF CalledBy
      <3>2. CASE k # 1
        <4>1. k - 1 \in 1 .. Len(callers) - 1 /\ (k - 1) + 1 = k
          BY <1>3, <1>7, <3>2
        <4>2. QED
          BY <1>3, <3>2, <4>1 DEF CalledBy
      <3>3. QED
        BY <3>1, <3>2
    <2>4. QED
      BY <1>2, <2>1, <2>2, <2>3
  <1>8. type' = IF callers' = <<>> THEN class' ELSE callers'[Len(callers')].class
    <2>1. type' = callers[Len(callers)].class
      BY <1>1, <1>2
    <2>2. CASE Len(callers) = 1
      <3>1. callers' = <<>>
        BY <1>3, <2>2, EmptySeq
      <3>2. QED
        BY <1>1, <1>3, <2>1, <2>2, <3>1
    <2>3. CASE Len(callers) # 1
      <3>1. Len(callers) - 1 \in 1 .. Len(callers) - 1 /\ callers' # <<>>
            /\ (Len(callers) - 1) + 1 = Len(callers)
        BY <1>3, <2>3, EmptySeq
      <3>2. QED
        BY <1>3, <2>1, <3>1
    <2>4. QED
      BY <2>2, <2>3
  <1>9. CallersWait'
    BY <1>3, <1>7, <1>8 DEF CallersWait
  <1>10. QED
    BY <1>1, <1>6, <1>9 DEF IInv

\* and after every step.
LEMMA NextIInv == ASSUME IInv, [Next]_vars PROVE IInv'
  <1>1. type \in MessageType /\ (status = "built" => sent \in Sendable[type] /\ Plain(type, sent))
    BY SendablePlain DEF IInv
  <1>2. status = "built" => Serialize(type, sent) \in Seq(Items(Written, type))
    BY <1>1, PlainWritten
  <1>3. CASE AsSent
    BY <1>1, <1>2, <1>3, WireArrives, ArrivingInv DEF AsSent, Arrive
  <1>4. CASE Reordered
    BY <1>1, <1>2, <1>4, WireArrives, ArrivingInv DEF Reordered, Arrive
  <1>5. CASE Extended
    BY <1>1, <1>2, <1>5, WireArrives, ArrivingInv DEF Extended, Arrive
  <1>6. CASE OtherVersion
    BY <1>1, <1>2, <1>6, WireArrives, ArrivingInv DEF OtherVersion, Arrive
  <1>7. CASE OfInfoProto
    <2> DEFINE S == InInfoProto[type] \cup {"unknown"}
    <2>1. status = "built" /\ type \in DOMAIN InInfoProto /\ rest' = Serialize(type, Restrict(sent, S))
      BY <1>7 DEF OfInfoProto, Arrive
    <2>2. S \in SUBSET DOMAIN sent /\ "unknown" \in S
      BY <1>1, <2>1, InfoProtoFields
    <2>3. Plain(type, Restrict(sent, S))
      BY <1>1, <2>1, <2>2, RestrictPlain
    <2>4. rest' \in Seq(Items(Arriving, type))
      BY <1>1, <2>1, <2>3, WhatAnyoneSends
    <2>5. QED
      BY <1>7, <2>4, ArrivingInv DEF OfInfoProto, Arrive
  <1>8. CASE Followed
    <2> DEFINE m == CHOOSE x \in Sendable[type] : TRUE
    <2>1. status = "built" /\ more' \in {m} \cup Thinned(type, m)
          /\ rest' = Serialize(type, sent) \o Serialize(type, more')
      BY <1>8 DEF Followed, Arrive
    <2>2. m \in Sendable[type]
      BY <1>1, <2>1
    <2>3. Plain(type, m)
      BY <1>1, <2>2, SendablePlain
    <2>4. Plain(type, more')
      BY <1>1, <2>1, <2>3, ThinnedPlain
    <2>5. Serialize(type, sent) \in Seq(Items(Arriving, type))
          /\ Serialize(type, more') \in Seq(Items(Arriving, type))
      BY <1>1, <2>1, <2>4, WhatAnyoneSends
    <2>6. rest' \in Seq(Items(Arriving, type))
      BY <2>1, <2>5, ConcatProperties
    <2>7. QED
      BY <1>8, <2>6, ArrivingInv DEF Followed, Arrive
  <1>9. CASE ReadField
    BY <1>9, ReadFieldInv
  <1>10. CASE EnterMessage
    BY <1>10, EnterMessageInv
  <1>11. CASE LeaveMessage
    BY <1>11, LeaveMessageInv
  <1>12. CASE Fail
    BY <1>12 DEF Fail, IInv, CallersWait, CalledBy, message
  <1>13. CASE Finish
    BY <1>13 DEF Finish, IInv, CallersWait, CalledBy, message
  <1>14. CASE UNCHANGED vars
    BY <1>14 DEF vars, IInv, CallersWait, CalledBy, message
  <1>15. QED
    BY <1>3, <1>4, <1>5, <1>6, <1>7, <1>8, <1>9, <1>10, <1>11, <1>12, <1>13, <1>14 DEF Next

\* In every reader that runs or waits, at any depth, what has been read are fields of its
\* class with values of their types, and what is left to read are items some version may
\* have written.
THEOREM ReadersAreSound == Spec => []IInv
  BY InitIInv, NextIInv, PTL DEF Spec

\* Whatever has arrived, a message that is handed to a handler has every required field,
\* at any depth, and no value of another type.
THEOREM NothingIncomplete == Spec => []NothingIncompleteIsDelivered
  <1>1. IInv => NothingIncompleteIsDelivered
    <2>1. SUFFICES ASSUME IInv, status = "delivered" PROVE IsComplete(type, got)
      BY DEF NothingIncompleteIsDelivered
    <2>2. type \in MessageType /\ class = type /\ Sound(class, got) /\ IsInitialized(type, got)
      BY <2>1 DEF IInv, CallersWait, Frame
    <2>3. QED
      BY <2>2, CompleteIfInitialized
  <1>2. QED
    BY <1>1, ReadersAreSound, PTL

--------------------------------------------------------------------------------
(* What one version writes, the same version reads.                            *)

\* A case of a reader's switch is taken by its number and its wire type.
LEMMA TagFacts ==
    \A n, k, p, l, v :
        Is(Item(n, k, v), p, l) <=> n = p /\ WireType(k) = WireType(l)
  BY DEF Is, Item

\* The item of a field is read back into that field, in each of the eight classes.
\* SystemQuery:
LEMMA SystemQueryReads ==
    ASSUME NEW m, NEW g, NEW f \in DOMAIN Values["SystemQuery"], ~ IsSub("SystemQuery", f),
           m[f] \in Values["SystemQuery"][f]
    PROVE  /\ MergePartial("SystemQuery", g, ItemOf("SystemQuery", m, f)) = Put(g, f, m[f])
           /\ Into("SystemQuery", ItemOf("SystemQuery", m, f)) = NoMessage
  <1> DEFINE i == ItemOf("SystemQuery", m, f)
  <1>1. MergePartial("SystemQuery", g, i) = SystemQuery_MergePartial(g, i)
    BY Zenon DEF MergePartial
  <1>2. CASE f = "cmd"
    <2>1. i = Item(2, "text", m[f]) /\ i.val = m[f]
      BY <1>2 DEF ItemOf, IsSub, Numbers, Texts, Booleans, Item
    <2>2. /\ Is(i, 2, "text")
          /\ ~ Is(i, 3, "text")
      BY <2>1, TagFacts DEF WireType
    <2> HIDE DEF i
    <2>3. SystemQuery_MergePartial(g, i) = ReadValue(g, "cmd", i)
      BY <2>2, Zenon DEF SystemQuery_MergePartial
    <2>4. ReadValue(g, "cmd", i) = Put(g, f, m[f])
      BY <1>2, <2>1 DEF ReadValue
    <2>5. Into("SystemQuery", i) = NoMessage
      BY Zenon DEF Into
    <2>6. QED
      BY <1>1, <2>3, <2>4, <2>5 DEF i
  <1>3. CASE f = "topic"
    <2>1. i = Item(3, "text", m[f]) /\ i.val = m[f]
      BY <1>3 DEF ItemOf, IsSub, Numbers, Texts, Booleans, Item
    <2>2. /\ Is(i, 3, "text")
          /\ ~ Is(i, 2, "text")
      BY <2>1, TagFacts DEF WireType
    <2> HIDE DEF i
    <2>3. SystemQuery_MergePartial(g, i) = ReadValue(g, "topic", i)
      BY <2>2, Zenon DEF SystemQuery_MergePartial
    <2>4. ReadValue(g, "topic", i) = Put(g, f, m[f])
      BY <1>3, <2>1 DEF ReadValue
    <2>5. Into("SystemQuery", i) = NoMessage
      BY Zenon DEF Into
    <2>6. QED
      BY <1>1, <2>3, <2>4, <2>5 DEF i
  <1>4. QED
    BY <1>2, <1>3 DEF Values, IsSub

\* SystemAns:
LEMMA SystemAnsReads ==
    ASSUME NEW m, NEW g, NEW f \in DOMAIN Values["SystemAns"], ~ IsSub("SystemAns", f),
           m[f] \in Values["SystemAns"][f]
    PROVE  /\ MergePartial("SystemAns", g, ItemOf("SystemAns", m, f)) = Put(g, f, m[f])
           /\ Into("SystemAns", ItemOf("SystemAns", m, f)) = NoMessage
  <1> DEFINE i == ItemOf("SystemAns", m, f)
  <1>1. MergePartial("SystemAns", g, i) = SystemAns_MergePartial(g, i)
    BY Zenon DEF MergePartial
  <1>2. CASE f = "id"
    <2>1. i = Item(1, "int", m[f]) /\ i.val = m[f]
      BY <1>2 DEF ItemOf, IsSub, Numbers, Texts, Booleans, Item
    <2>2. /\ Is(i, 1, "int")
          /\ ~ Is(i, 2, "text")
      BY <2>1, TagFacts DEF WireType
    <2> HIDE DEF i
    <2>3. SystemAns_MergePartial(g, i) = ReadValue(g, "id", i)
      BY <2>2, Zenon DEF SystemAns_MergePartial
    <2>4. ReadValue(g, "id", i) = Put(g, f, m[f])
      BY <1>2, <2>1 DEF ReadValue
    <2>5. Into("SystemAns", i) = NoMessage
      BY Zenon DEF Into
    <2>6. QED
      BY <1>1, <2>3, <2>4, <2>5 DEF i
  <1>3. CASE f = "content"
    <2>1. i = Item(2, "text", m[f]) /\ i.val = m[f]
      BY <1>3 DEF ItemOf, IsSub, Numbers, Texts, Booleans, Item
    <2>2. /\ Is(i, 2, "text")
          /\ ~ Is(i, 1, "int")
      BY <2>1, TagFacts DEF WireType
    <2> HIDE DEF i
    <2>3. SystemAns_MergePartial(g, i) = ReadValue(g, "content", i)
      BY <2>2, Zenon DEF SystemAns_MergePartial
    <2>4. ReadValue(g, "content", i) = Put(g, f, m[f])
      BY <1>3, <2>1 DEF ReadValue
    <2>5. Into("SystemAns", i) = NoMessage
      BY Zenon DEF Into
    <2>6. QED
      BY <1>1, <2>3, <2>4, <2>5 DEF i
  <1>4. QED
    BY <1>2, <1>3 DEF Values, IsSub

\* RoomInfo:
LEMMA RoomInfoReads ==
    ASSUME NEW m, NEW g, NEW f \in DOMAIN Values["RoomInfo"], ~ IsSub("RoomInfo", f),
           m[f] \in Values["RoomInfo"][f]
    PROVE  /\ MergePartial("RoomInfo", g, ItemOf("RoomInfo", m, f)) = Put(g, f, m[f])
           /\ Into("RoomInfo", ItemOf("RoomInfo", m, f)) = NoMessage
  <1> DEFINE i == ItemOf("RoomInfo", m, f)
  <1>1. MergePartial("RoomInfo", g, i) = RoomInfo_MergePartial(g, i)
    BY Zenon DEF MergePartial
  <1>2. CASE f = "name"
    <2>1. i = Item(1, "text", m[f]) /\ i.val = m[f]
      BY <1>2 DEF ItemOf, IsSub, Numbers, Texts, Booleans, Item
    <2>2. /\ Is(i, 1, "text")
          /\ ~ Is(i, 2, "text")
          /\ ~ Is(i, 3, "text")
          /\ ~ Is(i, 4, "text")
      BY <2>1, TagFacts DEF WireType
    <2> HIDE DEF i
    <2>3. RoomInfo_MergePartial(g, i) = ReadValue(g, "name", i)
      BY <2>2, Zenon DEF RoomInfo_MergePartial
    <2>4. ReadValue(g, "name", i) = Put(g, f, m[f])
      BY <1>2, <2>1 DEF ReadValue
    <2>5. Into("RoomInfo", i) = NoMessage
      BY Zenon DEF Into
    <2>6. QED
      BY <1>1, <2>3, <2>4, <2>5 DEF i
  <1>3. CASE f = "createdTime"
    <2>1. i = Item(2, "text", m[f]) /\ i.val = m[f]
      BY <1>3 DEF ItemOf, IsSub, Numbers, Texts, Booleans, Item
    <2>2. /\ Is(i, 2, "text")
          /\ ~ Is(i, 1, "text")
          /\ ~ Is(i, 3, "text")
          /\ ~ Is(i, 4, "text")
      BY <2>1, TagFacts DEF WireType
    <2> HIDE DEF i
    <2>3. RoomInfo_MergePartial(g, i) = ReadValue(g, "createdTime", i)
      BY <2>2, Zenon DEF RoomInfo_MergePartial
    <2>4. ReadValue(g, "createdTime", i) = Put(g, f, m[f])
      BY <1>3, <2>1 DEF ReadValue
    <2>5. Into("RoomInfo", i) = NoMessage
      BY Zenon DEF Into
    <2>6. QED
      BY <1>1, <2>3, <2>4, <2>5 DEF i
  <1>4. CASE f = "owner"
    <2>1. i = Item(3, "text", m[f]) /\ i.val = m[f]
      BY <1>4 DEF ItemOf, IsSub, Numbers, Texts, Booleans, Item
    <2>2. /\ Is(i, 3, "text")
          /\ ~ Is(i, 1, "text")
          /\ ~ Is(i, 2, "text")
          /\ ~ Is(i, 4, "text")
      BY <2>1, TagFacts DEF WireType
    <2> HIDE DEF i
    <2>3. RoomInfo_MergePartial(g, i) = ReadValue(g, "owner", i)
      BY <2>2, Zenon DEF RoomInfo_MergePartial
    <2>4. ReadValue(g, "owner", i) = Put(g, f, m[f])
      BY <1>4, <2>1 DEF ReadValue
    <2>5. Into("RoomInfo", i) = NoMessage
      BY Zenon DEF Into
    <2>6. QED
      BY <1>1, <2>3, <2>4, <2>5 DEF i
  <1>5. CASE f = "rival"
    <2>1. i = Item(4, "text", m[f]) /\ i.val = m[f]
      BY <1>5 DEF ItemOf, IsSub, Numbers, Texts, Booleans, Item
    <2>2. /\ Is(i, 4, "text")
          /\ ~ Is(i, 1, "text")
          /\ ~ Is(i, 2, "text")
          /\ ~ Is(i, 3, "text")
      BY <2>1, TagFacts DEF WireType
    <2> HIDE DEF i
    <2>3. RoomInfo_MergePartial(g, i) = ReadValue(g, "rival", i)
      BY <2>2, Zenon DEF RoomInfo_MergePartial
    <2>4. ReadValue(g, "rival", i) = Put(g, f, m[f])
      BY <1>5, <2>1 DEF ReadValue
    <2>5. Into("RoomInfo", i) = NoMessage
      BY Zenon DEF Into
    <2>6. QED
      BY <1>1, <2>3, <2>4, <2>5 DEF i
  <1>6. QED
    BY <1>2, <1>3, <1>4, <1>5 DEF Values, IsSub

\* Pos:
LEMMA PosReads ==
    ASSUME NEW m, NEW g, NEW f \in DOMAIN Values["Pos"], ~ IsSub("Pos", f),
           m[f] \in Values["Pos"][f]
    PROVE  /\ MergePartial("Pos", g, ItemOf("Pos", m, f)) = Put(g, f, m[f])
           /\ Into("Pos", ItemOf("Pos", m, f)) = NoMessage
  <1> DEFINE i == ItemOf("Pos", m, f)
  <1>1. MergePartial("Pos", g, i) = Pos_MergePartial(g, i)
    BY Zenon DEF MergePartial
  <1>2. CASE f = "x"
    <2>1. i = Item(1, "int", m[f]) /\ i.val = m[f]
      BY <1>2 DEF ItemOf, IsSub, Numbers, Texts, Booleans, Item
    <2>2. /\ Is(i, 1, "int")
          /\ ~ Is(i, 2, "int")
      BY <2>1, TagFacts DEF WireType
    <2> HIDE DEF i
    <2>3. Pos_MergePartial(g, i) = ReadValue(g, "x", i)
      BY <2>2, Zenon DEF Pos_MergePartial
    <2>4. ReadValue(g, "x", i) = Put(g, f, m[f])
      BY <1>2, <2>1 DEF ReadValue
    <2>5. Into("Pos", i) = NoMessage
      BY Zenon DEF Into
    <2>6. QED
      BY <1>1, <2>3, <2>4, <2>5 DEF i
  <1>3. CASE f = "y"
    <2>1. i = Item(2, "int", m[f]) /\ i.val = m[f]
      BY <1>3 DEF ItemOf, IsSub, Numbers, Texts, Booleans, Item
    <2>2. /\ Is(i, 2, "int")
          /\ ~ Is(i, 1, "int")
      BY <2>1, TagFacts DEF WireType
    <2> HIDE DEF i
    <2>3. Pos_MergePartial(g, i) = ReadValue(g, "y", i)
      BY <2>2, Zenon DEF Pos_MergePartial
    <2>4. ReadValue(g, "y", i) = Put(g, f, m[f])
      BY <1>3, <2>1 DEF ReadValue
    <2>5. Into("Pos", i) = NoMessage
      BY Zenon DEF Into
    <2>6. QED
      BY <1>1, <2>3, <2>4, <2>5 DEF i
  <1>4. QED
    BY <1>2, <1>3 DEF Values, IsSub

\* GridInfo:
LEMMA GridInfoReads ==
    ASSUME NEW m, NEW g, NEW f \in DOMAIN Values["GridInfo"], ~ IsSub("GridInfo", f),
           m[f] \in Values["GridInfo"][f]
    PROVE  /\ MergePartial("GridInfo", g, ItemOf("GridInfo", m, f)) = Put(g, f, m[f])
           /\ Into("GridInfo", ItemOf("GridInfo", m, f)) = NoMessage
  <1> DEFINE i == ItemOf("GridInfo", m, f)
  <1>1. MergePartial("GridInfo", g, i) = GridInfo_MergePartial(g, i)
    BY Zenon DEF MergePartial
  <1>2. CASE f = "grid"
    <2>1. i = Item(3, "text", m[f]) /\ i.val = m[f]
      BY <1>2 DEF ItemOf, IsSub, Numbers, Texts, Booleans, Item
    <2>2. /\ Is(i, 3, "text")
          /\ ~ Is(i, 4, "int")
          /\ ~ Is(i, 5, "text")
          /\ ~ Is(i, 6, "int")
          /\ ~ Is(i, 7, "int")
          /\ ~ Is(i, 8, "int")
          /\ ~ Is(i, 9, "int")
          /\ ~ Is(i, 10, "int")
          /\ ~ Is(i, 1, "message")
          /\ ~ Is(i, 2, "message")
      BY <2>1, TagFacts DEF WireType
    <2> HIDE DEF i
    <2>3. GridInfo_MergePartial(g, i) = ReadValue(g, "grid", i)
      BY <2>2, Zenon DEF GridInfo_MergePartial
    <2>4. ReadValue(g, "grid", i) = Put(g, f, m[f])
      BY <1>2, <2>1 DEF ReadValue
    <2>5. Into("GridInfo", i) = GridInfo_Into(i)
      BY Zenon DEF Into
    <2>6. GridInfo_Into(i) = NoMessage
      BY <2>2, Zenon DEF GridInfo_Into
    <2>7. QED
      BY <1>1, <2>3, <2>4, <2>5, <2>6 DEF i
  <1>3. CASE f = "type"
    <2>1. i = Item(4, "int", m[f]) /\ i.val = m[f]
      BY <1>3 DEF ItemOf, IsSub, Numbers, Texts, Booleans, Item
    <2>2. /\ Is(i, 4, "int")
          /\ ~ Is(i, 3, "text")
          /\ ~ Is(i, 5, "text")
          /\ ~ Is(i, 6, "int")
          /\ ~ Is(i, 7, "int")
          /\ ~ Is(i, 8, "int")
          /\ ~ Is(i, 9, "int")
          /\ ~ Is(i, 10, "int")
          /\ ~ Is(i, 1, "message")
          /\ ~ Is(i, 2, "message")
      BY <2>1, TagFacts DEF WireType
    <2> HIDE DEF i
    <2>3. GridInfo_MergePartial(g, i) = ReadValue(g, "type", i)
      BY <2>2, Zenon DEF GridInfo_MergePartial
    <2>4. ReadValue(g, "type", i) = Put(g, f, m[f])
      BY <1>3, <2>1 DEF ReadValue
    <2>5. Into("GridInfo", i) = GridInfo_Into(i)
      BY Zenon DEF Into
    <2>6. GridInfo_Into(i) = NoMessage
      BY <2>2, Zenon DEF GridInfo_Into
    <2>7. QED
      BY <1>1, <2>3, <2>4, <2>5, <2>6 DEF i
  <1>4. CASE f = "topic"
    <2>1. i = Item(5, "text", m[f]) /\ i.val = m[f]
      BY <1>4 DEF ItemOf, IsSub, Numbers, Texts, Booleans, Item
    <2>2. /\ Is(i, 5, "text")
          /\ ~ Is(i, 3, "text")
          /\ ~ Is(i, 4, "int")
          /\ ~ Is(i, 6, "int")
          /\ ~ Is(i, 7, "int")
          /\ ~ Is(i, 8, "int")
          /\ ~ Is(i, 9, "int")
          /\ ~ Is(i, 10, "int")
          /\ ~ Is(i, 1, "message")
          /\ ~ Is(i, 2, "message")
      BY <2>1, TagFacts DEF WireType
    <2> HIDE DEF i
    <2>3. GridInfo_MergePartial(g, i) = ReadValue(g, "topic", i)
      BY <2>2, Zenon DEF GridInfo_MergePartial
    <2>4. ReadValue(g, "topic", i) = Put(g, f, m[f])
      BY <1>4, <2>1 DEF ReadValue
    <2>5. Into("GridInfo", i) = GridInfo_Into(i)
      BY Zenon DEF Into
    <2>6. GridInfo_Into(i) = NoMessage
      BY <2>2, Zenon DEF GridInfo_Into
    <2>7. QED
      BY <1>1, <2>3, <2>4, <2>5, <2>6 DEF i
  <1>5. CASE f = "ownerScore"
    <2>1. i = Item(6, "int", m[f]) /\ i.val = m[f]
      BY <1>5 DEF ItemOf, IsSub, Numbers, Texts, Booleans, Item
    <2>2. /\ Is(i, 6, "int")
          /\ ~ Is(i, 3, "text")
          /\ ~ Is(i, 4, "int")
          /\ ~ Is(i, 5, "text")
          /\ ~ Is(i, 7, "int")
          /\ ~ Is(i, 8, "int")
          /\ ~ Is(i, 9, "int")
          /\ ~ Is(i, 10, "int")
          /\ ~ Is(i, 1, "message")
          /\ ~ Is(i, 2, "message")
      BY <2>1, TagFacts DEF WireType
    <2> HIDE DEF i
    <2>3. GridInfo_MergePartial(g, i) = ReadValue(g, "ownerScore", i)
      BY <2>2, Zenon DEF GridInfo_MergePartial
    <2>4. ReadValue(g, "ownerScore", i) = Put(g, f, m[f])
      BY <1>5, <2>1 DEF ReadValue
    <2>5. Into("GridInfo", i) = GridInfo_Into(i)
      BY Zenon DEF Into
    <2>6. GridInfo_Into(i) = NoMessage
      BY <2>2, Zenon DEF GridInfo_Into
    <2>7. QED
      BY <1>1, <2>3, <2>4, <2>5, <2>6 DEF i
  <1>6. CASE f = "rivalScore"
    <2>1. i = Item(7, "int", m[f]) /\ i.val = m[f]
      BY <1>6 DEF ItemOf, IsSub, Numbers, Texts, Booleans, Item
    <2>2. /\ Is(i, 7, "int")
          /\ ~ Is(i, 3, "text")
          /\ ~ Is(i, 4, "int")
          /\ ~ Is(i, 5, "text")
          /\ ~ Is(i, 6, "int")
          /\ ~ Is(i, 8, "int")
          /\ ~ Is(i, 9, "int")
          /\ ~ Is(i, 10, "int")
          /\ ~ Is(i, 1, "message")
          /\ ~ Is(i, 2, "message")
      BY <2>1, TagFacts DEF WireType
    <2> HIDE DEF i
    <2>3. GridInfo_MergePartial(g, i) = ReadValue(g, "rivalScore", i)
      BY <2>2, Zenon DEF GridInfo_MergePartial
    <2>4. ReadValue(g, "rivalScore", i) = Put(g, f, m[f])
      BY <1>6, <2>1 DEF ReadValue
    <2>5. Into("GridInfo", i) = GridInfo_Into(i)
      BY Zenon DEF Into
    <2>6. GridInfo_Into(i) = NoMessage
      BY <2>2, Zenon DEF GridInfo_Into
    <2>7. QED
      BY <1>1, <2>3, <2>4, <2>5, <2>6 DEF i
  <1>7. CASE f = "isownertune"
    <2>1. i = Item(8, "int", IF m[f] THEN 1 ELSE 0) /\ i.val = IF m[f] THEN 1 ELSE 0
      BY <1>7 DEF ItemOf, IsSub, Numbers, Texts, Booleans, Item
    <2>2. /\ Is(i, 8, "int")
          /\ ~ Is(i, 3, "text")
          /\ ~ Is(i, 4, "int")
          /\ ~ Is(i, 5, "text")
          /\ ~ Is(i, 6, "int")
          /\ ~ Is(i, 7, "int")
          /\ ~ Is(i, 9, "int")
          /\ ~ Is(i, 10, "int")
          /\ ~ Is(i, 1, "message")
          /\ ~ Is(i, 2, "message")
      BY <2>1, TagFacts DEF WireType
    <2> HIDE DEF i
    <2>3. GridInfo_MergePartial(g, i) = ReadBool(g, "isownertune", i)
      BY <2>2, Zenon DEF GridInfo_MergePartial
    <2>4. m[f] \in BOOLEAN
      BY <1>7 DEF Values
    <2>5. (i.val # 0) = m[f]
      BY <2>1, <2>4
    <2>6. ReadBool(g, "isownertune", i) = Put(g, f, m[f])
      BY <1>7, <2>5 DEF ReadBool
    <2>7. Into("GridInfo", i) = GridInfo_Into(i)
      BY Zenon DEF Into
    <2>8. GridInfo_Into(i) = NoMessage
      BY <2>2, Zenon DEF GridInfo_Into
    <2>9. QED
      BY <1>1, <2>3, <2>6, <2>7, <2>8 DEF i
  <1>8. CASE f = "ownercanmove"
    <2>1. i = Item(9, "int", IF m[f] THEN 1 ELSE 0) /\ i.val = IF m[f] THEN 1 ELSE 0
      BY <1>8 DEF ItemOf, IsSub, Numbers, Texts, Booleans, Item
    <2>2. /\ Is(i, 9, "int")
          /\ ~ Is(i, 3, "text")
          /\ ~ Is(i, 4, "int")
          /\ ~ Is(i, 5, "text")
          /\ ~ Is(i, 6, "int")
          /\ ~ Is(i, 7, "int")
          /\ ~ Is(i, 8, "int")
          /\ ~ Is(i, 10, "int")
          /\ ~ Is(i, 1, "message")
          /\ ~ Is(i, 2, "message")
      BY <2>1, TagFacts DEF WireType
    <2> HIDE DEF i
    <2>3. GridInfo_MergePartial(g, i) = ReadBool(g, "ownercanmove", i)
      BY <2>2, Zenon DEF GridInfo_MergePartial
    <2>4. m[f] \in BOOLEAN
      BY <1>8 DEF Values
    <2>5. (i.val # 0) = m[f]
      BY <2>1, <2>4
    <2>6. ReadBool(g, "ownercanmove", i) = Put(g, f, m[f])
      BY <1>8, <2>5 DEF ReadBool
    <2>7. Into("GridInfo", i) = GridInfo_Into(i)
      BY Zenon DEF Into
    <2>8. GridInfo_Into(i) = NoMessage
      BY <2>2, Zenon DEF GridInfo_Into
    <2>9. QED
      BY <1>1, <2>3, <2>6, <2>7, <2>8 DEF i
  <1>9. CASE f = "rivalcanmove"
    <2>1. i = Item(10, "int", IF m[f] THEN 1 ELSE 0) /\ i.val = IF m[f] THEN 1 ELSE 0
      BY <1>9 DEF ItemOf, IsSub, Numbers, Texts, Booleans, Item
    <2>2. /\ Is(i, 10, "int")
          /\ ~ Is(i, 3, "text")
          /\ ~ Is(i, 4, "int")
          /\ ~ Is(i, 5, "text")
          /\ ~ Is(i, 6, "int")
          /\ ~ Is(i, 7, "int")
          /\ ~ Is(i, 8, "int")
          /\ ~ Is(i, 9, "int")
          /\ ~ Is(i, 1, "message")
          /\ ~ Is(i, 2, "message")
      BY <2>1, TagFacts DEF WireType
    <2> HIDE DEF i
    <2>3. GridInfo_MergePartial(g, i) = ReadBool(g, "rivalcanmove", i)
      BY <2>2, Zenon DEF GridInfo_MergePartial
    <2>4. m[f] \in BOOLEAN
      BY <1>9 DEF Values
    <2>5. (i.val # 0) = m[f]
      BY <2>1, <2>4
    <2>6. ReadBool(g, "rivalcanmove", i) = Put(g, f, m[f])
      BY <1>9, <2>5 DEF ReadBool
    <2>7. Into("GridInfo", i) = GridInfo_Into(i)
      BY Zenon DEF Into
    <2>8. GridInfo_Into(i) = NoMessage
      BY <2>2, Zenon DEF GridInfo_Into
    <2>9. QED
      BY <1>1, <2>3, <2>6, <2>7, <2>8 DEF i
  <1>10. QED
    BY <1>2, <1>3, <1>4, <1>5, <1>6, <1>7, <1>8, <1>9 DEF Values, IsSub

\* boardQuery:
LEMMA boardQueryReads ==
    ASSUME NEW m, NEW g, NEW f \in DOMAIN Values["boardQuery"], ~ IsSub("boardQuery", f),
           m[f] \in Values["boardQuery"][f]
    PROVE  /\ MergePartial("boardQuery", g, ItemOf("boardQuery", m, f)) = Put(g, f, m[f])
           /\ Into("boardQuery", ItemOf("boardQuery", m, f)) = NoMessage
  <1> DEFINE i == ItemOf("boardQuery", m, f)
  <1>1. MergePartial("boardQuery", g, i) = boardQuery_MergePartial(g, i)
    BY Zenon DEF MergePartial
  <1>2. CASE f = "type"
    <2>1. i = Item(2, "int", m[f]) /\ i.val = m[f]
      BY <1>2 DEF ItemOf, IsSub, Numbers, Texts, Booleans, Item
    <2>2. /\ Is(i, 2, "int")
          /\ ~ Is(i, 3, "text")
          /\ ~ Is(i, 1, "message")
      BY <2>1, TagFacts DEF WireType
    <2> HIDE DEF i
    <2>3. boardQuery_MergePartial(g, i) = ReadValue(g, "type", i)
      BY <2>2, Zenon DEF boardQuery_MergePartial
    <2>4. ReadValue(g, "type", i) = Put(g, f, m[f])
      BY <1>2, <2>1 DEF ReadValue
    <2>5. Into("boardQuery", i) = boardQuery_Into(i)
      BY Zenon DEF Into
    <2>6. boardQuery_Into(i) = NoMessage
      BY <2>2 DEF boardQuery_Into
    <2>7. QED
      BY <1>1, <2>3, <2>4, <2>5, <2>6 DEF i
  <1>3. CASE f = "topic"
    <2>1. i = Item(3, "text", m[f]) /\ i.val = m[f]
      BY <1>3 DEF ItemOf, IsSub, Numbers, Texts, Booleans, Item
    <2>2. /\ Is(i, 3, "text")
          /\ ~ Is(i, 2, "int")
          /\ ~ Is(i, 1, "message")
      BY <2>1, TagFacts DEF WireType
    <2> HIDE DEF i
    <2>3. boardQuery_MergePartial(g, i) = ReadValue(g, "topic", i)
      BY <2>2, Zenon DEF boardQuery_MergePartial
    <2>4. ReadValue(g, "topic", i) = Put(g, f, m[f])
      BY <1>3, <2>1 DEF ReadValue
    <2>5. Into("boardQuery", i) = boardQuery_Into(i)
      BY Zenon DEF Into
    <2>6. boardQuery_Into(i) = NoMessage
      BY <2>2 DEF boardQuery_Into
    <2>7. QED
      BY <1>1, <2>3, <2>4, <2>5, <2>6 DEF i
  <1>4. QED
    BY <1>2, <1>3 DEF Values, IsSub

\* boardAns:
LEMMA boardAnsReads ==
    ASSUME NEW m, NEW g, NEW f \in DOMAIN Values["boardAns"], ~ IsSub("boardAns", f),
           m[f] \in Values["boardAns"][f]
    PROVE  /\ MergePartial("boardAns", g, ItemOf("boardAns", m, f)) = Put(g, f, m[f])
           /\ Into("boardAns", ItemOf("boardAns", m, f)) = NoMessage
  <1> DEFINE i == ItemOf("boardAns", m, f)
  <1>1. MergePartial("boardAns", g, i) = boardAns_MergePartial(g, i)
    BY Zenon DEF MergePartial
  <1>2. CASE f = "code"
    <2>1. i = Item(1, "int", m[f]) /\ i.val = m[f]
      BY <1>2 DEF ItemOf, IsSub, Numbers, Texts, Booleans, Item
    <2>2. /\ Is(i, 1, "int")
          /\ ~ Is(i, 2, "message")
      BY <2>1, TagFacts DEF WireType
    <2> HIDE DEF i
    <2>3. boardAns_MergePartial(g, i) = ReadValue(g, "code", i)
      BY <2>2, Zenon DEF boardAns_MergePartial
    <2>4. ReadValue(g, "code", i) = Put(g, f, m[f])
      BY <1>2, <2>1 DEF ReadValue
    <2>5. Into("boardAns", i) = boardAns_Into(i)
      BY Zenon DEF Into
    <2>6. boardAns_Into(i) = NoMessage
      BY <2>2 DEF boardAns_Into
    <2>7. QED
      BY <1>1, <2>3, <2>4, <2>5, <2>6 DEF i
  <1>3. QED
    BY <1>2 DEF Values, IsSub

\* finalInfo:
LEMMA finalInfoReads ==
    ASSUME NEW m, NEW g, NEW f \in DOMAIN Values["finalInfo"], ~ IsSub("finalInfo", f),
           m[f] \in Values["finalInfo"][f]
    PROVE  /\ MergePartial("finalInfo", g, ItemOf("finalInfo", m, f)) = Put(g, f, m[f])
           /\ Into("finalInfo", ItemOf("finalInfo", m, f)) = NoMessage
  <1> DEFINE i == ItemOf("finalInfo", m, f)
  <1>1. MergePartial("finalInfo", g, i) = finalInfo_MergePartial(g, i)
    BY Zenon DEF MergePartial
  <1>2. CASE f = "ownerScore"
    <2>1. i = Item(1, "int", m[f]) /\ i.val = m[f]
      BY <1>2 DEF ItemOf, IsSub, Numbers, Texts, Booleans, Item
    <2>2. /\ Is(i, 1, "int")
          /\ ~ Is(i, 2, "int")
      BY <2>1, TagFacts DEF WireType
    <2> HIDE DEF i
    <2>3. finalInfo_MergePartial(g, i) = ReadValue(g, "ownerScore", i)
      BY <2>2, Zenon DEF finalInfo_MergePartial
    <2>4. ReadValue(g, "ownerScore", i) = Put(g, f, m[f])
      BY <1>2, <2>1 DEF ReadValue
    <2>5. Into("finalInfo", i) = NoMessage
      BY Zenon DEF Into
    <2>6. QED
      BY <1>1, <2>3, <2>4, <2>5 DEF i
  <1>3. CASE f = "rivalScore"
    <2>1. i = Item(2, "int", m[f]) /\ i.val = m[f]
      BY <1>3 DEF ItemOf, IsSub, Numbers, Texts, Booleans, Item
    <2>2. /\ Is(i, 2, "int")
          /\ ~ Is(i, 1, "int")
      BY <2>1, TagFacts DEF WireType
    <2> HIDE DEF i
    <2>3. finalInfo_MergePartial(g, i) = ReadValue(g, "rivalScore", i)
      BY <2>2, Zenon DEF finalInfo_MergePartial
    <2>4. ReadValue(g, "rivalScore", i) = Put(g, f, m[f])
      BY <1>3, <2>1 DEF ReadValue
    <2>5. Into("finalInfo", i) = NoMessage
      BY Zenon DEF Into
    <2>6. QED
      BY <1>1, <2>3, <2>4, <2>5 DEF i
  <1>4. QED
    BY <1>2, <1>3 DEF Values, IsSub

\* A value under a number that no class has is kept as unknown.
LEMMA UnheardReads ==
    ASSUME NEW c \in Classes, NEW g
    PROVE  /\ MergePartial(c, g, Unheard) = SkipField(g, Unheard)
           /\ Into(c, Unheard) = NoMessage
  <1>1. \A n \in 1 .. 10 : \A k : ~ Is(Unheard, n, k)
    BY TagFacts DEF Unheard
  <1>2. SystemQuery_MergePartial(g, Unheard) = SkipField(g, Unheard)
    <2>1. /\ ~ Is(Unheard, 2, "text")
          /\ ~ Is(Unheard, 3, "text")
      BY <1>1
    <2>2. QED
      BY <2>1, Zenon DEF SystemQuery_MergePartial
  <1>3. SystemAns_MergePartial(g, Unheard) = SkipField(g, Unheard)
    <2>1. /\ ~ Is(Unheard, 1, "int")
          /\ ~ Is(Unheard, 2, "text")
      BY <1>1
    <2>2. QED
      BY <2>1, Zenon DEF SystemAns_MergePartial
  <1>4. RoomInfo_MergePartial(g, Unheard) = SkipField(g, Unheard)
    <2>1. /\ ~ Is(Unheard, 1, "text")
          /\ ~ Is(Unheard, 2, "text")
          /\ ~ Is(Unheard, 3, "text")
          /\ ~ Is(Unheard, 4, "text")
      BY <1>1
    <2>2. QED
      BY <2>1, Zenon DEF RoomInfo_MergePartial
  <1>5. Pos_MergePartial(g, Unheard) = SkipField(g, Unheard)
    <2>1. /\ ~ Is(Unheard, 1, "int")
          /\ ~ Is(Unheard, 2, "int")
      BY <1>1
    <2>2. QED
      BY <2>1, Zenon DEF Pos_MergePartial
  <1>6. GridInfo_MergePartial(g, Unheard) = SkipField(g, Unheard)
    <2>1. /\ ~ Is(Unheard, 3, "text")
          /\ ~ Is(Unheard, 4, "int")
          /\ ~ Is(Unheard, 5, "text")
          /\ ~ Is(Unheard, 6, "int")
          /\ ~ Is(Unheard, 7, "int")
          /\ ~ Is(Unheard, 8, "int")
          /\ ~ Is(Unheard, 9, "int")
          /\ ~ Is(Unheard, 10, "int")
      BY <1>1
    <2>2. QED
      BY <2>1, Zenon DEF GridInfo_MergePartial
  <1>7. boardQuery_MergePartial(g, Unheard) = SkipField(g, Unheard)
    <2>1. /\ ~ Is(Unheard, 2, "int")
          /\ ~ Is(Unheard, 3, "text")
      BY <1>1
    <2>2. QED
      BY <2>1, Zenon DEF boardQuery_MergePartial
  <1>8. boardAns_MergePartial(g, Unheard) = SkipField(g, Unheard)
    <2>1. /\ ~ Is(Unheard, 1, "int")
      BY <1>1
    <2>2. QED
      BY <2>1, Zenon DEF boardAns_MergePartial
  <1>9. finalInfo_MergePartial(g, Unheard) = SkipField(g, Unheard)
    <2>1. /\ ~ Is(Unheard, 1, "int")
          /\ ~ Is(Unheard, 2, "int")
      BY <1>1
    <2>2. QED
      BY <2>1, Zenon DEF finalInfo_MergePartial
  <1>10. ShowInfo_MergePartial(g, Unheard) = SkipField(g, Unheard)
    BY DEF ShowInfo_MergePartial
  <1>11. /\ ~ Is(Unheard, 1, "message")
         /\ ~ Is(Unheard, 2, "message")
    BY <1>1
  <1>12. Into(c, Unheard) = NoMessage
    BY <1>11, Zenon DEF Into, ShowInfo_Into, GridInfo_Into, boardQuery_Into, boardAns_Into
  <1>13. MergePartial("SystemQuery", g, Unheard) = SystemQuery_MergePartial(g, Unheard)
    BY Zenon DEF MergePartial
  <1>14. MergePartial("SystemAns", g, Unheard) = SystemAns_MergePartial(g, Unheard)
    BY Zenon DEF MergePartial
  <1>15. MergePartial("RoomInfo", g, Unheard) = RoomInfo_MergePartial(g, Unheard)
    BY Zenon DEF MergePartial
  <1>16. MergePartial("Pos", g, Unheard) = Pos_MergePartial(g, Unheard)
    BY Zenon DEF MergePartial
  <1>17. MergePartial("GridInfo", g, Unheard) = GridInfo_MergePartial(g, Unheard)
    BY Zenon DEF MergePartial
  <1>18. MergePartial("boardQuery", g, Unheard) = boardQuery_MergePartial(g, Unheard)
    BY Zenon DEF MergePartial
  <1>19. MergePartial("boardAns", g, Unheard) = boardAns_MergePartial(g, Unheard)
    BY Zenon DEF MergePartial
  <1>20. MergePartial("finalInfo", g, Unheard) = finalInfo_MergePartial(g, Unheard)
    BY Zenon DEF MergePartial
  <1>21. MergePartial("ShowInfo", g, Unheard) = ShowInfo_MergePartial(g, Unheard)
    BY Zenon DEF MergePartial
  <1>22. QED
    BY <1>2, <1>13, <1>3, <1>14, <1>4, <1>15, <1>5, <1>16, <1>6, <1>17, <1>7, <1>18, <1>8, <1>19, <1>9, <1>20, <1>10, <1>21, <1>12 DEF Classes

\* A message of a field is read into that field.
LEMMA SubReads ==
    ASSUME NEW c, NEW m, NEW f, IsSub(c, f), c # "ShowInfo"
    PROVE  /\ Into(c, ItemOf(c, m, f)) = f /\ f # NoMessage
           /\ ItemOf(c, m, f).kind = "message" /\ ItemOf(c, m, f).val = Wire(ClassOf(f), m[f])
  <1> DEFINE i == ItemOf(c, m, f)
  <1>1. f # NoMessage
    BY DEF IsSub, NoMessage
  <1>2. i = Item(Numbers[c][f], "message", Wire(ClassOf(f), m[f]))
    BY DEF ItemOf
  <1>3. i.kind = "message" /\ i.val = Wire(ClassOf(f), m[f])
    BY <1>2 DEF Item
  <1>4. CASE c = "GridInfo" /\ f = "o"
    <2>1. Is(i, 1, "message") /\ ~ Is(i, 2, "message")
      BY <1>2, <1>4, TagFacts DEF Numbers
    <2> HIDE DEF i
    <2>2. GridInfo_Into(i) = "o"
      BY <2>1, Zenon DEF GridInfo_Into
    <2>3. Into(c, i) = GridInfo_Into(i)
      BY <1>4, Zenon DEF Into
    <2>4. QED
      BY <1>1, <1>3, <1>4, <2>2, <2>3 DEF i
  <1>5. CASE c = "GridInfo" /\ f = "r"
    <2>1. Is(i, 2, "message") /\ ~ Is(i, 1, "message")
      BY <1>2, <1>5, TagFacts DEF Numbers
    <2> HIDE DEF i
    <2>2. GridInfo_Into(i) = "r"
      BY <2>1, Zenon DEF GridInfo_Into
    <2>3. Into(c, i) = GridInfo_Into(i)
      BY <1>5, Zenon DEF Into
    <2>4. QED
      BY <1>1, <1>3, <1>5, <2>2, <2>3 DEF i
  <1>6. CASE c = "boardQuery" /\ f = "x"
    <2>1. Is(i, 1, "message")
      BY <1>2, <1>6, TagFacts DEF Numbers
    <2> HIDE DEF i
    <2>2. Into(c, i) = boardQuery_Into(i)
      BY <1>6, Zenon DEF Into
    <2>3. QED
      BY <1>1, <1>3, <1>6, <2>1, <2>2 DEF boardQuery_Into, i
  <1>7. CASE c = "boardAns" /\ f = "g"
    <2>1. Is(i, 2, "message")
      BY <1>2, <1>7, TagFacts DEF Numbers
    <2> HIDE DEF i
    <2>2. Into(c, i) = boardAns_Into(i)
      BY <1>7, Zenon DEF Into
    <2>3. QED
      BY <1>1, <1>3, <1>7, <2>1, <2>2 DEF boardAns_Into, i
  <1>8. QED
    BY <1>4, <1>5, <1>6, <1>7 DEF IsSub

\* A room is read into a new element of the list.
RoomItem(room) == Item(1, "message", RoomInfo_Serialize(room))

\* The item of a room is a message for the reader of rooms.
LEMMA RoomReads ==
    ASSUME NEW room
    PROVE  /\ Into("ShowInfo", RoomItem(room)) = "ri" /\ "ri" # NoMessage
           /\ RoomItem(room).kind = "message" /\ RoomItem(room).val = RoomInfo_Serialize(room)
  <1>1. Is(RoomItem(room), 1, "message")
    BY TagFacts DEF RoomItem
  <1>2. Into("ShowInfo", RoomItem(room)) = ShowInfo_Into(RoomItem(room))
    BY Zenon DEF Into
  <1>3. QED
    BY <1>1, <1>2 DEF ShowInfo_Into, RoomItem, Item, NoMessage

\* No item that carries a field is malformed, and it carries no other.
LEMMA ItemOfFacts ==
    ASSUME NEW c, NEW m, NEW f
    PROVE  /\ ItemOf(c, m, f).num = Numbers[c][f]
           /\ ItemOf(c, m, f).kind # "malformed"
           /\ IsSub(c, f) <=> ItemOf(c, m, f).kind = "message"
  BY DEF ItemOf, Item

\* No two fields of a class have one number.
LEMMA NumbersDiffer ==
    ASSUME NEW c \in Classes \ {"ShowInfo"}, NEW f \in DOMAIN Values[c], NEW h \in DOMAIN Values[c],
           Numbers[c][f] = Numbers[c][h]
    PROVE  f = h
  <1>1. CASE c = "SystemQuery"
    BY <1>1 DEF Numbers, Values
  <1>2. CASE c = "SystemAns"
    BY <1>2 DEF Numbers, Values
  <1>3. CASE c = "RoomInfo"
    BY <1>3 DEF Numbers, Values
  <1>4. CASE c = "Pos"
    BY <1>4 DEF Numbers, Values
  <1>5. CASE c = "GridInfo"
    BY <1>5 DEF Numbers, Values
  <1>6. CASE c = "boardQuery"
    BY <1>6 DEF Numbers, Values
  <1>7. CASE c = "boardAns"
    BY <1>7 DEF Numbers, Values
  <1>8. CASE c = "finalInfo"
    BY <1>8 DEF Numbers, Values
  <1>9. QED
    BY <1>1, <1>2, <1>3, <1>4, <1>5, <1>6, <1>7, <1>8 DEF Classes

\* Unheard's number is nobody's.
LEMMA NumbersKnown ==
    ASSUME NEW c \in Classes \ {"ShowInfo"}, NEW f \in DOMAIN Values[c]
    PROVE  Numbers[c][f] \in 1 .. 10
  <1>1. CASE c = "SystemQuery"
    BY <1>1 DEF Numbers, Values
  <1>2. CASE c = "SystemAns"
    BY <1>2 DEF Numbers, Values
  <1>3. CASE c = "RoomInfo"
    BY <1>3 DEF Numbers, Values
  <1>4. CASE c = "Pos"
    BY <1>4 DEF Numbers, Values
  <1>5. CASE c = "GridInfo"
    BY <1>5 DEF Numbers, Values
  <1>6. CASE c = "boardQuery"
    BY <1>6 DEF Numbers, Values
  <1>7. CASE c = "boardAns"
    BY <1>7 DEF Numbers, Values
  <1>8. CASE c = "finalInfo"
    BY <1>8 DEF Numbers, Values
  <1>9. QED
    BY <1>1, <1>2, <1>3, <1>4, <1>5, <1>6, <1>7, <1>8 DEF Classes

--------------------------------------------------------------------------------
(* Merging.                                                                    *)

\* MergeFrom of every class, the two that are never sent on their own included.
MergeOf(c, a, b) ==
    CASE c = "Pos"      -> Pos_MergeFrom(a, b)
      [] c = "RoomInfo" -> RoomInfo_MergeFrom(a, b)
      [] OTHER          -> MergeFrom(c, a, b)

\* m is what a of class c becomes when b is merged into it.
IsMerge(c, a, b, m) ==
    /\ m = [f \in DOMAIN m |-> m[f]]
    /\ DOMAIN m = DOMAIN a \cup DOMAIN b
    /\ "unknown" \in DOMAIN m /\ m.unknown = <<>>
    /\ \A f \in DOMAIN a \ (DOMAIN b \cup {"unknown"}) : m[f] = a[f]
    /\ \A f \in DOMAIN b \ {"unknown"} :
           m[f] = IF IsSub(c, f) THEN MergeOf(ClassOf(f), Mutable(a, f), b[f]) ELSE b[f]

\* The fields of class c that are no messages.
Plainly(c) == {f \in DOMAIN Values[c] : ~ IsSub(c, f)}

\* The fields that are messages have been merged into a, and given s; the others follow.
LEMMA MergeSetFacts ==
    ASSUME NEW c \in Classes, NEW a, NEW b, Whole(c, a), Whole(c, b), NEW s,
           DOMAIN s = DOMAIN a \cup {f \in DOMAIN b : IsSub(c, f)},
           \A f \in DOMAIN s :
               s[f] = IF f \in DOMAIN b /\ IsSub(c, f)
                      THEN MergeOf(ClassOf(f), Mutable(a, f), b[f]) ELSE a[f]
    PROVE  IsMerge(c, a, b, MergeSet(s, b, Plainly(c)))
  <1> DEFINE m == MergeSet(s, b, Plainly(c))
             fs == Plainly(c)
  <1>1. /\ "unknown" \in DOMAIN a /\ a.unknown = <<>> /\ "unknown" \in DOMAIN b /\ b.unknown = <<>>
        /\ DOMAIN b \subseteq DOMAIN Values[c] \cup {"unknown"}
    BY DEF Whole, Partial, Class, NoField
  <1>2. "unknown" \notin fs /\ ~ IsSub(c, "unknown")
    BY ValuesFacts DEF Plainly, IsSub
  <1>3. \A f \in DOMAIN b \ {"unknown"} : IsSub(c, f) <=> f \notin fs
    BY <1>1, SubFacts DEF Plainly
  <1>4. \A f \in fs : ~ IsSub(c, f)
    BY DEF Plainly
  <1>5. "unknown" \in DOMAIN s /\ s.unknown = <<>>
    BY <1>1, <1>2
  <1>6. /\ m = [f \in DOMAIN m |-> m[f]]
        /\ DOMAIN m = DOMAIN s \cup (fs \cap DOMAIN b)
        /\ m.unknown = s.unknown \o b.unknown
        /\ \A f \in DOMAIN m \ {"unknown"} : m[f] = IF f \in fs \cap DOMAIN b THEN b[f] ELSE s[f]
    BY <1>5 DEF MergeSet
  <1>7. m.unknown = <<>>
    <2>1. <<>> \o <<>> = <<>>
      OBVIOUS
    <2>2. QED
      BY <1>1, <1>5, <1>6, <2>1
  <1> HIDE DEF m, fs
  <1>8. DOMAIN m = DOMAIN a \cup DOMAIN b
    BY <1>1, <1>3, <1>6
  <1>9. \A f \in DOMAIN a \ (DOMAIN b \cup {"unknown"}) : m[f] = a[f]
    BY <1>6, <1>8
  <1>10. \A f \in DOMAIN b \ {"unknown"} :
             m[f] = IF IsSub(c, f) THEN MergeOf(ClassOf(f), Mutable(a, f), b[f]) ELSE b[f]
    BY <1>3, <1>6, <1>8
  <1>11. IsMerge(c, a, b, m)
    BY <1>1, <1>6, <1>7, <1>8, <1>9, <1>10 DEF IsMerge
  <1>12. QED
    BY <1>11 DEF m

\* A class without a field that is a message.
LEMMA MergeScalars ==
    ASSUME NEW c \in Classes, NEW a, NEW b, Whole(c, a), Whole(c, b),
           \A f \in DOMAIN b : ~ IsSub(c, f)
    PROVE  IsMerge(c, a, b, MergeSet(a, b, Plainly(c)))
  BY MergeSetFacts

\* What MergeFrom of each class returns.
LEMMA MergeFacts ==
    ASSUME NEW c \in Classes \ {"ShowInfo"}, NEW a, NEW b, Whole(c, a), Whole(c, b)
    PROVE  IsMerge(c, a, b, MergeOf(c, a, b))
  <1>1. CASE c = "SystemQuery"
    <2>1. MergeOf(c, a, b) = MergeSet(a, b, {"cmd", "topic"})
      BY <1>1, Zenon DEF MergeOf, MergeFrom, SystemQuery_MergeFrom
    <2>2. Plainly(c) = {"cmd", "topic"} /\ \A f \in DOMAIN b : ~ IsSub(c, f)
      BY <1>1 DEF Plainly, Values, IsSub
    <2>3. QED
      BY <2>1, <2>2, MergeScalars
  <1>2. CASE c = "SystemAns"
    <2>1. MergeOf(c, a, b) = MergeSet(a, b, {"id", "content"})
      BY <1>2, Zenon DEF MergeOf, MergeFrom, SystemAns_MergeFrom
    <2>2. Plainly(c) = {"id", "content"} /\ \A f \in DOMAIN b : ~ IsSub(c, f)
      BY <1>2 DEF Plainly, Values, IsSub
    <2>3. QED
      BY <2>1, <2>2, MergeScalars
  <1>3. CASE c = "RoomInfo"
    <2>1. MergeOf(c, a, b) = MergeSet(a, b, {"name", "createdTime", "owner", "rival"})
      BY <1>3, Zenon DEF MergeOf, RoomInfo_MergeFrom
    <2>2. Plainly(c) = {"name", "createdTime", "owner", "rival"} /\ \A f \in DOMAIN b : ~ IsSub(c, f)
      BY <1>3 DEF Plainly, Values, IsSub
    <2>3. QED
      BY <2>1, <2>2, MergeScalars
  <1>4. CASE c = "Pos"
    <2>1. MergeOf(c, a, b) = MergeSet(a, b, {"x", "y"})
      BY <1>4, Zenon DEF MergeOf, Pos_MergeFrom
    <2>2. Plainly(c) = {"x", "y"} /\ \A f \in DOMAIN b : ~ IsSub(c, f)
      BY <1>4 DEF Plainly, Values, IsSub
    <2>3. QED
      BY <2>1, <2>2, MergeScalars
  <1>5. CASE c = "GridInfo"
    <2> DEFINE fs == {"grid", "type", "topic", "ownerScore", "rivalScore", "isownertune",
                      "ownercanmove", "rivalcanmove"}
    <2>1. PICK s : s = IF Has(b, "o") THEN Put(a, "o", Pos_MergeFrom(Mutable(a, "o"), b.o)) ELSE a
      OBVIOUS
    <2>2. PICK t : t = IF Has(b, "r") THEN Put(s, "r", Pos_MergeFrom(Mutable(s, "r"), b.r)) ELSE s
      OBVIOUS
    <2>3. MergeOf(c, a, b) = MergeSet(t, b, fs)
      <3>1. MergeOf(c, a, b) = GridInfo_MergeFrom(a, b)
        BY <1>5, Zenon DEF MergeOf, MergeFrom
      <3>2. QED
        BY <2>1, <2>2, <3>1, Zenon DEF GridInfo_MergeFrom, MergeMessage
    <2>4. Plainly(c) = fs
      BY <1>5 DEF Plainly, Values, IsSub
    <2> HIDE DEF fs
    <2>5. \A f : IsSub(c, f) <=> f \in {"o", "r"}
      BY <1>5 DEF IsSub
    <2>6. /\ DOMAIN s = DOMAIN a \cup ({"o"} \cap DOMAIN b)
          /\ "o" \in DOMAIN b => s.o = Pos_MergeFrom(Mutable(a, "o"), b.o)
          /\ \A h \in DOMAIN a : h # "o" \/ "o" \notin DOMAIN b => s[h] = a[h]
      BY <2>1 DEF Has, Put
    <2>7. /\ DOMAIN t = DOMAIN s \cup ({"r"} \cap DOMAIN b)
          /\ "r" \in DOMAIN b => t.r = Pos_MergeFrom(Mutable(s, "r"), b.r)
          /\ \A h \in DOMAIN s : h # "r" \/ "r" \notin DOMAIN b => t[h] = s[h]
      BY <2>2 DEF Has, Put
    <2>8. Mutable(s, "r") = Mutable(a, "r")
      BY <2>6 DEF Mutable, Has
    <2>9. \A p, q : MergeOf(ClassOf("o"), p, q) = Pos_MergeFrom(p, q)
                    /\ MergeOf(ClassOf("r"), p, q) = Pos_MergeFrom(p, q)
      <3>1. ClassOf("o") = "Pos" /\ ClassOf("r") = "Pos"
        BY DEF ClassOf
      <3>2. \A p, q : MergeOf("Pos", p, q) = Pos_MergeFrom(p, q)
        BY Zenon DEF MergeOf
      <3>3. QED
        BY <3>1, <3>2
    <2>10. DOMAIN t = DOMAIN a \cup {f \in DOMAIN b : IsSub(c, f)}
      BY <2>5, <2>6, <2>7
    <2>11. ASSUME NEW f \in DOMAIN t
           PROVE  t[f] = IF f \in DOMAIN b /\ IsSub(c, f)
                         THEN MergeOf(ClassOf(f), Mutable(a, f), b[f]) ELSE a[f]
      <3>1. CASE f = "o"
        BY <2>5, <2>6, <2>7, <2>9, <3>1
      <3>2. CASE f = "r"
        BY <2>5, <2>6, <2>7, <2>8, <2>9, <3>2
      <3>3. CASE f \notin {"o", "r"}
        BY <2>5, <2>6, <2>7, <3>3
      <3>4. QED
        BY <3>1, <3>2, <3>3
    <2>12. QED
      BY <2>3, <2>4, <2>10, <2>11, MergeSetFacts
  <1>6. CASE c = "boardQuery"
    <2>1. PICK s : s = IF Has(b, "x") THEN Put(a, "x", Pos_MergeFrom(Mutable(a, "x"), b.x)) ELSE a
      OBVIOUS
    <2>2. MergeOf(c, a, b) = MergeSet(s, b, {"type", "topic"})
      <3>1. MergeOf(c, a, b) = boardQuery_MergeFrom(a, b)
        BY <1>6, Zenon DEF MergeOf, MergeFrom
      <3>2. QED
        BY <2>1, <3>1, Zenon DEF boardQuery_MergeFrom, MergeMessage
    <2>3. Plainly(c) = {"type", "topic"}
      BY <1>6 DEF Plainly, Values, IsSub
    <2>4. \A f : IsSub(c, f) <=> f = "x"
      BY <1>6 DEF IsSub
    <2>5. /\ DOMAIN s = DOMAIN a \cup ({"x"} \cap DOMAIN b)
          /\ "x" \in DOMAIN b => s.x = Pos_MergeFrom(Mutable(a, "x"), b.x)
          /\ \A h \in DOMAIN a : h # "x" \/ "x" \notin DOMAIN b => s[h] = a[h]
      BY <2>1 DEF Has, Put
    <2>6. \A p, q : MergeOf(ClassOf("x"), p, q) = Pos_MergeFrom(p, q)
      <3>1. ClassOf("x") = "Pos"
        BY DEF ClassOf
      <3>2. \A p, q : MergeOf("Pos", p, q) = Pos_MergeFrom(p, q)
        BY Zenon DEF MergeOf
      <3>3. QED
        BY <3>1, <3>2
    <2>7. DOMAIN s = DOMAIN a \cup {f \in DOMAIN b : IsSub(c, f)}
      BY <2>4, <2>5
    <2>8. ASSUME NEW f \in DOMAIN s
          PROVE  s[f] = IF f \in DOMAIN b /\ IsSub(c, f)
                        THEN MergeOf(ClassOf(f), Mutable(a, f), b[f]) ELSE a[f]
      BY <2>4, <2>5, <2>6
    <2>9. QED
      BY <2>2, <2>3, <2>7, <2>8, MergeSetFacts
  <1>7. CASE c = "boardAns"
    <2>1. PICK s : s = IF Has(b, "g") THEN Put(a, "g", GridInfo_MergeFrom(Mutable(a, "g"), b.g)) ELSE a
      OBVIOUS
    <2>2. MergeOf(c, a, b) = MergeSet(s, b, {"code"})
      <3>1. MergeOf(c, a, b) = boardAns_MergeFrom(a, b)
        BY <1>7, Zenon DEF MergeOf, MergeFrom
      <3>2. QED
        BY <2>1, <3>1, Zenon DEF boardAns_MergeFrom, MergeMessage
    <2>3. Plainly(c) = {"code"}
      BY <1>7 DEF Plainly, Values, IsSub
    <2>4. \A f : IsSub(c, f) <=> f = "g"
      BY <1>7 DEF IsSub
    <2>5. /\ DOMAIN s = DOMAIN a \cup ({"g"} \cap DOMAIN b)
          /\ "g" \in DOMAIN b => s.g = GridInfo_MergeFrom(Mutable(a, "g"), b.g)
          /\ \A h \in DOMAIN a : h # "g" \/ "g" \notin DOMAIN b => s[h] = a[h]
      BY <2>1 DEF Has, Put
    <2>6. \A p, q : MergeOf(ClassOf("g"), p, q) = GridInfo_MergeFrom(p, q)
      <3>1. ClassOf("g") = "GridInfo"
        BY Zenon DEF ClassOf
      <3>2. \A p, q : MergeOf("GridInfo", p, q) = GridInfo_MergeFrom(p, q)
        BY Zenon DEF MergeOf, MergeFrom
      <3>3. QED
        BY <3>1, <3>2
    <2>7. DOMAIN s = DOMAIN a \cup {f \in DOMAIN b : IsSub(c, f)}
      BY <2>4, <2>5
    <2>8. ASSUME NEW f \in DOMAIN s
          PROVE  s[f] = IF f \in DOMAIN b /\ IsSub(c, f)
                        THEN MergeOf(ClassOf(f), Mutable(a, f), b[f]) ELSE a[f]
      BY <2>4, <2>5, <2>6
    <2>9. QED
      BY <2>2, <2>3, <2>7, <2>8, MergeSetFacts
  <1>8. CASE c = "finalInfo"
    <2>1. MergeOf(c, a, b) = MergeSet(a, b, {"ownerScore", "rivalScore"})
      BY <1>8, Zenon DEF MergeOf, MergeFrom, finalInfo_MergeFrom
    <2>2. Plainly(c) = {"ownerScore", "rivalScore"} /\ \A f \in DOMAIN b : ~ IsSub(c, f)
      BY <1>8 DEF Plainly, Values, IsSub
    <2>3. QED
      BY <2>1, <2>2, MergeScalars
  <1>9. QED
    BY <1>1, <1>2, <1>3, <1>4, <1>5, <1>6, <1>7, <1>8 DEF Classes

\* The messages within a message that is as its sender has it are so too.
LEMMA GoalIsPlain ==
    ASSUME NEW c \in Classes \ {"ShowInfo"}, NEW m, Plain(c, m), NEW f \in DOMAIN m, IsSub(c, f)
    PROVE  ClassOf(f) \in Classes \ {"ShowInfo"} /\ Plain(ClassOf(f), m[f])
  <1>1. CASE f \in {"o", "r", "x"}
    <2>1. ClassOf(f) = "Pos" /\ Whole("Pos", m[f])
      BY <1>1 DEF ClassOf, IsSub, Plain, WholePlaces
    <2>2. QED
      BY <2>1 DEF Plain, Classes
  <1>2. CASE f = "g"
    <2>1. ClassOf(f) = "GridInfo"
      BY <1>2, Zenon DEF ClassOf
    <2>2. c = "boardAns"
      BY <1>2 DEF IsSub
    <2>3. QED
      BY <1>2, <2>1, <2>2 DEF Plain, Has, Classes
  <1>3. QED
    BY <1>1, <1>2 DEF IsSub

\* The class of a field that is a message, in a class other than ShowInfo.
LEMMA SubClass ==
    ASSUME NEW c \in Classes \ {"ShowInfo"}, NEW f, IsSub(c, f)
    PROVE  /\ f \notin {"unknown", "ri", NoMessage}
           /\ ClassOf(f) = IF c = "boardAns" THEN "GridInfo" ELSE "Pos"
           /\ ClassOf(f) \in Classes \ {"ShowInfo"}
  <1>1. f \notin {"unknown", "ri", NoMessage}
    BY DEF IsSub, NoMessage
  <1>2. CASE f \in {"o", "r", "x"}
    <2>1. ClassOf(f) = "Pos" /\ c # "boardAns"
      BY <1>2 DEF ClassOf, IsSub
    <2>2. QED
      BY <1>1, <2>1 DEF Classes
  <1>3. CASE f = "g"
    <2>1. ClassOf(f) = "GridInfo"
      BY <1>3, Zenon DEF ClassOf
    <2>2. c = "boardAns"
      BY <1>3 DEF IsSub
    <2>3. QED
      BY <1>1, <2>1, <2>2 DEF Classes
  <1>4. QED
    BY <1>2, <1>3 DEF IsSub

\* A message is plain if its fields are and the messages within it are.
LEMMA PlainIfParts ==
    ASSUME NEW c \in Classes \ {"ShowInfo"}, NEW m, Whole(c, m),
           \A f \in DOMAIN m : IsSub(c, f) => Plain(ClassOf(f), m[f])
    PROVE  Plain(c, m)
  <1>1. \A f \in DOMAIN m : IsSub(c, f) =>
            Plain(IF c = "boardAns" THEN "GridInfo" ELSE "Pos", m[f])
    BY SubClass
  <1>2. c = "GridInfo" => WholePlaces(m, {"o", "r"})
    BY <1>1 DEF WholePlaces, IsSub, Plain
  <1>3. c = "boardQuery" => WholePlaces(m, {"x"})
    BY <1>1 DEF WholePlaces, IsSub, Plain
  <1>4. c = "boardAns" /\ Has(m, "g") => Whole("GridInfo", m.g) /\ WholePlaces(m.g, {"o", "r"})
    BY <1>1 DEF IsSub, Plain, Has
  <1>5. QED
    BY <1>2, <1>3, <1>4 DEF Plain

\* An empty object is as plain as any.
LEMMA NewPlain == ASSUME NEW c \in Classes \ {"ShowInfo"} PROVE Plain(c, New)
  <1>1. DOMAIN New = {"unknown"} /\ New.unknown = <<>> /\ New = [e \in DOMAIN New |-> New[e]]
    BY DEF New
  <1>2. Whole(c, New)
    BY <1>1, ValuesFacts DEF Whole, Partial, Class, NoField
  <1>3. QED
    BY <1>1, <1>2, SubClass, PlainIfParts

\* Merging leaves a plain message, merging the same again leaves it as it is, and
\* merging into an empty object copies.
Merges(c) ==
    /\ \A a, b : Plain(c, a) /\ Plain(c, b) =>
           /\ Plain(c, MergeOf(c, a, b))
           /\ MergeOf(c, MergeOf(c, a, b), b) = MergeOf(c, a, b)
    /\ \A b : Plain(c, b) => MergeOf(c, New, b) = b

\* So what MergeFrom makes of plain messages is plain if that holds of the classes within.
LEMMA MergesIfParts ==
    ASSUME NEW c \in Classes \ {"ShowInfo"}, \A f : IsSub(c, f) => Merges(ClassOf(f))
    PROVE  Merges(c)
  <1>1. ASSUME NEW a, NEW b, Plain(c, a), Plain(c, b), NEW m, IsMerge(c, a, b, m)
        PROVE  Plain(c, m)
    <2>1. Whole(c, a) /\ Whole(c, b)
      BY <1>1 DEF Plain
    <2>2. Partial(c, m)
      <3>1. DOMAIN m \subseteq DOMAIN Values[c] \cup {"unknown"}
        BY <1>1, <2>1 DEF IsMerge, Whole, Partial, Class, NoField
      <3>2. ASSUME NEW f \in DOMAIN m \cap DOMAIN Values[c], Values[c][f] # {}
            PROVE  m[f] \in Values[c][f]
        <4>1. ~ IsSub(c, f) /\ f # "unknown"
          BY <3>2, SubFacts, ValuesFacts
        <4>2. m[f] = IF f \in DOMAIN b THEN b[f] ELSE a[f]
          BY <1>1, <4>1 DEF IsMerge
        <4>3. f \in DOMAIN a \/ f \in DOMAIN b
          BY <1>1 DEF IsMerge
        <4>4. QED
          BY <2>1, <3>2, <4>2, <4>3 DEF Whole, Partial, Class
      <3>3. QED
        BY <3>1, <3>2 DEF Partial, Class, NoField
    <2>3. Whole(c, m)
      BY <1>1, <2>2 DEF IsMerge, Whole
    <2>4. ASSUME NEW f \in DOMAIN m, IsSub(c, f) PROVE Plain(ClassOf(f), m[f])
      <3>1. f # "unknown" /\ ClassOf(f) \in Classes \ {"ShowInfo"}
        BY <2>4, SubClass
      <3>2. CASE f \in DOMAIN b
        <4>1. Plain(ClassOf(f), b[f])
          BY <1>1, <2>4, <3>2, GoalIsPlain
        <4>2. Plain(ClassOf(f), Mutable(a, f))
          BY <1>1, <2>4, <3>1, GoalIsPlain, NewPlain DEF Mutable, Has
        <4>3. m[f] = MergeOf(ClassOf(f), Mutable(a, f), b[f])
          BY <1>1, <2>4, <3>1, <3>2 DEF IsMerge
        <4>4. Merges(ClassOf(f))
          BY <2>4
        <4>5. QED
          BY <4>1, <4>2, <4>3, <4>4 DEF Merges
      <3>3. CASE f \notin DOMAIN b
        <4>1. f \in DOMAIN a /\ m[f] = a[f]
          BY <1>1, <3>1, <3>3 DEF IsMerge
        <4>2. QED
          BY <1>1, <2>4, <4>1, GoalIsPlain
      <3>4. QED
        BY <3>2, <3>3
    <2>5. QED
      BY <2>3, <2>4, PlainIfParts
  <1>2. ASSUME NEW a, NEW b, Plain(c, a), Plain(c, b),
               NEW m, IsMerge(c, a, b, m), NEW k, IsMerge(c, m, b, k)
        PROVE  k = m
    <2>1. DOMAIN k = DOMAIN m
      BY <1>2 DEF IsMerge
    <2>2. ASSUME NEW f \in DOMAIN m PROVE k[f] = m[f]
      <3>1. CASE f = "unknown" \/ f \notin DOMAIN b
        BY <1>2, <3>1 DEF IsMerge
      <3>2. CASE f # "unknown" /\ f \in DOMAIN b /\ ~ IsSub(c, f)
        BY <1>2, <3>2 DEF IsMerge
      <3>3. CASE f # "unknown" /\ f \in DOMAIN b /\ IsSub(c, f)
        <4>1. m[f] = MergeOf(ClassOf(f), Mutable(a, f), b[f])
          BY <1>2, <3>3 DEF IsMerge
        <4>2. k[f] = MergeOf(ClassOf(f), m[f], b[f])
          BY <1>2, <3>3 DEF IsMerge, Mutable, Has
        <4>3. Plain(ClassOf(f), b[f])
          BY <1>2, <3>3, GoalIsPlain
        <4>4. Plain(ClassOf(f), Mutable(a, f))
          BY <1>2, <3>3, SubClass, GoalIsPlain, NewPlain DEF Mutable, Has
        <4>5. Merges(ClassOf(f))
          BY <3>3
        <4>6. QED
          BY <4>1, <4>2, <4>3, <4>4, <4>5 DEF Merges
      <3>4. QED
        BY <3>1, <3>2, <3>3
    <2>3. k = [f \in DOMAIN k |-> k[f]] /\ m = [f \in DOMAIN m |-> m[f]]
      BY <1>2 DEF IsMerge
    <2>4. QED
      BY <2>1, <2>2, <2>3
  <1>3. ASSUME NEW b, Plain(c, b), NEW m, IsMerge(c, New, b, m)
        PROVE  m = b
    <2>1. DOMAIN New = {"unknown"}
      BY DEF New
    <2>2. "unknown" \in DOMAIN b /\ b.unknown = <<>> /\ b = [f \in DOMAIN b |-> b[f]]
      BY <1>3 DEF Plain, Whole
    <2>3. DOMAIN m = DOMAIN b
      BY <1>3, <2>1, <2>2 DEF IsMerge
    <2>4. ASSUME NEW f \in DOMAIN b PROVE m[f] = b[f]
      <3>1. CASE f = "unknown"
        BY <1>3, <2>2, <3>1 DEF IsMerge
      <3>2. CASE f # "unknown" /\ ~ IsSub(c, f)
        BY <1>3, <3>2 DEF IsMerge
      <3>3. CASE f # "unknown" /\ IsSub(c, f)
        <4>1. Mutable(New, f) = New
          BY <2>1, <3>3 DEF Mutable, Has
        <4>2. m[f] = MergeOf(ClassOf(f), New, b[f])
          BY <1>3, <3>3, <4>1 DEF IsMerge
        <4>3. Plain(ClassOf(f), b[f]) /\ Merges(ClassOf(f))
          BY <1>3, <3>3, GoalIsPlain
        <4>4. QED
          BY <4>2, <4>3 DEF Merges
      <3>4. QED
        BY <3>1, <3>2, <3>3
    <2>5. m = [f \in DOMAIN m |-> m[f]]
      BY <1>3 DEF IsMerge
    <2>6. QED
      BY <2>2, <2>3, <2>4, <2>5
  <1>4. ASSUME NEW a, NEW b, Plain(c, a), Plain(c, b) PROVE IsMerge(c, a, b, MergeOf(c, a, b))
    BY <1>4, MergeFacts DEF Plain
  <1>5. ASSUME NEW a, NEW b, Plain(c, a), Plain(c, b)
        PROVE  /\ Plain(c, MergeOf(c, a, b))
               /\ MergeOf(c, MergeOf(c, a, b), b) = MergeOf(c, a, b)
    <2>1. PICK m : m = MergeOf(c, a, b)
      OBVIOUS
    <2>2. PICK k : k = MergeOf(c, m, b)
      OBVIOUS
    <2>3. IsMerge(c, a, b, m) /\ Plain(c, m)
      BY <1>1, <1>4, <1>5, <2>1
    <2>4. IsMerge(c, m, b, k)
      BY <1>4, <1>5, <2>2, <2>3
    <2>5. k = m
      BY <1>2, <1>5, <2>3, <2>4
    <2>6. QED
      BY <2>1, <2>2, <2>3, <2>5
  <1>6. ASSUME NEW b, Plain(c, b) PROVE MergeOf(c, New, b) = b
    BY <1>3, <1>4, <1>6, NewPlain
  <1>7. QED
    BY <1>5, <1>6 DEF Merges

\* The classes nest: places first, then boards, then what holds a board.
LEMMA AllMerge == ASSUME NEW c \in Classes \ {"ShowInfo"} PROVE Merges(c)
  <1>1. Merges("Pos")
    <2>1. "Pos" \in Classes \ {"ShowInfo"} /\ \A f : ~ IsSub("Pos", f)
      BY DEF Classes, IsSub
    <2>2. QED
      BY <2>1, MergesIfParts
  <1>2. ASSUME NEW d \in Classes \ {"ShowInfo", "boardAns"} PROVE Merges(d)
    <2>1. \A f : IsSub(d, f) => Merges(ClassOf(f))
      BY <1>1, SubClass
    <2>2. QED
      BY <2>1, MergesIfParts
  <1>3. Merges("GridInfo")
    BY <1>2 DEF Classes
  <1>4. \A f : IsSub("boardAns", f) => Merges(ClassOf(f))
    BY <1>3, SubClass DEF Classes
  <1>5. Merges("boardAns")
    BY <1>4, MergesIfParts DEF Classes
  <1>6. QED
    BY <1>2, <1>5

--------------------------------------------------------------------------------
(* Readers on the way to what they are to make.                                *)

\* What the reader that caller has called is to make, if the caller is to make m.
GoalIn(m, caller) ==
    IF caller.into = "ri" THEN m.ri[Len(Repeated(caller.got, "ri")) + 1] ELSE m[caller.into]

\* A reader of class c has g, r is left to read of a wire that says x, and m is what that
\* makes of it.  A field of m that g lacks, or that is to change, is still to be read or is
\* the one the reader waits for.  Only with extra may a field be met that nobody has heard of.
ByField(c, m, x, g, r, waits, extra) ==
    /\ DOMAIN g \cup DOMAIN x \subseteq DOMAIN m
    /\ {waits} \ {NoMessage} \subseteq DOMAIN x
    /\ \A f \in DOMAIN m \ {"unknown"} :
           \/ f \in DOMAIN g /\ g[f] = m[f]
           \/ f \in {waits} \ {NoMessage}
           \/ f \in DOMAIN x /\ ItemOf(c, x, f) \in Range(r)
    /\ \A f \in DOMAIN x \ {"unknown"} :
           m[f] = IF IsSub(c, f) THEN MergeOf(ClassOf(f), Mutable(g, f), x[f]) ELSE x[f]
    /\ \A f \in DOMAIN g : IsSub(c, f) => Plain(ClassOf(f), g[f])
    /\ \A i \in Range(r) : (extra /\ i = Unheard) \/ i \in FieldItems(c, x)

\* The rooms of the list ri from number n on, in their order.
RoomsFrom(ri, n, r, extra) ==
    \E u \in 0 .. Len(r) :
        /\ u = 0 => /\ Len(r) = Len(ri) - n
                    /\ \A k \in 1 .. Len(r) : r[k] = RoomItem(ri[n + k])
        /\ u # 0 => /\ extra
                    /\ Len(r) = Len(ri) - n + 1
                    /\ r[u] = Unheard
                    /\ \A k \in 1 .. u - 1 : r[k] = RoomItem(ri[n + k])
                    /\ \A k \in u + 1 .. Len(r) : r[k] = RoomItem(ri[n + k - 1])

\* So it is with the list of rooms, of which the order tells one from the other.
ByIndex(m, g, r, waits, extra) ==
    LET goal == Repeated(m, "ri")
        made == Repeated(g, "ri")
    IN  /\ Has(g, "ri") => made # <<>>
        /\ \A k \in 1 .. Len(made) : made[k] = goal[k]
        /\ LET n == Len(made) + (IF waits = NoMessage THEN 0 ELSE 1)
           IN  n <= Len(goal) /\ RoomsFrom(goal, n, r, extra)

\* A reader of class c that has g, is to read r, which says x, and waits for field waits
\* is to make m.
OnTheWay(c, m, x, g, r, waits, extra) ==
    /\ Plain(c, m)
    /\ g = [f \in DOMAIN g |-> g[f]]
    /\ "unknown" \in DOMAIN g
    /\ ~ extra => g.unknown = <<>>
    /\ c = "ShowInfo" => ByIndex(m, g, r, waits, extra)
    /\ c # "ShowInfo" => Plain(c, x) /\ ByField(c, m, x, g, r, waits, extra)

\* The first and the other items of a wire.
LEMMA ItemsOfSeq ==
    ASSUME NEW S, NEW r \in Seq(S), r # <<>>
    PROVE  /\ Head(r) = r[1] /\ Tail(r) \in Seq(S) /\ Len(r) \in Nat \ {0}
           /\ Len(Tail(r)) = Len(r) - 1 /\ \A k \in 1 .. Len(r) - 1 : Tail(r)[k] = r[k + 1]
           /\ Head(r) \in Range(r) /\ Range(Tail(r)) \subseteq Range(r)
           /\ \A i \in Range(r) : i = Head(r) \/ i \in Range(Tail(r))
  <1>1. Len(r) \in Nat \ {0} /\ Head(r) = r[1]
    BY EmptySeq, LenProperties
  <1>2. /\ Tail(r) \in Seq(S) /\ Len(Tail(r)) = Len(r) - 1
        /\ \A k \in 1 .. Len(r) - 1 : Tail(r)[k] = r[k + 1]
    BY HeadTailProperties
  <1>3. /\ Range(r) = {r[k] : k \in 1 .. Len(r)}
        /\ Range(Tail(r)) = {Tail(r)[k] : k \in 1 .. Len(r) - 1}
    BY <1>2, RangeEquality
  <1>4. Head(r) \in Range(r)
    BY <1>1, <1>3
  <1>5. ASSUME NEW i \in Range(Tail(r)) PROVE i \in Range(r)
    <2>1. PICK k \in 1 .. Len(r) - 1 : i = r[k + 1]
      BY <1>2, <1>3
    <2>2. k + 1 \in 1 .. Len(r)
      BY <1>1
    <2>3. QED
      BY <1>3, <2>1, <2>2
  <1>6. ASSUME NEW i \in Range(r), i # Head(r) PROVE i \in Range(Tail(r))
    <2>1. PICK k \in 1 .. Len(r) : i = r[k]
      BY <1>3
    <2>2. k # 1
      BY <1>1, <1>6, <2>1
    <2>3. k - 1 \in 1 .. Len(r) - 1 /\ (k - 1) + 1 = k
      BY <1>1, <2>2
    <2>4. Tail(r)[k - 1] = i
      BY <1>2, <2>1, <2>3
    <2>5. QED
      BY <1>3, <2>3, <2>4
  <1>7. QED
    BY <1>1, <1>2, <1>4, <1>5, <1>6

\* A field of its own value is read as it was written.
LEMMA FieldReads ==
    ASSUME NEW c \in Classes \ {"ShowInfo"}, NEW m, Plain(c, m), NEW f \in DOMAIN m \ {"unknown"},
           ~ IsSub(c, f), NEW g
    PROVE  /\ MergePartial(c, g, ItemOf(c, m, f)) = Put(g, f, m[f])
           /\ Into(c, ItemOf(c, m, f)) = NoMessage
  <1>1. f \in DOMAIN Values[c]
    BY DEF Plain, Whole, Partial, Class, NoField
  <1>2. m[f] \in Values[c][f]
    <2>1. Values[c][f] # {}
      BY <1>1, ValuesGiven
    <2>2. QED
      BY <1>1, <2>1 DEF Plain, Whole, Partial, Class
  <1>3. QED
    BY <1>1, <1>2, SystemQueryReads, SystemAnsReads, RoomInfoReads, PosReads, GridInfoReads,
       boardQueryReads, boardAnsReads, finalInfoReads DEF Classes

\* Each room of a list is to be made by a reader of rooms.
LEMMA RoomIsPlain ==
    ASSUME NEW m, Plain("ShowInfo", m), NEW k \in 1 .. Len(Repeated(m, "ri"))
    PROVE  /\ ClassOf("ri") = "RoomInfo"
           /\ Repeated(m, "ri") = m.ri
           /\ Plain("RoomInfo", m.ri[k])
  <1>1. ClassOf("ri") = "RoomInfo"
    BY Zenon DEF ClassOf
  <1>2. Repeated(m, "ri") \in Seq(Range(Repeated(m, "ri")))
    BY DEF Plain
  <1>3. k \in DOMAIN Repeated(m, "ri")
    BY <1>2, LenProperties
  <1>4. Repeated(m, "ri") = m.ri
    <2>1. Repeated(m, "ri") # <<>>
      BY EmptySeq
    <2>2. QED
      BY <2>1 DEF Repeated
  <1>5. QED
    BY <1>1, <1>3, <1>4 DEF Plain

--------------------------------------------------------------------------------
(* Each step of a reader, on its way.                                          *)

\* A reader meets nothing it could not get past.
LEMMA NoneMalformed ==
    ASSUME NEW c, NEW m, NEW x, NEW g, NEW r, NEW extra \in BOOLEAN, NEW S, r \in Seq(S), r # <<>>,
           OnTheWay(c, m, x, g, r, NoMessage, extra)
    PROVE  Head(r).kind # "malformed"
  <1>1. Unheard.kind # "malformed"
    BY DEF Unheard, Item
  <1>2. CASE c = "ShowInfo"
    <2>0. PICK ri, n : RoomsFrom(ri, n, r, extra)
      BY <1>2 DEF OnTheWay, ByIndex
    <2>1. PICK u \in 0 .. Len(r) :
              \/ u = 0 /\ r[1] = RoomItem(ri[n + 1])
              \/ u # 0 /\ r[u] = Unheard /\ (u # 1 => r[1] = RoomItem(ri[n + 1]))
      BY <2>0, ItemsOfSeq DEF RoomsFrom
    <2>2. \A room : RoomItem(room).kind # "malformed"
      BY RoomReads
    <2>3. QED
      BY <1>1, <2>1, <2>2, ItemsOfSeq
  <1>3. CASE c # "ShowInfo"
    <2>1. Head(r) = Unheard \/ Head(r) \in FieldItems(c, x)
      BY <1>3, ItemsOfSeq DEF OnTheWay, ByField
    <2>2. QED
      BY <1>1, <2>1, ItemOfFacts DEF FieldItems
  <1>4. QED
    BY <1>2, <1>3

\* A field of its own value is written under a number that no other field has, nor the
\* one nobody has heard of.
LEMMA ItemsDiffer ==
    ASSUME NEW c \in Classes \ {"ShowInfo"}, NEW x, Plain(c, x)
    PROVE  /\ \A f, h \in DOMAIN x \ {"unknown"} : ItemOf(c, x, f) = ItemOf(c, x, h) => f = h
           /\ \A f \in DOMAIN x \ {"unknown"} : ItemOf(c, x, f) # Unheard
  <1>1. \A f \in DOMAIN x \ {"unknown"} : f \in DOMAIN Values[c]
    BY DEF Plain, Whole, Partial, Class, NoField
  <1>2. ASSUME NEW f \in DOMAIN x \ {"unknown"}, NEW h \in DOMAIN x \ {"unknown"},
               ItemOf(c, x, f) = ItemOf(c, x, h)
        PROVE  f = h
    <2>1. Numbers[c][f] = Numbers[c][h]
      BY <1>2, ItemOfFacts
    <2>2. QED
      BY <1>1, <2>1, NumbersDiffer
  <1>3. ASSUME NEW f \in DOMAIN x \ {"unknown"} PROVE ItemOf(c, x, f) # Unheard
    <2>1. Numbers[c][f] # 15
      BY <1>1, NumbersKnown
    <2>2. Unheard.num = 15
      BY DEF Unheard, Item
    <2>3. QED
      BY <2>1, <2>2, ItemOfFacts
  <1>4. QED
    BY <1>2, <1>3

\* A turn of the loop for a field that is no message.
LEMMA ByFieldReads ==
    ASSUME NEW c \in Classes \ {"ShowInfo"}, NEW m, NEW x, NEW g, NEW r, NEW extra \in BOOLEAN, NEW S,
           r \in Seq(S), r # <<>>, OnTheWay(c, m, x, g, r, NoMessage, extra),
           Into(c, Head(r)) = NoMessage
    PROVE  OnTheWay(c, m, x, MergePartial(c, g, Head(r)), Tail(r), NoMessage, extra)
  <1>1. Plain(c, m) /\ Plain(c, x) /\ ByField(c, m, x, g, r, NoMessage, extra) /\ "unknown" \in DOMAIN g
        /\ (~ extra => g.unknown = <<>>)
    BY DEF OnTheWay
  <1>2. ASSUME NEW h, NEW v, h = "unknown" \/ (h \in DOMAIN x /\ ~ IsSub(c, h) /\ v = m[h]),
               \A f \in DOMAIN x \ {"unknown"} : ItemOf(c, x, f) = Head(r) => f = h,
               h = "unknown" => extra
        PROVE  OnTheWay(c, m, x, Put(g, h, v), Tail(r), NoMessage, extra)
    <2> DEFINE G == Put(g, h, v)
    <2>1. /\ DOMAIN G = DOMAIN g \cup {h} /\ G[h] = v
          /\ \A f \in DOMAIN g \ {h} : G[f] = g[f]
          /\ G = [f \in DOMAIN G |-> G[f]]
      BY ObjectFacts DEF Put
    <2>2. ~ IsSub(c, h)
      BY <1>2 DEF IsSub
    <2> HIDE DEF G
    <2>3. DOMAIN G \cup DOMAIN x \subseteq DOMAIN m
      BY <1>1, <1>2, <2>1 DEF ByField
    <2>4. ASSUME NEW f \in DOMAIN m \ {"unknown"}
          PROVE  \/ f \in DOMAIN G /\ G[f] = m[f]
                 \/ f \in DOMAIN x /\ ItemOf(c, x, f) \in Range(Tail(r))
      <3>1. CASE f = h
        BY <1>2, <2>1, <2>4, <3>1
      <3>2. CASE f # h
        <4>1. \/ f \in DOMAIN g /\ g[f] = m[f]
              \/ f \in DOMAIN x /\ ItemOf(c, x, f) \in Range(r)
          BY <1>1, <2>4 DEF ByField
        <4>2. f \in DOMAIN x => ItemOf(c, x, f) # Head(r)
          BY <1>2, <2>4, <3>2
        <4>3. QED
          BY <2>1, <3>2, <4>1, <4>2, ItemsOfSeq
      <3>3. QED
        BY <3>1, <3>2
    <2>5. ASSUME NEW f \in DOMAIN x \ {"unknown"}
          PROVE  m[f] = IF IsSub(c, f) THEN MergeOf(ClassOf(f), Mutable(G, f), x[f]) ELSE x[f]
      <3>1. CASE IsSub(c, f)
        <4>1. Mutable(G, f) = Mutable(g, f)
          BY <2>1, <2>2, <3>1 DEF Mutable, Has
        <4>2. QED
          BY <1>1, <2>5, <3>1, <4>1 DEF ByField
      <3>2. CASE ~ IsSub(c, f)
        BY <1>1, <2>5, <3>2 DEF ByField
      <3>3. QED
        BY <3>1, <3>2
    <2>6. \A f \in DOMAIN G : IsSub(c, f) => Plain(ClassOf(f), G[f])
      BY <1>1, <2>1, <2>2 DEF ByField
    <2>7. \A i \in Range(Tail(r)) : (extra /\ i = Unheard) \/ i \in FieldItems(c, x)
      BY <1>1, ItemsOfSeq DEF ByField
    <2>8. ByField(c, m, x, G, Tail(r), NoMessage, extra)
      BY <2>3, <2>4, <2>5, <2>6, <2>7 DEF ByField
    <2>9. "unknown" \in DOMAIN G /\ (~ extra => G.unknown = <<>>)
      BY <1>1, <1>2, <2>1
    <2>10. OnTheWay(c, m, x, G, Tail(r), NoMessage, extra)
      BY <1>1, <2>1, <2>8, <2>9 DEF OnTheWay
    <2>11. QED
      BY <2>10 DEF G
  <1>3. CASE extra /\ Head(r) = Unheard
    <2>1. MergePartial(c, g, Head(r)) = Put(g, "unknown", Append(g.unknown, Unheard))
      BY <1>3, UnheardReads DEF SkipField
    <2>2. \A f \in DOMAIN x \ {"unknown"} : ItemOf(c, x, f) # Head(r)
      BY <1>1, <1>3, ItemsDiffer
    <2>3. QED
      BY <1>2, <1>3, <2>1, <2>2
  <1>4. CASE Head(r) \in FieldItems(c, x)
    <2>1. PICK f \in DOMAIN x \ {"unknown"} : Head(r) = ItemOf(c, x, f)
      BY <1>4 DEF FieldItems
    <2>2. ~ IsSub(c, f)
      BY <2>1, SubReads
    <2>3. MergePartial(c, g, Head(r)) = Put(g, f, x[f])
      BY <1>1, <2>1, <2>2, FieldReads
    <2>4. x[f] = m[f]
      BY <1>1, <2>1, <2>2 DEF ByField
    <2>5. \A h \in DOMAIN x \ {"unknown"} : ItemOf(c, x, h) = Head(r) => h = f
      BY <1>1, <2>1, ItemsDiffer
    <2>6. QED
      BY <1>2, <2>1, <2>2, <2>3, <2>4, <2>5
  <1>5. QED
    BY <1>1, <1>3, <1>4, ItemsOfSeq DEF ByField

\* A reader starts with an object into which x is to be merged.
LEMMA StartsByField ==
    ASSUME NEW c \in Classes \ {"ShowInfo"}, NEW g, NEW x, Plain(c, g), Plain(c, x), NEW w,
           NEW extra \in BOOLEAN, FieldItems(c, x) \subseteq Range(w),
           \A i \in Range(w) : (extra /\ i = Unheard) \/ i \in FieldItems(c, x)
    PROVE  OnTheWay(c, MergeOf(c, g, x), x, g, w, NoMessage, extra)
  <1>1. PICK m : m = MergeOf(c, g, x)
    OBVIOUS
  <1>2. Whole(c, g) /\ Whole(c, x)
    BY DEF Plain
  <1>3. IsMerge(c, g, x, m) /\ Plain(c, m)
    BY <1>1, <1>2, MergeFacts, AllMerge DEF Merges
  <1>4. DOMAIN g \cup DOMAIN x \subseteq DOMAIN m
    BY <1>3 DEF IsMerge
  <1>5. ASSUME NEW f \in DOMAIN m \ {"unknown"}
        PROVE  \/ f \in DOMAIN g /\ g[f] = m[f]
               \/ f \in DOMAIN x /\ ItemOf(c, x, f) \in Range(w)
    <2>1. f \in DOMAIN x => ItemOf(c, x, f) \in Range(w)
      BY <1>5 DEF FieldItems
    <2>2. f \notin DOMAIN x => f \in DOMAIN g /\ m[f] = g[f]
      BY <1>3, <1>5 DEF IsMerge
    <2>3. QED
      BY <2>1, <2>2
  <1>6. \A f \in DOMAIN x \ {"unknown"} :
            m[f] = IF IsSub(c, f) THEN MergeOf(ClassOf(f), Mutable(g, f), x[f]) ELSE x[f]
    BY <1>3 DEF IsMerge
  <1>7. \A f \in DOMAIN g : IsSub(c, f) => Plain(ClassOf(f), g[f])
    BY GoalIsPlain
  <1>8. ByField(c, m, x, g, w, NoMessage, extra)
    BY <1>4, <1>5, <1>6, <1>7 DEF ByField
  <1>9. QED
    BY <1>1, <1>2, <1>3, <1>8 DEF OnTheWay, Whole

\* The reader of a field is called: the caller waits for the field, and the reader
\* starts with what the field holds.
LEMMA ByFieldEnters ==
    ASSUME NEW c \in Classes \ {"ShowInfo"}, NEW m, NEW x, NEW g, NEW r, NEW extra \in BOOLEAN, NEW S,
           r \in Seq(S), r # <<>>, OnTheWay(c, m, x, g, r, NoMessage, extra),
           NEW f, f = Into(c, Head(r)), f # NoMessage
    PROVE  /\ f \in DOMAIN m /\ f # "ri"
           /\ OnTheWay(c, m, x, g, Tail(r), f, extra)
           /\ OnTheWay(ClassOf(f), m[f], x[f], Mutable(g, f), Head(r).val, NoMessage, FALSE)
  <1>1. Plain(c, m) /\ Plain(c, x) /\ ByField(c, m, x, g, r, NoMessage, extra)
    BY DEF OnTheWay
  <1>2. Head(r) # Unheard
    BY UnheardReads
  <1>3. PICK h \in DOMAIN x \ {"unknown"} : Head(r) = ItemOf(c, x, h)
    BY <1>1, <1>2, ItemsOfSeq DEF ByField, FieldItems
  <1>4. IsSub(c, h)
    BY <1>1, <1>3, FieldReads
  <1>5. h = f /\ Head(r).val = Wire(ClassOf(f), x[f])
    BY <1>3, <1>4, SubReads
  <1>6. f # "ri" /\ f \in DOMAIN m
    BY <1>1, <1>3, <1>4, <1>5 DEF IsSub, ByField
  <1>7. OnTheWay(c, m, x, g, Tail(r), f, extra)
    <2>1. ASSUME NEW e \in DOMAIN m \ {"unknown"}
          PROVE  \/ e \in DOMAIN g /\ g[e] = m[e]
                 \/ e \in {f} \ {NoMessage}
                 \/ e \in DOMAIN x /\ ItemOf(c, x, e) \in Range(Tail(r))
      <3>1. \/ e \in DOMAIN g /\ g[e] = m[e]
            \/ e \in DOMAIN x /\ ItemOf(c, x, e) \in Range(r)
        BY <1>1 DEF ByField
      <3>2. e \in DOMAIN x /\ ItemOf(c, x, e) = Head(r) => e = f
        BY <1>1, <1>3, <1>5, ItemsDiffer
      <3>3. QED
        BY <3>1, <3>2, ItemsOfSeq
    <2>2. \A i \in Range(Tail(r)) : (extra /\ i = Unheard) \/ i \in FieldItems(c, x)
      BY <1>1, ItemsOfSeq DEF ByField
    <2>3. ByField(c, m, x, g, Tail(r), f, extra)
      BY <1>1, <1>3, <1>5, <2>1, <2>2 DEF ByField
    <2>4. QED
      BY <2>3 DEF OnTheWay
  <1>8. OnTheWay(ClassOf(f), m[f], x[f], Mutable(g, f), Head(r).val, NoMessage, FALSE)
    <2> DEFINE d == ClassOf(f)
               w == Head(r).val
               b == Mutable(g, f)
    <2>1. d \in Classes \ {"ShowInfo"} /\ Plain(d, x[f])
      BY <1>1, <1>3, <1>4, <1>5, GoalIsPlain
    <2>2. Plain(d, b)
      BY <1>1, <1>4, <1>5, <2>1, NewPlain DEF ByField, Mutable, Has
    <2>3. m[f] = MergeOf(d, b, x[f])
      BY <1>1, <1>3, <1>4, <1>5 DEF ByField
    <2> HIDE DEF d, b
    <2>4. Range(w) = FieldItems(d, x[f])
      <3>1. Whole(d, x[f])
        BY <2>1 DEF Plain
      <3>2. QED
        BY <1>5, <2>1, <3>1, WholeHolds DEF Holds, d
    <2> HIDE DEF w
    <2>5. OnTheWay(d, MergeOf(d, b, x[f]), x[f], b, w, NoMessage, FALSE)
      BY <2>1, <2>2, <2>4, StartsByField
    <2>6. QED
      BY <2>3, <2>5 DEF d, w, b
  <1>9. QED
    BY <1>6, <1>7, <1>8

\* A reader that has read all has what it was to make.
LEMMA ByFieldMade ==
    ASSUME NEW c \in Classes \ {"ShowInfo"}, NEW m, NEW x, NEW g, NEW extra \in BOOLEAN,
           OnTheWay(c, m, x, g, <<>>, NoMessage, extra)
    PROVE  /\ DOMAIN g = DOMAIN m
           /\ \A f \in DOMAIN m \ {"unknown"} : g[f] = m[f]
           /\ ~ extra => g = m
  <1>1. Range(<<>>) = {}
    BY HoldsFacts DEF Holds
  <1>2. \A f \in DOMAIN m \ {"unknown"} : f \in DOMAIN g /\ g[f] = m[f]
    BY <1>1 DEF OnTheWay, ByField
  <1>3. DOMAIN g = DOMAIN m
    <2>1. DOMAIN g \subseteq DOMAIN m /\ "unknown" \in DOMAIN g
      BY DEF OnTheWay, ByField
    <2>2. QED
      BY <1>2, <2>1
  <1>4. ASSUME ~ extra PROVE g = m
    <2>1. g.unknown = m.unknown
      BY <1>4 DEF OnTheWay, Plain, Whole
    <2>2. \A f \in DOMAIN m : g[f] = m[f]
      BY <1>2, <2>1
    <2>3. g = [f \in DOMAIN g |-> g[f]] /\ m = [f \in DOMAIN m |-> m[f]]
      BY DEF OnTheWay, Plain, Whole
    <2>4. QED
      BY <1>3, <2>2, <2>3
  <1>5. QED
    BY <1>2, <1>3, <1>4

\* It goes into the field its caller waits for.
LEMMA ByFieldLeaves ==
    ASSUME NEW c \in Classes \ {"ShowInfo"}, NEW m, NEW x, NEW g, NEW r, NEW extra \in BOOLEAN,
           NEW f, IsSub(c, f), OnTheWay(c, m, x, g, r, f, extra)
    PROVE  OnTheWay(c, m, x, Put(g, f, m[f]), r, NoMessage, extra)
  <1> DEFINE G == Put(g, f, m[f])
  <1>1. Plain(c, m) /\ Plain(c, x) /\ ByField(c, m, x, g, r, f, extra)
    BY DEF OnTheWay
  <1>2. f # "unknown" /\ f # NoMessage /\ ClassOf(f) \in Classes \ {"ShowInfo"}
    BY SubClass
  <1>3. /\ DOMAIN G = DOMAIN g \cup {f} /\ G[f] = m[f]
        /\ \A h \in DOMAIN g \ {f} : G[h] = g[h]
        /\ G = [h \in DOMAIN G |-> G[h]]
    BY ObjectFacts DEF Put
  <1> HIDE DEF G
  <1>4. f \in DOMAIN x /\ f \in DOMAIN m
    BY <1>1, <1>2 DEF ByField
  <1>5. Plain(ClassOf(f), m[f])
    BY <1>1, <1>4, GoalIsPlain
  <1>6. ASSUME NEW h \in DOMAIN x \ {"unknown"}
        PROVE  m[h] = IF IsSub(c, h) THEN MergeOf(ClassOf(h), Mutable(G, h), x[h]) ELSE x[h]
    <2>1. m[h] = IF IsSub(c, h) THEN MergeOf(ClassOf(h), Mutable(g, h), x[h]) ELSE x[h]
      BY <1>1 DEF ByField
    <2>2. CASE h = f
      <3>1. m[f] = MergeOf(ClassOf(f), Mutable(g, f), x[f])
        BY <2>1, <2>2
      <3>2. Plain(ClassOf(f), x[f])
        BY <1>1, <1>4, GoalIsPlain
      <3>3. Plain(ClassOf(f), Mutable(g, f))
        BY <1>1, <1>2, NewPlain DEF ByField, Mutable, Has
      <3>4. MergeOf(ClassOf(f), m[f], x[f]) = m[f]
        BY <1>2, <3>1, <3>2, <3>3, AllMerge DEF Merges
      <3>5. Mutable(G, f) = m[f]
        BY <1>3 DEF Mutable, Has
      <3>6. QED
        BY <2>2, <3>4, <3>5
    <2>3. CASE h # f
      <3>1. Mutable(G, h) = Mutable(g, h)
        BY <1>3, <2>3 DEF Mutable, Has
      <3>2. QED
        BY <2>1, <3>1
    <2>4. QED
      BY <2>2, <2>3
  <1>7. ASSUME NEW h \in DOMAIN m \ {"unknown"}
        PROVE  \/ h \in DOMAIN G /\ G[h] = m[h]
               \/ h \in DOMAIN x /\ ItemOf(c, x, h) \in Range(r)
    BY <1>1, <1>3, <1>7 DEF ByField
  <1>8. \A h \in DOMAIN G : IsSub(c, h) => Plain(ClassOf(h), G[h])
    BY <1>1, <1>3, <1>5 DEF ByField
  <1>9. ByField(c, m, x, G, r, NoMessage, extra)
    BY <1>1, <1>3, <1>4, <1>6, <1>7, <1>8 DEF ByField
  <1>10. "unknown" \in DOMAIN G /\ G.unknown = g.unknown
    BY <1>2, <1>3 DEF OnTheWay
  <1>11. OnTheWay(c, m, x, G, r, NoMessage, extra)
    BY <1>1, <1>3, <1>9, <1>10 DEF OnTheWay
  <1>12. QED
    BY <1>11 DEF G

\* The next of the list of rooms is read, or the field nobody has heard of.
LEMMA RoomsFromTail ==
    ASSUME NEW ri, Len(ri) \in Nat, NEW n \in Nat, NEW S, NEW r \in Seq(S), r # <<>>,
           NEW extra \in BOOLEAN, RoomsFrom(ri, n, r, extra)
    PROVE  \/ extra /\ Head(r) = Unheard /\ RoomsFrom(ri, n, Tail(r), extra)
           \/ /\ Head(r) = RoomItem(ri[n + 1]) /\ n + 1 <= Len(ri)
              /\ RoomsFrom(ri, n + 1, Tail(r), extra)
  <1>1. /\ Head(r) = r[1] /\ Len(r) \in Nat \ {0} /\ Len(Tail(r)) = Len(r) - 1
        /\ \A k \in 1 .. Len(r) - 1 : Tail(r)[k] = r[k + 1]
    BY ItemsOfSeq
  <1>2. PICK u \in 0 .. Len(r) :
            /\ u = 0 => /\ Len(r) = Len(ri) - n
                        /\ \A k \in 1 .. Len(r) : r[k] = RoomItem(ri[n + k])
            /\ u # 0 => /\ extra
                        /\ Len(r) = Len(ri) - n + 1
                        /\ r[u] = Unheard
                        /\ \A k \in 1 .. u - 1 : r[k] = RoomItem(ri[n + k])
                        /\ \A k \in u + 1 .. Len(r) : r[k] = RoomItem(ri[n + k - 1])
    BY DEF RoomsFrom
  <1>3. CASE u = 0
    <2>1. \A k \in 1 .. Len(r) - 1 : Tail(r)[k] = RoomItem(ri[(n + 1) + k])
      <3>1. SUFFICES ASSUME NEW k \in 1 .. Len(r) - 1
                     PROVE  Tail(r)[k] = RoomItem(ri[(n + 1) + k])
        OBVIOUS
      <3>2. k + 1 \in 1 .. Len(r) /\ n + (k + 1) = (n + 1) + k
        BY <1>1
      <3>3. QED
        BY <1>1, <1>2, <1>3, <3>2
    <2>2. RoomsFrom(ri, n + 1, Tail(r), extra)
      <3>1. 0 \in 0 .. Len(Tail(r)) /\ Len(Tail(r)) = Len(ri) - (n + 1)
        BY <1>1, <1>2, <1>3
      <3>2. QED
        BY <1>1, <2>1, <3>1 DEF RoomsFrom
    <2>3. QED
      BY <1>1, <1>2, <1>3, <2>2
  <1>4. CASE u = 1
    <2>1. \A k \in 1 .. Len(r) - 1 : Tail(r)[k] = RoomItem(ri[n + k])
      <3>1. SUFFICES ASSUME NEW k \in 1 .. Len(r) - 1 PROVE Tail(r)[k] = RoomItem(ri[n + k])
        OBVIOUS
      <3>2. k + 1 \in u + 1 .. Len(r) /\ n + (k + 1) - 1 = n + k
        BY <1>1, <1>4
      <3>3. QED
        BY <1>1, <1>2, <1>4, <3>2
    <2>2. RoomsFrom(ri, n, Tail(r), extra)
      <3>1. 0 \in 0 .. Len(Tail(r)) /\ Len(Tail(r)) = Len(ri) - n
        BY <1>1, <1>2, <1>4
      <3>2. QED
        BY <1>1, <2>1, <3>1 DEF RoomsFrom
    <2>3. extra /\ r[1] = Unheard
      BY <1>2, <1>4
    <2>4. QED
      BY <1>1, <2>2, <2>3
  <1>5. CASE u > 1
    <2> DEFINE v == u - 1
    <2>1. v \in 1 .. Len(Tail(r)) /\ v # 0 /\ Len(Tail(r)) = Len(ri) - (n + 1) + 1
      BY <1>1, <1>2, <1>5
    <2>2. Tail(r)[v] = Unheard
      BY <1>1, <1>2, <1>5
    <2>3. \A k \in 1 .. v - 1 : Tail(r)[k] = RoomItem(ri[(n + 1) + k])
      <3>1. SUFFICES ASSUME NEW k \in 1 .. v - 1 PROVE Tail(r)[k] = RoomItem(ri[(n + 1) + k])
        OBVIOUS
      <3>2. k + 1 \in 1 .. u - 1 /\ n + (k + 1) = (n + 1) + k /\ k \in 1 .. Len(r) - 1
        BY <1>1, <1>5
      <3>3. QED
        BY <1>1, <1>2, <1>5, <3>2
    <2>4. \A k \in v + 1 .. Len(Tail(r)) : Tail(r)[k] = RoomItem(ri[(n + 1) + k - 1])
      <3>1. SUFFICES ASSUME NEW k \in v + 1 .. Len(Tail(r))
                     PROVE  Tail(r)[k] = RoomItem(ri[(n + 1) + k - 1])
        OBVIOUS
      <3>2. k + 1 \in u + 1 .. Len(r) /\ n + (k + 1) - 1 = (n + 1) + k - 1 /\ k \in 1 .. Len(r) - 1
        BY <1>1, <1>5
      <3>3. QED
        BY <1>1, <1>2, <1>5, <3>2
    <2> HIDE DEF v
    <2>5. RoomsFrom(ri, n + 1, Tail(r), extra)
      BY <1>1, <2>1, <2>2, <2>3, <2>4 DEF RoomsFrom
    <2>6. 1 \in 1 .. u - 1
      BY <1>5
    <2>7. r[1] = RoomItem(ri[n + 1])
      BY <1>2, <1>5, <2>6
    <2>8. n + 1 <= Len(ri)
      BY <1>1, <1>2, <1>5
    <2>9. QED
      BY <1>1, <2>5, <2>7, <2>8
  <1>6. QED
    BY <1>1, <1>3, <1>4, <1>5

\* A list of rooms, in the object and in what it is to become.
LEMMA ListFacts ==
    ASSUME NEW m, NEW x, NEW g, NEW r, NEW waits, NEW extra \in BOOLEAN, Rooms(g),
           OnTheWay("ShowInfo", m, x, g, r, waits, extra)
    PROVE  /\ Plain("ShowInfo", m)
           /\ Repeated(m, "ri") \in Seq(Range(Repeated(m, "ri"))) /\ Len(Repeated(m, "ri")) \in Nat
           /\ Repeated(g, "ri") \in Seq(Range(Repeated(g, "ri"))) /\ Len(Repeated(g, "ri")) \in Nat
  BY LenProperties DEF OnTheWay, Plain, Rooms

\* Between the rooms, only the field nobody has heard of is not a message.
LEMMA ByIndexReads ==
    ASSUME NEW m, NEW x, NEW g, NEW r, NEW extra \in BOOLEAN, NEW S, r \in Seq(S), r # <<>>, Rooms(g),
           OnTheWay("ShowInfo", m, x, g, r, NoMessage, extra),
           Into("ShowInfo", Head(r)) = NoMessage
    PROVE  OnTheWay("ShowInfo", m, x, MergePartial("ShowInfo", g, Head(r)), Tail(r), NoMessage, extra)
  <1> DEFINE goal == Repeated(m, "ri")
             made == Repeated(g, "ri")
             n == Len(made) + 0
             v == Append(g.unknown, Unheard)
             h == Put(g, "unknown", v)
  <1>1. Len(goal) \in Nat /\ Len(made) \in Nat
    BY ListFacts
  <1>2. /\ Has(g, "ri") => made # <<>>
        /\ \A k \in 1 .. Len(made) : made[k] = goal[k]
        /\ n <= Len(goal) /\ RoomsFrom(goal, n, r, extra)
    BY DEF OnTheWay, ByIndex
  <1>3. extra /\ Head(r) = Unheard /\ RoomsFrom(goal, n, Tail(r), extra)
    <2>1. \A room : Head(r) # RoomItem(room)
      BY RoomReads
    <2>2. n \in Nat
      BY <1>1
    <2> HIDE DEF goal, n
    <2>3. QED
      BY <1>1, <1>2, <2>1, <2>2, RoomsFromTail
  <1>4. MergePartial("ShowInfo", g, Head(r)) = h
    BY <1>3, UnheardReads DEF SkipField, Classes
  <1> HIDE DEF v
  <1>5. Repeated(h, "ri") = made /\ (Has(h, "ri") <=> Has(g, "ri")) /\ "unknown" \in DOMAIN h
    BY DEF Repeated, Has, Put
  <1>6. h = [f \in DOMAIN h |-> h[f]]
    BY ObjectFacts
  <1> HIDE DEF h
  <1>7. ByIndex(m, h, Tail(r), NoMessage, extra)
    BY <1>2, <1>3, <1>5 DEF ByIndex
  <1>8. OnTheWay("ShowInfo", m, x, h, Tail(r), NoMessage, extra)
    <2>1. Plain("ShowInfo", m)
      BY ListFacts
    <2>2. QED
      BY <1>3, <1>5, <1>6, <1>7, <2>1 DEF OnTheWay
  <1>9. QED
    BY <1>4, <1>8

\* A reader is called for the next room,
LEMMA ByIndexEnters ==
    ASSUME NEW m, NEW x, NEW g, NEW r, NEW extra \in BOOLEAN, NEW S, r \in Seq(S), r # <<>>, Rooms(g),
           OnTheWay("ShowInfo", m, x, g, r, NoMessage, extra),
           Into("ShowInfo", Head(r)) # NoMessage,
           NEW room, room = m.ri[Len(Repeated(g, "ri")) + 1]
    PROVE  /\ Into("ShowInfo", Head(r)) = "ri"
           /\ OnTheWay("ShowInfo", m, x, g, Tail(r), "ri", extra)
           /\ OnTheWay("RoomInfo", room, room, New, Head(r).val, NoMessage, FALSE)
  <1> DEFINE goal == Repeated(m, "ri")
             made == Repeated(g, "ri")
             n == Len(made)
  <1>1. Len(goal) \in Nat /\ Len(made) \in Nat /\ Plain("ShowInfo", m)
    BY ListFacts
  <1>2. /\ Has(g, "ri") => made # <<>>
        /\ \A k \in 1 .. Len(made) : made[k] = goal[k]
        /\ n + 0 <= Len(goal) /\ RoomsFrom(goal, n + 0, r, extra)
    BY DEF OnTheWay, ByIndex
  <1>3. Head(r) = RoomItem(goal[n + 1]) /\ n + 1 <= Len(goal) /\ RoomsFrom(goal, n + 1, Tail(r), extra)
    <2>1. Head(r) # Unheard
      BY UnheardReads DEF Classes
    <2>2. n + 0 = n /\ n \in Nat
      BY <1>1
    <2> HIDE DEF goal, n
    <2>3. QED
      BY <1>1, <1>2, <2>1, <2>2, RoomsFromTail
  <1>4. Into("ShowInfo", Head(r)) = "ri" /\ "ri" # NoMessage
        /\ Head(r).val = RoomInfo_Serialize(goal[n + 1])
    BY <1>3, RoomReads
  <1>5. goal[n + 1] = room /\ Plain("RoomInfo", room)
    <2>1. n + 1 \in 1 .. Len(goal)
      BY <1>1, <1>3
    <2>2. QED
      BY <1>1, <2>1, RoomIsPlain
  <1>6. ByIndex(m, g, Tail(r), "ri", extra)
    BY <1>2, <1>3, <1>4 DEF ByIndex
  <1>7. OnTheWay("ShowInfo", m, x, g, Tail(r), "ri", extra)
    BY <1>1, <1>6 DEF OnTheWay
  <1>8. OnTheWay("RoomInfo", room, room, New, Head(r).val, NoMessage, FALSE)
    <2>1. Wire("RoomInfo", room) = Head(r).val
      BY <1>4, <1>5 DEF Wire
    <2>2. "RoomInfo" \in Classes \ {"ShowInfo"}
      BY DEF Classes
    <2>3. Range(Head(r).val) = FieldItems("RoomInfo", room)
      BY <1>5, <2>1, <2>2, WholeHolds DEF Holds, Plain
    <2>4. Plain("RoomInfo", New) /\ MergeOf("RoomInfo", New, room) = room
      BY <1>5, <2>2, NewPlain, AllMerge DEF Merges
    <2>5. PICK c \in Classes \ {"ShowInfo"} : c = "RoomInfo"
      BY <2>2
    <2>6. PICK w : w = Head(r).val
      OBVIOUS
    <2>7. OnTheWay(c, MergeOf(c, New, room), room, New, w, NoMessage, FALSE)
      BY <1>5, <2>3, <2>4, <2>5, <2>6, StartsByField
    <2>8. QED
      BY <2>4, <2>5, <2>6, <2>7
  <1>9. QED
    BY <1>4, <1>7, <1>8

\* which is put at the end of the list,
LEMMA ByIndexLeaves ==
    ASSUME NEW m, NEW x, NEW g, NEW r, NEW extra \in BOOLEAN, Rooms(g),
           OnTheWay("ShowInfo", m, x, g, r, "ri", extra),
           NEW s, s = m.ri[Len(Repeated(g, "ri")) + 1]
    PROVE  OnTheWay("ShowInfo", m, x, add_ri(g, s), r, NoMessage, extra)
  <1> DEFINE goal == Repeated(m, "ri")
             made == Repeated(g, "ri")
             new == Append(made, s)
             n == Len(made)
             h == add_ri(g, s)
  <1>1. /\ Len(goal) \in Nat /\ n \in Nat /\ Plain("ShowInfo", m)
        /\ made \in Seq(Range(made))
    BY ListFacts
  <1>2. "ri" # NoMessage
    BY DEF NoMessage
  <1>3. /\ \A k \in 1 .. Len(made) : made[k] = goal[k]
        /\ n + 1 <= Len(goal) /\ RoomsFrom(goal, n + 1, r, extra)
    BY <1>2 DEF OnTheWay, ByIndex
  <1>4. goal = m.ri
    <2>1. n + 1 \in 1 .. Len(goal)
      BY <1>1, <1>3
    <2>2. QED
      BY <1>1, <2>1, RoomIsPlain
  <1>5. /\ Len(new) = n + 1 /\ new[n + 1] = s /\ \A k \in 1 .. n : new[k] = made[k]
        /\ new # <<>>
    <2>1. made \in Seq(Range(made) \cup {s})
      BY <1>1, SeqMonotonic
    <2>2. QED
      BY <1>1, <2>1, AppendProperties, EmptySeq
  <1>6. Repeated(h, "ri") = new /\ "unknown" \in DOMAIN h /\ h.unknown = g.unknown
    BY DEF add_ri, Repeated, Has, Put, OnTheWay
  <1>7. h = [f \in DOMAIN h |-> h[f]]
    BY ObjectFacts DEF add_ri
  <1> HIDE DEF h, new
  <1>8. \A k \in 1 .. Len(new) : new[k] = goal[k]
    <2>1. SUFFICES ASSUME NEW k \in 1 .. n + 1 PROVE new[k] = goal[k]
      BY <1>5
    <2>2. CASE k = n + 1
      BY <2>2, <1>4, <1>5
    <2>3. CASE k # n + 1
      <3>1. k \in 1 .. n
        BY <1>1, <2>3
      <3>2. QED
        BY <1>3, <1>5, <3>1
    <2>4. QED
      BY <2>2, <2>3
  <1>9. ByIndex(m, h, r, NoMessage, extra)
    <2>1. Len(new) + 0 = n + 1
      BY <1>1, <1>5
    <2>2. QED
      BY <1>3, <1>5, <1>6, <1>8, <2>1 DEF ByIndex
  <1>10. OnTheWay("ShowInfo", m, x, h, r, NoMessage, extra)
    BY <1>1, <1>6, <1>7, <1>9 DEF OnTheWay
  <1>11. QED
    BY <1>10 DEF h

\* until the list is as long as the one that was sent.
LEMMA ByIndexMade ==
    ASSUME NEW m, NEW x, NEW g, NEW extra \in BOOLEAN, Sound("ShowInfo", g),
           OnTheWay("ShowInfo", m, x, g, <<>>, NoMessage, extra)
    PROVE  /\ DOMAIN g = DOMAIN m
           /\ \A f \in DOMAIN m \ {"unknown"} : g[f] = m[f]
           /\ ~ extra => g = m
  <1> DEFINE goal == Repeated(m, "ri")
             made == Repeated(g, "ri")
  <1>1. /\ Len(goal) \in Nat /\ Len(made) \in Nat /\ Plain("ShowInfo", m)
        /\ goal \in Seq(Range(goal)) /\ made \in Seq(Range(made))
    BY ListFacts DEF Sound
  <1>2. /\ Has(g, "ri") => made # <<>>
        /\ \A k \in 1 .. Len(made) : made[k] = goal[k]
        /\ RoomsFrom(goal, Len(made) + 0, <<>>, extra)
    BY DEF OnTheWay, ByIndex
  <1>3. Len(goal) = Len(made)
    <2>1. Len(<<>>) = 0
      OBVIOUS
    <2>2. 0 = Len(goal) - (Len(made) + 0)
      BY <1>2, <2>1 DEF RoomsFrom
    <2>3. QED
      BY <1>1, <2>2
  <1>4. goal = made
    <2>1. goal \in Seq(Range(goal) \cup Range(made)) /\ made \in Seq(Range(goal) \cup Range(made))
      BY <1>1, SeqMonotonic
    <2>2. QED
      BY <1>2, <1>3, <2>1, SeqEqual
  <1>5. Has(g, "ri") <=> Has(m, "ri")
    BY <1>1, <1>2, <1>4 DEF Plain, Repeated
  <1>6. \A y : Partial("ShowInfo", y) => DOMAIN y \subseteq {"ri", "unknown"}
    BY DEF Partial, Class, Values, NoField
  <1>7. DOMAIN g \subseteq {"ri", "unknown"} /\ DOMAIN m \subseteq {"ri", "unknown"}
        /\ "unknown" \in DOMAIN g /\ "unknown" \in DOMAIN m
    BY <1>1, <1>6 DEF Sound, Plain, Whole, OnTheWay
  <1>8. DOMAIN g = DOMAIN m /\ \A f \in DOMAIN m \ {"unknown"} : g[f] = m[f]
    BY <1>4, <1>5, <1>7 DEF Has, Repeated
  <1>9. ASSUME ~ extra PROVE g = m
    <2>1. g.unknown = m.unknown
      BY <1>9 DEF OnTheWay, Plain, Whole
    <2>2. \A f \in DOMAIN m : g[f] = m[f]
      BY <1>8, <2>1
    <2>3. g = [f \in DOMAIN g |-> g[f]] /\ m = [f \in DOMAIN m |-> m[f]]
      BY DEF OnTheWay, Plain, Whole
    <2>4. QED
      BY <1>8, <2>2, <2>3
  <1>10. QED
    BY <1>8, <1>9

--------------------------------------------------------------------------------
(* The beginning and the end.                                                  *)

\* v is w with one more element, e, at place k.
HasAt(v, w, k, e) ==
    /\ Len(v) = Len(w) + 1
    /\ v[k] = e
    /\ \A j \in 1 .. k - 1 : v[j] = w[j]
    /\ \A j \in k + 1 .. Len(v) : v[j] = w[j - 1]

\* That is what InsertAt returns.
LEMMA InsertAtFacts ==
    ASSUME NEW S, NEW w \in Seq(S), NEW e, NEW k \in 1 .. Len(w) + 1
    PROVE  InsertAt(w, k, e) \in Seq(S \cup {e}) /\ HasAt(InsertAt(w, k, e), w, k, e)
  <1> DEFINE T == S \cup {e}
             a == SubSeq(w, 1, k - 1)
             b == SubSeq(w, k, Len(w))
  <1>1. w \in Seq(T) /\ Len(w) \in Nat /\ \A j \in 1 .. Len(w) : w[j] \in T
    BY SeqMonotonic, LenProperties, ElementOfSeq
  <1>2. a \in Seq(T) /\ Len(a) = k - 1 /\ \A j \in 1 .. k - 1 : a[j] = w[j]
    BY <1>1, SubSeqProperties
  <1>3. b \in Seq(T) /\ Len(b) = Len(w) - k + 1 /\ \A j \in 1 .. Len(w) - k + 1 : b[j] = w[k + j - 1]
    BY <1>1, SubSeqProperties
  <1>4. <<e>> \in Seq(T) /\ Len(<<e>>) = 1 /\ <<e>>[1] = e
    OBVIOUS
  <1> HIDE DEF a, b, T
  <1> DEFINE c == a \o <<e>>
  <1>5. c \in Seq(T) /\ Len(c) = k
        /\ \A j \in 1 .. k : c[j] = IF j <= k - 1 THEN a[j] ELSE <<e>>[j - (k - 1)]
    BY <1>1, <1>2, <1>4, ConcatProperties
  <1>6. c[k] = e /\ \A j \in 1 .. k - 1 : c[j] = w[j]
    BY <1>1, <1>2, <1>4, <1>5
  <1> HIDE DEF c
  <1>7. c \o b \in Seq(T) /\ Len(c \o b) = Len(w) + 1
        /\ \A j \in 1 .. Len(w) + 1 : (c \o b)[j] = IF j <= k THEN c[j] ELSE b[j - k]
    BY <1>1, <1>3, <1>5, ConcatProperties
  <1>8. \A j \in k + 1 .. Len(w) + 1 : (c \o b)[j] = w[j - 1]
    <2>1. SUFFICES ASSUME NEW j \in k + 1 .. Len(w) + 1 PROVE (c \o b)[j] = w[j - 1]
      OBVIOUS
    <2>2. j - k \in 1 .. Len(w) - k + 1 /\ k + (j - k) - 1 = j - 1 /\ j \in 1 .. Len(w) + 1
          /\ ~ (j <= k)
      BY <1>1
    <2>3. QED
      BY <1>3, <1>7, <2>2
  <1>9. \A j \in 1 .. k : (c \o b)[j] = c[j]
    BY <1>1, <1>7
  <1>10. InsertAt(w, k, e) = c \o b
    BY DEF InsertAt, a, b, c
  <1>11. HasAt(c \o b, w, k, e)
    BY <1>1, <1>6, <1>7, <1>8, <1>9 DEF HasAt
  <1>12. QED
    BY <1>7, <1>10, <1>11 DEF T

\* The items of a wire that has been turned round or has one more in it.
LEMMA ChangedItems ==
    ASSUME NEW S, NEW w \in Seq(S)
    PROVE  /\ Range(Reverse(w)) = Range(w)
           /\ \A e : \A k \in 1 .. Len(w) + 1 :
                  /\ Range(w) \subseteq Range(InsertAt(w, k, e))
                  /\ Range(InsertAt(w, k, e)) \subseteq Range(w) \cup {e}
  <1>1. Range(w) = {w[j] : j \in 1 .. Len(w)} /\ Len(w) \in Nat
    BY RangeEquality, LenProperties
  <1>2. Range(Reverse(w)) = Range(w)
    <2>1. DOMAIN Reverse(w) = 1 .. Len(w)
          /\ \A j \in 1 .. Len(w) : Reverse(w)[j] = w[(Len(w) - j) + 1]
      BY <1>1 DEF Reverse
    <2>2. Range(Reverse(w)) = {Reverse(w)[j] : j \in 1 .. Len(w)}
      BY <2>1 DEF Range
    <2>3. \A j \in 1 .. Len(w) : (Len(w) - j) + 1 \in 1 .. Len(w)
                                 /\ (Len(w) - ((Len(w) - j) + 1)) + 1 = j
      BY <1>1
    <2>4. ASSUME NEW i \in Range(w) PROVE i \in Range(Reverse(w))
      <3>1. PICK j \in 1 .. Len(w) : i = w[j]
        BY <1>1
      <3>2. Reverse(w)[(Len(w) - j) + 1] = i
        BY <2>1, <2>3, <3>1
      <3>3. QED
        BY <2>2, <2>3, <3>2
    <2>5. ASSUME NEW i \in Range(Reverse(w)) PROVE i \in Range(w)
      <3>1. PICK j \in 1 .. Len(w) : i = w[(Len(w) - j) + 1]
        BY <2>1, <2>2
      <3>2. QED
        BY <1>1, <2>3, <3>1
    <2>6. QED
      BY <2>4, <2>5
  <1>3. ASSUME NEW e, NEW k \in 1 .. Len(w) + 1
        PROVE  /\ Range(w) \subseteq Range(InsertAt(w, k, e))
               /\ Range(InsertAt(w, k, e)) \subseteq Range(w) \cup {e}
    <2>0. PICK v : v = InsertAt(w, k, e)
      OBVIOUS
    <2>00. v \in Seq(S \cup {e}) /\ HasAt(v, w, k, e)
      BY <2>0, InsertAtFacts
    <2>1. /\ v \in Seq(S \cup {e}) /\ Len(v) = Len(w) + 1
          /\ v[k] = e
          /\ \A j \in 1 .. k - 1 : v[j] = w[j]
          /\ \A j \in k + 1 .. Len(v) : v[j] = w[j - 1]
      BY <2>00 DEF HasAt
    <2>2. Range(v) = {v[j] : j \in 1 .. Len(w) + 1}
      BY <2>1, RangeEquality
    <2>3. ASSUME NEW i \in Range(w) PROVE i \in Range(v)
      <3>1. PICK j \in 1 .. Len(w) : i = w[j]
        BY <1>1
      <3>2. CASE j < k
        <4>1. j \in 1 .. k - 1 /\ j \in 1 .. Len(w) + 1
          BY <1>1, <3>2
        <4>2. QED
          BY <2>1, <2>2, <3>1, <4>1
      <3>3. CASE j >= k
        <4>1. j + 1 \in k + 1 .. Len(v) /\ (j + 1) - 1 = j /\ j + 1 \in 1 .. Len(w) + 1
          BY <1>1, <2>1, <3>3
        <4>2. v[j + 1] = i
          BY <2>1, <3>1, <4>1
        <4>3. QED
          BY <2>2, <4>1, <4>2
      <3>4. QED
        BY <1>1, <3>2, <3>3
    <2>4. ASSUME NEW i \in Range(v) PROVE i \in Range(w) \cup {e}
      <3>1. PICK j \in 1 .. Len(w) + 1 : i = v[j]
        BY <2>2
      <3>2. CASE j < k
        <4>1. j \in 1 .. k - 1 /\ j \in 1 .. Len(w)
          BY <1>1, <3>2
        <4>2. QED
          BY <1>1, <2>1, <3>1, <4>1
      <3>3. CASE j = k
        BY <2>1, <3>1, <3>3
      <3>4. CASE j > k
        <4>1. j \in k + 1 .. Len(v) /\ j - 1 \in 1 .. Len(w)
          BY <1>1, <2>1, <3>4
        <4>2. QED
          BY <1>1, <2>1, <3>1, <4>1
      <3>5. QED
        BY <1>1, <3>2, <3>3, <3>4
    <2>5. QED
      BY <2>0, <2>3, <2>4
  <1>4. QED
    BY <1>2, <1>3

\* An empty list of rooms is plain.
LEMMA ShowInfoNew == Plain("ShowInfo", New) /\ Repeated(New, "ri") = <<>>
  <1>1. DOMAIN New = {"unknown"} /\ New.unknown = <<>> /\ New = [e \in DOMAIN New |-> New[e]]
    BY DEF New
  <1>2. Whole("ShowInfo", New)
    BY <1>1, ValuesFacts DEF Whole, Partial, Class, NoField, Classes
  <1>3. Repeated(New, "ri") = <<>> /\ ~ Has(New, "ri")
    BY <1>1 DEF Repeated, Has
  <1>4. <<>> \in Seq(Range(<<>>)) /\ DOMAIN <<>> = {}
    BY EmptySeq, LenProperties
  <1>5. QED
    BY <1>2, <1>3, <1>4 DEF Plain

\* What the message of a list of rooms is written as.
LEMMA ShowItems ==
    ASSUME NEW m, Plain("ShowInfo", m), NEW w, w = Serialize("ShowInfo", m)
    PROVE  /\ Len(w) = Len(Repeated(m, "ri")) /\ Len(w) \in Nat
           /\ \A k \in 1 .. Len(w) : w[k] = RoomItem(Repeated(m, "ri")[k])
  <1> DEFINE ri == Repeated(m, "ri")
             items == [k \in DOMAIN ri |-> Item(1, "message", RoomInfo_Serialize(m.ri[k]))]
  <1>1. ri \in Seq(Range(ri)) /\ m.unknown = <<>> /\ Whole("ShowInfo", m)
    BY DEF Plain, Whole
  <1>2. DOMAIN ri = 1 .. Len(ri) /\ Len(ri) \in Nat
    BY <1>1, LenProperties
  <1>3. w = items \o m.unknown
    <2>1. w = ShowInfo_Serialize(m)
      BY Zenon DEF Serialize
    <2>2. QED
      BY <2>1 DEF ShowInfo_Serialize
  <1>4. w = items
    <2>1. items \in Seq({items[k] : k \in 1 .. Len(ri)})
      BY <1>2
    <2>2. QED
      BY <1>1, <1>3, <2>1, ConcatEmptySeq
  <1>5. \A k \in 1 .. Len(ri) : items[k] = RoomItem(ri[k])
    BY <1>2 DEF RoomItem, Repeated
  <1>6. Len(w) = Len(ri)
    BY <1>2, <1>4
  <1>7. \A k \in 1 .. Len(ri) : w[k] = RoomItem(ri[k])
    BY <1>4, <1>5
  <1>8. QED
    BY <1>2, <1>6, <1>7

\* A reader starts with a list of rooms to which others are to be added.
LEMMA StartsByIndex ==
    ASSUME NEW m, Plain("ShowInfo", m), NEW a, Plain("ShowInfo", a), NEW x, NEW r,
           NEW extra \in BOOLEAN,
           NEW n, n = Len(Repeated(a, "ri")), n \in Nat, n <= Len(Repeated(m, "ri")),
           \A k \in 1 .. n : Repeated(a, "ri")[k] = Repeated(m, "ri")[k],
           RoomsFrom(Repeated(m, "ri"), n, r, extra)
    PROVE  OnTheWay("ShowInfo", m, x, a, r, NoMessage, extra)
  <1>1. a = [f \in DOMAIN a |-> a[f]] /\ "unknown" \in DOMAIN a /\ a.unknown = <<>>
    BY DEF Plain, Whole
  <1>2. Has(a, "ri") => Repeated(a, "ri") # <<>>
    BY DEF Plain, Repeated
  <1>3. Len(Repeated(a, "ri")) + 0 = n
    OBVIOUS
  <1>4. ByIndex(m, a, r, NoMessage, extra)
    BY <1>2, <1>3 DEF ByIndex
  <1>5. QED
    BY <1>1, <1>4 DEF OnTheWay

\* However faithfully it has come, the peer starts on the way to what was sent.
LEMMA Starts ==
    ASSUME NEW t \in MessageType, NEW m, Plain(t, m), NEW w, w = Serialize(t, m),
           NEW extra \in BOOLEAN
    PROVE  /\ OnTheWay(t, m, m, New, w, NoMessage, extra)
           /\ t # "ShowInfo" => OnTheWay(t, m, m, New, Reverse(w), NoMessage, extra)
           /\ extra => \A k \in 1 .. Len(w) + 1 :
                           OnTheWay(t, m, m, New, InsertAt(w, k, Unheard), NoMessage, extra)
  <1>1. w \in Seq(Items(Written, t))
    BY PlainWritten
  <1>2. CASE t # "ShowInfo"
    <2>1. t \in Classes \ {"ShowInfo"} /\ t \notin {"Pos", "RoomInfo"}
      BY <1>2, MessageTypes DEF Classes
    <2>2. Range(w) = FieldItems(t, m)
      BY <2>1, WholeHolds DEF Wire, Holds, Plain
    <2>3. Plain(t, New) /\ MergeOf(t, New, m) = m
      BY <2>1, NewPlain, AllMerge DEF Merges
    <2>4. ASSUME NEW r, FieldItems(t, m) \subseteq Range(r),
                 \A i \in Range(r) : (extra /\ i = Unheard) \/ i \in FieldItems(t, m)
          PROVE  OnTheWay(t, m, m, New, r, NoMessage, extra)
      <3>1. OnTheWay(t, MergeOf(t, New, m), m, New, r, NoMessage, extra)
        BY <2>1, <2>3, <2>4, StartsByField
      <3>2. QED
        BY <2>3, <3>1
    <2>5. OnTheWay(t, m, m, New, w, NoMessage, extra)
      BY <2>2, <2>4
    <2>6. OnTheWay(t, m, m, New, Reverse(w), NoMessage, extra)
      <3>1. Range(Reverse(w)) = FieldItems(t, m)
        BY <1>1, <2>2, ChangedItems
      <3>2. QED
        BY <2>4, <3>1
    <2>7. ASSUME extra, NEW k \in 1 .. Len(w) + 1
          PROVE  OnTheWay(t, m, m, New, InsertAt(w, k, Unheard), NoMessage, extra)
      <3>1. FieldItems(t, m) \subseteq Range(InsertAt(w, k, Unheard))
            /\ Range(InsertAt(w, k, Unheard)) \subseteq FieldItems(t, m) \cup {Unheard}
        BY <1>1, <2>2, <2>7, ChangedItems
      <3>2. QED
        BY <2>4, <2>7, <3>1
    <2>8. QED
      BY <2>5, <2>6, <2>7
  <1>3. CASE t = "ShowInfo"
    <2>1. PICK ri : ri = Repeated(m, "ri")
      OBVIOUS
    <2>2. Len(w) = Len(ri) /\ Len(w) \in Nat /\ \A k \in 1 .. Len(w) : w[k] = RoomItem(ri[k])
      BY <1>3, <2>1, ShowItems
    <2>3. ASSUME NEW r, RoomsFrom(ri, 0, r, extra)
          PROVE  OnTheWay(t, m, m, New, r, NoMessage, extra)
      <3>1. Len(Repeated(New, "ri")) = 0 /\ 0 <= Len(ri) /\ Plain("ShowInfo", New)
        BY <2>2, ShowInfoNew
      <3>2. \A k \in 1 .. 0 : Repeated(New, "ri")[k] = ri[k]
        OBVIOUS
      <3>3. OnTheWay("ShowInfo", m, m, New, r, NoMessage, extra)
        BY <1>3, <2>1, <2>3, <3>1, <3>2, StartsByIndex
      <3>4. QED
        BY <1>3, <3>3
    <2>4. RoomsFrom(ri, 0, w, extra)
      <3>1. 0 \in 0 .. Len(w) /\ Len(w) = Len(ri) - 0
        BY <2>2
      <3>2. \A k \in 1 .. Len(w) : w[k] = RoomItem(ri[0 + k])
        BY <2>2
      <3>3. QED
        BY <3>1, <3>2 DEF RoomsFrom
    <2>5. ASSUME extra, NEW k \in 1 .. Len(w) + 1
          PROVE  RoomsFrom(ri, 0, InsertAt(w, k, Unheard), extra)
      <3>1. PICK v : v = InsertAt(w, k, Unheard)
        OBVIOUS
      <3>2. HasAt(v, w, k, Unheard)
        BY <1>1, <2>5, <3>1, InsertAtFacts
      <3>3. /\ Len(v) = Len(w) + 1
            /\ v[k] = Unheard
            /\ \A j \in 1 .. k - 1 : v[j] = w[j]
            /\ \A j \in k + 1 .. Len(v) : v[j] = w[j - 1]
        BY <3>2 DEF HasAt
      <3>4. k \in 0 .. Len(v) /\ k # 0 /\ Len(v) = Len(ri) - 0 + 1
        BY <2>2, <2>5, <3>3
      <3>5. \A j \in 1 .. k - 1 : v[j] = RoomItem(ri[0 + j])
        BY <2>2, <2>5, <3>3
      <3>6. \A j \in k + 1 .. Len(v) : v[j] = RoomItem(ri[0 + j - 1])
        <4>1. SUFFICES ASSUME NEW j \in k + 1 .. Len(v) PROVE v[j] = RoomItem(ri[0 + j - 1])
          OBVIOUS
        <4>2. j - 1 \in 1 .. Len(ri) /\ 0 + j - 1 = j - 1
          BY <2>2, <2>5, <3>3
        <4>3. QED
          BY <2>2, <3>3, <4>2
      <3>7. RoomsFrom(ri, 0, v, extra)
        BY <2>5, <3>3, <3>4, <3>5, <3>6 DEF RoomsFrom
      <3>8. QED
        BY <3>1, <3>7
    <2>6. QED
      BY <1>3, <2>3, <2>4, <2>5
  <1>4. QED
    BY <1>2, <1>3

\* The rooms of one list follow those of the other.
LEMMA ShowMerge ==
    ASSUME NEW a, NEW b, Plain("ShowInfo", a), Plain("ShowInfo", b),
           NEW m, m = MergeFrom("ShowInfo", a, b)
    PROVE  /\ Plain("ShowInfo", m)
           /\ Repeated(m, "ri") = Repeated(a, "ri") \o Repeated(b, "ri")
  <1> DEFINE A == Repeated(a, "ri")
             B == Repeated(b, "ri")
             S == Range(A) \cup Range(B)
             u == Put(a, "unknown", a.unknown \o b.unknown)
  <1>1. m = IF Has(b, "ri") THEN Put(u, "ri", A \o b.ri) ELSE u
    <2>1. m = ShowInfo_MergeFrom(a, b)
      BY Zenon DEF MergeFrom
    <2>2. QED
      BY <2>1 DEF ShowInfo_MergeFrom
  <1>2. /\ A \in Seq(Range(A)) /\ B \in Seq(Range(B))
        /\ \A k \in DOMAIN A : Whole("RoomInfo", A[k])
        /\ \A k \in DOMAIN B : Whole("RoomInfo", B[k])
        /\ (Has(a, "ri") => a.ri # <<>>) /\ (Has(b, "ri") => b.ri # <<>>)
    BY DEF Plain, Repeated
  <1>3. A \in Seq(S) /\ B \in Seq(S)
    BY <1>2, SeqMonotonic
  <1>4. Whole("ShowInfo", a) /\ Whole("ShowInfo", b)
    BY DEF Plain
  <1>5. /\ "unknown" \in DOMAIN a /\ a.unknown = <<>> /\ b.unknown = <<>>
        /\ a = [f \in DOMAIN a |-> a[f]] /\ Partial("ShowInfo", a)
    BY <1>4 DEF Whole
  <1>6. u = a
    <2>1. <<>> \o <<>> = <<>>
      OBVIOUS
    <2>2. u = Put(a, "unknown", <<>>)
      BY <1>5, <2>1
    <2>3. DOMAIN u = DOMAIN a /\ \A f \in DOMAIN a : u[f] = a[f]
      BY <1>5, <2>2 DEF Put
    <2>4. u = [f \in DOMAIN u |-> u[f]]
      BY ObjectFacts
    <2> HIDE DEF u
    <2>5. QED
      BY <1>5, <2>3, <2>4
  <1>7. CASE ~ Has(b, "ri")
    <2>1. m = a /\ B = <<>>
      BY <1>1, <1>6, <1>7 DEF Repeated
    <2>2. A \o <<>> = A
      BY <1>2, ConcatEmptySeq
    <2> HIDE DEF A
    <2>3. A \o B = A
      BY <2>1, <2>2
    <2>4. QED
      BY <2>1, <2>3 DEF A
  <1>8. CASE Has(b, "ri")
    <2>1. B = b.ri /\ m = Put(a, "ri", A \o B)
      BY <1>1, <1>6, <1>8 DEF Repeated
    <2> HIDE DEF A, B, S, u
    <2>2. PICK C : C = A \o B
      OBVIOUS
    <2>3. /\ C \in Seq(S) /\ Len(C) = Len(A) + Len(B)
          /\ \A k \in 1 .. Len(A) + Len(B) : C[k] = IF k <= Len(A) THEN A[k] ELSE B[k - Len(A)]
      BY <1>3, <2>2, ConcatProperties
    <2>4. Len(A) \in Nat /\ Len(B) \in Nat /\ DOMAIN A = 1 .. Len(A) /\ DOMAIN B = 1 .. Len(B)
          /\ DOMAIN C = 1 .. Len(C)
      BY <1>3, <2>3, LenProperties
    <2>5. C # <<>>
      <3>1. Len(B) # 0
        BY <1>2, <1>3, <1>8, <2>1, EmptySeq
      <3>2. Len(C) # 0
        BY <2>3, <2>4, <3>1
      <3>3. QED
        BY <3>2
    <2>6. C \in Seq(Range(C))
      BY <2>3, SeqOfRange
    <2>7. ASSUME NEW k \in DOMAIN C PROVE Whole("RoomInfo", C[k])
      <3>1. k \in 1 .. Len(A) + Len(B)
        BY <2>3, <2>4
      <3>2. CASE k <= Len(A)
        <4>1. k \in DOMAIN A /\ C[k] = A[k]
          BY <2>3, <2>4, <3>1, <3>2
        <4>2. QED
          BY <1>2, <4>1
      <3>3. CASE ~ (k <= Len(A))
        <4>1. k - Len(A) \in DOMAIN B /\ C[k] = B[k - Len(A)]
          BY <2>3, <2>4, <3>1, <3>3
        <4>2. QED
          BY <1>2, <4>1
      <3>4. QED
        BY <3>2, <3>3
    <2>8. /\ DOMAIN m = DOMAIN a \cup {"ri"} /\ m.ri = C /\ m = [f \in DOMAIN m |-> m[f]]
          /\ m.unknown = a.unknown
      BY <1>5, <2>1, <2>2, ObjectFacts DEF Put
    <2>9. Partial("ShowInfo", m)
      <3>1. "ri" \in DOMAIN Values["ShowInfo"] /\ Values["ShowInfo"]["ri"] = {}
        BY SubFacts DEF IsSub
      <3>2. QED
        BY <1>5, <2>1, <3>1, PutPartial, ValuesFacts DEF Classes
    <2>10. Has(m, "ri") /\ Repeated(m, "ri") = C
      BY <2>8 DEF Has, Repeated
    <2>11. Whole("ShowInfo", m)
      BY <1>5, <2>8, <2>9 DEF Whole
    <2>12. Plain("ShowInfo", m)
      BY <2>5, <2>6, <2>7, <2>8, <2>10, <2>11 DEF Plain
    <2>13. QED
      BY <2>2, <2>10, <2>12 DEF A, B
  <1>9. QED
    BY <1>7, <1>8

\* A second message that follows is merged into what the first one was.
LEMMA Continues ==
    ASSUME NEW t \in MessageType, NEW a, NEW b, Plain(t, a), Plain(t, b),
           NEW w, w = Serialize(t, b)
    PROVE  /\ Plain(t, MergeFrom(t, a, b))
           /\ OnTheWay(t, MergeFrom(t, a, b), b, a, w, NoMessage, FALSE)
  <1>1. CASE t # "ShowInfo"
    <2>1. t \in Classes \ {"ShowInfo"} /\ t \notin {"Pos", "RoomInfo"}
      BY <1>1, MessageTypes DEF Classes
    <2>2. Range(w) = FieldItems(t, b)
      BY <2>1, WholeHolds DEF Wire, Holds, Plain
    <2>3. MergeOf(t, a, b) = MergeFrom(t, a, b)
      BY <2>1, Zenon DEF MergeOf
    <2>4. Plain(t, MergeOf(t, a, b))
      BY <2>1, AllMerge DEF Merges
    <2>5. OnTheWay(t, MergeOf(t, a, b), b, a, w, NoMessage, FALSE)
      BY <2>1, <2>2, StartsByField
    <2>6. QED
      BY <2>3, <2>4, <2>5
  <1>2. CASE t = "ShowInfo"
    <2>1. PICK m : m = MergeFrom("ShowInfo", a, b)
      OBVIOUS
    <2> DEFINE A == Repeated(a, "ri")
               B == Repeated(b, "ri")
               C == Repeated(m, "ri")
    <2>2. Plain("ShowInfo", m) /\ C = A \o B
      BY <1>2, <2>1, ShowMerge
    <2>3. A \in Seq(Range(A) \cup Range(B)) /\ B \in Seq(Range(A) \cup Range(B))
      BY <1>2, SeqMonotonic DEF Plain
    <2>4. Len(w) = Len(B) /\ Len(w) \in Nat /\ \A k \in 1 .. Len(w) : w[k] = RoomItem(B[k])
      BY <1>2, ShowItems
    <2> HIDE DEF A, B, C
    <2>5. /\ Len(C) = Len(A) + Len(B) /\ Len(A) \in Nat
          /\ \A k \in 1 .. Len(A) + Len(B) : C[k] = IF k <= Len(A) THEN A[k] ELSE B[k - Len(A)]
      BY <2>2, <2>3, ConcatProperties, LenProperties
    <2>6. \A k \in 1 .. Len(A) : A[k] = C[k]
      BY <2>4, <2>5
    <2>7. \A k \in 1 .. Len(w) : w[k] = RoomItem(C[Len(A) + k])
      <3>1. SUFFICES ASSUME NEW k \in 1 .. Len(w) PROVE w[k] = RoomItem(C[Len(A) + k])
        OBVIOUS
      <3>2. Len(A) + k \in 1 .. Len(A) + Len(B) /\ ~ (Len(A) + k <= Len(A))
            /\ (Len(A) + k) - Len(A) = k
        BY <2>4, <2>5
      <3>3. C[Len(A) + k] = B[k]
        BY <2>5, <3>2
      <3>4. QED
        BY <2>4, <3>3
    <2>8. RoomsFrom(C, Len(A), w, FALSE)
      <3>1. 0 \in 0 .. Len(w) /\ Len(w) = Len(C) - Len(A)
        BY <2>4, <2>5
      <3>2. QED
        BY <2>7, <3>1 DEF RoomsFrom
    <2>9. Len(A) <= Len(C)
      BY <2>4, <2>5
    <2>10. PICK n : n = Len(A)
      OBVIOUS
    <2>11. n = Len(Repeated(a, "ri")) /\ n \in Nat /\ n <= Len(Repeated(m, "ri"))
      BY <2>5, <2>9, <2>10 DEF A, C
    <2>12. \A k \in 1 .. n : Repeated(a, "ri")[k] = Repeated(m, "ri")[k]
      BY <2>6, <2>10 DEF A, C
    <2>13. RoomsFrom(Repeated(m, "ri"), n, w, FALSE)
      BY <2>8, <2>10 DEF C
    <2>14. OnTheWay("ShowInfo", m, b, a, w, NoMessage, FALSE)
      BY <1>2, <2>2, <2>11, <2>12, <2>13, StartsByIndex
    <2>15. QED
      BY <1>2, <2>1, <2>2, <2>14
  <1>3. QED
    BY <1>1, <1>2

\* What the program sends has every required field.
LEMMA SendableInitialized ==
    ASSUME NEW t \in MessageType, NEW m \in Sendable[t]
    PROVE  IsInitialized(t, m)
  <1>0. \A p : Pos_IsInitialized(PosOf(p))
    BY DEF Pos_IsInitialized, PosOf, Known, Put, Has
  <1>00. \A x, ct : GridInfo_IsInitialized(GridInfoOf(x, ct))
    <2>1. SUFFICES ASSUME NEW x, NEW ct PROVE GridInfo_IsInitialized(GridInfoOf(x, ct))
      OBVIOUS
    <2>2. /\ {"o", "r", "grid", "type", "topic", "ownerScore", "rivalScore", "isownertune",
              "ownercanmove", "rivalcanmove"} \subseteq DOMAIN GridInfoOf(x, ct)
          /\ GridInfoOf(x, ct).o = PosOf(x.o) /\ GridInfoOf(x, ct).r = PosOf(x.r)
      BY DEF GridInfoOf, Known, Put
    <2>3. QED
      BY <1>0, <2>2 DEF GridInfo_IsInitialized
  <1>1. CASE t = "SystemQuery"
    <2>1. PICK line : m = dealCmd(line)
      BY <1>1 DEF Sendable
    <2>2. "cmd" \in DOMAIN m
      BY <2>1 DEF dealCmd, Known, Put
    <2>3. QED
      BY <1>1, <2>2 DEF IsInitialized, SystemQuery_IsInitialized, Has
  <1>2. CASE t = "SystemAns"
    <2>1. (\E id : m = answer("answer", id)) \/ (\E id : m = publish("answer", id))
      BY <1>2 DEF Sendable
    <2>2. {"id", "content"} \subseteq DOMAIN m
      BY <2>1 DEF answer, publish, Known, Put
    <2>3. QED
      BY <1>2, <2>2 DEF IsInitialized, SystemAns_IsInitialized, Has
  <1>3. CASE t = "ShowInfo"
    <2>1. PICK rooms : m = show(rooms)
      BY <1>3 DEF Sendable
    <2>2. ASSUME NEW k \in DOMAIN Repeated(m, "ri") PROVE RoomInfo_IsInitialized(m.ri[k])
      <3>1. rooms # <<>> /\ "ri" \in DOMAIN m
        <4>1. "ri" \notin DOMAIN New /\ DOMAIN <<>> = {}
          BY EmptySeq, LenProperties DEF New
        <4>2. "ri" \in DOMAIN m
          BY <2>2, <4>1 DEF Repeated, Has
        <4>3. QED
          BY <2>1, <4>1, <4>2 DEF show
      <3>2. m.ri = [j \in DOMAIN rooms |->
                      Known([createdTime |-> "answer", name |-> rooms[j][1],
                             owner |-> "room", rival |-> rooms[j][2]])]
        BY <2>1, <3>1 DEF show, Known, Put
      <3>3. k \in DOMAIN rooms
        BY <3>1, <3>2 DEF Repeated, Has
      <3>4. QED
        BY <3>2, <3>3 DEF RoomInfo_IsInitialized, Known, Put, Has
    <2>3. QED
      BY <1>3, <2>2 DEF IsInitialized, ShowInfo_IsInitialized
  <1>4. CASE t = "GridInfo"
    <2>1. \E x, ct : m = GridInfoOf(x, ct)
      BY <1>4 DEF Sendable
    <2>2. QED
      BY <1>4, <1>00, <2>1 DEF IsInitialized
  <1>5. CASE t = "boardQuery"
    <2>1. PICK d, ct : m = tunnel(d, ct, "room")
      BY <1>5 DEF Sendable
    <2>2. {"x", "type", "topic"} \subseteq DOMAIN m /\ m.x = PosOf(d)
      BY <2>1 DEF tunnel, Known, Put
    <2>3. QED
      BY <1>0, <1>5, <2>2 DEF IsInitialized, boardQuery_IsInitialized
  <1>6. CASE t = "boardAns"
    <2>1. PICK code, x, ct : m = publishBoardUpdate(code, x, ct)
      BY <1>6 DEF Sendable
    <2> DEFINE g == GridInfoOf(x, IF ct \in {cSubscribe, cRival} THEN ct ELSE cOwner)
    <2>2. publishBoardUpdate(code, x, ct) = Known([code |-> code, g |-> g])
      BY DEF publishBoardUpdate
    <2>3. GridInfo_IsInitialized(g)
      BY <1>00
    <2> HIDE DEF g
    <2>4. {"code", "g"} \subseteq DOMAIN m /\ m.g = g
      BY <2>1, <2>2 DEF Known, Put
    <2>5. QED
      BY <1>6, <2>3, <2>4 DEF IsInitialized, boardAns_IsInitialized, Has
  <1>7. CASE t = "finalInfo"
    <2>1. PICK score : m = publishFinalInfo(score)
      BY <1>7 DEF Sendable
    <2>2. {"ownerScore", "rivalScore"} \subseteq DOMAIN m
      BY <2>1 DEF publishFinalInfo, Known, Put
    <2>3. QED
      BY <1>7, <2>2 DEF IsInitialized, finalInfo_IsInitialized, Has
  <1>8. QED
    BY <1>1, <1>2, <1>3, <1>4, <1>5, <1>6, <1>7, MessageTypes

\* The reader of the whole message that has read all accepts it, and has what was sent.
LEMMA Ends ==
    ASSUME NEW t \in MessageType, NEW m, NEW x, NEW g, Sound(t, g), IsInitialized(t, m),
           OnTheWay(t, m, x, g, <<>>, NoMessage, TRUE)
    PROVE  IsInitialized(t, g) /\ Forget(g) = m
  <1>1. /\ DOMAIN g = DOMAIN m
        /\ \A f \in DOMAIN m \ {"unknown"} : g[f] = m[f]
    <2>1. t \in Classes
      BY MessageTypes DEF Classes
    <2>2. CASE t = "ShowInfo"
      <3>1. PICK extra \in BOOLEAN : extra = TRUE
        OBVIOUS
      <3>2. OnTheWay("ShowInfo", m, x, g, <<>>, NoMessage, extra) /\ Sound("ShowInfo", g)
        BY <2>2, <3>1
      <3>3. QED
        BY ONLY <3>2, ByIndexMade, extra \in BOOLEAN
    <2>3. CASE t # "ShowInfo"
      <3>1. PICK extra \in BOOLEAN : extra = TRUE
        OBVIOUS
      <3>2. OnTheWay(t, m, x, g, <<>>, NoMessage, extra)
        BY <3>1
      <3>3. t \in Classes \ {"ShowInfo"}
        BY <2>1, <2>3
      <3>4. QED
        BY ONLY <3>2, <3>3, ByFieldMade, extra \in BOOLEAN
    <2>4. QED
      BY <2>2, <2>3
  <1>2. "unknown" \in DOMAIN m /\ m.unknown = <<>> /\ m = [f \in DOMAIN m |-> m[f]]
    BY DEF OnTheWay, Plain, Whole
  <1>3. Forget(g) = m
    <2>1. DOMAIN Forget(g) = DOMAIN m /\ \A f \in DOMAIN m : Forget(g)[f] = m[f]
      BY <1>1, <1>2 DEF Forget, Put
    <2>2. Forget(g) = [f \in DOMAIN Forget(g) |-> Forget(g)[f]]
      BY ObjectFacts DEF Forget
    <2>3. QED
      BY <1>2, <2>1, <2>2
  <1>4. IsInitialized(t, g)
    <2>1. CASE t \in {"SystemQuery", "SystemAns", "finalInfo"}
      BY <1>1, <2>1 DEF IsInitialized, SystemQuery_IsInitialized, SystemAns_IsInitialized,
                        finalInfo_IsInitialized, Has
    <2>2. CASE t = "ShowInfo"
      <3>1. Repeated(g, "ri") = Repeated(m, "ri") /\ (Has(m, "ri") => g.ri = m.ri)
        BY <1>1 DEF Repeated, Has
      <3>2. ASSUME NEW k \in DOMAIN Repeated(g, "ri") PROVE g.ri[k] = m.ri[k]
        <4>1. DOMAIN <<>> = {}
          BY EmptySeq, LenProperties
        <4>2. Has(m, "ri")
          BY <3>1, <3>2, <4>1 DEF Repeated
        <4>3. QED
          BY <3>1, <4>2
      <3>3. QED
        BY <2>2, <3>1, <3>2 DEF IsInitialized, ShowInfo_IsInitialized
    <2>3. CASE t = "GridInfo"
      BY <1>1, <2>3 DEF IsInitialized, GridInfo_IsInitialized
    <2>4. CASE t = "boardQuery"
      BY <1>1, <2>4 DEF IsInitialized, boardQuery_IsInitialized
    <2>5. CASE t = "boardAns"
      BY <1>1, <2>5 DEF IsInitialized, boardAns_IsInitialized, Has
    <2>6. QED
      BY <2>1, <2>2, <2>3, <2>4, <2>5, MessageTypes
  <1>5. QED
    BY <1>3, <1>4

\* A place that is complete remains so when another is merged into it.
LEMMA PlaceMerged ==
    ASSUME NEW c \in Classes \ {"ShowInfo"}, NEW a, NEW b, Plain(c, a), Plain(c, b),
           NEW m, IsMerge(c, a, b, m),
           NEW f \in DOMAIN a, IsSub(c, f), f # "g", Pos_IsInitialized(a[f])
    PROVE  Pos_IsInitialized(m[f])
  <1>1. ClassOf(f) = "Pos" /\ f # "unknown"
    BY SubClass DEF IsSub
  <1>2. CASE f \in DOMAIN b
    <2>1. m[f] = MergeOf("Pos", a[f], b[f])
      BY <1>1, <1>2 DEF IsMerge, Mutable, Has
    <2>2. Whole("Pos", a[f]) /\ Whole("Pos", b[f])
      BY <1>1, <1>2, GoalIsPlain DEF Plain
    <2>3. IsMerge("Pos", a[f], b[f], m[f])
      BY <2>1, <2>2, MergeFacts DEF Classes
    <2>4. QED
      BY <2>3 DEF IsMerge, Pos_IsInitialized, Has
  <1>3. CASE f \notin DOMAIN b
    <2>1. m[f] = a[f]
      BY <1>1, <1>3 DEF IsMerge
    <2>2. QED
      BY <2>1
  <1>4. QED
    BY <1>2, <1>3

\* So does a board.
LEMMA BoardMerged ==
    ASSUME NEW a, NEW b, Plain("GridInfo", a), Plain("GridInfo", b),
           NEW m, IsMerge("GridInfo", a, b, m), GridInfo_IsInitialized(a)
    PROVE  GridInfo_IsInitialized(m)
  <1>1. IsSub("GridInfo", "o") /\ IsSub("GridInfo", "r") /\ "GridInfo" \in Classes \ {"ShowInfo"}
    BY DEF IsSub, Classes
  <1>2. {"o", "r", "grid", "type", "topic", "ownerScore", "rivalScore", "isownertune",
         "ownercanmove", "rivalcanmove"} \subseteq DOMAIN a
        /\ Pos_IsInitialized(a.o) /\ Pos_IsInitialized(a.r)
    BY DEF GridInfo_IsInitialized
  <1>3. DOMAIN a \subseteq DOMAIN m
    BY DEF IsMerge
  <1>4. Pos_IsInitialized(m.o) /\ Pos_IsInitialized(m.r)
    BY <1>1, <1>2, PlaceMerged
  <1>5. QED
    BY <1>2, <1>3, <1>4 DEF GridInfo_IsInitialized

\* What is complete remains so, whatever is merged into it: only new rooms and a board
\* that was not there would have to be complete too.
LEMMA MergedInitialized ==
    ASSUME NEW t \in MessageType, NEW a, NEW b, Plain(t, a), Plain(t, b), IsInitialized(t, a),
           t = "ShowInfo" => IsInitialized(t, b),
           t = "boardAns" => Has(a, "g")
    PROVE  IsInitialized(t, MergeFrom(t, a, b))
  <1>1. PICK m : m = MergeFrom(t, a, b)
    OBVIOUS
  <1>2. CASE t # "ShowInfo"
    <2>1. t \in Classes \ {"ShowInfo"} /\ t \notin {"Pos", "RoomInfo"}
      BY <1>2, MessageTypes DEF Classes
    <2>2. MergeOf(t, a, b) = m
      BY <1>1, <2>1, Zenon DEF MergeOf
    <2>3. IsMerge(t, a, b, m)
      BY <2>1, <2>2, MergeFacts DEF Plain
    <2>4. DOMAIN a \subseteq DOMAIN m
      BY <2>3 DEF IsMerge
    <2>5. CASE t \in {"SystemQuery", "SystemAns", "finalInfo"}
      BY <1>1, <2>4, <2>5 DEF IsInitialized, SystemQuery_IsInitialized, SystemAns_IsInitialized,
                              finalInfo_IsInitialized, Has
    <2>6. CASE t = "GridInfo"
      BY <1>1, <2>3, <2>6, BoardMerged DEF IsInitialized
    <2>7. CASE t = "boardQuery"
      <3>1. {"x", "type", "topic"} \subseteq DOMAIN a /\ Pos_IsInitialized(a.x)
        BY <2>7 DEF IsInitialized, boardQuery_IsInitialized
      <3>2. IsSub(t, "x")
        BY <2>7 DEF IsSub
      <3>3. Pos_IsInitialized(m.x)
        BY <2>1, <2>3, <3>1, <3>2, PlaceMerged
      <3>4. QED
        BY <1>1, <2>4, <2>7, <3>1, <3>3 DEF IsInitialized, boardQuery_IsInitialized
    <2>8. CASE t = "boardAns"
      <3>1. Has(a, "code") /\ Has(a, "g") /\ GridInfo_IsInitialized(a.g)
        BY <2>8 DEF IsInitialized, boardAns_IsInitialized
      <3>2. IsSub(t, "g") /\ ClassOf("g") = "GridInfo" /\ "g" \in DOMAIN a
        BY <2>8, <3>1, Zenon DEF IsSub, ClassOf, Has
      <3>3. GridInfo_IsInitialized(m.g)
        <4>1. CASE "g" \in DOMAIN b
          <5>1. m.g = MergeOf("GridInfo", a.g, b.g)
            BY <2>3, <3>2, <4>1 DEF IsMerge, Mutable, Has
          <5>2. Plain("GridInfo", a.g) /\ Plain("GridInfo", b.g)
            BY <2>1, <3>2, <4>1, GoalIsPlain
          <5>3. IsMerge("GridInfo", a.g, b.g, m.g)
            BY <5>1, <5>2, MergeFacts DEF Classes, Plain
          <5>4. QED
            BY <3>1, <5>2, <5>3, BoardMerged
        <4>2. CASE "g" \notin DOMAIN b
          BY <2>3, <3>1, <3>2, <4>2 DEF IsMerge
        <4>3. QED
          BY <4>1, <4>2
      <3>4. QED
        BY <1>1, <2>4, <2>8, <3>1, <3>3 DEF IsInitialized, boardAns_IsInitialized, Has
    <2>9. QED
      BY <1>2, <2>5, <2>6, <2>7, <2>8, MessageTypes
  <1>3. CASE t = "ShowInfo"
    <2> DEFINE A == Repeated(a, "ri")
               B == Repeated(b, "ri")
               C == Repeated(m, "ri")
    <2>1. /\ \A k \in DOMAIN A : RoomInfo_IsInitialized(A[k])
          /\ \A k \in DOMAIN B : RoomInfo_IsInitialized(B[k])
      BY <1>3 DEF IsInitialized, ShowInfo_IsInitialized, Repeated
    <2>2. Plain("ShowInfo", m) /\ C = A \o B
      BY <1>1, <1>3, ShowMerge
    <2>3. A \in Seq(Range(A) \cup Range(B)) /\ B \in Seq(Range(A) \cup Range(B))
      BY <1>3, SeqMonotonic DEF Plain
    <2> HIDE DEF A, B, C
    <2>4. /\ DOMAIN A = 1 .. Len(A) /\ DOMAIN B = 1 .. Len(B) /\ DOMAIN C = 1 .. Len(A) + Len(B)
          /\ Len(A) \in Nat /\ Len(B) \in Nat
          /\ \A k \in 1 .. Len(A) + Len(B) : C[k] = IF k <= Len(A) THEN A[k] ELSE B[k - Len(A)]
      BY <2>2, <2>3, ConcatProperties, LenProperties
    <2>5. ASSUME NEW k \in DOMAIN C PROVE RoomInfo_IsInitialized(C[k])
      <3>1. CASE k <= Len(A)
        BY <2>1, <2>4, <2>5, <3>1
      <3>2. CASE ~ (k <= Len(A))
        <4>1. k - Len(A) \in DOMAIN B /\ C[k] = B[k - Len(A)]
          BY <2>4, <2>5, <3>2
        <4>2. QED
          BY <2>1, <4>1
      <3>3. QED
        BY <3>1, <3>2
    <2>6. \A k \in DOMAIN C : C[k] = m.ri[k]
      <3>1. DOMAIN <<>> = {}
        BY EmptySeq, LenProperties
      <3>2. QED
        BY <3>1 DEF C, Repeated
    <2>7. \A k \in DOMAIN C : RoomInfo_IsInitialized(m.ri[k])
      BY <2>5, <2>6
    <2>8. QED
      BY <1>1, <1>3, <2>7 DEF IsInitialized, ShowInfo_IsInitialized, C
  <1>4. QED
    BY <1>2, <1>3

\* What may follow: another message the program sends, or one that lacks a field.
LEMMA FollowedBy ==
    ASSUME NEW t \in MessageType, NEW m \in Sendable[t], NEW n \in {m} \cup Thinned(t, m)
    PROVE  Plain(t, n) /\ (t = "ShowInfo" => IsInitialized(t, n))
  <1>1. Plain(t, m) /\ IsInitialized(t, m)
    BY SendablePlain, SendableInitialized
  <1>2. Plain(t, n)
    BY <1>1, ThinnedPlain
  <1>3. ASSUME t = "ShowInfo", n # m PROVE IsInitialized(t, n)
    <2>1. Thinned(t, m) = Without(m)
      BY <1>3, Zenon DEF Thinned
    <2>2. PICK f \in DOMAIN m \ {"unknown"} : n = Restrict(m, DOMAIN m \ {f})
      BY <1>3, <2>1 DEF Without
    <2>3. f = "ri"
      BY <1>1, <1>3 DEF Plain, Whole, Partial, Class, Values, NoField
    <2>4. Repeated(n, "ri") = <<>>
      BY <2>2, <2>3 DEF Repeated, Has, Restrict
    <2>5. DOMAIN <<>> = {}
      BY EmptySeq, LenProperties
    <2>6. QED
      BY <1>3, <2>4, <2>5 DEF IsInitialized, ShowInfo_IsInitialized
  <1>4. QED
    BY <1>1, <1>2, <1>3

\* Every answer with a board has one.
LEMMA AnswerHasBoard ==
    ASSUME NEW m \in Sendable["boardAns"]
    PROVE  Has(m, "g")
  <1>1. PICK code, x, ct : m = publishBoardUpdate(code, x, ct)
    BY DEF Sendable
  <1>2. QED
    BY <1>1 DEF publishBoardUpdate, Known, Put, Has

--------------------------------------------------------------------------------
(* Every reader stays on the way to what was sent.                             *)

\* What is to be read before the rest of the wire, later.
LEMMA OwnFirst ==
    ASSUME NEW S, NEW own \in Seq(S), NEW later, later \in Seq(Range(later))
    PROVE  /\ own # <<>> => /\ own \o later # <<>>
                            /\ Head(own \o later) = Head(own)
                            /\ Tail(own \o later) = Tail(own) \o later
           /\ own \o later = later <=> own = <<>>
           /\ own \o <<>> = own
  <1>1. PICK T : T = S \cup Range(later)
    OBVIOUS
  <1>2. own \in Seq(T) /\ later \in Seq(T)
    BY <1>1, SeqMonotonic
  <1>3. own \o later = later <=> own = <<>>
    BY <1>2, ConcatEqualIffEmpty
  <1>4. own \o <<>> = own
    BY ConcatEmptySeq
  <1>5. ASSUME own # <<>>
        PROVE  /\ own \o later # <<>>
               /\ Head(own \o later) = Head(own)
               /\ Tail(own \o later) = Tail(own) \o later
    <2>1. PICK all : all = own \o later
      OBVIOUS
    <2>2. /\ all \in Seq(T) /\ Len(all) = Len(own) + Len(later)
          /\ \A i \in 1 .. Len(own) + Len(later) :
                 all[i] = IF i <= Len(own) THEN own[i] ELSE later[i - Len(own)]
      BY <1>2, <2>1, ConcatProperties
    <2>3. all # <<>>
      BY <1>2, <1>5, <2>1, ConcatEqualIffEmpty
    <2>4. /\ Head(own) = own[1] /\ Tail(own) \in Seq(T) /\ Len(own) \in Nat \ {0}
          /\ Len(Tail(own)) = Len(own) - 1
          /\ \A k \in 1 .. Len(own) - 1 : Tail(own)[k] = own[k + 1]
      BY <1>2, <1>5, ItemsOfSeq
    <2>5. /\ Head(all) = all[1] /\ Tail(all) \in Seq(T) /\ Len(Tail(all)) = Len(all) - 1
          /\ \A k \in 1 .. Len(all) - 1 : Tail(all)[k] = all[k + 1]
      BY <2>2, <2>3, ItemsOfSeq
    <2>6. Len(later) \in Nat
      BY <1>2, LenProperties
    <2>7. Head(all) = Head(own)
      BY <2>2, <2>4, <2>5, <2>6
    <2>8. PICK u : u = Tail(own) \o later
      OBVIOUS
    <2>9. /\ u \in Seq(T) /\ Len(u) = Len(Tail(own)) + Len(later)
          /\ \A i \in 1 .. Len(Tail(own)) + Len(later) :
                 u[i] = IF i <= Len(Tail(own)) THEN Tail(own)[i] ELSE later[i - Len(Tail(own))]
      BY <1>2, <2>4, <2>8, ConcatProperties
    <2>10. Len(u) = Len(Tail(all))
      BY <2>2, <2>4, <2>5, <2>6, <2>9
    <2>11. ASSUME NEW i \in 1 .. Len(u) PROVE u[i] = Tail(all)[i]
      <3>1. i \in 1 .. Len(all) - 1 /\ i + 1 \in 1 .. Len(own) + Len(later)
            /\ i \in 1 .. Len(Tail(own)) + Len(later)
        BY <2>2, <2>4, <2>6, <2>9
      <3>2. Tail(all)[i] = all[i + 1]
        BY <2>5, <3>1
      <3>3. CASE i <= Len(own) - 1
        <4>1. i \in 1 .. Len(own) - 1 /\ i + 1 <= Len(own)
          BY <2>4, <3>1, <3>3
        <4>2. u[i] = Tail(own)[i]
          BY <2>4, <2>9, <3>1, <3>3
        <4>3. all[i + 1] = own[i + 1]
          BY <2>2, <3>1, <4>1
        <4>4. QED
          BY <2>4, <3>2, <4>1, <4>2, <4>3
      <3>4. CASE ~ (i <= Len(own) - 1)
        <4>1. ~ (i + 1 <= Len(own)) /\ (i + 1) - Len(own) = i - (Len(own) - 1)
          BY <2>4, <3>1, <3>4
        <4>2. u[i] = later[i - (Len(own) - 1)]
          BY <2>4, <2>9, <3>1, <3>4
        <4>3. all[i + 1] = later[(i + 1) - Len(own)]
          BY <2>2, <3>1, <4>1
        <4>4. QED
          BY <3>2, <4>1, <4>2, <4>3
      <3>5. QED
        BY <3>3, <3>4
    <2>12. u = Tail(all)
      BY <2>5, <2>9, <2>10, <2>11, SeqEqual
    <2>13. QED
      BY <2>1, <2>3, <2>7, <2>8, <2>12
  <1>6. QED
    BY <1>3, <1>4, <1>5

\* A reader that reads a field stays on its way.
LEMMA Reads ==
    ASSUME NEW c \in Classes, NEW m, NEW x, NEW g, NEW r, NEW extra \in BOOLEAN,
           Sound(c, g), NEW S, r \in Seq(S), r # <<>>,
           OnTheWay(c, m, x, g, r, NoMessage, extra), Into(c, Head(r)) = NoMessage
    PROVE  OnTheWay(c, m, x, MergePartial(c, g, Head(r)), Tail(r), NoMessage, extra)
  <1>1. CASE c = "ShowInfo"
    <2>1. Rooms(g)
      BY <1>1 DEF Sound
    <2>2. QED
      BY <1>1, <2>1, ByIndexReads
  <1>2. CASE c # "ShowInfo"
    <2>1. c \in Classes \ {"ShowInfo"}
      BY <1>2
    <2>2. QED
      BY <2>1, ByFieldReads
  <1>3. QED
    BY <1>1, <1>2

\* A reader that calls another one waits for what that one is to make.
LEMMA Enters ==
    ASSUME NEW c \in Classes, NEW m, NEW x, NEW g, NEW r, NEW extra \in BOOLEAN,
           Sound(c, g), NEW S, r \in Seq(S), r # <<>>,
           OnTheWay(c, m, x, g, r, NoMessage, extra),
           NEW f, f = Into(c, Head(r)), f # NoMessage,
           NEW caller, caller.got = g, caller.into = f
    PROVE  /\ OnTheWay(c, m, x, g, Tail(r), f, extra)
           /\ \E y : OnTheWay(ClassOf(f), GoalIn(m, caller), y,
                              IF f = "ri" THEN New ELSE Mutable(g, f), Head(r).val, NoMessage, FALSE)
  <1>1. CASE c = "ShowInfo"
    <2>1. Rooms(g)
      BY <1>1 DEF Sound
    <2>2. PICK room : room = m.ri[Len(Repeated(g, "ri")) + 1]
      OBVIOUS
    <2>3. /\ f = "ri"
          /\ OnTheWay("ShowInfo", m, x, g, Tail(r), "ri", extra)
          /\ OnTheWay("RoomInfo", room, room, New, Head(r).val, NoMessage, FALSE)
      BY <1>1, <2>1, <2>2, ByIndexEnters
    <2>4. ClassOf("ri") = "RoomInfo"
      BY Zenon DEF ClassOf
    <2>5. GoalIn(m, caller) = room
      BY <2>2, <2>3 DEF GoalIn
    <2>6. QED
      BY <1>1, <2>3, <2>4, <2>5
  <1>2. CASE c # "ShowInfo"
    <2>1. c \in Classes \ {"ShowInfo"}
      BY <1>2
    <2>2. /\ f # "ri"
          /\ OnTheWay(c, m, x, g, Tail(r), f, extra)
          /\ OnTheWay(ClassOf(f), m[f], x[f], Mutable(g, f), Head(r).val, NoMessage, FALSE)
      BY <2>1, ByFieldEnters
    <2>3. GoalIn(m, caller) = m[f]
      BY <2>2 DEF GoalIn
    <2>4. QED
      BY <2>2, <2>3
  <1>3. QED
    BY <1>1, <1>2

\* And goes on with what that one has made.
LEMMA Leaves ==
    ASSUME NEW c \in Classes, NEW m, NEW x, NEW g, NEW r, NEW extra \in BOOLEAN, Sound(c, g),
           NEW f, IsSub(c, f), OnTheWay(c, m, x, g, r, f, extra),
           NEW caller, caller.got = g, caller.into = f,
           NEW s, s = GoalIn(m, caller)
    PROVE  OnTheWay(c, m, x, IF f = "ri" THEN add_ri(g, s) ELSE Put(g, f, s), r, NoMessage, extra)
  <1>1. f = "ri" <=> c = "ShowInfo"
    BY DEF IsSub
  <1>2. CASE c = "ShowInfo"
    <2>1. Rooms(g) /\ s = m.ri[Len(Repeated(g, "ri")) + 1]
      BY <1>1, <1>2 DEF Sound, GoalIn
    <2>2. OnTheWay("ShowInfo", m, x, g, r, "ri", extra)
      BY <1>1, <1>2
    <2>3. OnTheWay("ShowInfo", m, x, add_ri(g, s), r, NoMessage, extra)
      BY <2>1, <2>2, ByIndexLeaves
    <2>4. QED
      BY <1>1, <1>2, <2>3
  <1>3. CASE c # "ShowInfo"
    <2>1. c \in Classes \ {"ShowInfo"} /\ s = m[f]
      BY <1>1, <1>3 DEF GoalIn
    <2>2. OnTheWay(c, m, x, Put(g, f, m[f]), r, NoMessage, extra)
      BY <2>1, ByFieldLeaves
    <2>3. QED
      BY <1>1, <1>3, <2>1, <2>2
  <1>4. QED
    BY <1>2, <1>3

\* A reader that has read all has made what it was to make, and nothing unknown with it if
\* there was nothing.
LEMMA Made ==
    ASSUME NEW c \in Classes, NEW m, NEW x, NEW g, NEW extra \in BOOLEAN, ~ extra, Sound(c, g),
           OnTheWay(c, m, x, g, <<>>, NoMessage, extra)
    PROVE  g = m
  <1>1. CASE c = "ShowInfo"
    <2>1. OnTheWay("ShowInfo", m, x, g, <<>>, NoMessage, extra) /\ Sound("ShowInfo", g)
      BY <1>1
    <2>2. QED
      BY <2>1, ByIndexMade
  <1>2. CASE c # "ShowInfo"
    <2>1. c \in Classes \ {"ShowInfo"}
      BY <1>2
    <2>2. QED
      BY <2>1, ByFieldMade
  <1>3. QED
    BY <1>1, <1>2

\* A reader of class c is to make p.goal of what says p.says.  That is what it is to read,
\* and if it is the last of the readers, the wire goes on with later.
OnFrame(c, p, g, r, waits, later, last, extra) ==
    \E own \in Seq(Items(Arriving, c)) :
        /\ OnTheWay(c, p.goal, p.says, g, own, waits, extra /\ last)
        /\ r = IF last THEN own \o later ELSE own

\* So does one that may have something later to read, as long as it has read its own.
LEMMA FrameReads ==
    ASSUME NEW c \in Classes, NEW p, NEW g, Sound(c, g), NEW r, NEW later,
           later \in Seq(Range(later)), NEW last \in BOOLEAN, NEW extra \in BOOLEAN,
           OnFrame(c, p, g, r, NoMessage, later, last, extra),
           r # <<>>, last => r # later, Into(c, Head(r)) = NoMessage
    PROVE  OnFrame(c, p, MergePartial(c, g, Head(r)), Tail(r), NoMessage, later, last, extra)
  <1>1. PICK own \in Seq(Items(Arriving, c)) :
            /\ OnTheWay(c, p.goal, p.says, g, own, NoMessage, extra /\ last)
            /\ r = IF last THEN own \o later ELSE own
    BY DEF OnFrame
  <1>2. PICK e \in BOOLEAN : e = (extra /\ last)
    OBVIOUS
  <1>3. PICK S : S = Items(Arriving, c)
    OBVIOUS
  <1>4. /\ own # <<>> /\ Head(r) = Head(own)
        /\ Tail(r) = IF last THEN Tail(own) \o later ELSE Tail(own)
    <2>1. CASE last
      BY <1>1, <2>1, OwnFirst
    <2>2. CASE ~ last
      BY <1>1, <2>2
    <2>3. QED
      BY <2>1, <2>2
  <1>5. own \in Seq(S) /\ Tail(own) \in Seq(S)
    BY <1>1, <1>3, <1>4, ItemsOfSeq
  <1>6. OnTheWay(c, p.goal, p.says, g, own, NoMessage, e) /\ Into(c, Head(own)) = NoMessage
    BY <1>1, <1>2, <1>4
  <1>7. OnTheWay(c, p.goal, p.says, MergePartial(c, g, Head(own)), Tail(own), NoMessage, e)
    BY <1>4, <1>5, <1>6, Reads
  <1>8. QED
    BY <1>2, <1>3, <1>4, <1>5, <1>7 DEF OnFrame

\* It waits for field f, and the reader it has called is to make b what is missing in it.
FrameEntered(c, p, g, r, later, last, extra, f, caller, b) ==
    /\ OnFrame(c, p, g, Tail(r), f, later, last, extra)
    /\ \E q : /\ q.goal = GoalIn(p.goal, caller)
              /\ OnFrame(ClassOf(f), q, b, Head(r).val, NoMessage, later, FALSE, extra)

\* When it calls another one,
LEMMA FrameEnters ==
    ASSUME NEW c \in Classes, NEW p, NEW g, NEW r, Frame(c, g, r), NEW later,
           later \in Seq(Range(later)), NEW last \in BOOLEAN, NEW extra \in BOOLEAN,
           OnFrame(c, p, g, r, NoMessage, later, last, extra),
           r # <<>>, last => r # later, Head(r).kind # "malformed",
           NEW f, f = Into(c, Head(r)), f # NoMessage,
           NEW caller, caller.got = g, caller.into = f,
           NEW b, b = IF f = "ri" THEN New ELSE Mutable(g, f)
    PROVE  FrameEntered(c, p, g, r, later, last, extra, f, caller, b)
  <1>1. PICK own \in Seq(Items(Arriving, c)) :
            /\ OnTheWay(c, p.goal, p.says, g, own, NoMessage, extra /\ last)
            /\ r = IF last THEN own \o later ELSE own
    BY DEF OnFrame
  <1>2. PICK e \in BOOLEAN : e = (extra /\ last)
    OBVIOUS
  <1>3. PICK S : S = Items(Arriving, c)
    OBVIOUS
  <1>4. /\ own # <<>> /\ Head(r) = Head(own)
        /\ Tail(r) = IF last THEN Tail(own) \o later ELSE Tail(own)
    <2>1. CASE last
      BY <1>1, <2>1, OwnFirst
    <2>2. CASE ~ last
      BY <1>1, <2>2
    <2>3. QED
      BY <2>1, <2>2
  <1>5. own \in Seq(S) /\ Tail(own) \in Seq(S)
    BY <1>1, <1>3, <1>4, ItemsOfSeq
  <1>6. OnTheWay(c, p.goal, p.says, g, own, NoMessage, e) /\ f = Into(c, Head(own)) /\ Sound(c, g)
    BY <1>1, <1>2, <1>4 DEF Frame
  <1>8. /\ OnTheWay(c, p.goal, p.says, g, Tail(own), f, e)
        /\ \E y : OnTheWay(ClassOf(f), GoalIn(p.goal, caller), y, b, Head(own).val, NoMessage, FALSE)
    <2>1. PICK m, x : m = p.goal /\ x = p.says
      OBVIOUS
    <2>2. OnTheWay(c, m, x, g, own, NoMessage, e)
      BY <1>6, <2>1
    <2>3. /\ OnTheWay(c, m, x, g, Tail(own), f, e)
          /\ \E y : OnTheWay(ClassOf(f), GoalIn(m, caller), y,
                             IF f = "ri" THEN New ELSE Mutable(g, f), Head(own).val, NoMessage, FALSE)
      BY <1>4, <1>5, <1>6, <2>2, Enters
    <2>4. QED
      BY <2>1, <2>3
  <1>9. OnFrame(c, p, g, Tail(r), f, later, last, extra)
    BY <1>2, <1>3, <1>4, <1>5, <1>8 DEF OnFrame
  <1>10. Head(r).val \in Seq(Items(Arriving, ClassOf(f)))
    <2>1. Head(r) \in Items(Arriving, c)
      BY HeadTailProperties DEF Frame
    <2>2. QED
      BY <2>1, ItemFacts
  <1>11. PICK y : OnTheWay(ClassOf(f), GoalIn(p.goal, caller), y, b, Head(own).val, NoMessage, FALSE)
    BY <1>8
  <1>12. PICK q : q = [goal |-> GoalIn(p.goal, caller), says |-> y]
    OBVIOUS
  <1>13. q.goal = GoalIn(p.goal, caller) /\ q.says = y
    BY <1>12
  <1>14. OnTheWay(ClassOf(f), q.goal, q.says, b, Head(r).val, NoMessage, extra /\ FALSE)
    <2>1. (extra /\ FALSE) = FALSE
      OBVIOUS
    <2>2. QED
      BY <1>4, <1>11, <1>13, <2>1
  <1>15. OnFrame(ClassOf(f), q, b, Head(r).val, NoMessage, later, FALSE, extra)
    BY <1>10, <1>14 DEF OnFrame
  <1>16. QED
    BY <1>9, <1>13, <1>15 DEF FrameEntered

\* and when that one returns, it is still on its way.
LEMMA FrameLeaves ==
    ASSUME NEW c \in Classes, NEW p, NEW g, Sound(c, g), NEW r, NEW later,
           NEW last \in BOOLEAN, NEW extra \in BOOLEAN,
           NEW f, IsSub(c, f), OnFrame(c, p, g, r, f, later, last, extra),
           NEW caller, caller.got = g, caller.into = f,
           NEW s, s = GoalIn(p.goal, caller)
    PROVE  OnFrame(c, p, IF f = "ri" THEN add_ri(g, s) ELSE Put(g, f, s), r, NoMessage,
                   later, last, extra)
  <1>1. PICK own \in Seq(Items(Arriving, c)) :
            /\ OnTheWay(c, p.goal, p.says, g, own, f, extra /\ last)
            /\ r = IF last THEN own \o later ELSE own
    BY DEF OnFrame
  <1>2. PICK e \in BOOLEAN : e = (extra /\ last)
    OBVIOUS
  <1>3. PICK h : h = IF f = "ri" THEN add_ri(g, s) ELSE Put(g, f, s)
    OBVIOUS
  <1>4. OnTheWay(c, p.goal, p.says, h, own, NoMessage, e)
    <2>1. PICK m, x : m = p.goal /\ x = p.says
      OBVIOUS
    <2>2. OnTheWay(c, m, x, g, own, f, e) /\ s = GoalIn(m, caller)
      BY <1>1, <1>2, <2>1
    <2>3. OnTheWay(c, m, x, IF f = "ri" THEN add_ri(g, s) ELSE Put(g, f, s), own, NoMessage, e)
      BY <2>2, Leaves
    <2>4. QED
      BY <1>3, <2>1, <2>3
  <1>5. QED
    BY <1>1, <1>2, <1>3, <1>4 DEF OnFrame

\* A reader with nothing of its own left, and nothing it could not get past before that.
LEMMA FrameMade ==
    ASSUME NEW c \in Classes, NEW p, NEW g, Sound(c, g), NEW r, NEW later,
           later \in Seq(Range(later)), NEW last \in BOOLEAN, NEW extra \in BOOLEAN,
           ~ (extra /\ last),
           OnFrame(c, p, g, r, NoMessage, later, last, extra), r = IF last THEN later ELSE <<>>
    PROVE  g = p.goal
  <1>1. PICK own \in Seq(Items(Arriving, c)) :
            /\ OnTheWay(c, p.goal, p.says, g, own, NoMessage, extra /\ last)
            /\ r = IF last THEN own \o later ELSE own
    BY DEF OnFrame
  <1>2. PICK e \in BOOLEAN : e = (extra /\ last)
    OBVIOUS
  <1>3. own = <<>>
    BY <1>1, OwnFirst
  <1>4. OnTheWay(c, p.goal, p.says, g, <<>>, NoMessage, e) /\ ~ e
    BY <1>1, <1>2, <1>3
  <1>5. QED
    BY <1>4, Made

\* It meets nothing it has to refuse.
LEMMA FrameMeets ==
    ASSUME NEW c, NEW p, NEW g, NEW r, NEW later,
           later \in Seq(Range(later)), NEW last \in BOOLEAN, NEW extra \in BOOLEAN,
           OnFrame(c, p, g, r, NoMessage, later, last, extra), r # <<>>, last => r # later
    PROVE  Head(r).kind # "malformed"
  <1>1. PICK own \in Seq(Items(Arriving, c)) :
            /\ OnTheWay(c, p.goal, p.says, g, own, NoMessage, extra /\ last)
            /\ r = IF last THEN own \o later ELSE own
    BY DEF OnFrame
  <1>2. PICK e \in BOOLEAN : e = (extra /\ last)
    OBVIOUS
  <1>3. own # <<>> /\ Head(r) = Head(own)
    BY <1>1, OwnFirst
  <1>4. OnTheWay(c, p.goal, p.says, g, own, NoMessage, e)
    BY <1>1, <1>2
  <1>5. QED
    BY <1>3, <1>4, NoneMalformed

\* v is w with e before it.
IsPushed(v, e, w) ==
    /\ Len(w) \in Nat /\ DOMAIN w = 1 .. Len(w)
    /\ Len(v) = Len(w) + 1 /\ DOMAIN v = 1 .. Len(w) + 1
    /\ v[1] = e
    /\ \A k \in 1 .. Len(w) : v[k + 1] = w[k]

\* So it is if e is put before w.
LEMMA PushFacts ==
    ASSUME NEW e, NEW w, w \in Seq(Range(w))
    PROVE  IsPushed(<<e>> \o w, e, w)
  <1> DEFINE S == Range(w) \cup {e}
             v == <<e>> \o w
  <1>1. w \in Seq(S) /\ <<e>> \in Seq(S) /\ Len(<<e>>) = 1 /\ <<e>>[1] = e
    BY SeqMonotonic
  <1>2. /\ v \in Seq(S) /\ Len(v) = 1 + Len(w)
        /\ \A k \in 1 .. 1 + Len(w) : v[k] = IF k <= 1 THEN <<e>>[k] ELSE w[k - 1]
    BY <1>1, ConcatProperties
  <1>3. DOMAIN v = 1 .. Len(v) /\ Len(w) \in Nat /\ DOMAIN w = 1 .. Len(w)
    BY <1>1, <1>2, LenProperties
  <1> HIDE DEF v, S
  <1>4. \A k \in 1 .. Len(w) : v[k + 1] = w[k]
    BY <1>2, <1>3
  <1>5. QED
    BY <1>1, <1>2, <1>3, <1>4 DEF IsPushed, v

--------------------------------------------------------------------------------
(* The readers together.                                                       *)

\* The running reader, 0, of class c with g and r, and those of cs, that have called it, 1
\* and on, are each about the part of m that the one that has called it waits for; the last
\* of them is about m itself.
OnTrack(plan, c, g, r, cs, m, later, extra) ==
    /\ later \in Seq(Range(later))
    /\ OnFrame(c, plan[0], g, r, NoMessage, later, Len(cs) = 0, extra)
    /\ \A k \in 1 .. Len(cs) :
           /\ OnFrame(cs[k].class, plan[k], cs[k].got, cs[k].rest,
                      cs[k].into, later, k = Len(cs), extra)
           /\ plan[k - 1].goal = GoalIn(plan[k].goal, cs[k])
    /\ plan[Len(cs)].goal = m

Track(plan, m, later, extra) == OnTrack(plan, class, got, rest, callers, m, later, extra)

\* One reader is about to make m of wire own, after which comes later.
LEMMA TrackBegins ==
    ASSUME NEW c \in Classes, NEW m, NEW x, NEW g, NEW own \in Seq(Items(Arriving, c)),
           NEW later, later \in Seq(Range(later)), NEW extra \in BOOLEAN,
           OnTheWay(c, m, x, g, own, NoMessage, extra)
    PROVE  \E plan : OnTrack(plan, c, g, own \o later, <<>>, m, later, extra)
  <1>1. Len(<<>>) = 0 /\ 1 .. Len(<<>>) = {}
    BY EmptySeq
  <1>2. PICK plan : plan = [k \in 0 .. 0 |-> [goal |-> m, says |-> x]]
    OBVIOUS
  <1>3. plan[0].goal = m /\ plan[0].says = x
    BY <1>2
  <1>4. PICK last \in BOOLEAN : last = (Len(<<>>) = 0)
    OBVIOUS
  <1>5. last
    BY <1>1, <1>4
  <1>6. PICK p, r : p = plan[0] /\ r = own \o later
    OBVIOUS
  <1>7. OnTheWay(c, p.goal, p.says, g, own, NoMessage, extra /\ last)
    <2>1. (extra /\ last) = extra
      BY <1>5
    <2>2. QED
      BY <1>3, <1>6, <2>1
  <1>8. OnFrame(c, p, g, r, NoMessage, later, last, extra)
    BY <1>5, <1>6, <1>7 DEF OnFrame
  <1>9. plan[Len(<<>>)].goal = m
    BY <1>1, <1>3
  <1>10. OnFrame(c, plan[0], g, own \o later, NoMessage, later, Len(<<>>) = 0, extra)
    BY <1>4, <1>6, <1>8
  <1>11. OnTrack(plan, c, g, own \o later, <<>>, m, later, extra)
    BY <1>1, <1>9, <1>10 DEF OnTrack
  <1>12. QED
    BY <1>11

\* No other reader is disturbed when one reads a field.
LEMMA TrackReads ==
    ASSUME IInv, ReadField, NEW plan, NEW m, NEW later, NEW extra \in BOOLEAN,
           Track(plan, m, later, extra), callers = <<>> => rest # later
    PROVE  Track(plan, m, later, extra)'
  <1>1. /\ class' = class /\ callers' = callers
        /\ got' = MergePartial(class, got, Head(rest)) /\ rest' = Tail(rest)
        /\ rest # <<>> /\ Into(class, Head(rest)) = NoMessage
    BY DEF ReadField
  <1>2. class \in Classes /\ Sound(class, got) /\ callers \in Seq(Range(callers))
    BY DEF IInv, Frame, CallersWait
  <1>3. PICK last \in BOOLEAN : last = (Len(callers) = 0)
    OBVIOUS
  <1>4. last => callers = <<>>
    BY <1>2, <1>3, EmptySeq
  <1>5. PICK p, r : p = plan[0] /\ r = rest
    OBVIOUS
  <1>6. later \in Seq(Range(later)) /\ OnFrame(class, p, got, r, NoMessage, later, last, extra)
    BY <1>3, <1>5 DEF Track, OnTrack
  <1>7. OnFrame(class, p, MergePartial(class, got, Head(r)), Tail(r), NoMessage, later, last, extra)
    <2>1. r # <<>> /\ (last => r # later) /\ Into(class, Head(r)) = NoMessage
      BY <1>1, <1>4, <1>5
    <2>2. QED
      BY <1>2, <1>6, <2>1, FrameReads
  <1>8. OnFrame(class', plan[0], got', rest', NoMessage, later, Len(callers') = 0, extra)
    BY <1>1, <1>3, <1>5, <1>7
  <1>9. QED
    BY <1>1, <1>8 DEF Track, OnTrack

\* When a reader is called, there is one goal more,
LEMMA TrackEnters ==
    ASSUME IInv, EnterMessage, NEW plan, NEW m, NEW later, NEW extra \in BOOLEAN,
           Track(plan, m, later, extra), callers = <<>> => rest # later
    PROVE  \E h : Track(h, m, later, extra)'
  <1>1. PICK f, caller :
            /\ f = Into(class, Head(rest)) /\ f # NoMessage /\ rest # <<>>
            /\ Head(rest).kind # "malformed"
            /\ caller = [class |-> class, got |-> got, rest |-> Tail(rest), into |-> f]
            /\ callers' = <<caller>> \o callers
            /\ class' = ClassOf(f)
            /\ got' = IF f = "ri" THEN New ELSE Mutable(got, f)
            /\ rest' = Head(rest).val
    BY DEF EnterMessage
  <1>2. /\ caller.class = class /\ caller.got = got /\ caller.rest = Tail(rest)
        /\ caller.into = f
    BY <1>1
  <1>3. class \in Classes /\ Frame(class, got, rest) /\ callers \in Seq(Range(callers))
    BY DEF IInv, Frame, CallersWait
  <1>4. PICK last \in BOOLEAN : last = (Len(callers) = 0)
    OBVIOUS
  <1>5. last => callers = <<>>
    BY <1>3, <1>4, EmptySeq
  <1>6. later \in Seq(Range(later)) /\ OnFrame(class, plan[0], got, rest, NoMessage, later, last, extra)
    BY <1>4 DEF Track, OnTrack
  <1>7. /\ OnFrame(class, plan[0], got, Tail(rest), f, later, last, extra)
        /\ \E q : /\ q.goal = GoalIn(plan[0].goal, caller)
                  /\ OnFrame(ClassOf(f), q, got', rest', NoMessage, later, FALSE, extra)
    <2>1. PICK c, p, g, r, b : c = class /\ p = plan[0] /\ g = got /\ r = rest /\ b = got'
      OBVIOUS
    <2>2. /\ c \in Classes /\ Frame(c, g, r) /\ r # <<>> /\ (last => r # later)
          /\ Head(r).kind # "malformed" /\ f = Into(c, Head(r)) /\ f # NoMessage
          /\ later \in Seq(Range(later))
          /\ OnFrame(c, p, g, r, NoMessage, later, last, extra)
          /\ caller.got = g /\ caller.into = f
          /\ b = IF f = "ri" THEN New ELSE Mutable(g, f)
      BY <1>1, <1>2, <1>3, <1>5, <1>6, <2>1
    <2>3. FrameEntered(c, p, g, r, later, last, extra, f, caller, b)
      BY ONLY <2>2, last \in BOOLEAN, extra \in BOOLEAN, FrameEnters
    <2>4. QED
      BY <1>1, <2>1, <2>3 DEF FrameEntered
  <1>8. PICK q : /\ q.goal = GoalIn(plan[0].goal, caller)
                 /\ OnFrame(class', q, got', rest', NoMessage, later, FALSE, extra)
    BY <1>1, <1>7
  <1>9. IsPushed(callers', caller, callers)
    BY <1>1, <1>3, PushFacts
  <1>10. /\ Len(callers) \in Nat /\ DOMAIN callers = 1 .. Len(callers)
         /\ Len(callers') = Len(callers) + 1 /\ DOMAIN callers' = 1 .. Len(callers) + 1
         /\ callers'[1] = caller
         /\ \A k \in 1 .. Len(callers) : callers'[k + 1] = callers[k]
    BY <1>9 DEF IsPushed
  <1>11. /\ \A k \in 1 .. Len(callers) :
                /\ OnFrame(callers[k].class, plan[k], callers[k].got, callers[k].rest,
                           callers[k].into, later, k = Len(callers), extra)
                /\ plan[k - 1].goal = GoalIn(plan[k].goal, callers[k])
         /\ plan[Len(callers)].goal = m
    BY DEF Track, OnTrack
  <1>12. PICK h : h = [k \in 0 .. Len(callers) + 1 |-> IF k = 0 THEN q ELSE plan[k - 1]]
    OBVIOUS
  <1>13. h[0] = q /\ \A k \in 1 .. Len(callers) + 1 : h[k] = plan[k - 1]
    BY <1>10, <1>12
  <1>14. OnFrame(class', h[0], got', rest', NoMessage, later, Len(callers') = 0, extra)
    <2>1. (Len(callers') = 0) = FALSE
      BY <1>10
    <2>2. QED
      BY <1>8, <1>13, <2>1
  <1>15. ASSUME NEW k \in 1 .. Len(callers) + 1
         PROVE  /\ OnFrame(callers'[k].class, h[k], callers'[k].got, callers'[k].rest,
                           callers'[k].into, later, k = Len(callers'), extra)
                /\ h[k - 1].goal = GoalIn(h[k].goal, callers'[k])
    <2>1. CASE k = 1
      <3>1. h[1] = plan[0] /\ h[k - 1] = q
        BY <1>10, <1>13, <2>1
      <3>2. (k = Len(callers')) = last
        BY <1>4, <1>10, <2>1
      <3>3. h[k - 1].goal = GoalIn(h[k].goal, callers'[k])
        BY <1>8, <1>10, <2>1, <3>1
      <3>4. QED
        BY <1>2, <1>7, <1>10, <2>1, <3>1, <3>2, <3>3
    <2>2. CASE k # 1
      <3>1. k - 1 \in 1 .. Len(callers) /\ (k - 1) + 1 = k
        BY <1>10, <2>2
      <3>2. callers'[k] = callers[k - 1] /\ h[k] = plan[k - 1] /\ h[k - 1] = plan[(k - 1) - 1]
        BY <1>10, <1>13, <3>1
      <3>3. (k = Len(callers')) = (k - 1 = Len(callers))
        BY <1>10, <3>1
      <3>4. QED
        BY <1>11, <3>1, <3>2, <3>3
    <2>3. QED
      BY <2>1, <2>2
  <1>16. h[Len(callers')].goal = m
    <2>1. Len(callers) + 1 \in 1 .. Len(callers) + 1 /\ (Len(callers) + 1) - 1 = Len(callers)
      BY <1>10
    <2>2. QED
      BY <1>10, <1>11, <1>13, <2>1
  <1>17. Track(h, m, later, extra)'
    BY <1>6, <1>10, <1>14, <1>15, <1>16 DEF Track, OnTrack
  <1>18. QED
    BY <1>17

\* and when it returns, one goal is reached and there is one less.
LEMMA TrackLeaves ==
    ASSUME IInv, LeaveMessage, NEW plan, NEW m, NEW later, NEW extra \in BOOLEAN,
           Track(plan, m, later, extra)
    PROVE  \E h : Track(h, m, later, extra)'
  <1>1. PICK caller :
            /\ caller = Head(callers) /\ callers # <<>> /\ rest = <<>>
            /\ class' = caller.class
            /\ got' = IF caller.into = "ri" THEN add_ri(caller.got, got)
                      ELSE Put(caller.got, caller.into, got)
            /\ rest' = caller.rest
            /\ callers' = Tail(callers)
    BY DEF LeaveMessage
  <1>2. /\ callers \in Seq(Range(callers)) /\ class \in Classes /\ Sound(class, got)
        /\ \A k \in DOMAIN callers :
               /\ Frame(callers[k].class, callers[k].got, callers[k].rest)
               /\ IsSub(callers[k].class, callers[k].into)
    BY DEF IInv, CallersWait, Frame
  <1>3. /\ caller = callers[1] /\ Len(callers) \in Nat \ {0} /\ DOMAIN callers = 1 .. Len(callers)
        /\ callers' \in Seq(Range(callers)) /\ Len(callers') = Len(callers) - 1
        /\ DOMAIN callers' = 1 .. Len(callers) - 1
        /\ \A k \in 1 .. Len(callers) - 1 : callers'[k] = callers[k + 1]
    <2>1. /\ Head(callers) = callers[1] /\ Tail(callers) \in Seq(Range(callers))
          /\ Len(callers) \in Nat \ {0} /\ Len(Tail(callers)) = Len(callers) - 1
          /\ \A k \in 1 .. Len(callers) - 1 : Tail(callers)[k] = callers[k + 1]
      BY <1>1, <1>2, ItemsOfSeq
    <2>2. QED
      BY <1>1, <1>2, <2>1, LenProperties
  <1>4. /\ later \in Seq(Range(later))
        /\ OnFrame(class, plan[0], got, rest, NoMessage, later, Len(callers) = 0, extra)
        /\ \A k \in 1 .. Len(callers) :
               /\ OnFrame(callers[k].class, plan[k], callers[k].got, callers[k].rest,
                          callers[k].into, later, k = Len(callers), extra)
               /\ plan[k - 1].goal = GoalIn(plan[k].goal, callers[k])
        /\ plan[Len(callers)].goal = m
    BY DEF Track, OnTrack
  <1>5. got = plan[0].goal
    <2>1. PICK last \in BOOLEAN : last = (Len(callers) = 0)
      OBVIOUS
    <2>2. PICK p, r : p = plan[0] /\ r = rest
      OBVIOUS
    <2>3. OnFrame(class, p, got, r, NoMessage, later, last, extra) /\ ~ last /\ r = <<>>
      BY <1>1, <1>3, <1>4, <2>1, <2>2
    <2>4. got = p.goal
      BY <1>2, <1>4, <2>3, FrameMade
    <2>5. QED
      BY <2>2, <2>4
  <1>6. PICK last \in BOOLEAN : last = (1 = Len(callers))
    OBVIOUS
  <1>7. /\ 1 \in 1 .. Len(callers) /\ 1 - 1 = 0
        /\ OnFrame(caller.class, plan[1], caller.got, caller.rest, caller.into, later, last, extra)
        /\ got = GoalIn(plan[1].goal, caller)
    <2>1. 1 \in 1 .. Len(callers) /\ 1 - 1 = 0
      BY <1>3
    <2>2. /\ OnFrame(callers[1].class, plan[1], callers[1].got, callers[1].rest,
                     callers[1].into, later, 1 = Len(callers), extra)
          /\ plan[1 - 1].goal = GoalIn(plan[1].goal, callers[1])
      BY <1>4, <2>1
    <2>3. plan[1 - 1] = plan[0]
      BY <2>1
    <2>4. QED
      BY <1>3, <1>5, <1>6, <2>1, <2>2, <2>3
  <1>8. /\ Sound(caller.class, caller.got) /\ caller.class \in Classes
        /\ IsSub(caller.class, caller.into)
    BY <1>2, <1>3, <1>7 DEF Frame
  <1>9. OnFrame(class', plan[1], got', rest', NoMessage, later, last, extra)
    BY <1>1, <1>7, <1>8, FrameLeaves
  <1>10. last = (Len(callers') = 0)
    BY <1>3, <1>6
  <1>11. PICK h : h = [k \in 0 .. Len(callers) - 1 |-> plan[k + 1]]
    OBVIOUS
  <1>12. \A k \in 0 .. Len(callers) - 1 : h[k] = plan[k + 1]
    BY <1>3, <1>11
  <1>13. h[0] = plan[1]
    BY <1>3, <1>12
  <1>14. ASSUME NEW k \in 1 .. Len(callers) - 1
         PROVE  /\ OnFrame(callers'[k].class, h[k], callers'[k].got, callers'[k].rest,
                           callers'[k].into, later, k = Len(callers'), extra)
                /\ h[k - 1].goal = GoalIn(h[k].goal, callers'[k])
    <2>1. k + 1 \in 1 .. Len(callers) /\ (k - 1) + 1 = k /\ (k + 1) - 1 = k
          /\ k \in 0 .. Len(callers) - 1 /\ k - 1 \in 0 .. Len(callers) - 1
      BY <1>3
    <2>2. callers'[k] = callers[k + 1] /\ h[k] = plan[k + 1] /\ h[k - 1] = plan[k]
      BY <1>3, <1>12, <2>1
    <2>3. (k = Len(callers')) = (k + 1 = Len(callers))
      BY <1>3
    <2>4. QED
      BY <1>4, <2>1, <2>2, <2>3
  <1>15. h[Len(callers')].goal = m
    <2>1. Len(callers) - 1 \in 0 .. Len(callers) - 1 /\ (Len(callers) - 1) + 1 = Len(callers)
      BY <1>3
    <2>2. QED
      BY <1>3, <1>4, <1>12, <2>1
  <1>16. Track(h, m, later, extra)'
    BY <1>3, <1>4, <1>9, <1>10, <1>13, <1>14, <1>15 DEF Track, OnTrack
  <1>17. QED
    BY <1>16

--------------------------------------------------------------------------------
(* One message is read to its end, and then the one that may follow it.        *)

\* What the peer is to read as it was sent, whatever its version is.
Faithful == {"asSent", "reordered", "extended"}

\* The readers are about what was sent; if another message follows, it is later than that,
\* until nothing but that is left: then they are about the two messages in one.
ReadingOne == \E plan : Track(plan, sent, <<>>, TRUE)
ReadingFirst == \E plan : Track(plan, sent, Serialize(type, more), FALSE)
ReadingBoth == \E plan : Track(plan, MergeFrom(type, sent, more), <<>>, FALSE)

TrackInv ==
    /\ sent \in Sendable[type]
    /\ status = "built" => got = New
    /\ status = "reading" /\ how \in Faithful => ReadingOne
    /\ how = "followed" => Plain(type, more) /\ (type = "ShowInfo" => IsInitialized(type, more))
    /\ status = "reading" /\ how = "followed" => ReadingFirst \/ ReadingBoth
    /\ WhatIsSentIsRead
    /\ ReadingTwiceMerges

\* What is empty is a sequence of anything.
LEMMA NothingLater == <<>> \in Seq(Range(<<>>)) /\ \A w : w \o <<>> = w
  BY EmptySeq, ConcatEmptySeq

\* The last reader that is about m has made it when it is through with its own wire.
LEMMA TrackMade ==
    ASSUME IInv, callers = <<>>, NEW plan, NEW m, NEW later, rest = later,
           Track(plan, m, later, FALSE)
    PROVE  got = m
  <1>1. class \in Classes /\ Sound(class, got) /\ Len(callers) = 0
    BY EmptySeq DEF IInv, Frame
  <1>2. PICK last \in BOOLEAN : last = (Len(callers) = 0)
    OBVIOUS
  <1>3. PICK no \in BOOLEAN : no = FALSE
    OBVIOUS
  <1>4. PICK c, p, g, r : c = class /\ p = plan[0] /\ g = got /\ r = rest
    OBVIOUS
  <1>5. /\ later \in Seq(Range(later))
        /\ OnFrame(c, p, g, r, NoMessage, later, last, no)
        /\ plan[Len(callers)].goal = m
    BY <1>2, <1>3, <1>4 DEF Track, OnTrack
  <1>6. last /\ ~ (no /\ last) /\ p.goal = m
    BY <1>1, <1>2, <1>3, <1>4, <1>5
  <1>7. c \in Classes /\ Sound(c, g) /\ r = IF last THEN later ELSE <<>>
    BY <1>1, <1>4, <1>6
  <1>8. g = p.goal
    BY ONLY <1>5, <1>6, <1>7, last \in BOOLEAN, no \in BOOLEAN, FrameMade
  <1>9. QED
    BY <1>4, <1>6, <1>8

\* No reader meets an item it has to refuse before it is through with its own wire.
LEMMA TrackMeets ==
    ASSUME IInv, NEW plan, NEW m, NEW later, NEW extra \in BOOLEAN,
           Track(plan, m, later, extra), rest # <<>>, callers = <<>> => rest # later
    PROVE  Head(rest).kind # "malformed"
  <1>1. callers \in Seq(Range(callers))
    BY DEF IInv, CallersWait
  <1>2. PICK last \in BOOLEAN : last = (Len(callers) = 0)
    OBVIOUS
  <1>3. PICK c, p, g, r : c = class /\ p = plan[0] /\ g = got /\ r = rest
    OBVIOUS
  <1>4. /\ later \in Seq(Range(later))
        /\ OnFrame(c, p, g, r, NoMessage, later, last, extra)
    BY <1>2, <1>3 DEF Track, OnTrack
  <1>5. r # <<>> /\ (last => r # later)
    BY <1>1, <1>2, <1>3, EmptySeq
  <1>6. Head(r).kind # "malformed"
    BY ONLY <1>4, <1>5, last \in BOOLEAN, extra \in BOOLEAN, FrameMeets
  <1>7. QED
    BY <1>3, <1>6

\* A step of the readers leaves them on their way.
LEMMA TrackSteps ==
    ASSUME IInv, ReadField \/ EnterMessage \/ LeaveMessage,
           NEW plan, NEW m, NEW later, NEW extra \in BOOLEAN,
           Track(plan, m, later, extra), callers = <<>> => rest # later
    PROVE  \E h : Track(h, m, later, extra)'
  <1>1. CASE ReadField
    BY <1>1, TrackReads
  <1>2. CASE EnterMessage
    BY <1>2, TrackEnters
  <1>3. CASE LeaveMessage
    BY <1>3, TrackLeaves
  <1>4. QED
    BY <1>1, <1>2, <1>3

\* The first of two messages has been made: the reader goes on into the same object.
LEMMA SecondBegins ==
    ASSUME IInv, TrackInv, how = "followed", callers = <<>>, ReadingFirst,
           rest = Serialize(type, more)
    PROVE  ReadingBoth
  <1>1. /\ class = type /\ type \in MessageType /\ class \in Classes
        /\ rest \in Seq(Items(Arriving, class))
        /\ Plain(type, sent) /\ Plain(type, more)
    BY SendablePlain DEF IInv, Frame, CallersWait, TrackInv
  <1>2. PICK m, later : m = sent /\ later = Serialize(type, more)
    OBVIOUS
  <1>3. PICK plan : Track(plan, m, later, FALSE)
    BY <1>2 DEF ReadingFirst
  <1>4. got = sent
    BY <1>2, <1>3, TrackMade
  <1>5. PICK t, a, b, w, both : /\ t = type /\ a = sent /\ b = more /\ w = rest
                                /\ both = MergeFrom(t, a, b)
    OBVIOUS
  <1>6. t \in MessageType /\ Plain(t, a) /\ Plain(t, b) /\ w = Serialize(t, b)
    BY <1>1, <1>5
  <1>7. OnTheWay(t, MergeFrom(t, a, b), b, a, w, NoMessage, FALSE)
    BY ONLY <1>6, Continues
  <1>8. PICK no \in BOOLEAN : no = FALSE
    OBVIOUS
  <1>9. /\ t \in Classes /\ w \in Seq(Items(Arriving, t))
        /\ OnTheWay(t, both, b, a, w, NoMessage, no)
        /\ <<>> \in Seq(Range(<<>>))
    BY <1>1, <1>5, <1>7, <1>8, NothingLater
  <1>10. \E h : OnTrack(h, t, a, w \o <<>>, <<>>, both, <<>>, no)
    BY ONLY <1>9, no \in BOOLEAN, TrackBegins
  <1>11. PICK h : OnTrack(h, class, got, rest, callers, MergeFrom(type, sent, more), <<>>, FALSE)
    BY <1>1, <1>4, <1>5, <1>8, <1>10, NothingLater
  <1>12. QED
    BY <1>11 DEF ReadingBoth, Track

\* So a step of the readers of a single message is about that one,
LEMMA OneSteps ==
    ASSUME IInv, ReadingOne, ReadField \/ EnterMessage \/ LeaveMessage
    PROVE  ReadingOne'
  <1>1. sent' = sent /\ (callers = <<>> => rest # <<>>)
    BY DEF ReadField, EnterMessage, LeaveMessage, message
  <1>2. PICK m, later : m = sent /\ later = <<>>
    OBVIOUS
  <1>3. PICK yes \in BOOLEAN : yes = TRUE
    OBVIOUS
  <1>4. PICK plan : Track(plan, m, later, yes)
    BY <1>2, <1>3 DEF ReadingOne
  <1>5. PICK h : Track(h, m, later, yes)'
    BY <1>1, <1>2, <1>4, TrackSteps
  <1>6. QED
    BY <1>1, <1>2, <1>3, <1>5 DEF ReadingOne, Track

\* one of the readers of both messages is about both,
LEMMA BothStep ==
    ASSUME IInv, ReadingBoth, ReadField \/ EnterMessage \/ LeaveMessage
    PROVE  ReadingBoth'
  <1>1. UNCHANGED <<type, sent, more>> /\ (callers = <<>> => rest # <<>>)
    BY DEF ReadField, EnterMessage, LeaveMessage, message
  <1>2. PICK m, later : m = MergeFrom(type, sent, more) /\ later = <<>>
    OBVIOUS
  <1>3. PICK no \in BOOLEAN : no = FALSE
    OBVIOUS
  <1>4. PICK plan : Track(plan, m, later, no)
    BY <1>2, <1>3 DEF ReadingBoth
  <1>5. PICK h : Track(h, m, later, no)'
    BY <1>1, <1>2, <1>4, TrackSteps
  <1>6. MergeFrom(type, sent, more)' = m
    BY <1>1, <1>2
  <1>7. QED
    BY <1>2, <1>3, <1>5, <1>6 DEF ReadingBoth, Track

\* and one of the readers of the first is about the first, or both.
LEMMA FirstSteps ==
    ASSUME IInv, TrackInv, how = "followed", ReadingFirst,
           ReadField \/ EnterMessage \/ LeaveMessage
    PROVE  (ReadingFirst \/ ReadingBoth)'
  <1>1. UNCHANGED <<type, sent, more>>
    BY DEF ReadField, EnterMessage, LeaveMessage, message
  <1>2. CASE callers = <<>> /\ rest = Serialize(type, more)
    BY <1>2, SecondBegins, BothStep
  <1>3. CASE callers = <<>> => rest # Serialize(type, more)
    <2>1. PICK m, later : m = sent /\ later = Serialize(type, more)
      OBVIOUS
    <2>2. PICK no \in BOOLEAN : no = FALSE
      OBVIOUS
    <2>3. PICK plan : Track(plan, m, later, no)
      BY <2>1, <2>2 DEF ReadingFirst
    <2>4. PICK h : Track(h, m, later, no)'
      BY <1>3, <2>1, <2>3, TrackSteps
    <2>5. sent' = m /\ Serialize(type, more)' = later
      BY <1>1, <2>1
    <2>6. QED
      BY <2>2, <2>4, <2>5 DEF ReadingFirst, Track
  <1>4. QED
    BY <1>2, <1>3

\* No reader of what the program sends meets anything it has to refuse.
LEMMA TrackFails ==
    ASSUME IInv, TrackInv, Fail
    PROVE  how \notin Faithful /\ how # "followed"
  <1>1. status = "reading" /\ rest # <<>> /\ Head(rest).kind = "malformed"
    BY DEF Fail
  <1>2. ASSUME NEW plan, NEW m, NEW later, NEW extra \in BOOLEAN, Track(plan, m, later, extra)
        PROVE  callers = <<>> /\ rest = later
    BY <1>1, <1>2, TrackMeets
  <1>3. PICK yes \in BOOLEAN, no \in BOOLEAN : yes = TRUE /\ no = FALSE
    OBVIOUS
  <1>4. ~ ReadingOne
    BY <1>1, <1>2, <1>3 DEF ReadingOne
  <1>5. ~ ReadingBoth
    <2>1. SUFFICES ASSUME NEW plan, Track(plan, MergeFrom(type, sent, more), <<>>, FALSE)
                   PROVE  FALSE
      BY DEF ReadingBoth
    <2>2. PICK m : m = MergeFrom(type, sent, more)
      OBVIOUS
    <2>3. Track(plan, m, <<>>, no)
      BY <1>3, <2>1, <2>2
    <2>4. QED
      BY <1>1, <1>2, <2>3
  <1>6. how = "followed" => ~ ReadingFirst
    <2>1. SUFFICES ASSUME how = "followed", NEW plan,
                          Track(plan, sent, Serialize(type, more), FALSE)
                   PROVE  FALSE
      BY DEF ReadingFirst
    <2>2. PICK m, later : m = sent /\ later = Serialize(type, more)
      OBVIOUS
    <2>3. Track(plan, m, later, no)
      BY <1>3, <2>1, <2>2
    <2>4. callers = <<>> /\ rest = Serialize(type, more)
      BY <1>2, <2>2, <2>3
    <2>5. ReadingFirst
      BY <2>1 DEF ReadingFirst
    <2>6. QED
      BY <1>5, <2>1, <2>4, <2>5, SecondBegins
  <1>7. QED
    BY <1>1, <1>4, <1>5, <1>6 DEF TrackInv

\* At the end it is the message that was sent, and it is accepted.
LEMMA TrackEnds ==
    ASSUME IInv, TrackInv, Finish
    PROVE  WhatIsSentIsRead'
  <1>1. /\ status = "reading" /\ rest = <<>> /\ callers = <<>>
        /\ status' = IF IsInitialized(type, got) THEN "delivered" ELSE "refused"
        /\ UNCHANGED <<type, sent, how, got>>
    BY DEF Finish, message
  <1>2. SUFFICES ASSUME how \in Faithful PROVE IsInitialized(type, got) /\ Forget(got) = sent
    BY <1>1 DEF WhatIsSentIsRead, Faithful, Forget
  <1>3. PICK plan : Track(plan, sent, <<>>, TRUE)
    BY <1>1, <1>2 DEF TrackInv, ReadingOne
  <1>4. /\ type \in MessageType /\ class = type /\ Sound(type, got) /\ sent \in Sendable[type]
    BY <1>1 DEF IInv, CallersWait, Frame, TrackInv
  <1>5. Len(callers) = 0
    BY <1>1, EmptySeq
  <1>6. PICK last \in BOOLEAN, yes \in BOOLEAN : last = (Len(callers) = 0) /\ yes = TRUE
    OBVIOUS
  <1>7. /\ last /\ yes /\ plan[0].goal = sent
        /\ OnFrame(type, plan[0], got, <<>>, NoMessage, <<>>, last, yes)
    BY <1>1, <1>3, <1>4, <1>5, <1>6 DEF Track, OnTrack
  <1>8. PICK own : /\ OnTheWay(type, sent, plan[0].says, got, own, NoMessage, yes /\ last)
                   /\ <<>> = IF last THEN own \o <<>> ELSE own
    BY <1>7 DEF OnFrame
  <1>9. own = <<>> /\ (yes /\ last) = TRUE
    BY <1>7, <1>8, NothingLater
  <1>10. OnTheWay(type, sent, plan[0].says, got, <<>>, NoMessage, TRUE)
    BY <1>8, <1>9
  <1>11. IsInitialized(type, sent)
    BY <1>4, SendableInitialized
  <1>12. QED
    BY <1>4, <1>10, <1>11, Ends

\* At the end of two it is the two in one, and that is accepted.
LEMMA BothEnd ==
    ASSUME IInv, TrackInv, Finish
    PROVE  ReadingTwiceMerges'
  <1>1. /\ status = "reading" /\ rest = <<>> /\ callers = <<>>
        /\ status' = IF IsInitialized(type, got) THEN "delivered" ELSE "refused"
        /\ UNCHANGED <<type, sent, more, how, got>>
    BY DEF Finish, message
  <1>2. SUFFICES ASSUME how = "followed"
                 PROVE  IsInitialized(type, got) /\ got = MergeFrom(type, sent, more)
    BY <1>1 DEF ReadingTwiceMerges
  <1>3. /\ type \in MessageType /\ class = type /\ sent \in Sendable[type]
        /\ Plain(type, sent) /\ Plain(type, more)
        /\ type = "ShowInfo" => IsInitialized(type, more)
    BY <1>1, <1>2, SendablePlain DEF IInv, CallersWait, TrackInv
  <1>4. ReadingFirst => ReadingBoth
    <2>1. SUFFICES ASSUME ReadingFirst PROVE rest = Serialize(type, more)
      BY <1>1, <1>2, SecondBegins
    <2>2. PICK later : later = Serialize(type, more)
      OBVIOUS
    <2>3. PICK plan : Track(plan, sent, later, FALSE)
      BY <2>1, <2>2 DEF ReadingFirst
    <2>4. Len(callers) = 0
      BY <1>1, EmptySeq
    <2>5. PICK last \in BOOLEAN : last = (Len(callers) = 0)
      OBVIOUS
    <2>6. last /\ later \in Seq(Range(later))
          /\ OnFrame(class, plan[0], got, <<>>, NoMessage, later, last, FALSE)
      BY <1>1, <2>3, <2>4, <2>5 DEF Track, OnTrack
    <2>7. PICK own \in Seq(Items(Arriving, class)) : <<>> = IF last THEN own \o later ELSE own
      BY <2>6 DEF OnFrame
    <2>8. own \o later = <<>>
      BY <2>6, <2>7
    <2>9. own = <<>>
      BY <2>6, <2>8, OwnFirst
    <2>10. own \o later = later
      BY <2>6, <2>9, OwnFirst
    <2>11. QED
      BY <1>1, <2>2, <2>8, <2>10
  <1>5. PICK m : m = MergeFrom(type, sent, more)
    OBVIOUS
  <1>6. PICK plan : Track(plan, m, <<>>, FALSE)
    BY <1>1, <1>2, <1>4, <1>5 DEF TrackInv, ReadingBoth
  <1>7. got = m
    BY <1>1, <1>6, TrackMade
  <1>8. IsInitialized(type, MergeFrom(type, sent, more))
    <2>1. PICK t, a, b : t = type /\ a = sent /\ b = more
      OBVIOUS
    <2>2. /\ t \in MessageType /\ Plain(t, a) /\ Plain(t, b) /\ IsInitialized(t, a)
          /\ t = "ShowInfo" => IsInitialized(t, b)
          /\ t = "boardAns" => Has(a, "g")
      BY <1>3, <2>1, SendableInitialized, AnswerHasBoard
    <2>3. IsInitialized(t, MergeFrom(t, a, b))
      BY ONLY <2>2, MergedInitialized
    <2>4. QED
      BY <2>1, <2>3
  <1>9. QED
    BY <1>5, <1>7, <1>8

\* That holds at the beginning,
LEMMA InitTrack == Init => TrackInv
  BY DEF Init, TrackInv, WhatIsSentIsRead, ReadingTwiceMerges, Faithful

\* What reaches the peer as it was sent, or nearly, is on its way into an empty object.
LEMMA OneBegins ==
    ASSUME IInv, TrackInv, status = "built", UNCHANGED <<type, sent, class, got, callers>>,
           rest' \in Seq(Items(Arriving, type)),
           OnTheWay(type, sent, sent, New, rest', NoMessage, TRUE)
    PROVE  ReadingOne'
  <1>1. callers = <<>> /\ class = type /\ got = New /\ class \in Classes
    BY DEF IInv, Frame, CallersWait, TrackInv
  <1>2. PICK c, m, g, w : c = type /\ m = sent /\ g = New /\ w = rest'
    OBVIOUS
  <1>3. PICK yes \in BOOLEAN : yes = TRUE
    OBVIOUS
  <1>4. /\ c \in Classes /\ w \in Seq(Items(Arriving, c))
        /\ OnTheWay(c, m, m, g, w, NoMessage, yes)
        /\ <<>> \in Seq(Range(<<>>))
    BY <1>1, <1>2, <1>3, NothingLater
  <1>5. \E h : OnTrack(h, c, g, w \o <<>>, <<>>, m, <<>>, yes)
    BY ONLY <1>4, yes \in BOOLEAN, TrackBegins
  <1>6. PICK h : OnTrack(h, class', got', rest', callers', sent', <<>>, TRUE)
    BY <1>1, <1>2, <1>3, <1>5, NothingLater
  <1>7. QED
    BY <1>6 DEF ReadingOne, Track

\* So is the first of two, with the second after it.
LEMMA FirstBegins ==
    ASSUME IInv, TrackInv, Followed
    PROVE  TrackInv'
  <1>1. /\ status = "built" /\ status' = "reading" /\ how' = "followed"
        /\ UNCHANGED <<type, sent, class, got, callers>>
        /\ rest' = Serialize(type, sent) \o Serialize(type, more')
    BY DEF Followed, Arrive
  <1>2. /\ callers = <<>> /\ class = type /\ got = New /\ class \in Classes
        /\ type \in MessageType /\ sent \in Sendable[type] /\ Plain(type, sent)
    BY <1>1, SendablePlain DEF IInv, Frame, CallersWait, TrackInv
  <1>3. Plain(type, more') /\ (type = "ShowInfo" => IsInitialized(type, more'))
    <2>1. PICK m, n : m = (CHOOSE x \in Sendable[type] : TRUE) /\ n = more'
      OBVIOUS
    <2>2. m \in Sendable[type]
      BY <1>2, <2>1
    <2>3. n \in {m} \cup Thinned(type, m)
      BY <2>1 DEF Followed
    <2>4. QED
      BY <1>2, <2>1, <2>2, <2>3, FollowedBy
  <1>4. PICK t, m, g, own, later : /\ t = type /\ m = sent /\ g = New
                                   /\ own = Serialize(type, sent)
                                   /\ later = Serialize(type, more')
    OBVIOUS
  <1>5. PICK no \in BOOLEAN : no = FALSE
    OBVIOUS
  <1>6. OnTheWay(t, m, m, g, own, NoMessage, no)
    <2>1. t \in MessageType /\ Plain(t, m) /\ own = Serialize(t, m)
      BY <1>2, <1>4
    <2>2. OnTheWay(t, m, m, New, own, NoMessage, no)
      BY ONLY <2>1, no \in BOOLEAN, Starts
    <2>3. QED
      BY <1>4, <2>2
  <1>7. own \in Seq(Items(Arriving, t)) /\ later \in Seq(Range(later)) /\ t \in Classes
    <2>1. own \in Seq(Items(Arriving, t)) /\ later \in Seq(Items(Arriving, t))
      BY <1>2, <1>3, <1>4, WhatAnyoneSends
    <2>2. QED
      BY <1>2, <1>4, <2>1, SeqOfRange
  <1>8. \E h : OnTrack(h, t, g, own \o later, <<>>, m, later, no)
    BY ONLY <1>6, <1>7, no \in BOOLEAN, TrackBegins
  <1>9. PICK h : OnTrack(h, class', got', rest', callers', sent', Serialize(type', more'), FALSE)
    BY <1>1, <1>2, <1>4, <1>5, <1>8
  <1>10. ReadingFirst'
    BY <1>9 DEF ReadingFirst, Track
  <1>11. QED
    BY <1>1, <1>2, <1>3, <1>10 DEF TrackInv, WhatIsSentIsRead, ReadingTwiceMerges, Faithful

\* and after every step.
LEMMA NextTrack == ASSUME IInv, TrackInv, [Next]_vars PROVE TrackInv'
  <1>1. /\ type \in MessageType /\ sent \in Sendable[type] /\ Plain(type, sent)
    BY SendablePlain DEF IInv, TrackInv
  <1> DEFINE w == Serialize(type, sent)
  <1>2. /\ OnTheWay(type, sent, sent, New, w, NoMessage, TRUE)
        /\ type # "ShowInfo" => OnTheWay(type, sent, sent, New, Reverse(w), NoMessage, TRUE)
        /\ \A k \in 1 .. Len(w) + 1 :
               OnTheWay(type, sent, sent, New, InsertAt(w, k, Unheard), NoMessage, TRUE)
    <2>1. PICK t, m, v : t = type /\ m = sent /\ v = Serialize(t, m)
      OBVIOUS
    <2>2. PICK yes \in BOOLEAN : yes = TRUE
      OBVIOUS
    <2>3. t \in MessageType /\ Plain(t, m) /\ yes
      BY <1>1, <2>1, <2>2
    <2>4. /\ OnTheWay(t, m, m, New, v, NoMessage, yes)
          /\ t # "ShowInfo" => OnTheWay(t, m, m, New, Reverse(v), NoMessage, yes)
          /\ yes => \A k \in 1 .. Len(v) + 1 :
                        OnTheWay(t, m, m, New, InsertAt(v, k, Unheard), NoMessage, yes)
      BY ONLY <2>1, <2>3, yes \in BOOLEAN, Starts
    <2>5. QED
      BY <2>1, <2>2, <2>3, <2>4
  <1>3. /\ w \in Seq(Items(Arriving, type))
        /\ Reverse(w) \in Seq(Items(Arriving, type))
        /\ \A k \in 1 .. Len(w) + 1 : InsertAt(w, k, Unheard) \in Seq(Items(Arriving, type))
    BY <1>1, PlainWritten, WireArrives
  <1> HIDE DEF w
  <1>4. CASE AsSent \/ Reordered \/ Extended
    <2>1. /\ status = "built" /\ status' = "reading" /\ how' \in Faithful
          /\ UNCHANGED <<type, sent, class, got, callers>>
          /\ rest' \in Seq(Items(Arriving, type))
          /\ OnTheWay(type, sent, sent, New, rest', NoMessage, TRUE)
      <3>1. CASE AsSent
        BY <1>2, <1>3, <3>1 DEF AsSent, Arrive, Faithful, w
      <3>2. CASE Reordered
        BY <1>2, <1>3, <3>2 DEF Reordered, Arrive, Faithful, w
      <3>3. CASE Extended
        BY <1>2, <1>3, <3>3 DEF Extended, Arrive, Faithful, w
      <3>4. QED
        BY <1>4, <3>1, <3>2, <3>3
    <2>2. ReadingOne'
      BY <2>1, OneBegins
    <2>3. QED
      BY <1>1, <2>1, <2>2 DEF TrackInv, WhatIsSentIsRead, ReadingTwiceMerges, Faithful
  <1>5. CASE OtherVersion \/ OfInfoProto
    <2>1. /\ how' \in {"damaged", "infoProto"} /\ status = "built" /\ status' = "reading"
          /\ UNCHANGED <<type, sent>>
      BY <1>5 DEF OtherVersion, OfInfoProto, Arrive
    <2>2. QED
      BY <1>1, <2>1 DEF TrackInv, WhatIsSentIsRead, ReadingTwiceMerges, Faithful
  <1>6. CASE Followed
    BY <1>6, FirstBegins
  <1>7. CASE ReadField \/ EnterMessage \/ LeaveMessage
    <2>1. /\ status = "reading" /\ status' = "reading" /\ UNCHANGED <<type, sent, more, how>>
      BY <1>7 DEF ReadField, EnterMessage, LeaveMessage, message
    <2>2. how \in Faithful => ReadingOne'
      BY <1>7, <2>1, OneSteps DEF TrackInv
    <2>3. how = "followed" => (ReadingFirst \/ ReadingBoth)'
      <3>1. SUFFICES ASSUME how = "followed" PROVE (ReadingFirst \/ ReadingBoth)'
        OBVIOUS
      <3>2. ReadingFirst \/ ReadingBoth
        BY <2>1, <3>1 DEF TrackInv
      <3>3. QED
        BY <1>7, <3>1, <3>2, FirstSteps, BothStep
    <2>4. QED
      BY <2>1, <2>2, <2>3 DEF TrackInv, WhatIsSentIsRead, ReadingTwiceMerges
  <1>8. CASE Fail
    <2>1. status = "reading" /\ status' = "refused" /\ UNCHANGED <<type, sent, more, how>>
      BY <1>8 DEF Fail, message
    <2>2. how \notin Faithful /\ how # "followed"
      BY <1>8, TrackFails
    <2>3. QED
      BY <2>1, <2>2 DEF TrackInv, WhatIsSentIsRead, ReadingTwiceMerges, Faithful
  <1>9. CASE Finish
    <2>1. /\ status = "reading" /\ status' \in {"delivered", "refused"}
          /\ UNCHANGED <<type, sent, more, how>>
      BY <1>9 DEF Finish, message
    <2>2. WhatIsSentIsRead' /\ ReadingTwiceMerges'
      BY <1>9, TrackEnds, BothEnd
    <2>3. QED
      BY <2>1, <2>2 DEF TrackInv
  <1>10. CASE UNCHANGED vars
    BY <1>10 DEF vars, message, TrackInv, ReadingOne, ReadingFirst, ReadingBoth, Track,
                 WhatIsSentIsRead, ReadingTwiceMerges
  <1>11. QED
    BY <1>4, <1>5, <1>6, <1>7, <1>8, <1>9, <1>10 DEF Next

\* Every reader is on its way to what the sender meant, be it one message or two.
THEOREM ReadersAreOnTheirWay == Spec => []TrackInv
  <1>1. IInv /\ TrackInv /\ [Next]_vars => TrackInv'
    BY NextTrack
  <1>2. QED
    BY <1>1, InitTrack, ReadersAreSound, PTL DEF Spec

\* Every message that one of the program's places sends is accepted by the peer, and says to
\* it what it said to the sender: as it was written, with its fields in another order, and
\* with a field of a later version anywhere among them.
THEOREM WhatIsSentIsUnderstood == Spec => []WhatIsSentIsRead
  <1>1. TrackInv => WhatIsSentIsRead
    BY DEF TrackInv
  <1>2. QED
    BY <1>1, ReadersAreOnTheirWay, PTL

\* Reading a message, and a second one of the class that may lack fields, into one object is
\* what MergeFrom makes of the two: the readers and MergeFrom set and add the same fields, at
\* every depth.
THEOREM ReadingTwice == Spec => []ReadingTwiceMerges
  <1>1. TrackInv => ReadingTwiceMerges
    BY DEF TrackInv
  <1>2. QED
    BY <1>1, ReadersAreOnTheirWay, PTL

================================================================================
