--------------------------- MODULE ProtobufCodecProofs ---------------------------
(***************************************************************************)
(* Theorems about ProtobufCodec, for every header length, every set of     *)
(* items and every way the bytes are cut up.                               *)
(*                                                                         *)
(* The reader knows a number of bytes, the specification speaks of items.  *)
(* What joins the two is Layout: the items lie one behind the other and    *)
(* none is empty, so no two begin at the same byte, and the one that       *)
(* begins where the reader stands is the first it has not handled.         *)
(***************************************************************************)
EXTENDS ProtobufCodec, TLAPS

Entry == [item : Item, at : Nat]

\* Where an item ends, and where the first item not yet handled begins.
EndOf(k) == stream[k].at + kHeaderLen + stream[k].item.size

Layout ==
    /\ stream = <<>> => written = 0
    /\ stream # <<>> => stream[1].at = 0 /\ EndOf(Len(stream)) = written
    /\ \A k \in DOMAIN stream : EndOf(k) <= written
    /\ \A j, k \in DOMAIN stream : j < k => EndOf(j) <= stream[k].at
    /\ \A k \in DOMAIN stream : k + 1 \in DOMAIN stream => stream[k + 1].at = EndOf(k)

\* What was handled is what was sent first, and all of it readable.
HandledFirst ==
    /\ Len(handled) <= Len(stream)
    /\ \A k \in DOMAIN handled : handled[k] = stream[k].item /\ Good(handled[k])

\* An error was found in the first item not handled, and would be found again.
ErrorStands ==
    error # "kNoError" =>
        /\ Len(handled) < Len(stream)
        /\ Readable
        /\ LET i == stream[Len(handled) + 1].item
           IN  \/ ~ ValidLength(i) /\ error = "kInvalidLength"
               \/ ValidLength(i) /\ Whole(i) /\ error = parse(i)

\* The connection is not closed under a running loop.
OpenInLoop == inLoop => conn # "closed"

IInv ==
    /\ TypeOK
    /\ OpenInLoop
    /\ Layout
    /\ HandledFirst
    /\ InStep
    /\ NoFrameLeftBehind
    /\ ErrorStands

--------------------------------------------------------------------------------

\* parse stores one of the errors, and looks at nothing but the item.
LEMMA ParseType ==
    ASSUME NEW i
    PROVE  parse(i) \in {"kNoError", "kCheckSumError", "kInvalidNameLen",
                         "kUnknownMessageType", "kParseError"}
BY DEF parse

\* The assumptions on items, one by one.
LEMMA ItemFacts ==
    ASSUME NEW i \in Item
    PROVE  /\ i.len \in Int /\ i.size \in Nat
           /\ kHeaderLen \in Nat \ {0} /\ kMinMessageLen \in Nat
           /\ i.size >= kMinMessageLen
           /\ ValidLength(i) => i.len = i.size
BY CodecAssumption DEF Frame, ValidLength, kMinMessageLen

LEMMA AtMost == \A a, b \in Nat : a <= b => a < b \/ a = b
OBVIOUS

\* The item found at the front of the buffer is the first that was not handled.
LEMMA FrontIsNext ==
    ASSUME TypeOK, Layout, HandledFirst, InStep,
           NEW k \in DOMAIN stream, Front(k)
    PROVE  k = Len(handled) + 1 /\ Len(handled) < Len(stream)
<1> DEFINE n == Len(handled)
<1>1. /\ stream \in Seq(Entry) /\ n \in Nat /\ Len(stream) \in Nat /\ n <= Len(stream)
      /\ DOMAIN stream = 1 .. Len(stream) /\ written \in Nat
  BY DEF TypeOK, HandledFirst, Entry
<1>2. \A j \in DOMAIN stream : stream[j].at \in Nat /\ stream[j].item \in Item
                               /\ EndOf(j) \in Nat /\ EndOf(j) > stream[j].at
  <2> SUFFICES ASSUME NEW j \in DOMAIN stream
               PROVE  stream[j].at \in Nat /\ stream[j].item \in Item
                      /\ EndOf(j) \in Nat /\ EndOf(j) > stream[j].at
    OBVIOUS
  <2>1. stream[j] \in Entry
    BY <1>1
  <2>2. stream[j].at \in Nat /\ stream[j].item \in Item
    BY <2>1 DEF Entry
  <2>3. QED
    BY <2>2, ItemFacts DEF EndOf
<1>3. n < Len(stream)
  <2>1. SUFFICES ASSUME n = Len(stream) PROVE FALSE
    BY <1>1
  <2>2. retrieved = written
    BY <2>1 DEF InStep
  <2>3. EndOf(k) <= written
    BY DEF Layout
  <2>4. QED
    BY <1>1, <1>2, <2>2, <2>3 DEF Front
<1>4. stream[n + 1].at = stream[k].at /\ n + 1 \in DOMAIN stream
  BY <1>1, <1>3 DEF InStep, Front
<1>5. ~ k < n + 1 /\ ~ n + 1 < k
  BY <1>1, <1>2, <1>4 DEF Layout
<1>6. QED
  BY <1>1, <1>3, <1>5

\* The first facts of a state: types of what is at the front.
LEMMA NextFacts ==
    ASSUME TypeOK, HandledFirst, Len(handled) < Len(stream)
    PROVE  /\ Len(handled) \in Nat /\ Len(handled) + 1 \in DOMAIN stream
           /\ stream[Len(handled) + 1].item \in Item
           /\ stream[Len(handled) + 1].at \in Nat
<1>1. /\ stream \in Seq(Entry) /\ Len(handled) \in Nat /\ Len(stream) \in Nat
      /\ DOMAIN stream = 1 .. Len(stream)
  BY DEF TypeOK, Entry
<1>2. Len(handled) + 1 \in DOMAIN stream
  BY <1>1
<1>3. stream[Len(handled) + 1] \in Entry
  BY <1>1, <1>2
<1>4. QED
  BY <1>1, <1>2, <1>3 DEF Entry

--------------------------------------------------------------------------------
(* The steps that do not read.                                                 *)

LEMMA InitIInv == Init => IInv
<1> SUFFICES ASSUME Init PROVE IInv
  OBVIOUS
<1>1. TypeOK
  <2>1. stream \in Seq(Entry) /\ handled \in Seq(Item)
    BY DEF Init
  <2>2. written \in Nat /\ arrived \in 0 .. written /\ retrieved \in 0 .. arrived
    BY DEF Init
  <2>3. QED
    BY <2>1, <2>2 DEF Init, TypeOK, Entry
<1>2. Len(stream) = 0 /\ Len(handled) = 0 /\ DOMAIN stream = {} /\ DOMAIN handled = {}
  BY DEF Init
<1>3. Layout /\ HandledFirst /\ InStep
  BY <1>2 DEF Init, Layout, HandledFirst, InStep
<1>4. NoFrameLeftBehind /\ ErrorStands
  BY <1>2 DEF Init, NoFrameLeftBehind, ErrorStands
<1>5. QED
  BY <1>1, <1>3, <1>4 DEF IInv, Init, OpenInLoop

\* A new item begins where the last one ends.
LEMMA SendLayout ==
    ASSUME TypeOK, Layout, NEW item \in Item, Send(item)
    PROVE  /\ stream' \in Seq(Entry) /\ written' \in Nat /\ written' > written
           /\ Len(stream') = Len(stream) + 1
           /\ DOMAIN stream' = DOMAIN stream \cup {Len(stream) + 1}
           /\ \A k \in DOMAIN stream : stream'[k] = stream[k]
           /\ stream'[Len(stream) + 1].at = written
           /\ Layout'
<1>1. /\ stream \in Seq(Entry) /\ Len(stream) \in Nat /\ DOMAIN stream = 1 .. Len(stream)
      /\ written \in Nat
  BY DEF TypeOK, Entry
<1>2. item.size \in Nat /\ kHeaderLen \in Nat \ {0}
  BY ItemFacts
<1>n. PICK n \in Nat : n = Len(stream) + 1
  BY <1>1
<1> DEFINE e == [item |-> item, at |-> written]
<1>3. e \in Entry /\ stream' = Append(stream, e) /\ written' = written + kHeaderLen + item.size
  BY <1>1 DEF Send, Entry
<1>4. /\ stream' \in Seq(Entry) /\ Len(stream') = n /\ DOMAIN stream' = 1 .. n
      /\ \A k \in DOMAIN stream : stream'[k] = stream[k]
      /\ stream'[n] = e
  BY <1>1, <1>3, <1>n
<1>5. \A k \in DOMAIN stream : EndOf(k)' = EndOf(k) /\ EndOf(k) \in Nat /\ EndOf(k) <= written
  <2> SUFFICES ASSUME NEW k \in DOMAIN stream
               PROVE  EndOf(k)' = EndOf(k) /\ EndOf(k) \in Nat /\ EndOf(k) <= written
    OBVIOUS
  <2>1. stream[k] \in Entry /\ stream'[k] = stream[k]
    BY <1>1, <1>4, <1>n
  <2>2. stream[k].at \in Nat /\ stream[k].item \in Item
    BY <2>1 DEF Entry
  <2>3. EndOf(k)' = EndOf(k)
    BY <2>1 DEF EndOf
  <2>4. EndOf(k) \in Nat
    BY <2>2, <1>2, ItemFacts DEF EndOf
  <2>5. EndOf(k) <= written
    BY DEF Layout
  <2>6. QED
    BY <2>3, <2>4, <2>5
<1>6. EndOf(n)' = written' /\ stream'[n].at = written
  BY <1>3, <1>4 DEF EndOf
<1>7. written' \in Nat /\ written' > written
  BY <1>1, <1>2, <1>3
<1>8. DOMAIN stream' = DOMAIN stream \cup {n}
  BY <1>1, <1>4, <1>n
<1>9. Layout'
  <2>1. (stream # <<>> => stream[1].at = 0 /\ EndOf(Len(stream)) = written)'
    <3>1. stream'[1].at = 0
      <4>1. CASE stream = <<>>
        BY <4>1, <1>1, <1>4, <1>6, <1>n DEF Layout
      <4>2. CASE stream # <<>>
        <5>1. 1 \in DOMAIN stream
          BY <4>2, <1>1
        <5>2. QED
          BY <5>1, <4>2, <1>4 DEF Layout
      <4>3. QED
        BY <4>1, <4>2
    <3>2. QED
      BY <3>1, <1>4, <1>6
  <2>2. (\A k \in DOMAIN stream : EndOf(k) <= written)'
    BY <1>1, <1>5, <1>6, <1>7, <1>8, <1>n
  <2>3. (\A j, k \in DOMAIN stream : j < k => EndOf(j) <= stream[k].at)'
    <3> SUFFICES ASSUME NEW j \in DOMAIN stream', NEW k \in DOMAIN stream', j < k
                 PROVE  EndOf(j)' <= stream'[k].at
      OBVIOUS
    <3>1. j \in DOMAIN stream
      BY <1>1, <1>4, <1>n
    <3>2. CASE k = n
      BY <3>1, <3>2, <1>5, <1>6
    <3>3. CASE k \in DOMAIN stream
      BY <3>1, <3>3, <1>4, <1>5 DEF Layout
    <3>4. QED
      BY <3>2, <3>3, <1>8
  <2>4. (\A k \in DOMAIN stream : k + 1 \in DOMAIN stream => stream[k + 1].at = EndOf(k))'
    <3> SUFFICES ASSUME NEW k \in DOMAIN stream', k + 1 \in DOMAIN stream'
                 PROVE  stream'[k + 1].at = EndOf(k)'
      OBVIOUS
    <3>1. k \in DOMAIN stream
      BY <1>1, <1>4, <1>n
    <3>2. CASE k + 1 = n
      <4>1. k = Len(stream) /\ stream # <<>>
        BY <3>1, <3>2, <1>1, <1>n
      <4>2. QED
        BY <3>1, <3>2, <4>1, <1>5, <1>6 DEF Layout
    <3>3. CASE k + 1 \in DOMAIN stream
      BY <3>1, <3>3, <1>4, <1>5 DEF Layout
    <3>4. QED
      BY <3>2, <3>3, <1>8
  <2>5. stream' # <<>>
    BY <1>1, <1>4, <1>n
  <2>6. QED
    BY <2>1, <2>2, <2>3, <2>4, <2>5 DEF Layout
<1>10. QED
  BY <1>4, <1>6, <1>7, <1>8, <1>9, <1>n

\* Parts of the invariant that speak of the first item not handled keep holding
\* while the buffer grows behind it.
LEMMA SendStep ==
    ASSUME IInv, NEW item \in Item, Send(item)
    PROVE  IInv'
<1>1. /\ stream' \in Seq(Entry) /\ written' \in Nat /\ written' > written
      /\ Len(stream') = Len(stream) + 1
      /\ DOMAIN stream' = DOMAIN stream \cup {Len(stream) + 1}
      /\ \A k \in DOMAIN stream : stream'[k] = stream[k]
      /\ stream'[Len(stream) + 1].at = written
      /\ Layout'
  BY SendLayout DEF IInv
<1>2. UNCHANGED <<arrived, retrieved, inLoop, handled, error, conn>>
  BY DEF Send
<1>3. /\ Len(handled) \in Nat /\ Len(stream) \in Nat /\ DOMAIN stream = 1 .. Len(stream)
      /\ DOMAIN handled = 1 .. Len(handled) /\ Len(handled) <= Len(stream)
      /\ written \in Nat /\ arrived \in 0 .. written
  BY DEF IInv, TypeOK, HandledFirst
<1> DEFINE n == Len(handled)
<1>4. TypeOK'
  <2>1. arrived' \in 0 .. written'
    BY <1>1, <1>2, <1>3
  <2>2. QED
    BY <1>1, <1>2, <2>1 DEF IInv, TypeOK, Entry
<1>5. HandledFirst'
  <2>1. Len(handled') <= Len(stream')
    BY <1>1, <1>2, <1>3
  <2>2. ASSUME NEW k \in DOMAIN handled
        PROVE  handled[k] = stream'[k].item /\ Good(handled[k])
    BY <1>1, <1>3 DEF IInv, HandledFirst
  <2>3. QED
    BY <1>2, <2>1, <2>2 DEF HandledFirst, Good, ValidLength, parse
<1>6. CASE n < Len(stream)
  <2>1. n + 1 \in DOMAIN stream /\ stream'[n + 1] = stream[n + 1] /\ n < Len(stream')
    BY <1>1, <1>3, <1>6
  <2>2. InStep' /\ NoFrameLeftBehind' /\ ErrorStands'
    BY <1>2, <1>6, <2>1
       DEF IInv, InStep, NoFrameLeftBehind, ErrorStands, Readable, readableBytes, Whole,
           Good, ValidLength, parse
  <2>3. QED
    BY <1>1, <1>2, <1>4, <1>5, <2>2 DEF IInv, OpenInLoop
<1>7. CASE n = Len(stream)
  <2>1. n < Len(stream') /\ ~ n < Len(stream) /\ stream'[n + 1].at = written
    BY <1>1, <1>3, <1>7
  <2>2. InStep'
    BY <1>2, <1>7, <2>1 DEF IInv, InStep
  <2>3. NoFrameLeftBehind'
    <3>1. stream'[n + 1] \in Entry
      BY <1>1, <1>3, <1>7
    <3>2. stream'[n + 1].item \in Item
      BY <3>1 DEF Entry
    <3>3. ~ stream'[n + 1].at + kHeaderLen + stream'[n + 1].item.size <= arrived
      BY <1>3, <2>1, <3>2, ItemFacts
    <3>4. QED
      BY <1>2, <3>3 DEF NoFrameLeftBehind
  <2>4. ErrorStands'
    BY <1>2, <2>1 DEF IInv, ErrorStands
  <2>5. QED
    BY <1>1, <1>2, <1>4, <1>5, <2>2, <2>3, <2>4 DEF IInv, OpenInLoop
<1>8. n < Len(stream) \/ n = Len(stream)
  BY <1>3, AtMost
<1>9. QED
  BY <1>6, <1>7, <1>8

LEMMA ArriveStep ==
    ASSUME IInv, NEW n \in 1 .. written - arrived, Arrive(n)
    PROVE  IInv'
<1>1. UNCHANGED <<stream, written, retrieved, handled, error, conn>> /\ inLoop' = TRUE
      /\ arrived' = arrived + n
  BY DEF Arrive
<1>2. written \in Nat /\ arrived \in 0 .. written /\ retrieved \in 0 .. arrived
  BY DEF IInv, TypeOK
<1>3. arrived' \in 0 .. written /\ retrieved \in 0 .. arrived' /\ arrived' > arrived
  BY <1>1, <1>2
<1>4. TypeOK'
  BY <1>1, <1>3 DEF IInv, TypeOK
<1>5. Layout' /\ HandledFirst' /\ InStep' /\ NoFrameLeftBehind'
  <2>1. Layout'
    BY <1>1 DEF IInv, Layout, EndOf
  <2>2. HandledFirst'
    BY <1>1 DEF IInv, HandledFirst, Good, ValidLength, parse
  <2>3. InStep'
    BY <1>1 DEF IInv, InStep
  <2>4. NoFrameLeftBehind'
    BY <1>1 DEF NoFrameLeftBehind
  <2>5. QED
    BY <2>1, <2>2, <2>3, <2>4
<1>6. ErrorStands'
  <2> SUFFICES ASSUME error # "kNoError"
               PROVE  ErrorStands'
    BY <1>1 DEF ErrorStands
  <2> DEFINE i == stream[Len(handled) + 1].item
  <2>1. /\ Len(handled) < Len(stream) /\ Readable
        /\ \/ ~ ValidLength(i) /\ error = "kInvalidLength"
           \/ ValidLength(i) /\ Whole(i) /\ error = parse(i)
    BY DEF IInv, ErrorStands
  <2>2. i \in Item
    BY <2>1, NextFacts DEF IInv
  <2>3. Readable'
    BY <1>1, <1>2, <1>3, <2>1, <2>2, ItemFacts DEF Readable, readableBytes
  <2>4. Whole(i) => (readableBytes >= i.len + kHeaderLen)'
    BY <1>1, <1>2, <1>3, <2>2, ItemFacts DEF Whole, readableBytes
  <2>5. QED
    BY <1>1, <2>1, <2>3, <2>4 DEF ErrorStands, ValidLength, Whole, parse
<1>7. OpenInLoop'
  BY <1>1 DEF Arrive, OpenInLoop
<1>8. QED
  BY <1>4, <1>5, <1>6, <1>7 DEF IInv

LEMMA CloseStep == ASSUME IInv, Close PROVE IInv'
BY DEF Close, IInv, OpenInLoop, TypeOK, Layout, EndOf, HandledFirst, InStep, NoFrameLeftBehind, ErrorStands,
       Readable, readableBytes, Whole, Good, ValidLength, parse

--------------------------------------------------------------------------------
(* The turns of the loop.                                                      *)

\* What a turn of the loop that finds item k knows of it.
LEMMA AtFront ==
    ASSUME IInv, NEW k \in DOMAIN stream, Front(k)
    PROVE  /\ k = Len(handled) + 1 /\ Len(handled) \in Nat /\ Len(handled) < Len(stream)
           /\ stream[k].item \in Item /\ stream[k].at = retrieved
           /\ retrieved \in Nat /\ arrived \in Nat /\ retrieved <= arrived
BY FrontIsNext, NextFacts DEF IInv, TypeOK, Front

\* Leaving the loop keeps the invariant if the first item not handled is not a
\* whole readable frame.
LEMMA LeaveStep ==
    ASSUME IInv, Leave, UNCHANGED handled, error' = error \/ ErrorStands',
           TypeOK',
           Len(handled) < Len(stream) =>
               ~ (/\ Good(stream[Len(handled) + 1].item)
                  /\ stream[Len(handled) + 1].at + kHeaderLen
                     + stream[Len(handled) + 1].item.size <= arrived)
    PROVE  IInv'
<1>1. UNCHANGED <<stream, written, arrived, retrieved, handled>>
  BY DEF Leave
<1>2. Layout' /\ InStep'
  BY <1>1 DEF IInv, Layout, EndOf, InStep
<1>3. HandledFirst'
  BY <1>1 DEF IInv, HandledFirst, Good, ValidLength, parse
<1>4. NoFrameLeftBehind'
  BY <1>1 DEF NoFrameLeftBehind, Good, ValidLength, parse
<1>5. ErrorStands'
  BY <1>1 DEF IInv, ErrorStands, Readable, readableBytes, Whole, ValidLength, parse
<1>6. OpenInLoop'
  BY DEF Leave, OpenInLoop
<1>7. QED
  BY <1>2, <1>3, <1>4, <1>5, <1>6 DEF IInv

LEMMA NothingStep ==
    ASSUME IInv, NothingToRead
    PROVE  IInv'
<1>1. Leave /\ UNCHANGED <<handled, error, conn>> /\ ~ Readable
  BY DEF NothingToRead
<1>2. TypeOK'
  BY <1>1 DEF IInv, TypeOK, Leave
<1>3. ASSUME Len(handled) < Len(stream)
      PROVE  ~ stream[Len(handled) + 1].at + kHeaderLen
               + stream[Len(handled) + 1].item.size <= arrived
  <2> DEFINE e == stream[Len(handled) + 1]
  <2>1. e.item \in Item /\ e.at = retrieved
    BY <1>3, NextFacts DEF IInv, InStep
  <2>2. retrieved \in Nat /\ arrived \in Nat
    BY DEF IInv, TypeOK
  <2>3. QED
    BY <1>1, <2>1, <2>2, ItemFacts DEF Readable, readableBytes
<1>4. QED
  BY <1>1, <1>2, <1>3, LeaveStep

LEMMA FailStep ==
    ASSUME IInv, NEW k \in DOMAIN stream, Front(k),
           InvalidLength(stream[k].item) \/ Unreadable(stream[k].item)
    PROVE  IInv'
<1> DEFINE i == stream[k].item
<1>1. /\ k = Len(handled) + 1 /\ Len(handled) < Len(stream)
      /\ i \in Item
  BY AtFront
<1>2. Readable /\ ~ Good(i)
  BY DEF InvalidLength, Unreadable, Good
<1>3. /\ Leave /\ UNCHANGED handled /\ conn' = shutdown
      /\ \/ ~ ValidLength(i) /\ error' = "kInvalidLength"
         \/ ValidLength(i) /\ Whole(i) /\ error' = parse(i)
  BY DEF InvalidLength, Unreadable, Fail
<1>4. TypeOK'
  BY <1>3, ParseType DEF IInv, TypeOK, Leave, shutdown
<1>5. ErrorStands'
  BY <1>1, <1>2, <1>3 DEF ErrorStands, Leave, Readable, readableBytes, Whole, ValidLength, parse
<1>6. QED
  BY <1>1, <1>2, <1>3, <1>4, <1>5, LeaveStep

LEMMA IncompleteStep ==
    ASSUME IInv, NEW k \in DOMAIN stream, Front(k), Incomplete(stream[k].item)
    PROVE  IInv'
<1> DEFINE i == stream[k].item
<1>1. /\ k = Len(handled) + 1 /\ Len(handled) < Len(stream)
      /\ i \in Item /\ stream[k].at = retrieved /\ retrieved \in Nat /\ arrived \in Nat
  BY AtFront
<1>2. Leave /\ UNCHANGED <<handled, error, conn>> /\ ValidLength(i) /\ ~ Whole(i)
  BY DEF Incomplete
<1>3. TypeOK'
  BY <1>2 DEF IInv, TypeOK, Leave
<1>4. ~ stream[k].at + kHeaderLen + i.size <= arrived
  BY <1>1, <1>2, ItemFacts DEF Whole, readableBytes
<1>5. QED
  BY <1>1, <1>2, <1>3, <1>4, LeaveStep

\* After a message the reader stands at the end of its item, where the next begins.
LEMMA DeliverStep ==
    ASSUME IInv, inLoop, NEW k \in DOMAIN stream, Front(k), Deliver(stream[k].item)
    PROVE  IInv'
<1> DEFINE i == stream[k].item
<1>1. /\ k = Len(handled) + 1 /\ Len(handled) \in Nat /\ Len(handled) < Len(stream)
      /\ i \in Item /\ stream[k].at = retrieved
      /\ retrieved \in Nat /\ arrived \in Nat /\ retrieved <= arrived
  BY AtFront
<1>2. /\ UNCHANGED <<stream, written, arrived, error, inLoop>>
      /\ handled' = Append(handled, i)
      /\ retrieved' = retrieved + kHeaderLen + i.len
      /\ ValidLength(i) /\ Whole(i) /\ parse(i) = "kNoError"
      /\ conn' \in {conn, shutdown}
  BY DEF Deliver, dispatch, Retrieve, LoopOn
<1>3. /\ handled \in Seq(Item) /\ Len(stream) \in Nat /\ DOMAIN stream = 1 .. Len(stream)
      /\ written \in Nat /\ arrived \in 0 .. written
  BY DEF IInv, TypeOK
<1>4. /\ handled' \in Seq(Item) /\ Len(handled') = k /\ DOMAIN handled' = 1 .. k
      /\ handled'[k] = i /\ \A j \in DOMAIN handled : handled'[j] = handled[j]
      /\ DOMAIN handled = 1 .. Len(handled)
  BY <1>1, <1>2, <1>3
<1>5. retrieved' = EndOf(k) /\ retrieved' \in 0 .. arrived
  <2>1. i.len = i.size /\ i.size \in Nat /\ kHeaderLen \in Nat
    BY <1>1, <1>2, ItemFacts
  <2>2. arrived - retrieved >= i.len + kHeaderLen
    BY <1>2 DEF Whole, readableBytes
  <2>3. retrieved' = EndOf(k)
    BY <1>1, <1>2, <2>1 DEF EndOf
  <2> HIDE DEF i
  <2>4. retrieved + kHeaderLen + i.len \in 0 .. arrived
    BY <1>1, <2>1, <2>2
  <2>5. QED
    BY <1>2, <2>3, <2>4
<1>6. TypeOK'
  BY <1>2, <1>4, <1>5 DEF IInv, TypeOK, shutdown
<1>7. Layout'
  BY <1>2 DEF IInv, Layout, EndOf
<1>8. HandledFirst'
  <2>1. Good(i)
    BY <1>2 DEF Good
  <2>2. ASSUME NEW j \in DOMAIN handled'
        PROVE  handled'[j] = stream[j].item /\ Good(handled'[j])
    <3>1. CASE j = k
      BY <3>1, <1>4, <2>1
    <3>2. CASE j \in DOMAIN handled
      BY <3>2, <1>4 DEF IInv, HandledFirst
    <3>3. QED
      BY <3>1, <3>2, <1>1, <1>4
  <2>3. Len(handled') <= Len(stream')
    BY <1>1, <1>2, <1>3, <1>4
  <2>4. QED
    BY <1>2, <2>2, <2>3 DEF HandledFirst, Good, ValidLength, parse
<1>9. InStep'
  <2>1. CASE k < Len(stream)
    <3>1. k + 1 \in DOMAIN stream
      BY <2>1, <1>1, <1>3
    <3>2. stream[k + 1].at = EndOf(k)
      BY <3>1 DEF IInv, Layout
    <3>3. QED
      BY <2>1, <3>2, <1>2, <1>4, <1>5 DEF InStep
  <2>2. CASE k = Len(stream)
    <3>1. EndOf(k) = written
      BY <2>2, <1>1, <1>3 DEF IInv, Layout
    <3>2. QED
      BY <2>2, <3>1, <1>2, <1>4, <1>5 DEF InStep
  <2>3. k < Len(stream) \/ k = Len(stream)
    <3>1. k \in Nat /\ Len(stream) \in Nat /\ k <= Len(stream)
      BY <1>1, <1>3
    <3>2. QED
      BY <3>1, AtMost
  <2>4. QED
    BY <2>1, <2>2, <2>3
<1>10. NoFrameLeftBehind'
  BY <1>2 DEF NoFrameLeftBehind
<1>11. ErrorStands'
  <2>1. error = "kNoError"
    BY <1>1, <1>2 DEF IInv, ErrorStands
  <2>2. QED
    BY <2>1, <1>2 DEF ErrorStands
<1>12. OpenInLoop'
  BY <1>2 DEF IInv, OpenInLoop, shutdown
<1>13. QED
  BY <1>6, <1>7, <1>8, <1>9, <1>10, <1>11, <1>12 DEF IInv

LEMMA NextIInv == ASSUME IInv, [Next]_vars PROVE IInv'
<1>1. CASE \E item \in Item : Send(item)
  BY <1>1, SendStep
<1>2. CASE \E n \in 1 .. written - arrived : Arrive(n)
  BY <1>2, ArriveStep
<1>3. CASE Close
  BY <1>3, CloseStep
<1>4. CASE onMessage
  <2>1. CASE NothingToRead
    BY <2>1, NothingStep
  <2>2. CASE \E k \in DOMAIN stream :
                 /\ Front(k)
                 /\ LET i == stream[k].item
                    IN  InvalidLength(i) \/ Incomplete(i) \/ Deliver(i) \/ Unreadable(i)
    BY <1>4, <2>2, FailStep, IncompleteStep, DeliverStep DEF onMessage
  <2>3. QED
    BY <1>4, <2>1, <2>2 DEF onMessage
<1>5. CASE UNCHANGED vars
  BY <1>5 DEF vars, IInv, OpenInLoop, TypeOK, Layout, EndOf, HandledFirst, InStep, NoFrameLeftBehind,
              ErrorStands, Readable, readableBytes, Whole, Good, ValidLength, parse
<1>6. QED
  BY <1>1, <1>2, <1>3, <1>4, <1>5 DEF Next

--------------------------------------------------------------------------------
(* The theorems.                                                               *)

\* IInv is an invariant: it holds at first, and every step keeps it.
THEOREM Invariance == Spec => []IInv
<1>1. Init => IInv
  BY InitIInv
<1>2. IInv /\ [Next]_vars => IInv'
  BY NextIInv
<1>3. QED
  BY <1>1, <1>2, PTL DEF Spec

\* Type correctness.
THEOREM TypeCorrect == Spec => []TypeOK
<1>1. IInv => TypeOK
  BY DEF IInv
<1>2. QED
  BY <1>1, Invariance, PTL

\* However TCP cuts up the bytes, the reader never loses step with the peer.
THEOREM ReaderStaysInStep == Spec => []InStep
<1>1. IInv => InStep
  BY DEF IInv
<1>2. QED
  BY <1>1, Invariance, PTL

\* onMessage never returns with a whole readable frame in the buffer.
THEOREM NothingLeftBehind == Spec => []NoFrameLeftBehind
<1>1. IInv => NoFrameLeftBehind
  BY DEF IInv
<1>2. QED
  BY <1>1, Invariance, PTL

\* What an error was found in would be found again: no step handles a message or
\* takes a byte out of the buffer any more, and the error stays the same.
LEMMA StuckStep ==
    ASSUME IInv, [Next]_vars, error # "kNoError"
    PROVE  error' = error /\ handled' = handled /\ retrieved' = retrieved
<1> DEFINE n == Len(handled) + 1
           f == stream[n].item
<1>1. /\ Readable
      /\ \/ ~ ValidLength(f) /\ error = "kInvalidLength"
         \/ ValidLength(f) /\ Whole(f) /\ error = parse(f)
  BY DEF IInv, ErrorStands
<1>2. CASE onMessage
  <2>1. CASE NothingToRead
    BY <2>1, <1>1 DEF NothingToRead
  <2>2. ASSUME NEW k \in DOMAIN stream, Front(k),
               LET i == stream[k].item
               IN  InvalidLength(i) \/ Incomplete(i) \/ Deliver(i) \/ Unreadable(i)
        PROVE  error' = error /\ handled' = handled /\ retrieved' = retrieved
    <3>1. stream[k].item = f
      BY <2>2, AtFront
    <3> HIDE DEF f
    <3>2. CASE InvalidLength(f)
      BY <1>1, <3>2 DEF InvalidLength, Fail, Leave
    <3>3. CASE Incomplete(f)
      BY <1>1, <3>3 DEF Incomplete
    <3>4. CASE Deliver(f)
      BY <1>1, <3>4 DEF Deliver
    <3>5. CASE Unreadable(f)
      BY <1>1, <3>5 DEF Unreadable, Fail, Leave
    <3>6. QED
      BY <2>2, <3>1, <3>2, <3>3, <3>4, <3>5
  <2>3. QED
    BY <1>2, <2>1, <2>2 DEF onMessage
<1>3. QED
  BY <1>2 DEF Next, Send, Arrive, Close, vars

\* A frame that does not parse is never passed: the action property ErrorIsFinal.
THEOREM ErrorsAreFinal == Spec => ErrorIsFinal
<1>1. IInv /\ [Next]_vars =>
          [error # "kNoError" =>
               error' = error /\ handled' = handled /\ retrieved' = retrieved]_vars
  BY StuckStep
<1>2. QED
  BY <1>1, Invariance, PTL DEF Spec, ErrorIsFinal

--------------------------------------------------------------------------------
(* The refinement.                                                             *)

\* What the channel sees of a sequence of entries and of a sequence of items.
SentView(s) == [k \in DOMAIN s |-> AsThing(s[k].item)]
HandledView(h) == [k \in DOMAIN h |-> AsThing(h[k])]

\* Append as a function.
LEMMA AppendIs ==
    ASSUME NEW T, NEW v \in Seq(T), NEW x \in T
    PROVE  Append(v, x) = [k \in 1 .. Len(v) + 1 |-> IF k = Len(v) + 1 THEN x ELSE v[k]]
<1> DEFINE a == Append(v, x)
<1>1. /\ Len(v) \in Nat /\ a \in Seq(T) /\ Len(a) = Len(v) + 1
      /\ a[Len(v) + 1] = x /\ \A k \in 1 .. Len(v) : a[k] = v[k]
  OBVIOUS
<1> HIDE DEF a
<1>2. a = [k \in 1 .. Len(v) + 1 |-> a[k]]
  BY <1>1
<1>3. \A k \in 1 .. Len(v) + 1 : a[k] = IF k = Len(v) + 1 THEN x ELSE v[k]
  BY <1>1
<1>4. a = [k \in 1 .. Len(v) + 1 |-> IF k = Len(v) + 1 THEN x ELSE v[k]]
  BY <1>2, <1>3
<1>5. QED
  BY <1>4 DEF a

\* Appending to a sequence appends to its view.
LEMMA SentAppend ==
    ASSUME NEW s \in Seq(Entry), NEW e \in Entry
    PROVE  SentView(Append(s, e)) = Append(SentView(s), AsThing(e.item))
<1>1. /\ Append(s, e) \in Seq(Entry) /\ Len(s) \in Nat /\ DOMAIN s = 1 .. Len(s)
      /\ DOMAIN Append(s, e) = 1 .. Len(s) + 1
      /\ Append(s, e)[Len(s) + 1] = e
      /\ \A k \in 1 .. Len(s) : Append(s, e)[k] = s[k]
  OBVIOUS
<1> DEFINE v == SentView(s)
           T == {AsThing(i) : i \in Item}
<1>2. \A x \in Entry : AsThing(x.item) \in T
  BY DEF Entry
<1>3. v = [k \in 1 .. Len(s) |-> AsThing(s[k].item)]
  BY <1>1 DEF SentView
<1>4. \A k \in 1 .. Len(s) : AsThing(s[k].item) \in T
  BY <1>1, <1>2
<1> HIDE DEF T, v
<1>5. v \in Seq(T) /\ Len(v) = Len(s)
  BY <1>1, <1>3, <1>4
<1>6. Append(v, AsThing(e.item))
      = [k \in 1 .. Len(s) + 1 |-> IF k = Len(s) + 1 THEN AsThing(e.item) ELSE v[k]]
  BY <1>1, <1>5, <1>2
<1>7. \A k \in 1 .. Len(s) + 1 :
          AsThing(Append(s, e)[k].item) = IF k = Len(s) + 1 THEN AsThing(e.item) ELSE v[k]
  <2> SUFFICES ASSUME NEW k \in 1 .. Len(s) + 1
               PROVE  AsThing(Append(s, e)[k].item)
                      = IF k = Len(s) + 1 THEN AsThing(e.item) ELSE v[k]
    OBVIOUS
  <2>1. CASE k = Len(s) + 1
    BY <2>1, <1>1
  <2>2. CASE k # Len(s) + 1
    BY <2>2, <1>1, <1>3
  <2>3. QED
    BY <2>1, <2>2
<1>8. SentView(Append(s, e))
      = [k \in 1 .. Len(s) + 1 |-> AsThing(Append(s, e)[k].item)]
  BY <1>1 DEF SentView
<1>9. QED
  BY <1>6, <1>7, <1>8 DEF v

\* The same for what was handled.
LEMMA HandledAppend ==
    ASSUME NEW s \in Seq(Item), NEW e \in Item
    PROVE  HandledView(Append(s, e)) = Append(HandledView(s), AsThing(e))
<1>1. /\ Append(s, e) \in Seq(Item) /\ Len(s) \in Nat /\ DOMAIN s = 1 .. Len(s)
      /\ DOMAIN Append(s, e) = 1 .. Len(s) + 1
      /\ Append(s, e)[Len(s) + 1] = e
      /\ \A k \in 1 .. Len(s) : Append(s, e)[k] = s[k]
  OBVIOUS
<1> DEFINE v == HandledView(s)
           T == {AsThing(i) : i \in Item}
<1>2. \A x \in Item : AsThing(x) \in T
  OBVIOUS
<1>3. v = [k \in 1 .. Len(s) |-> AsThing(s[k])]
  BY <1>1 DEF HandledView
<1>4. \A k \in 1 .. Len(s) : AsThing(s[k]) \in T
  BY <1>1, <1>2
<1> HIDE DEF T, v
<1>5. v \in Seq(T) /\ Len(v) = Len(s)
  BY <1>1, <1>3, <1>4
<1>6. Append(v, AsThing(e))
      = [k \in 1 .. Len(s) + 1 |-> IF k = Len(s) + 1 THEN AsThing(e) ELSE v[k]]
  <2>1. AsThing(e) \in T
    BY <1>2
  <2>2. QED
    BY <1>5, <2>1, AppendIs
<1>7. \A k \in 1 .. Len(s) + 1 :
          AsThing(Append(s, e)[k]) = IF k = Len(s) + 1 THEN AsThing(e) ELSE v[k]
  <2> SUFFICES ASSUME NEW k \in 1 .. Len(s) + 1
               PROVE  AsThing(Append(s, e)[k])
                      = IF k = Len(s) + 1 THEN AsThing(e) ELSE v[k]
    OBVIOUS
  <2>1. CASE k = Len(s) + 1
    BY <2>1, <1>1
  <2>2. CASE k # Len(s) + 1
    BY <2>2, <1>1, <1>3
  <2>3. QED
    BY <2>1, <2>2
<1>8. HandledView(Append(s, e))
      = [k \in 1 .. Len(s) + 1 |-> AsThing(Append(s, e)[k])]
  BY <1>1 DEF HandledView
<1>9. QED
  BY <1>6, <1>7, <1>8 DEF v

\* Every step of the reader is a step of the channel, or none.
LEMMA WireStep ==
    ASSUME IInv, [Next]_vars
    PROVE  [Wire!Next]_Wire!vars
<1>1. /\ stream \in Seq(Entry) /\ handled \in Seq(Item)
      /\ Len(stream) \in Nat /\ DOMAIN stream = 1 .. Len(stream)
      /\ Len(handled) \in Nat /\ DOMAIN handled = 1 .. Len(handled)
      /\ written \in Nat
  BY DEF IInv, TypeOK, Entry
<1>2. \A i : AsThing(i)' = AsThing(i)
  BY DEF AsThing, Good, ValidLength, parse
<1>3. ASSUME NEW item \in Item, Send(item)
      PROVE  Wire!Send(AsThing(item))
  <2> DEFINE e == [item |-> item, at |-> written]
  <2>1. /\ e \in Entry /\ e.item = item /\ stream' = Append(stream, e)
        /\ conn # "closed" /\ UNCHANGED <<handled, conn>>
    BY <1>1, <1>3 DEF Send, Entry
  <2>2. SentView(stream') = Append(SentView(stream), AsThing(item))
    BY <1>1, <2>1, SentAppend
  <2>3. QED
    BY <2>1, <2>2 DEF Wire!Send, SentView, AsThing, Good, ValidLength, parse
<1>4. ASSUME NEW k \in DOMAIN stream, Front(k), inLoop, conn # "closed",
             Deliver(stream[k].item)
      PROVE  Wire!Receive
  <2> DEFINE i == stream[k].item
  <2>1. /\ k = Len(handled) + 1 /\ Len(handled) < Len(stream) /\ i \in Item
    BY <1>4, AtFront
  <2>2. /\ handled' = Append(handled, i) /\ stream' = stream
        /\ ValidLength(i) /\ parse(i) = "kNoError"
        /\ conn' # "closed"
    BY <1>4 DEF Deliver, dispatch, shutdown
  <2>3. HandledView(handled') = Append(HandledView(handled), AsThing(i))
    BY <1>1, <2>1, <2>2, HandledAppend
  <2>4. /\ SentView(stream)[k] = AsThing(i) /\ AsThing(i).good
        /\ SentView(stream') = SentView(stream)
    BY <1>4, <2>2 DEF SentView, AsThing, Good
  <2>5. Len(HandledView(handled)) = Len(handled) /\ Len(SentView(stream)) = Len(stream)
    BY <1>1 DEF HandledView, SentView
  <2> HIDE DEF i
  <2>6. QED
    BY <1>4, <2>1, <2>2, <2>3, <2>4, <2>5
       DEF Wire!Receive, SentView, HandledView, AsThing, Good, ValidLength, parse
<1>5. ASSUME UNCHANGED <<stream, handled>>, (conn' = "closed") <=> (conn = "closed")
      PROVE  UNCHANGED Wire!vars
  BY <1>5 DEF Wire!vars, AsThing, Good, ValidLength, parse
<1>6. ASSUME onMessage
      PROVE  Wire!Receive \/ UNCHANGED Wire!vars
  <2>1. inLoop /\ conn # "closed"
    BY <1>6 DEF onMessage, IInv, OpenInLoop
  <2>2. CASE NothingToRead
    BY <2>2, <1>5 DEF NothingToRead, Leave
  <2>3. ASSUME NEW k \in DOMAIN stream, Front(k), Deliver(stream[k].item)
        PROVE  Wire!Receive
    BY <2>1, <2>3, <1>4
  <2>4. ASSUME NEW i, InvalidLength(i) \/ Incomplete(i) \/ Unreadable(i)
        PROVE  UNCHANGED Wire!vars
    BY <2>1, <2>4, <1>5 DEF InvalidLength, Incomplete, Unreadable, Fail, Leave, shutdown
  <2>5. QED
    BY <1>6, <2>2, <2>3, <2>4 DEF onMessage
<1>7. CASE Close
  <2>1. UNCHANGED <<stream, handled>> /\ conn # "closed" /\ conn' = "closed"
    BY <1>7 DEF Close
  <2>2. /\ SentView(stream)' = SentView(stream)
        /\ HandledView(handled)' = HandledView(handled)
    BY <2>1 DEF SentView, HandledView, AsThing, Good, ValidLength, parse
  <2>3. UNCHANGED <<[k \in DOMAIN stream |-> AsThing(stream[k].item)],
                    [k \in DOMAIN handled |-> AsThing(handled[k])]>>
    BY <2>2 DEF SentView, HandledView
  <2>4. (conn # "closed") /\ (conn # "closed")' = FALSE
    BY <2>1
  <2>5. Wire!Close
    BY <2>3, <2>4 DEF Wire!Close
  <2>6. QED
    BY <2>5 DEF Wire!Next
<1>8. CASE \E n \in 1 .. written - arrived : Arrive(n)
  BY <1>8, <1>5 DEF Arrive
<1>9. CASE UNCHANGED vars
  BY <1>9, <1>5 DEF vars
<1>10. CASE \E item \in Item : Send(item)
  BY <1>3, <1>10 DEF Wire!Next
<1>11. QED
  BY <1>6, <1>7, <1>8, <1>9, <1>10 DEF Next, Wire!Next

\* The reader implements the channel: what was sent is handled once, in order and up
\* to the first item that cannot be read.
THEOREM ReaderIsChannel == Spec => ImplementsChannel
<1>1. Init => Wire!Init
  BY DEF Init, Wire!Init
<1>2. IInv /\ [Next]_vars => [Wire!Next]_Wire!vars
  BY WireStep
<1>3. QED
  BY <1>1, <1>2, Invariance, PTL DEF Spec, ImplementsChannel, Wire!Spec

================================================================================
