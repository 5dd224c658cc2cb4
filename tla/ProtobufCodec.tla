------------------------------ MODULE ProtobufCodec ------------------------------
(***************************************************************************)
(* The receiving end of a connection: ProtobufCodec::onMessage, parse and  *)
(* the dispatcher behind them, fed by TCP with whatever pieces of the      *)
(* peer's bytes it likes.                                                  *)
(*                                                                         *)
(* Bytes are counted.  The peer writes items: frames of fillEmptyBuffer,   *)
(* and raw text (Topic::add sends some).  An item knows the offset at      *)
(* which it starts; the reader knows only how many bytes it has retrieved, *)
(* and finds an item there or not.                                         *)
(***************************************************************************)
EXTENDS Integers, Sequences

CONSTANTS
    kHeaderLen,       \* sizeof(int32_t)
    kMaxMessageLen,   \* 64 MB
    Item,             \* what a peer may write
    Registered,       \* the types registerMessageCallback has been called for
    ShutsDown,        \* the default callback shuts the connection down (the server's does)
    MaxItems          \* bound on the number of items written

kMinMessageLen == 2 * kHeaderLen + 2   \* nameLen + typeName + checkSum

\* len is what asInt32 makes of the first bytes; size is how many bytes follow the
\* header.  They agree for a frame, not for raw text.
Frame == {i \in Item : i.len = i.size}

ASSUME CodecAssumption ==
    /\ kHeaderLen \in Nat \ {0}
    /\ kMaxMessageLen \in Nat
    /\ MaxItems \in Nat
    /\ ShutsDown \in BOOLEAN
    /\ \A i \in Item :
           /\ i.len \in Int /\ i.size \in Nat /\ i.nameLen \in Int
           /\ i.sumAgrees \in BOOLEAN /\ i.generated \in BOOLEAN /\ i.complete \in BOOLEAN
    \* fillEmptyBuffer writes no less than an empty message takes, and raw text is
    \* at least that long and begins with letters: a length beyond every limit.
    /\ \A i \in Frame : i.size >= kMinMessageLen
    /\ \A i \in Item \ Frame : i.size >= kMinMessageLen /\ i.len > kMaxMessageLen

VARIABLES
    stream,      \* the items the peer has written, each with its offset
    written,     \* the number of bytes the peer has written
    arrived,     \* how many of them have been put into the buffer
    retrieved,   \* how many of them have been taken out of it
    inLoop,      \* onMessage is running
    handled,     \* the items whose messages have been dispatched, in order
    error,       \* what errorCallback_ was last called with
    conn         \* "connected", "shutdown" (half closed) or "closed"

vars == <<stream, written, arrived, retrieved, inLoop, handled, error, conn>>

Init ==
    /\ stream = <<>>
    /\ written = 0
    /\ arrived = 0
    /\ retrieved = 0
    /\ inLoop = FALSE
    /\ handled = <<>>
    /\ error = "kNoError"
    /\ conn = "connected"

--------------------------------------------------------------------------------
(* The peer and TCP.                                                           *)

\* send: fillEmptyBuffer and TcpConnection::send, or raw text.
Send(item) ==
    /\ conn # "closed"
    /\ Len(stream) < MaxItems
    /\ stream' = Append(stream, [item |-> item, at |-> written])
    /\ written' = written + kHeaderLen + item.size
    /\ UNCHANGED <<arrived, retrieved, inLoop, handled, error, conn>>

\* n more bytes are read from the socket and onMessage is called.
Arrive(n) ==
    /\ conn # "closed" /\ ~ inLoop
    /\ arrived + n <= written
    /\ arrived' = arrived + n
    /\ inLoop' = TRUE
    /\ UNCHANGED <<stream, written, retrieved, handled, error, conn>>

\* The peer has gone, or the network; what is left in the buffer stays there.
Close ==
    /\ conn # "closed" /\ ~ inLoop
    /\ conn' = "closed"
    /\ UNCHANGED <<stream, written, arrived, retrieved, inLoop, handled, error>>

--------------------------------------------------------------------------------
(* parse and the dispatcher.                                                   *)

\* The error parse stores, in the order in which it looks.
parse(i) ==
    IF ~ i.sumAgrees THEN "kCheckSumError"
    ELSE IF ~ (i.nameLen >= 2 /\ i.nameLen <= i.len - 2 * kHeaderLen) THEN "kInvalidNameLen"
    ELSE IF ~ i.generated THEN "kUnknownMessageType"
    ELSE IF ~ i.complete THEN "kParseError"
    ELSE "kNoError"

shutdown == IF conn = "connected" THEN "shutdown" ELSE conn

\* onProtobufMessage: the callback of the type, or the default, which on the
\* server shuts the connection down and on the client does nothing.  Shutting down
\* ends sending, not reading: the loop goes on.
dispatch(i) ==
    /\ handled' = Append(handled, i)
    /\ conn' = IF i.type \notin Registered /\ ShutsDown THEN shutdown ELSE conn

--------------------------------------------------------------------------------
(* One turn of the loop of onMessage.                                          *)

readableBytes == arrived - retrieved

\* Seeded off-by-one: a frame of the least size is not looked at.
ReadableBeyond == readableBytes > kMinMessageLen + kHeaderLen

Readable == readableBytes >= kMinMessageLen + kHeaderLen

ValidLength(i) == i.len <= kMaxMessageLen /\ i.len >= kMinMessageLen

\* Seeded fault: the header is not counted.
WholeButHeader(i) == readableBytes >= i.len

Whole(i) == readableBytes >= i.len + kHeaderLen

\* The item at the front of the buffer.
Front(k) == stream[k].at = retrieved

Leave ==
    /\ inLoop' = FALSE
    /\ UNCHANGED <<stream, written, arrived, retrieved>>

\* Seeded fault: the error callback clears the buffer.
FailClearing(code) ==
    /\ error' = code
    /\ conn' = shutdown
    /\ inLoop' = FALSE
    /\ retrieved' = arrived
    /\ UNCHANGED <<stream, written, arrived, handled>>

\* defaultErrorCallback, and the loop is left with the buffer as it is.
Fail(code) ==
    /\ error' = code
    /\ conn' = shutdown
    /\ UNCHANGED handled
    /\ Leave

NothingToRead ==
    /\ ~ Readable
    /\ Leave
    /\ UNCHANGED <<handled, error, conn>>

InvalidLength(i) ==
    /\ Readable
    /\ ~ ValidLength(i)
    /\ Fail("kInvalidLength")

Incomplete(i) ==
    /\ Readable /\ ValidLength(i)
    /\ ~ Whole(i)
    /\ Leave
    /\ UNCHANGED <<handled, error, conn>>

\* Seeded fault: the length is taken to count the header.
RetrieveShort(i) == retrieved' = retrieved + i.len

\* Seeded fault: the message stays in the buffer.
RetrieveNothing(i) == retrieved' = retrieved

Retrieve(i) == retrieved' = retrieved + kHeaderLen + i.len

\* Seeded fault: one message for each time the buffer grows.
LoopOnce == inLoop' = FALSE

LoopOn == inLoop' = inLoop

Deliver(i) ==
    /\ Readable /\ ValidLength(i)
    /\ Whole(i)
    /\ parse(i) = "kNoError"
    /\ dispatch(i)
    /\ Retrieve(i)
    /\ LoopOn
    /\ UNCHANGED <<stream, written, arrived, error>>

Unreadable(i) ==
    /\ Readable /\ ValidLength(i)
    /\ Whole(i)
    /\ parse(i) # "kNoError"
    /\ Fail(parse(i))

onMessage ==
    /\ inLoop
    /\ \/ NothingToRead
       \/ \E k \in DOMAIN stream :
              /\ Front(k)
              /\ LET i == stream[k].item
                 IN  InvalidLength(i) \/ Incomplete(i) \/ Deliver(i) \/ Unreadable(i)

Next ==
    \/ \E item \in Item : Send(item)
    \/ \E n \in 1 .. written - arrived : Arrive(n)
    \/ Close
    \/ onMessage

Spec == Init /\ [][Next]_vars

\* TCP delivers what was written as long as the connection lasts, and a loop that
\* has been entered goes on.
FairSpec ==
    /\ Spec
    /\ WF_vars(\E n \in 1 .. written - arrived : Arrive(n))
    /\ WF_vars(onMessage)

--------------------------------------------------------------------------------
(* Properties.                                                                 *)

\* What the reader hands on without an error.
Good(i) == ValidLength(i) /\ parse(i) = "kNoError"

\* Type correctness.
TypeOK ==
    /\ stream \in Seq([item : Item, at : Nat])
    /\ written \in Nat /\ arrived \in 0 .. written /\ retrieved \in 0 .. arrived
    /\ inLoop \in BOOLEAN
    /\ handled \in Seq(Item)
    /\ error \in {"kNoError", "kInvalidLength", "kCheckSumError", "kInvalidNameLen",
                  "kUnknownMessageType", "kParseError"}
    /\ conn \in {"connected", "shutdown", "closed"}

\* The reader never loses step: after every message it stands where the peer began
\* the next item, whatever pieces the bytes came in and whatever is in between.
InStep ==
    retrieved = IF Len(handled) < Len(stream) THEN stream[Len(handled) + 1].at ELSE written

\* onMessage does not return with a whole readable frame in the buffer: nothing
\* would ask for it again until the peer happens to send more.
NoFrameLeftBehind ==
    ~ inLoop /\ Len(handled) < Len(stream)
        => LET next == stream[Len(handled) + 1]
           IN  ~ (Good(next.item) /\ next.at + kHeaderLen + next.item.size <= arrived)

\* A frame that does not parse, or raw text, is not taken out of the buffer: every
\* later read stops at the same place with the same error, and nothing that comes
\* after it is ever handled.
ErrorIsFinal ==
    [][error # "kNoError" => error' = error /\ handled' = handled /\ retrieved' = retrieved]_vars

AsThing(i) == [item |-> i, good |-> Good(i)]

\* The reader implements the channel: everything is handled once and in order, up
\* to the first item that cannot be read.
Wire == INSTANCE Channel WITH
            Thing <- {AsThing(i) : i \in Item},
            sent <- [k \in DOMAIN stream |-> AsThing(stream[k].item)],
            received <- [k \in DOMAIN handled |-> AsThing(handled[k])],
            open <- conn # "closed"

ImplementsChannel == Wire!Spec

\* And everything that can be read is handled in the end, if the connection lasts.
ImplementsFairChannel == Wire!FairSpec

================================================================================
