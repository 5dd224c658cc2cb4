----------------------------- MODULE MCProtobufCodec -----------------------------
(* A header of one byte, lengths from 4 to 6, and one item of every kind.       *)
EXTENDS ProtobufCodec

MCFrame(len, type) ==
    [len |-> len, size |-> len, nameLen |-> 2, type |-> type,
     sumAgrees |-> TRUE, generated |-> TRUE, complete |-> TRUE]

MCGood == {MCFrame(4, "SystemQuery"), MCFrame(6, "boardQuery"), MCFrame(4, "GridInfo")}

MCItem == MCGood \cup
    {[MCFrame(5, "SystemQuery") EXCEPT !.sumAgrees = FALSE],
     [MCFrame(4, "SystemQuery") EXCEPT !.nameLen = 3],
     [MCFrame(4, "SystemQuery") EXCEPT !.generated = FALSE],
     [MCFrame(4, "SystemQuery") EXCEPT !.complete = FALSE],
     MCFrame(7, "ShowInfo"),
     [MCFrame(5, "text") EXCEPT !.len = 9]}

================================================================================
