------------------------------ MODULE MCMessageTrip ------------------------------
(* Texts short enough and long enough for a length of one byte and of two.      *)
EXTENDS MessageTrip

MCText == {"", "show", "room", "answer", "board"}
MCTextLength ==
    [t \in MCText |-> CASE t = "" -> 0 [] t = "answer" -> 38 [] t = "board" -> 1520 [] OTHER -> 4]
MCNumber == {0, 127, 128, 1520}

================================================================================
