--------------------------------- MODULE Channel ---------------------------------
(***************************************************************************)
(* What the rest of the program relies on: what a peer sends is handed to  *)
(* the handlers once, in order, until the first thing that cannot be read. *)
(* From there on nothing is.                                               *)
(***************************************************************************)
EXTENDS Naturals, Sequences

CONSTANT Thing   \* what may be sent: records with a field "good"

VARIABLES sent, received, open

vars == <<sent, received, open>>

Init ==
    /\ sent = <<>>
    /\ received = <<>>
    /\ open = TRUE

Send(x) ==
    /\ open
    /\ sent' = Append(sent, x)
    /\ UNCHANGED <<received, open>>

\* What was received is what was sent first.
Receive ==
    /\ open
    /\ Len(received) < Len(sent)
    /\ sent[Len(received) + 1].good
    /\ received' = Append(received, sent[Len(received) + 1])
    /\ UNCHANGED <<sent, open>>

Close ==
    /\ open
    /\ open' = FALSE
    /\ UNCHANGED <<sent, received>>

Next == (\E x \in Thing : Send(x)) \/ Receive \/ Close

Spec == Init /\ [][Next]_vars

\* As long as the connection lasts, what can be received is.
FairSpec == Spec /\ WF_vars(Receive)

================================================================================
