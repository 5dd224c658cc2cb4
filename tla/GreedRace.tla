-------------------------------- MODULE GreedRace ------------------------------
(***************************************************************************)
(* What a game of Greed promises its players, with no word of boards,      *)
(* directions or turns: two sides eat the cells of a common set, a cell is *)
(* eaten once and is a point for whoever eats it, and the result is given  *)
(* once, is the score, and is final.  GreedGame implements it.             *)
(***************************************************************************)
EXTENDS Integers, FiniteSets

CONSTANTS
    Cell,           \* what there is to eat
    Side,           \* who eats
    MaxDigit,       \* the most that is eaten at once
    NotAnnounced    \* no result yet

VARIABLES
    eaten,    \* the cells that are gone
    score,    \* the points of each side
    result    \* the scores that were announced

vars == <<eaten, score, result>>

Init ==
    /\ eaten \in SUBSET Cell
    /\ score = [s \in Side |-> 0]
    /\ result = NotAnnounced

\* A side eats; the game may end with the meal.
Eat(s) ==
    LET meal == eaten' \ eaten
    IN  /\ eaten \subseteq eaten' /\ eaten' \subseteq Cell
        /\ Cardinality(meal) \in 1 .. MaxDigit
        /\ score' = [score EXCEPT ![s] = @ + Cardinality(meal)]
        /\ result' \in {result, score'}

\* The game ends without a meal.
End ==
    /\ result' = score
    /\ UNCHANGED <<eaten, score>>

Next ==
    /\ result = NotAnnounced
    /\ End \/ \E s \in Side : Eat(s)

Spec == Init /\ [][Next]_vars

================================================================================
