------------------------------ MODULE MCGreedClient -----------------------------
(* GreedClient for TLC.                                                           *)
EXTENDS GreedClient, TLC

Symmetry == Permutations(RoomName)

================================================================================
