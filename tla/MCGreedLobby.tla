------------------------------ MODULE MCGreedLobby -----------------------------
(***************************************************************************)
(* GreedLobby for TLC: connections are interchangeable, and so are the     *)
(* names users give to rooms.                                              *)
(***************************************************************************)
EXTENDS GreedLobby, TLC

Symmetry == Permutations(Client) \cup Permutations(RoomName)

================================================================================
