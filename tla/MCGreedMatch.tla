------------------------------ MODULE MCGreedMatch ------------------------------
(* GreedMatch for TLC: a board of one row, on which the players use the two keys  *)
(* that lead along it.                                                            *)
EXTENDS GreedMatch

MCKey == {<<0, -1>>, <<0, 1>>}

================================================================================
