---------------------------- MODULE MCCargoTally ----------------------------
(***************************************************************************)
(* Values for model checking CargoTally: a vessel that holds two loads     *)
(* and one without a capacity; tallies that correct earlier ones and       *)
(* settings outside 0 and 100 %.                                           *)
(***************************************************************************)
EXTENDS CargoTally, TLC

CONSTANTS v1, v2

MCCapacity == [v \in Vessels |-> IF v = v1 THEN 2 ELSE 0]
MCMaxTallied == [v \in Vessels |-> IF v = v1 THEN 3 ELSE 1]
MCCounts == {-2, 0, 1}
MCSettings == {-1, 4}

Symmetry == Permutations(Workers)

=============================================================================
