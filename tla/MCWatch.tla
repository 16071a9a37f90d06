------------------------------ MODULE MCWatch ------------------------------
(* Instances of Watch for TLC. *)
EXTENDS Watch, TLC

CONSTANT MaxEvents   \* bound: no state with more events is explored

FewEvents == Cardinality(events) <= MaxEvents

HashSymmetry == Permutations(Hashes)
=============================================================================
