-------------------------- MODULE MCResourceStore --------------------------
(* Instances of ResourceStore for TLC. *)
EXTENDS ResourceStore, TLC

\* Lists of one id, of all ids in both orders, and with an id that is not a
\* UUID after a valid one.
OneIdDrops == {<<i>> : i \in Ids}
MixedDrops == {<<1>>, <<1, 2>>, <<2, 1>>, <<2, BadId>>}
SerialDrops == {<<>>, <<1>>, <<1, 1>>, <<2, 1>>, <<2, BadId>>}

WriterSymmetry == Permutations(Writers)
HashSymmetry == Permutations(Hashes)
Symmetry == WriterSymmetry \cup HashSymmetry
=============================================================================
