------------------------- MODULE MCMemoryProjection -------------------------
(* Instances of MemoryProjection for TLC. *)
EXTENDS MemoryProjection, TLC

Symmetry == Permutations(Keys) \cup Permutations(Indexers)
=============================================================================
