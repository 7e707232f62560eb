---------------------------- MODULE MCWikiIndex ----------------------------
(* Instances of WikiIndex for TLC. *)
EXTENDS WikiIndex, TLC

Symmetry == Permutations(Builds) \cup Permutations(Pages) \cup Permutations(Indexers)
=============================================================================
