-------------------------- MODULE MCSupersedeChain --------------------------
(* Instances of SupersedeChain for TLC: entries are the first few numbers.  *)
EXTENDS SupersedeChain, TLC

Symmetry == Permutations(Calls)
=============================================================================
