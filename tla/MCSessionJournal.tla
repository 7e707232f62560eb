--------------------------- MODULE MCSessionJournal ---------------------------
(* Instances of SessionJournal for TLC. *)
EXTENDS SessionJournal, TLC

Symmetry == Permutations(Calls) \cup Permutations(Contents) \cup Permutations(Sessions)
=============================================================================
