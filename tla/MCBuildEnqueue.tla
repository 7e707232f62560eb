--------------------------- MODULE MCBuildEnqueue ---------------------------
(***************************************************************************)
(* Instances of BuildEnqueue for TLC: two revisions under one profile, and *)
(* requests that poll, increment, or force a build they do not activate.   *)
(***************************************************************************)
EXTENDS BuildEnqueue, TLC

MCProfile(p) == 1

MCAsks == {Poll, [Poll EXCEPT !.mode = "incremental"],
           [Poll EXCEPT !.force = TRUE, !.activate = FALSE]}

\* Three builds where all replicas have one compiler, two where a change rolls out.
MCRoom(f) == IF Cardinality(f) = 1 THEN 3 ELSE 2

Symmetry == Permutations(Packages) \cup Permutations(Compilers)
=============================================================================
