---------------------------- MODULE MCBuildQueue ----------------------------
(***************************************************************************)
(* Instances of BuildQueue for TLC.  They bound nothing but the database   *)
(* faults (MaxFaults) and the instance itself; processes, shutdowns,       *)
(* crashes and lease expiries are unbounded.                               *)
(***************************************************************************)
EXTENDS BuildQueue, TLC

\* Sound without fairness only: builds, identities and slots are
\* interchangeable, and no safety property names one.
Symmetry == Permutations(Builds) \cup Permutations(Procs) \cup Permutations(Slots)
=============================================================================
