--------------------------- MODULE MCSourceIngest ---------------------------
(* Instances of SourceIngest for TLC: a Git package and a local one. *)
EXTENDS SourceIngest, TLC

CONSTANTS g, l
MCOrigins == {g, l}
MCGit(o)  == o = g

\* A client that knows of no sync, or sends back one it read long ago.
MCMetadata == {NoSync} \cup {[status |-> "succeeded", commit |-> 1, package |-> p] :
                               p \in Packages}

Symmetry == Permutations(Packages) \cup Permutations(Calls)
=============================================================================
