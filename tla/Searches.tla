------------------------------ MODULE Searches ------------------------------
(***************************************************************************)
(* Hybrid searches and the three that are built on them.                   *)
(***************************************************************************)
EXTENDS Arguments

CONSTANTS ChunkRows, Dead, MaxRequest, DefaultTopK, OverFetch, MemoryFetch

Searching == INSTANCE HybridSearch WITH Docs <- ChunkRows

\* A row has an age, and a request may ask for something; reciprocal ranks are told apart.
ASSUME RowsAssumption == ChunkRows \subseteq Nat
ASSUME LimitsAssumption ==
  /\ MaxRequest \in Nat /\ 1 <= MaxRequest /\ MaxRequest <= 1000
  /\ {DefaultTopK, OverFetch, MemoryFetch} \subseteq Nat \ {0}

\* A search answers with the best of what its two legs found that the caller may see, a
\* search of a wiki as far as its over-fetch fits the limit of a request; and feedback
\* moves a memory by no more than its cap (SearchHybrid and its three callers).
SearchServesBest ==
  Given("search") => /\ Searching!HybridIsFair(input.x) /\ Searching!SourcesAreKept(input.x)
                     /\ Searching!WikiIsServed(input.x) /\ Searching!FeedbackIsBounded(input.x)
=============================================================================
