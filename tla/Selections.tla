------------------------------ MODULE Selections ------------------------------
(***************************************************************************)
(* Sequences taken from a sequence or from a set.  SelectSeq and SortSeq   *)
(* have no definition that a prover can unfold; these have one.            *)
(***************************************************************************)
EXTENDS Integers, Sequences, FiniteSets

\* What a sequence has at some of its places, in its order.
Picked(s, places) ==
  LET taken[n \in 0 .. Len(s)] ==
        IF n = 0 THEN <<>>
        ELSE IF n \in places THEN Append(taken[n - 1], s[n]) ELSE taken[n - 1]
  IN taken[Len(s)]

\* A finite set in an order, given by its pairs: an element's place is told by the
\* number of those before it.
InOrder(S, before) ==
  [n \in 1 .. Cardinality(S) |->
     CHOOSE a \in S : Cardinality({b \in S : <<b, a>> \in before}) = n - 1]

Ascending(S) == InOrder(S, {p \in S \X S : p[1] < p[2]})
=============================================================================
