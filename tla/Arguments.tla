------------------------------ MODULE Arguments ------------------------------
(***************************************************************************)
(* What the modules without a state of their own share: a state gives one  *)
(* of them its argument, and the properties say of the result what must    *)
(* hold for every argument.  MCAlgorithms bounds the arguments for TLC;    *)
(* the theorems are about all of them.                                     *)
(***************************************************************************)
EXTENDS Naturals, Sequences, FiniteSets

CONSTANT Nil    \* nothing

VARIABLE input  \* of which algorithm, and its argument once it is chosen

Given(of) == input.of = of /\ input.x # Nil
=============================================================================
