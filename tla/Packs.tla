-------------------------------- MODULE Packs --------------------------------
(***************************************************************************)
(* What an agent is given to begin a task with.                            *)
(***************************************************************************)
EXTENDS Arguments

CONSTANTS MinItem, MaxLines

Packing == INSTANCE ContextPack WITH None <- Nil

\* To have nothing to say is no note.
ASSUME PacksAssumption == Nil \notin Packing!Notes /\ MinItem \in Nat /\ MaxLines \in Nat

\* A pack keeps to its budget and to its caller's scopes, and one provider that fails
\* takes nothing from the others (Service.Pack).
PackIsSound == Given("pack") => Packing!PackIsSound(input.x)
=============================================================================
