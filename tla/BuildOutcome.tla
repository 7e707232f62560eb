---------------------------- MODULE BuildOutcome ----------------------------
(***************************************************************************)
(* What the compile queue promises about a wiki build, whatever crashes,   *)
(* lease expiries, retries and late answers happen underneath:             *)
(*   - a requested build is decided at most once: either some attempt      *)
(*     writes its wiki, or the build is closed without one;                *)
(*   - a written wiki is never taken back or written a second time, and a  *)
(*     closed build never produces one afterwards;                         *)
(*   - a source only ever serves a wiki that was written.                  *)
(* BuildQueue is shown to implement this specification.                    *)
(***************************************************************************)
CONSTANTS Builds,      \* the build rows of one knowledge source
          None         \* "no build": the source serves nothing yet

VARIABLES outcome,     \* the fate of each build
          serving      \* the build the source's pointer names

vars == <<outcome, serving>>

Outcomes == {"none", "open", "written", "closed"}

Init == /\ outcome = [b \in Builds |-> "none"]
        /\ serving = None

Decide(b, from, to) ==
  /\ outcome[b] = from
  /\ outcome' = [outcome EXCEPT ![b] = to]
  /\ UNCHANGED serving

Request(b) == Decide(b, "none", "open")
Write(b)   == Decide(b, "open", "written")
Close(b)   == Decide(b, "open", "closed")

Serve(b) ==
  /\ outcome[b] = "written"
  /\ serving' = b
  /\ UNCHANGED outcome

Next == \E b \in Builds : Request(b) \/ Write(b) \/ Close(b) \/ Serve(b)

Spec == Init /\ [][Next]_vars
=============================================================================
