---------------------------- MODULE Recall_proof ----------------------------
(***************************************************************************)
(* Proofs about the memories and what is recalled of them.                 *)
(*                                                                         *)
(* SupersedeChain, for any number of entries and concurrent calls, aborted *)
(* anywhere: what the locks and checks of SupersedeEntry do enforce.  (A   *)
(* replacement cycle of four they do not prevent: see the README.)         *)
(*                                                                         *)
(* HybridSearch, for every request: an answer holds the best of what the   *)
(* two legs found that the caller may see (SearchesServeBest).  A sequence *)
(* that the code takes from another is told by its places there (Takes),   *)
(* and a loop by induction on the recursive function it is (Recurs).       *)
(***************************************************************************)
EXTENDS SupersedeChain, Searches, Selections,
        FiniteSetTheorems, FunctionTheorems, SequenceTheorems, WellFoundedInduction, TLAPS

\* The cycle check's recursive query returns the direct replacement, if any.
LEMMA ReplacementInChain ==
  ASSUME NEW e \in Entries, by[e] \in Entries
  PROVE  by[e] \in Chain(e)
BY NoneAssumption DEF Chain, Closed

\* A step that touches no replacement, and changes only c's transaction.  The
\* locks of the other calls stay where they are.
LEMMA OneCallIInv ==
  ASSUME IInv, NEW c \in Calls, UNCHANGED by, NEW t \in Txs,
         tx' = [tx EXCEPT ![c] = t],
         lock' \in [Entries -> Calls \cup {None}],
         \A e \in Entries : lock[e] \in Calls \ {c} => lock'[e] = lock[e],
         t.pc # "idle" => t.new \in Entries /\ t.old \in Entries /\ t.new # t.old,
         t.pc \in {"checking", "writing"} => lock'[t.new] = c /\ lock'[t.old] = c,
         t.pc = "writing" => by[t.old] = None /\ by[t.new] # t.old
  PROVE  IInv'
<1>1. tx'[c] = t /\ \A d \in Calls \ {c} : tx'[d] = tx[d]
      BY DEF IInv, TypeOK
<1>2. TypeOK' BY DEF IInv, TypeOK
<1>3. PairOK' BY <1>1 DEF IInv, PairOK
<1>4. ChecksAreCurrent'
  <2> SUFFICES ASSUME NEW d \in Calls
      PROVE  /\ tx'[d].pc \in {"checking", "writing"} =>
                  lock'[tx'[d].new] = d /\ lock'[tx'[d].old] = d
             /\ tx'[d].pc = "writing" =>
                  by[tx'[d].old] = None /\ by[tx'[d].new] # tx'[d].old
      BY DEF ChecksAreCurrent, Holds
  <2>1. CASE d = c BY <1>1, <2>1
  <2>2. CASE d # c
        BY <1>1, <2>2 DEF IInv, ChecksAreCurrent, Holds, PairOK
  <2> QED BY <2>1, <2>2
<1>5. NoMutualReplacement' BY DEF IInv, NoMutualReplacement
<1> QED BY <1>2, <1>3, <1>4, <1>5 DEF IInv

\* A transaction that ends gives up its locks and nobody else's.
LEMMA EndIInv ==
  ASSUME IInv, NEW c \in Calls, EndTx(c), UNCHANGED by
  PROVE  IInv'
<1>1. NoTx \in Txs /\ NoTx.pc = "idle" BY DEF NoTx, Txs
<1>2. lock' \in [Entries -> Calls \cup {None}]
      BY DEF EndTx, IInv, TypeOK
<1>3. \A e \in Entries : lock[e] \in Calls \ {c} => lock'[e] = lock[e]
      BY DEF EndTx
<1> QED BY <1>1, <1>2, <1>3, OneCallIInv DEF EndTx

\* A call begins with two entries and no lock.
LEMMA BeginIInv ==
  ASSUME IInv, NEW c \in Calls, Begin(c)
  PROVE  IInv'
<1>1. PICK new \in Entries, old \in Entries :
        new # old /\ tx' = [tx EXCEPT ![c] = [pc |-> "locking", new |-> new, old |-> old]]
      BY DEF Begin
<1>2. [pc |-> "locking", new |-> new, old |-> old] \in Txs BY DEF Txs
<1>3. lock' \in [Entries -> Calls \cup {None}] BY DEF Begin, IInv, TypeOK
<1> QED BY <1>1, <1>2, <1>3, OneCallIInv DEF Begin

\* The call checks once it holds both rows.
LEMMA LockRowIInv ==
  ASSUME IInv, NEW c \in Calls, LockRow(c)
  PROVE  IInv'
<1> DEFINE wanted == Unlocked(c, {tx[c].new, tx[c].old})
<1>1. PICK e \in wanted :
        /\ lock[e] = None /\ lock' = [lock EXCEPT ![e] = c]
        /\ tx' = [tx EXCEPT ![c].pc = IF wanted = {e} THEN "checking" ELSE "locking"]
      BY DEF LockRow, LockOne
<1> DEFINE t == [tx[c] EXCEPT !.pc = IF wanted = {e} THEN "checking" ELSE "locking"]
<1>2. /\ tx[c].pc = "locking" /\ tx[c].new \in Entries /\ tx[c].old \in Entries
      /\ tx[c].new # tx[c].old
      BY DEF LockRow, LockOne, IInv, PairOK
<1>3. t \in Txs /\ t.new = tx[c].new /\ t.old = tx[c].old /\ t.pc # "writing"
      BY DEF IInv, TypeOK, Txs
<1>4. t.pc = "checking" => wanted = {e}
      BY DEF IInv, TypeOK, Txs
<1>5. tx' = [tx EXCEPT ![c] = t] BY <1>1
<1>6. e \in Entries BY <1>2 DEF Unlocked
<1>7. /\ lock' \in [Entries -> Calls \cup {None}]
      /\ \A f \in Entries : lock[f] \in Calls \ {c} => lock'[f] = lock[f]
      BY <1>1, <1>6, NoneAssumption DEF IInv, TypeOK
<1>8. t.pc = "checking" => lock'[t.new] = c /\ lock'[t.old] = c
  <2> SUFFICES ASSUME t.pc = "checking", NEW f \in {tx[c].new, tx[c].old}
      PROVE  lock'[f] = c
      BY <1>3
  <2>1. CASE f = e BY <1>1, <1>6, <2>1 DEF IInv, TypeOK
  <2>2. CASE f # e
    <3>1. lock[f] = c BY <1>4, <2>2 DEF Unlocked
    <3> QED BY <1>1, <1>2, <2>2, <3>1 DEF IInv, TypeOK
  <2> QED BY <2>1, <2>2
<1> HIDE DEF t
<1> QED BY <1>2, <1>3, <1>5, <1>7, <1>8, OneCallIInv DEF LockRow, LockOne

\* The cycle check has seen the direct replacement of the new entry.
LEMMA PassCycleIInv ==
  ASSUME IInv, NEW c \in Calls, PassCycle(c)
  PROVE  IInv'
<1> DEFINE t == [tx[c] EXCEPT !.pc = "writing"]
<1>1. /\ tx[c].pc = "checking" /\ tx[c].new \in Entries /\ tx[c].old \in Entries
      /\ tx[c].new # tx[c].old
      BY DEF PassCycle, IInv, PairOK
<1>2. t \in Txs /\ t.new = tx[c].new /\ t.old = tx[c].old /\ t.pc = "writing"
      BY DEF IInv, TypeOK, Txs
<1>3. tx' = [tx EXCEPT ![c] = t] BY DEF PassCycle, Passes
<1>4. by[tx[c].new] # tx[c].old
      BY <1>1, ReplacementInChain DEF PassCycle
<1>5. Holds(c) BY <1>1 DEF IInv, ChecksAreCurrent
<1>6. lock' \in [Entries -> Calls \cup {None}] BY DEF PassCycle, Passes, IInv, TypeOK
<1>7. UNCHANGED by /\ lock' = lock /\ by[tx[c].old] = None
      BY DEF PassCycle, Passes
<1>8. lock'[t.new] = c /\ lock'[t.old] = c BY <1>2, <1>5, <1>7 DEF Holds
<1>9. by[t.old] = None /\ by[t.new] # t.old BY <1>2, <1>4, <1>7
<1> HIDE DEF t
<1> QED BY <1>1, <1>2, <1>3, <1>6, <1>7, <1>8, <1>9, OneCallIInv

\* The write finds what the checks found: nobody else holds either row.
LEMMA WriteIInv ==
  ASSUME IInv, NEW c \in Calls, Write(c)
  PROVE  IInv'
<1> DEFINE new == tx[c].new
           old == tx[c].old
<1>1. new \in Entries /\ old \in Entries /\ new # old
      BY DEF Write, IInv, PairOK
<1>2. Holds(c) /\ by[old] = None /\ by[new] # old
      BY DEF Write, IInv, ChecksAreCurrent
<1>3. by'[old] = new /\ \A e \in Entries \ {old} : by'[e] = by[e]
      BY <1>1 DEF Write, IInv, TypeOK
<1>4. /\ tx'[c] = NoTx /\ \A d \in Calls \ {c} : tx'[d] = tx[d]
      /\ \A e \in Entries : lock'[e] = IF lock[e] = c THEN None ELSE lock[e]
      BY DEF Write, EndTx, IInv, TypeOK
<1>5. TypeOK'
  <2>1. NoTx \in Txs BY DEF NoTx, Txs
  <2> QED BY <1>1, <2>1 DEF Write, EndTx, IInv, TypeOK
<1>6. PairOK' BY <1>4 DEF NoTx, IInv, PairOK
<1>7. ChecksAreCurrent'
  <2> SUFFICES ASSUME NEW d \in Calls, tx'[d].pc \in {"checking", "writing"}
      PROVE  /\ lock'[tx'[d].new] = d /\ lock'[tx'[d].old] = d
             /\ tx'[d].pc = "writing" =>
                  by'[tx'[d].old] = None /\ by'[tx'[d].new] # tx'[d].old
      BY DEF ChecksAreCurrent, Holds
  <2>1. d # c /\ tx'[d] = tx[d] BY <1>4 DEF NoTx
  <2>2. Holds(d) /\ tx[d].new \in Entries /\ tx[d].old \in Entries
        BY <2>1 DEF IInv, ChecksAreCurrent, PairOK
  <2>3. tx[d].new # old /\ tx[d].old # old
        BY <1>2, <2>1, <2>2 DEF Holds
  <2> QED BY <1>3, <1>4, <2>1, <2>2, <2>3 DEF Holds, IInv, ChecksAreCurrent
<1>8. NoMutualReplacement'
      BY <1>1, <1>2, <1>3 DEF IInv, NoMutualReplacement
<1> QED BY <1>5, <1>6, <1>7, <1>8 DEF IInv

\* It holds at the start.
LEMMA InitIInv == Init => IInv
BY NoneAssumption DEF Init, NoTx, IInv, TypeOK, Txs, PairOK, ChecksAreCurrent, NoMutualReplacement

\* Every step keeps it.
LEMMA StepIInv == IInv /\ [Next]_vars => IInv'
<1> SUFFICES ASSUME IInv, [Next]_vars PROVE IInv'
    OBVIOUS
<1>1. ASSUME NEW c \in Calls, Begin(c) \/ CallStep(c) \/ Abort(c) PROVE IInv'
  <2>1. CASE Begin(c) BY <2>1, BeginIInv
  <2>2. CASE LockRow(c) BY <2>2, LockRowIInv
  <2>3. CASE AlreadyReplaced(c) \/ RefuseCycle(c) \/ Abort(c)
        BY <2>3, EndIInv DEF AlreadyReplaced, RefuseCycle, Abort
  <2>4. CASE PassCycle(c) BY <2>4, PassCycleIInv
  <2>5. CASE Write(c) BY <2>5, WriteIInv
  <2> QED BY <1>1, <2>1, <2>2, <2>3, <2>4, <2>5 DEF CallStep
<1>2. CASE UNCHANGED vars
      BY <1>2 DEF vars, IInv, TypeOK, PairOK, ChecksAreCurrent, Holds, NoMutualReplacement
<1> QED BY <1>1, <1>2 DEF Next

\* The invariant of SupersedeEntry's transactions holds in every reachable
\* state, for any number of entries and calls.
THEOREM Invariance == Spec => []IInv
BY InitIInv, StepIInv, PTL DEF Spec

\* Repo.SupersedeEntry: what a transaction checked is still so when it writes.
THEOREM ChecksAlwaysCurrent == Spec => []ChecksAreCurrent
<1>1. IInv => ChecksAreCurrent BY DEF IInv
<1> QED BY <1>1, Invariance, PTL

\* No two entries replace each other, and none itself.
THEOREM NeverMutual == Spec => []NoMutualReplacement
<1>1. IInv => NoMutualReplacement BY DEF IInv
<1> QED BY <1>1, Invariance, PTL

\* A replacement that was committed is never switched or taken back.
THEOREM ReplacementAlwaysFinal == Spec => ReplacementIsFinal
<1>1. IInv /\ [Next]_vars => [\A e \in Entries : by[e] # None => by'[e] = by[e]]_vars
  <2> SUFFICES ASSUME IInv, Next, NEW e \in Entries, by[e] # None PROVE by'[e] = by[e]
      OBVIOUS
  <2>1. ASSUME NEW c \in Calls, Write(c) PROVE by'[e] = by[e]
    <3>1. by[tx[c].old] = None /\ tx[c].old \in Entries
          BY <2>1 DEF Write, IInv, ChecksAreCurrent, PairOK
    <3> QED BY <2>1, <3>1 DEF Write, IInv, TypeOK
  <2>2. ASSUME NEW c \in Calls, ~Write(c), Begin(c) \/ CallStep(c) \/ Abort(c)
        PROVE  by' = by
        BY <2>2 DEF CallStep, Begin, LockRow, LockOne, AlreadyReplaced, RefuseCycle,
                   PassCycle, Passes, Abort
  <2> QED BY <2>1, <2>2 DEF Next
<1> QED BY <1>1, Invariance, PTL DEF Spec, ReplacementIsFinal

-----------------------------------------------------------------------------
\* What the recursive query returns holds its start and is closed: it is the least
\* such set.
LEMMA ChainClosed ==
  ASSUME TypeOK, NEW e \in Entries
  PROVE  e \in Chain(e) /\ Closed(Chain(e)) /\ Chain(e) \subseteq Entries
<1>1. e \in Chain(e) /\ Chain(e) \subseteq Entries BY DEF Chain
<1>2. ASSUME NEW x \in Chain(e), by[x] # None PROVE by[x] \in Chain(e)
  <2>1. by[x] \in Entries BY <1>1, <1>2 DEF TypeOK
  <2>2. ASSUME NEW S \in SUBSET Entries, e \in S, Closed(S) PROVE by[x] \in S
    <3>1. x \in S BY <2>2 DEF Chain
    <3> QED BY <1>2, <2>2, <3>1 DEF Closed
  <2> QED BY <2>1, <2>2 DEF Chain
<1> QED BY <1>1, <1>2 DEF Closed

\* A replacement recorded while old is not in new's chain leaves every chain with an
\* end: a chain that does not reach old is the same as before, one that does goes on
\* into new's.
LEMMA WriteNeverCyclic ==
  ASSUME IInv, NeverCyclic, NEW c \in Calls, Write(c), tx[c].old \notin Chain(tx[c].new)
  PROVE  NeverCyclic'
<1> DEFINE new == tx[c].new
           old == tx[c].old
<1>1. /\ new \in Entries /\ old \in Entries /\ by[old] = None /\ old \notin Chain(new)
      /\ TypeOK
      BY DEF Write, IInv, PairOK, ChecksAreCurrent
<1>2. by'[old] = new /\ \A x \in Entries \ {old} : by'[x] = by[x]
      BY <1>1 DEF Write, TypeOK
<1> HIDE DEF new, old
<1> SUFFICES ASSUME NEW e \in Entries
             PROVE  \E x \in Entries : /\ by'[x] = None
                                      /\ \A S \in SUBSET Entries : e \in S /\ Closed(S)' => x \in S
    BY DEF NeverCyclic, Ends, Chain
<1>3. CASE old \notin Chain(e)
  <2>1. PICK x \in Chain(e) : by[x] = None BY DEF NeverCyclic, Ends
  <2>2. x \in Entries /\ x # old BY <1>1, <1>3, <2>1, ChainClosed
  <2>3. ASSUME NEW S \in SUBSET Entries, e \in S, Closed(S)' PROVE x \in S
    <3> DEFINE T == S \cap Chain(e)
    <3>1. e \in T /\ T \in SUBSET Entries BY <1>1, <2>3, ChainClosed
    <3>2. ASSUME NEW y \in T, by[y] # None PROVE by[y] \in T
      <4>1. y \in Entries \ {old} /\ by[y] \in Chain(e)
            BY <1>1, <1>3, <3>2, ChainClosed DEF Closed
      <4>2. by'[y] = by[y] BY <1>2, <4>1
      <4> QED BY <2>3, <3>2, <4>1, <4>2 DEF Closed
    <3>3. Closed(T) BY <3>2 DEF Closed
    <3> QED BY <2>1, <3>1, <3>3 DEF Chain
  <2>4. by'[x] = None BY <1>2, <2>1, <2>2
  <2> QED BY <2>2, <2>3, <2>4
<1>4. CASE old \in Chain(e)
  <2>1. PICK x \in Chain(new) : by[x] = None BY <1>1 DEF NeverCyclic, Ends
  <2>2. x \in Entries /\ x # old BY <1>1, <2>1, ChainClosed
  <2>3. ASSUME NEW S \in SUBSET Entries, e \in S, Closed(S)' PROVE x \in S
    <3>1. Closed(S)
      <4> SUFFICES ASSUME NEW y \in S, by[y] # None PROVE by[y] \in S
          BY DEF Closed
      <4>1. by'[y] = by[y] BY <1>1, <1>2
      <4> QED BY <2>3, <4>1 DEF Closed
    <3>2. old \in S BY <1>4, <2>3, <3>1 DEF Chain
    <3>3. new \in S BY <1>1, <1>2, <2>3, <3>2, NoneAssumption DEF Closed
    <3> QED BY <2>1, <3>1, <3>3 DEF Chain
  <2>4. by'[x] = None BY <1>2, <2>1, <2>2
  <2> QED BY <2>2, <2>3, <2>4
<1> QED BY <1>3, <1>4

\* While the calls are serial a step makes no cycle.
LEMMA ChainsStep ==
  ASSUME IInv, Serial, NeverCyclic, CycleChecksHold, [Next]_vars
  PROVE  NeverCyclic' /\ CycleChecksHold'
<1>1. ASSUME NEW c \in Calls, Write(c) PROVE NeverCyclic' /\ CycleChecksHold'
  <2>1. NeverCyclic' BY <1>1, WriteNeverCyclic DEF CycleChecksHold, Write
  <2>2. \A d \in Calls : tx'[d].pc # "writing"
        BY <1>1 DEF Write, EndTx, NoTx, IInv, TypeOK, Serial
  <2> QED BY <2>1, <2>2 DEF CycleChecksHold
<1>2. ASSUME by' = by,
             \A d \in Calls : tx'[d].pc = "writing" =>
               /\ tx'[d].old = tx[d].old /\ tx'[d].new = tx[d].new
               /\ tx[d].old \notin Chain(tx[d].new)
      PROVE  NeverCyclic' /\ CycleChecksHold'
      BY <1>2 DEF NeverCyclic, Ends, Chain, Closed, CycleChecksHold
<1>3. ASSUME NEW c \in Calls, ~Write(c), Begin(c) \/ CallStep(c) \/ Abort(c)
      PROVE  NeverCyclic' /\ CycleChecksHold'
  <2>1. by' = by
        BY <1>3 DEF CallStep, Begin, LockRow, LockOne, AlreadyReplaced, RefuseCycle,
                    PassCycle, Passes, Abort
  <2>2. \A d \in Calls \ {c} : tx'[d] = tx[d]
        BY <1>3 DEF CallStep, Begin, LockRow, LockOne, AlreadyReplaced, RefuseCycle,
                    PassCycle, Passes, Abort, EndTx, IInv, TypeOK
  <2>3. ASSUME tx'[c].pc = "writing" PROVE PassCycle(c)
        BY <1>3, <2>3 DEF CallStep, Begin, LockRow, LockOne, AlreadyReplaced, RefuseCycle,
                          Abort, EndTx, NoTx, IInv, TypeOK, Txs
  <2>4. ASSUME PassCycle(c)
        PROVE  /\ tx'[c].old = tx[c].old /\ tx'[c].new = tx[c].new
               /\ tx[c].old \notin Chain(tx[c].new)
        BY <2>4 DEF PassCycle, Passes, IInv, TypeOK, Txs
  <2> QED BY <1>2, <2>1, <2>2, <2>3, <2>4 DEF CycleChecksHold
<1>4. CASE UNCHANGED vars BY <1>2, <1>4 DEF vars, CycleChecksHold
<1> QED BY <1>1, <1>3, <1>4 DEF Next

\* Repo.SupersedeEntry: as long as no two calls are between their cycle check and
\* their commit at once, no replacement cycle of any length arises.
THEOREM SerialNeverCyclic == Spec /\ []Serial => []NeverCyclic
<1>1. Init => NeverCyclic /\ CycleChecksHold
  <2> SUFFICES ASSUME Init PROVE NeverCyclic /\ CycleChecksHold
      OBVIOUS
  <2>1. TypeOK BY InitIInv DEF IInv
  <2> QED BY <2>1, ChainClosed DEF Init, NoTx, NeverCyclic, Ends, CycleChecksHold
<1>2. IInv /\ Serial /\ NeverCyclic /\ CycleChecksHold /\ [Next]_vars
        => NeverCyclic' /\ CycleChecksHold'
      BY ChainsStep
<1> QED BY <1>1, <1>2, Invariance, PTL DEF Spec

\* Two calls past their cycle checks hold disjoint pairs of rows.
LEMMA OverlapNeedsFour ==
  ASSUME IInv, NEW c \in Calls, NEW d \in Calls, c # d,
         tx[c].pc = "writing", tx[d].pc = "writing"
  PROVE  /\ {tx[c].new, tx[c].old, tx[d].new, tx[d].old} \subseteq Entries
         /\ tx[c].new # tx[c].old /\ tx[d].new # tx[d].old
         /\ {tx[c].new, tx[c].old} \cap {tx[d].new, tx[d].old} = {}
BY DEF IInv, PairOK, ChecksAreCurrent, Holds

\* With at most three entries the row locks serialise the calls, so that no cycle ever
\* arises (with four they do not: see the README).
THEOREM NeverCyclicOfThree ==
  ASSUME \A e, f, g, h \in Entries : e = f \/ e = g \/ e = h \/ f = g \/ f = h \/ g = h
  PROVE  Spec => []NeverCyclic
<1>1. IInv => Serial
  <2> SUFFICES ASSUME IInv, NEW c \in Calls, NEW d \in Calls, c # d,
                      tx[c].pc = "writing", tx[d].pc = "writing"
               PROVE  FALSE
      BY DEF Serial
  <2>1. /\ {tx[c].new, tx[c].old, tx[d].new, tx[d].old} \subseteq Entries
        /\ tx[c].new # tx[c].old /\ tx[d].new # tx[d].old
        /\ {tx[c].new, tx[c].old} \cap {tx[d].new, tx[d].old} = {}
        BY OverlapNeedsFour
  <2>2. ASSUME NEW e \in Entries, NEW f \in Entries, NEW g \in Entries, NEW h \in Entries
        PROVE  ~(e # f /\ g # h /\ {e, f} \cap {g, h} = {})
    <3>1. e = f \/ e = g \/ e = h \/ f = g \/ f = h \/ g = h
          OBVIOUS
    <3> QED BY <3>1
  <2> QED BY <2>1, <2>2
<1> QED BY <1>1, Invariance, SerialNeverCyclic, PTL

\* Calls that come one at a time never make a cycle, whatever the entries.
THEOREM NeverCyclicOneByOne ==
  ASSUME \A c, d \in Calls : c = d
  PROVE  Spec => []NeverCyclic
<1>1. Serial BY DEF Serial
<1> QED BY <1>1, SerialNeverCyclic, PTL

-----------------------------------------------------------------------------
\* Recursion and orders.

\* Induction over the naturals, the statement being the set of those it holds of.
LEMMA InductionOnNat ==
  ASSUME NEW S, 0 \in S, \A n \in Nat : n \in S => n + 1 \in S
  PROVE  Nat \subseteq S
<1> DEFINE T == Nat \ S
           R == {r \in Nat \X Nat : r[1] < r[2]}
<1> SUFFICES ASSUME T # {} PROVE FALSE
    OBVIOUS
<1>1. IsWellFoundedOn(R, Nat)
      BY NatLessThanWellFounded DEF OpToRel
<1>2. \E n \in T : \A m \in T : ~(<<m, n>> \in R)
  <2>1. T \subseteq Nat
        OBVIOUS
  <2> HIDE DEF T, R
  <2> QED BY <1>1, <2>1, WFMin
<1>3. PICK n \in T : \A m \in T : ~(m < n)
      BY <1>2
<1>4. n # 0 /\ n - 1 \in Nat /\ n - 1 \in S
      BY <1>3
<1> QED BY <1>3, <1>4

\* A function whose values follow one from the other.
Recurs(f, c, h, N) == f[0] = c /\ \A n \in 1 .. N : f[n] = h[<<f[n - 1], n>>]

\* A function whose values follow one from the other exists.
LEMMA Recursion ==
  ASSUME NEW V, NEW c \in V, NEW h \in [V \X Nat -> V], NEW N \in Nat
  PROVE  \E f \in [0 .. N -> V] : Recurs(f, c, h, N)
<1> DEFINE F(n) == {f \in [0 .. n -> V] :
                      /\ f[0] = c
                      /\ \A i \in 1 .. n : f[i] = h[<<f[i - 1], i>>]}
           S == {n \in Nat : F(n) # {}}
<1>1. 0 \in S
  <2>1. [i \in 0 .. 0 |-> c] \in F(0)
        OBVIOUS
  <2> QED BY <2>1
<1>2. ASSUME NEW n \in Nat, n \in S
      PROVE  n + 1 \in S
  <2>1. PICK f \in F(n) : TRUE
        BY <1>2
  <2> DEFINE g == [i \in 0 .. n + 1 |-> IF i = n + 1 THEN h[<<f[n], n + 1>>] ELSE f[i]]
  <2>2. g \in F(n + 1)
    <3>1. f[n] \in V /\ h[<<f[n], n + 1>>] \in V
          OBVIOUS
    <3>2. g \in [0 .. n + 1 -> V] /\ g[0] = c
          BY <3>1
    <3>3. ASSUME NEW i \in 1 .. n + 1
          PROVE  g[i] = h[<<g[i - 1], i>>]
          OBVIOUS
    <3> QED BY <3>2, <3>3
  <2> HIDE DEF F
  <2> QED BY <2>2
<1>3. Nat \subseteq S
  <2> HIDE DEF S
  <2> QED BY <1>1, <1>2, InductionOnNat
<1>4. PICK f \in F(N) : TRUE
      BY <1>3
<1> QED BY <1>4 DEF Recurs

\* A strict total order of a set, and what is before an element.
Orders(R, S) ==
  /\ R \subseteq S \X S /\ \A a \in S : <<a, a>> \notin R
  /\ \A a, b, c \in S : <<a, b>> \in R /\ <<b, c>> \in R => <<a, c>> \in R
  /\ \A a, b \in S : a # b => <<a, b>> \in R \/ <<b, a>> \in R

Ahead(R, S, s) == {t \in S : <<t, s>> \in R}

\* In a finite set the number of those before it tells an element's place.
LEMMA PlacesAreTaken ==
  ASSUME NEW S, IsFiniteSet(S), NEW R, Orders(R, S)
  PROVE  [s \in S |-> Cardinality(Ahead(R, S, s))]
           \in Bijection(S, 0 .. Cardinality(S) - 1)
<1> DEFINE N == Cardinality(S)
           place == [s \in S |-> Cardinality(Ahead(R, S, s))]
<1>1. N \in Nat
      BY FS_CardinalityType
<1>2. \A s \in S : IsFiniteSet(Ahead(R, S, s)) /\ Cardinality(Ahead(R, S, s)) \in Nat
      BY FS_Subset, FS_CardinalityType DEF Ahead
<1>3. \A s \in S : Cardinality(Ahead(R, S, s)) < N
  <2> TAKE s \in S
  <2>1. Ahead(R, S, s) \in SUBSET S /\ s \notin Ahead(R, S, s)
        BY DEF Ahead, Orders
  <2> QED BY <1>1, <1>2, <2>1, FS_Subset
<1>4. ASSUME NEW s \in S, NEW t \in S, <<s, t>> \in R
      PROVE  Cardinality(Ahead(R, S, s)) < Cardinality(Ahead(R, S, t))
  <2>1. Ahead(R, S, s) \in SUBSET Ahead(R, S, t) /\ s \in Ahead(R, S, t) /\ s \notin Ahead(R, S, s)
        BY <1>4 DEF Ahead, Orders
  <2> QED BY <1>2, <2>1, FS_Subset
<1>5. place \in Injection(S, 0 .. N - 1)
  <2>1. place \in [S -> 0 .. N - 1]
        BY <1>1, <1>2, <1>3
  <2>2. ASSUME NEW s \in S, NEW t \in S, s # t
        PROVE  place[s] # place[t]
    <3>1. <<s, t>> \in R \/ <<t, s>> \in R
          BY <2>2 DEF Orders
    <3> QED BY <1>2, <1>4, <3>1
  <2> QED BY <2>1, <2>2 DEF Injection, IsInjective
<1>6. IsFiniteSet(0 .. N - 1) /\ Cardinality(0 .. N - 1) = N
      BY <1>1, FS_Interval
<1>7. place \in Surjection(S, 0 .. N - 1)
      BY <1>5, <1>6, FS_Injection
<1> QED BY <1>5, <1>7 DEF Bijection

\* Induction over the numbers up to one.
LEMMA InductionUpTo ==
  ASSUME NEW N \in Nat, NEW S, 0 \in S, \A n \in 0 .. N - 1 : n \in S => n + 1 \in S
  PROVE  0 .. N \subseteq S
<1> DEFINE T == {n \in Nat : n <= N => n \in S}
<1>1. 0 \in T
      OBVIOUS
<1>2. \A n \in Nat : n \in T => n + 1 \in T
      OBVIOUS
<1> HIDE DEF T
<1>3. Nat \subseteq T
      BY <1>1, <1>2, InductionOnNat
<1> QED BY <1>3 DEF T

\* A non-empty set of numbers has a least.
LEMMA Least ==
  ASSUME NEW M \in SUBSET Nat, M # {}
  PROVE  \E m \in M : \A k \in M : m <= k
<1> DEFINE S == {n \in Nat : \A k \in M : n <= k}
<1> SUFFICES ASSUME \A m \in M : \E k \in M : ~(m <= k)
             PROVE  FALSE
    OBVIOUS
<1>1. 0 \in S
      OBVIOUS
<1>2. ASSUME NEW n \in Nat, n \in S
      PROVE  n + 1 \in S
  <2>1. n \notin M
        BY <1>2
  <2>2. \A k \in M : k # n /\ n <= k /\ k \in Nat
        BY <1>2, <2>1
  <2> QED BY <2>2
<1> HIDE DEF S
<1>3. Nat \subseteq S
      BY <1>1, <1>2, InductionOnNat
<1>4. PICK m \in M : TRUE
      OBVIOUS
<1>5. m + 1 \in S
      BY <1>3
<1> QED BY <1>4, <1>5 DEF S

-----------------------------------------------------------------------------
\* Selections.

\* A sequence is what another has at some places, which e counts in order.
Takes(p, s, I, e) ==
  /\ e \in [1 .. Len(p) -> I]
  /\ \A i \in I : \E k \in 1 .. Len(p) : e[k] = i
  /\ \A j, k \in 1 .. Len(p) : j < k => e[j] < e[k]
  /\ \A k \in 1 .. Len(p) : p[k] = s[e[k]]

\* One more place, after the others.
LEMMA TakesOneMore ==
  ASSUME NEW T, NEW s \in Seq(T), NEW n \in 1 .. Len(s), NEW I \in SUBSET (1 .. n - 1),
         NEW p \in Seq(T), NEW e, Takes(p, s, I, e)
  PROVE  \E d : Takes(Append(p, s[n]), s, I \cup {n}, d)
<1> DEFINE q == Append(p, s[n])
           d == [k \in 1 .. Len(p) + 1 |-> IF k = Len(p) + 1 THEN n ELSE e[k]]
<1>1. s[n] \in T /\ Len(p) \in Nat /\ n \in Nat
      BY LenProperties, ElementOfSeq
<1>2. /\ Len(q) = Len(p) + 1 /\ q[Len(p) + 1] = s[n]
      /\ \A k \in 1 .. Len(p) : q[k] = p[k]
      BY <1>1, AppendProperties
<1>3. ASSUME NEW k \in 1 .. Len(p)
      PROVE  d[k] = e[k] /\ e[k] \in I /\ e[k] < n
  <2>1. d[k] = e[k]
        BY <1>1
  <2> HIDE DEF d
  <2>2. e[k] \in I
        BY DEF Takes
  <2>3. e[k] \in 1 .. n - 1
        BY <2>2
  <2> QED BY <1>1, <2>1, <2>2, <2>3
<1>4. d \in [1 .. Len(p) + 1 -> I \cup {n}] /\ d[Len(p) + 1] = n
  <2>1. ASSUME NEW k \in 1 .. Len(p) + 1
        PROVE  d[k] \in I \cup {n}
    <3>1. CASE k = Len(p) + 1
          BY <3>1
    <3>2. CASE k \in 1 .. Len(p)
          BY <1>3, <3>2
    <3> QED BY <1>1, <3>1, <3>2
  <2> QED BY <1>1, <2>1
<1> HIDE DEF q, d
<1>5. \A i \in I \cup {n} : \E k \in 1 .. Len(q) : d[k] = i
  <2>1. n = d[Len(q)] /\ Len(q) \in 1 .. Len(q)
        BY <1>1, <1>2, <1>4
  <2>2. ASSUME NEW i \in I
        PROVE  \E k \in 1 .. Len(q) : d[k] = i
    <3>1. PICK k \in 1 .. Len(p) : e[k] = i
          BY DEF Takes
    <3> QED BY <1>1, <1>2, <1>3, <3>1
  <2> QED BY <2>1, <2>2
<1>6. \A j, k \in 1 .. Len(q) : j < k => d[j] < d[k]
      BY <1>1, <1>2, <1>3, <1>4 DEF Takes
<1>7. \A k \in 1 .. Len(q) : q[k] = s[d[k]]
  <2> TAKE k \in 1 .. Len(q)
  <2>1. CASE k = Len(p) + 1
        BY <1>2, <1>4, <2>1
  <2>2. CASE k \in 1 .. Len(p)
    <3>1. q[k] = p[k] /\ d[k] = e[k] /\ p[k] = s[e[k]]
          BY <1>2, <1>3, <2>2 DEF Takes
    <3> QED BY <3>1
  <2> QED BY <1>1, <1>2, <2>1, <2>2
<1>8. Takes(q, s, I \cup {n}, d)
      BY <1>2, <1>4, <1>5, <1>6, <1>7 DEF Takes
<1> QED BY <1>8 DEF q

\* Picked takes what a sequence has at those of its places.
LEMMA PickedTakes ==
  ASSUME NEW T, NEW s \in Seq(T), NEW I
  PROVE  /\ Picked(s, I) \in Seq(T)
         /\ \E e : Takes(Picked(s, I), s, I \cap 1 .. Len(s), e)
<1> DEFINE N == Len(s)
           V == Seq(T)
           h == [r \in V \X Nat |-> IF r[2] \in I \cap 1 .. N THEN Append(r[1], s[r[2]]) ELSE r[1]]
           Is(f) == f = [n \in 0 .. N |->
                           IF n = 0 THEN <<>>
                           ELSE IF n \in I THEN Append(f[n - 1], s[n]) ELSE f[n - 1]]
<1>1. N \in Nat /\ DOMAIN s = 1 .. N /\ \A n \in 1 .. N : s[n] \in T
      BY LenProperties, ElementOfSeq
<1>2. <<>> \in V /\ h \in [V \X Nat -> V]
  <2>1. ASSUME NEW r \in V \X Nat
        PROVE  h[r] \in V
        BY <1>1, AppendProperties
  <2> QED BY <2>1
<1>3. PICK f \in [0 .. N -> V] : Recurs(f, <<>>, h, N)
  <2> HIDE DEF V, h, N
  <2> QED BY <1>1, <1>2, Recursion
<1>4. /\ f[0] = <<>>
      /\ \A n \in 1 .. N : f[n] = IF n \in I THEN Append(f[n - 1], s[n]) ELSE f[n - 1]
  <2>1. ASSUME NEW n \in 1 .. N
        PROVE  f[n] = IF n \in I THEN Append(f[n - 1], s[n]) ELSE f[n - 1]
    <3>1. n \in Nat /\ n - 1 \in 0 .. N
          BY <1>1
    <3> HIDE DEF V, h, N
    <3>2. f[n] = h[<<f[n - 1], n>>] /\ <<f[n - 1], n>> \in V \X Nat
          BY <1>3, <3>1 DEF Recurs
    <3> QED BY <3>2 DEF h
  <2> QED BY <1>3, <2>1 DEF Recurs
<1>5. Is(f)
  <2>1. N \in Nat
        BY <1>1
  <2> HIDE DEF V, h, N
  <2>2. \A n \in 0 .. N : f[n] = IF n = 0 THEN <<>>
                                 ELSE IF n \in I THEN Append(f[n - 1], s[n]) ELSE f[n - 1]
    <3> TAKE n \in 0 .. N
    <3>1. CASE n = 0
          BY <1>4, <3>1
    <3>2. CASE n # 0
      <4>1. n \in 1 .. N
            BY <2>1, <3>2
      <4> QED BY <1>4, <3>2, <4>1
    <3> QED BY <3>1, <3>2
  <2> QED BY <1>3, <2>2
<1> DEFINE w == CHOOSE g : Is(g)
<1>6. Picked(s, I) = w[N]
      BY DEF Picked
<1>7. Is(w)
  <2> HIDE DEF Is
  <2> QED BY <1>5
<1> HIDE DEF w
<1>8. /\ w[0] = <<>>
      /\ \A n \in 1 .. N : w[n] = IF n \in I THEN Append(w[n - 1], s[n]) ELSE w[n - 1]
  <2>1. N \in Nat
        BY <1>1
  <2> HIDE DEF N
  <2>2. \A n \in 0 .. N : w[n] = IF n = 0 THEN <<>>
                                 ELSE IF n \in I THEN Append(w[n - 1], s[n]) ELSE w[n - 1]
        BY <1>7, Zenon
  <2>3. w[0] = <<>>
        BY <2>1, <2>2
  <2>4. ASSUME NEW n \in 1 .. N
        PROVE  w[n] = IF n \in I THEN Append(w[n - 1], s[n]) ELSE w[n - 1]
    <3>1. n \in 0 .. N /\ n # 0
          BY <2>1
    <3> QED BY <2>2, <3>1
  <2> QED BY <2>3, <2>4
<1> HIDE DEF Is, h
<1> DEFINE S == {n \in Nat : w[n] \in V /\ \E e : Takes(w[n], s, I \cap 1 .. n, e)}
<1>9. 0 \in S
  <2> DEFINE e == [k \in 1 .. 0 |-> k]
  <2>1. Takes(<<>>, s, I \cap 1 .. 0, e)
        BY DEF Takes
  <2> HIDE DEF e
  <2> QED BY <1>8, <2>1
<1>10. ASSUME NEW n \in 0 .. N - 1, n \in S
       PROVE  n + 1 \in S
  <2>1. n + 1 \in 1 .. N /\ (n + 1) - 1 = n /\ n + 1 \in Nat
        BY <1>1
  <2>2. w[n] \in V /\ \E e : Takes(w[n], s, I \cap 1 .. n, e)
        BY <1>10
  <2>3. CASE n + 1 \in I
    <3>1. w[n + 1] = Append(w[n], s[n + 1]) /\ I \cap 1 .. n + 1 = (I \cap 1 .. n) \cup {n + 1}
      <4>1. w[n + 1] = Append(w[n], s[n + 1])
            BY <1>8, <2>1, <2>3
      <4>2. \A i : i \in 1 .. n + 1 <=> i \in 1 .. n \/ i = n + 1
            BY <2>1
      <4> QED BY <2>3, <4>1, <4>2
    <3>2. PICK e : Takes(w[n], s, I \cap 1 .. n, e)
          BY <2>2
    <3>3. \E d : Takes(Append(w[n], s[n + 1]), s, (I \cap 1 .. n) \cup {n + 1}, d)
      <4>1. I \cap 1 .. n \in SUBSET (1 .. (n + 1) - 1)
            BY <2>1
      <4> QED BY <2>1, <2>2, <3>2, <4>1, TakesOneMore
    <3>4. w[n + 1] \in V
          BY <1>1, <2>1, <2>2, <3>1, AppendProperties
    <3> QED BY <2>1, <3>1, <3>3, <3>4
  <2>4. CASE n + 1 \notin I
    <3>1. w[n + 1] = w[n] /\ I \cap 1 .. n + 1 = I \cap 1 .. n
          BY <1>8, <2>1, <2>4
    <3> QED BY <2>1, <2>2, <3>1
  <2> QED BY <2>3, <2>4
<1>11. N \in S
  <2>1. N \in Nat
        BY <1>1
  <2> HIDE DEF S, N
  <2>2. 0 .. N \subseteq S
        BY <1>9, <1>10, <2>1, InductionUpTo
  <2> QED BY <2>1, <2>2
<1> QED BY <1>6, <1>11

-----------------------------------------------------------------------------
\* Division.

\* What a division leaves.
LEMMA Division ==
  ASSUME NEW e \in Nat, NEW t \in Nat, t > 0
  PROVE  /\ e \div t \in Nat /\ e % t \in 0 .. t - 1
         /\ e = t * (e \div t) + (e % t)
<1>1. e % t \in 0 .. t - 1
      BY SMT
<1>2. e \div t \in Int
      BY SMT
<1>3. e = (e \div t) * t + (e % t)
      BY SMT
<1> DEFINE q == e \div t
           r == e % t
<1>4. q \in Int /\ r \in 0 .. t - 1 /\ e = q * t + r
      BY <1>1, <1>2, <1>3
<1> HIDE DEF q, r
<1>5. q \in Nat
  <2>1. CASE q <= -1
    <3>1. q * t <= (-1) * t
          BY <1>4, <2>1, SMT
    <3> QED BY <1>4, <3>1, SMT
  <2> QED BY <1>4, <2>1
<1>6. q * t = t * q
      BY <1>4, SMT
<1> QED BY <1>4, <1>5, <1>6 DEF q, r

-----------------------------------------------------------------------------
\* Searches.

\* A set in an order is a sequence that has each element once, each after those before it.
LEMMA InOrderLists ==
  ASSUME NEW S, IsFiniteSet(S), NEW R, Orders(R, S)
  PROVE  LET s == InOrder(S, R)
         IN /\ s \in Seq(S) /\ Len(s) = Cardinality(S)
            /\ \A a \in S : \E n \in 1 .. Len(s) : s[n] = a
            /\ \A m, n \in 1 .. Len(s) : m < n => <<s[m], s[n]>> \in R
            /\ \A m, n \in 1 .. Len(s) : s[m] = s[n] => m = n
<1> DEFINE N == Cardinality(S)
           s == InOrder(S, R)
           place == [a \in S |-> Cardinality(Ahead(R, S, a))]
<1>1. N \in Nat
      BY FS_CardinalityType
<1>2. place \in Bijection(S, 0 .. N - 1)
      BY PlacesAreTaken
<1>3. /\ \A a \in S : place[a] \in 0 .. N - 1
      /\ \A a, b \in S : place[a] = place[b] => a = b
      /\ \A k \in 0 .. N - 1 : \E a \in S : place[a] = k
  <2> HIDE DEF place, N
  <2> QED BY <1>2 DEF Bijection, Injection, IsInjective, Surjection
<1>4. \A a \in S : place[a] = Cardinality({b \in S : <<b, a>> \in R})
      BY DEF Ahead
<1>5. s = [n \in 1 .. N |-> CHOOSE a \in S : Cardinality({b \in S : <<b, a>> \in R}) = n - 1]
      BY DEF InOrder
<1> HIDE DEF place, s, N
<1>6. ASSUME NEW n \in 1 .. N
      PROVE  s[n] \in S /\ place[s[n]] = n - 1
  <2>1. n - 1 \in 0 .. N - 1
        BY <1>1
  <2>2. \E a \in S : Cardinality({b \in S : <<b, a>> \in R}) = n - 1
        BY <1>3, <1>4, <2>1
  <2>3. s[n] = CHOOSE a \in S : Cardinality({b \in S : <<b, a>> \in R}) = n - 1
        BY <1>5
  <2>4. s[n] \in S /\ Cardinality({b \in S : <<b, s[n]>> \in R}) = n - 1
        BY <2>2, <2>3, Zenon
  <2> QED BY <1>4, <2>4
<1>7. s \in Seq(S) /\ Len(s) = N
  <2> DEFINE pick(n) == CHOOSE a \in S : Cardinality({b \in S : <<b, a>> \in R}) = n - 1
  <2>0. s = [n \in 1 .. N |-> pick(n)]
        BY <1>5
  <2> HIDE DEF pick
  <2>1. s = [n \in 1 .. N |-> s[n]]
        BY <2>0
  <2>2. \A n \in 1 .. N : s[n] \in S
        BY <1>6
  <2> HIDE DEF s
  <2> QED BY <1>1, <2>1, <2>2, SeqDef, LenProperties
<1>8. ASSUME NEW a \in S
      PROVE  \E n \in 1 .. N : s[n] = a
  <2>1. place[a] \in 0 .. N - 1
        BY <1>3
  <2>2. place[a] + 1 \in 1 .. N /\ (place[a] + 1) - 1 = place[a]
        BY <1>1, <2>1
  <2>3. s[place[a] + 1] \in S /\ place[s[place[a] + 1]] = place[a]
        BY <1>6, <2>2
  <2> QED BY <1>3, <2>2, <2>3
<1>9. ASSUME NEW m \in 1 .. N, NEW n \in 1 .. N, s[m] = s[n]
      PROVE  m = n
      BY <1>1, <1>6, <1>9
<1>10. ASSUME NEW m \in 1 .. N, NEW n \in 1 .. N, m < n
       PROVE  <<s[m], s[n]>> \in R
  <2>1. s[m] \in S /\ s[n] \in S /\ s[m] # s[n]
        BY <1>1, <1>6, <1>9, <1>10
  <2>2. SUFFICES ASSUME <<s[n], s[m]>> \in R
                 PROVE  FALSE
        BY <2>1 DEF Orders
  <2>3. Cardinality(Ahead(R, S, s[n])) < Cardinality(Ahead(R, S, s[m]))
    <3>1. Ahead(R, S, s[n]) \in SUBSET Ahead(R, S, s[m]) /\ s[n] \in Ahead(R, S, s[m])
          /\ s[n] \notin Ahead(R, S, s[n])
          BY <2>1, <2>2 DEF Ahead, Orders
    <3>2. IsFiniteSet(Ahead(R, S, s[m]))
          BY FS_Subset DEF Ahead
    <3>3. IsFiniteSet(Ahead(R, S, s[n]))
          BY FS_Subset DEF Ahead
    <3> QED BY <3>1, <3>2, <3>3, FS_Subset, FS_CardinalityType
  <2>4. place[s[n]] < place[s[m]]
        BY <2>1, <2>3 DEF place
  <2> QED BY <1>1, <1>6, <1>10, <2>4
<1> QED BY <1>7, <1>8, <1>9, <1>10 DEF s, N

\* The instance selects as this module does.
LEMMA SearchingSelects ==
  /\ \A S, R : Searching!InOrder(S, R) = InOrder(S, R)
  /\ \A s, I : Searching!Picked(s, I) = Picked(s, I)
  /\ \A S : Searching!Cardinality(S) = Cardinality(S)
<1>1. \A S : Searching!Cardinality(S) = Cardinality(S)
      BY Zenon DEF Searching!Cardinality, Cardinality
<1>2. \A S, R : Searching!InOrder(S, R) = InOrder(S, R)
      BY Zenon DEF Searching!InOrder, InOrder, Searching!Cardinality, Cardinality
<1>3. \A s, I : Searching!Picked(s, I) = Picked(s, I)
      BY DEF Searching!Picked, Picked
<1> QED BY <1>1, <1>2, <1>3

\* The first of a sequence, at most so many.
LEMMA CutKeeps ==
  ASSUME NEW T, NEW s \in Seq(T), NEW n \in Nat
  PROVE  /\ Searching!Cut(s, n) \in Seq(T)
         /\ Len(Searching!Cut(s, n)) = Searching!LeastOf(n, Len(s))
         /\ Len(Searching!Cut(s, n)) \in Nat
         /\ Len(Searching!Cut(s, n)) <= n /\ Len(Searching!Cut(s, n)) <= Len(s)
         /\ n <= Len(s) => Len(Searching!Cut(s, n)) = n
         /\ \A i \in 1 .. Len(Searching!Cut(s, n)) : i \in 1 .. Len(s) /\ Searching!Cut(s, n)[i] = s[i]
<1> DEFINE k == Searching!LeastOf(n, Len(s))
           c == Searching!Cut(s, n)
<1>1. Len(s) \in Nat
      BY LenProperties
<1>2. k \in Nat /\ k <= n /\ k <= Len(s) /\ (n <= Len(s) => k = n)
      BY <1>1 DEF Searching!LeastOf
<1>3. c = SubSeq(s, 1, k)
      BY DEF Searching!Cut
<1> HIDE DEF c, k
<1>4. \A i \in 1 .. k : i \in 1 .. Len(s) /\ s[i] \in T
      BY <1>1, <1>2, ElementOfSeq
<1>5. c \in Seq(T) /\ Len(c) = k /\ \A i \in 1 .. k : c[i] = s[i]
      BY <1>1, <1>2, <1>3, <1>4, SubSeqProperties
<1> QED BY <1>2, <1>4, <1>5 DEF c, k

\* The same in one word.
Begun(c, T, s, n) ==
  /\ c \in Seq(T) /\ Len(c) = Searching!LeastOf(n, Len(s)) /\ Len(c) \in Nat
  /\ Len(c) <= n /\ Len(c) <= Len(s) /\ (n <= Len(s) => Len(c) = n)
  /\ \A i \in 1 .. Len(c) : i \in 1 .. Len(s) /\ c[i] = s[i]

\* A cut is such a beginning.
LEMMA CutIsBegun ==
  ASSUME NEW T, NEW s \in Seq(T), NEW n \in Nat
  PROVE  Begun(Searching!Cut(s, n), T, s, n)
BY CutKeeps DEF Begun

\* A later rank counts for less, and for something.
LEMMA ReciprocalFalls ==
  ASSUME NEW j \in Nat, 1 <= j, j <= 1000
  PROVE  /\ Searching!Reciprocal(j) \in Nat /\ Searching!Reciprocal(j) > 0
         /\ \A i \in 1 .. j - 1 : Searching!Reciprocal(j) < Searching!Reciprocal(i)
<1> DEFINE one == 1000000000
           q(i) == Searching!Reciprocal(i)
<1>1. ASSUME NEW i \in Nat, 1 <= i, i <= 1000
      PROVE  /\ q(i) \in Nat /\ (60 + i) * q(i) <= one /\ one < (60 + i) * q(i) + (60 + i)
             /\ q(i) > 60 + i
  <2> DEFINE n == 60 + i
  <2>1. n \in Nat /\ 61 <= n /\ n <= 1060
        BY <1>1
  <2>2. q(i) = one \div n
        BY DEF Searching!Reciprocal
  <2> HIDE DEF n, q
  <2>3. q(i) \in Nat /\ n * q(i) <= one /\ one < n * q(i) + n
    <3>1. one \in Nat
          OBVIOUS
    <3> HIDE DEF one
    <3> QED BY <2>1, <2>2, <3>1, Division
  <2>4. q(i) > n
    <3> SUFFICES ASSUME q(i) <= n
                 PROVE  FALSE
        BY <2>1, <2>3
    <3>1. n * q(i) <= 1060 * 1060
      <4>1. n * q(i) <= n * 1060
            BY <2>1, <2>3
      <4> QED BY <2>1, <2>3, <4>1
    <3> QED BY <2>1, <2>3, <3>1
  <2> QED BY <2>3, <2>4 DEF n
<1>2. /\ q(j) \in Nat /\ (60 + j) * q(j) <= one /\ q(j) > 60 + j
      BY <1>1
<1>3. ASSUME NEW i \in 1 .. j - 1
      PROVE  q(j) < q(i)
  <2>1. i \in Nat /\ 1 <= i /\ i <= 1000 /\ i < j
        OBVIOUS
  <2>2. q(i) \in Nat /\ one < (60 + i) * q(i) + (60 + i) /\ q(i) > 60 + i
        BY <1>1, <2>1
  <2>0. q(i) \in Nat /\ q(j) \in Nat
        BY <1>2, <2>2
  <2> HIDE DEF q
  <2> SUFFICES ASSUME q(i) <= q(j)
               PROVE  FALSE
      BY <2>0
  <2> DEFINE a == q(i)
             b == q(j)
             n == 60 + i
  <2>10. a <= b
         OBVIOUS
  <2>3. a \in Nat /\ b \in Nat /\ n \in Nat /\ n < a /\ one < n * a + n
        BY <2>0, <2>1, <2>2
  <2>4. (60 + j) * b <= one /\ n + 1 <= 60 + j
        BY <1>2, <2>1
  <2> DEFINE m == 60 + j
  <2>5. m \in Nat /\ m * b <= one /\ n + 1 <= m
        BY <2>4
  <2> HIDE DEF a, b, n, m, one
  <2>6. (n + 1) * a <= m * b
    <3>1. (n + 1) * a <= (n + 1) * b
          BY <2>3, <2>10
    <3>2. (n + 1) * b <= m * b
          BY <2>3, <2>5
    <3>3. (n + 1) * a \in Int /\ (n + 1) * b \in Int /\ m * b \in Int
          BY <2>3, <2>5
    <3> QED BY <3>1, <3>2, <3>3
  <2>7. (n + 1) * a = n * a + a /\ n * a \in Int
        BY <2>3
  <2> DEFINE p == n * a
             r == m * b
  <2>8. p + a <= r /\ r <= one /\ p \in Int /\ r \in Int /\ one < p + n
        BY <2>3, <2>5, <2>6, <2>7
  <2>9. one \in Int
        BY DEF one
  <2> HIDE DEF p, r
  <2> QED BY <2>3, <2>8, <2>9
<1> QED BY <1>2, <1>3

\* A ranking tells of each document its rank, and its share by it.
LEMMA SharesAreRanks ==
  ASSUME NEW T, NEW leg \in Searching!Rankings(T), Len(leg) <= 1000, NEW d
  PROVE  /\ Searching!Share(leg, d) \in Nat
         /\ d \notin Searching!ToSet(leg) => Searching!Share(leg, d) = 0
         /\ \A i \in 1 .. Len(leg) : leg[i] = d =>
              /\ Searching!Rank(leg, d) = {i} /\ Searching!Share(leg, d) = Searching!Reciprocal(i)
<1>1. /\ leg \in Seq(T) /\ Len(leg) \in Nat /\ DOMAIN leg = 1 .. Len(leg)
      /\ \A i, j \in 1 .. Len(leg) : leg[i] = leg[j] => i = j
      BY LenProperties DEF Searching!Rankings
<1>2. ASSUME d \notin Searching!ToSet(leg)
      PROVE  Searching!Share(leg, d) = 0
  <2>1. Searching!Rank(leg, d) = {}
        BY <1>2 DEF Searching!Rank, Searching!ToSet
  <2> QED BY <2>1 DEF Searching!Share
<1>3. ASSUME NEW i \in 1 .. Len(leg), leg[i] = d
      PROVE  /\ Searching!Rank(leg, d) = {i}
             /\ Searching!Share(leg, d) = Searching!Reciprocal(i)
             /\ Searching!Reciprocal(i) \in Nat
  <2>1. Searching!Rank(leg, d) = {i}
        BY <1>1, <1>3 DEF Searching!Rank
  <2>2. (CHOOSE k \in {i} : \A j \in {i} : k <= j) = i
        BY <1>1
  <2>3. Searching!Share(leg, d) = Searching!Reciprocal(i)
        BY <2>1, <2>2 DEF Searching!Share
  <2>4. i \in Nat /\ 1 <= i /\ i <= 1000
        BY <1>1
  <2> QED BY <2>1, <2>3, <2>4, ReciprocalFalls
<1>4. Searching!Share(leg, d) \in Nat
  <2>1. CASE d \in Searching!ToSet(leg)
    <3>1. PICK i \in 1 .. Len(leg) : leg[i] = d
          BY <1>1, <2>1 DEF Searching!ToSet
    <3> QED BY <1>3, <3>1
  <2> QED BY <1>2, <2>1
<1> QED BY <1>2, <1>3, <1>4

\* The legs of a search, as a request of so many asks for them.
Legs(legs) ==
  /\ legs.text \in Searching!Rankings(ChunkRows) /\ Len(legs.text) <= 1000
  /\ legs.vector \in Searching!Rankings(ChunkRows \cup Dead) /\ Len(legs.vector) <= 1000

\* The sequence of what the legs found, the highest score first.
LEMMA FusedInOrder ==
  ASSUME NEW legs, Legs(legs)
  PROVE  LET S == Searching!Found(legs)
             s == Searching!Fused(legs)
             score(d) == Searching!Rrf(legs, d)
         IN /\ IsFiniteSet(S) /\ S \subseteq ChunkRows
            /\ \A d : score(d) \in Nat
            /\ s \in Seq(S) /\ Len(s) = Cardinality(S)
            /\ \A d \in S : \E n \in 1 .. Len(s) : s[n] = d
            /\ \A m, n \in 1 .. Len(s) : s[m] = s[n] => m = n
            /\ \A m, n \in 1 .. Len(s) : m < n => score(s[m]) >= score(s[n])
<1> DEFINE S == Searching!Found(legs)
           s == Searching!Fused(legs)
           score(d) == Searching!Rrf(legs, d)
           scores == [d \in S |-> score(d)]
           R == {p \in S \X S : Searching!Precedes(scores, p[1], p[2])}
<1>1. \A d : score(d) \in Nat
  <2> TAKE d
  <2>1. Searching!Share(legs.text, d) \in Nat /\ Searching!Share(legs.vector, d) \in Nat
        BY SharesAreRanks DEF Legs
  <2> QED BY <2>1 DEF Searching!Rrf
<1>2. S \subseteq ChunkRows /\ S \subseteq Nat
      BY RowsAssumption DEF Searching!Found
<1>3. IsFiniteSet(S)
  <2>1. \A T : \A leg \in Searching!Rankings(T) : IsFiniteSet(Searching!ToSet(leg))
    <3> TAKE T
    <3> TAKE leg \in Searching!Rankings(T)
    <3>1. Len(leg) \in Nat /\ DOMAIN leg = 1 .. Len(leg)
          BY LenProperties DEF Searching!Rankings
    <3>2. IsFiniteSet(1 .. Len(leg))
          BY <3>1, FS_Interval
    <3>3. {leg[i] : i \in 1 .. Len(leg)} = Searching!ToSet(leg)
          BY <3>1 DEF Searching!ToSet
    <3> DEFINE f == [i \in 1 .. Len(leg) |-> leg[i]]
               D == 1 .. Len(leg)
               W == Searching!ToSet(leg)
    <3>4. f \in Surjection(D, W)
          BY <3>3 DEF Surjection
    <3> HIDE DEF f, D, W
    <3>5. IsFiniteSet(W)
          BY <3>2, <3>4, FS_Surjection DEF D
    <3> QED BY <3>5 DEF W
  <2>2. IsFiniteSet(Searching!ToSet(legs.text)) /\ IsFiniteSet(Searching!ToSet(legs.vector))
        BY <2>1 DEF Legs
  <2>3. IsFiniteSet(Searching!ToSet(legs.text) \cup Searching!ToSet(legs.vector))
        BY <2>2, FS_Union
  <2>4. S \in SUBSET (Searching!ToSet(legs.text) \cup Searching!ToSet(legs.vector))
        BY DEF Searching!Found
  <2> QED BY <2>3, <2>4, FS_Subset
<1>4. s = InOrder(S, R)
      BY SearchingSelects DEF Searching!Fused
<1>5. \A d, e \in S : <<d, e>> \in R <=> score(d) > score(e) \/ (score(d) = score(e) /\ d > e)
      BY DEF Searching!Precedes
<1>6. R \subseteq S \X S
      OBVIOUS
<1> HIDE DEF S, s, score, scores, R
<1>7. Orders(R, S)
  <2>1. \A a \in S : <<a, a>> \notin R
        BY <1>1, <1>2, <1>5
  <2>2. \A a, b, c \in S : <<a, b>> \in R /\ <<b, c>> \in R => <<a, c>> \in R
        BY <1>1, <1>2, <1>5
  <2>3. \A a, b \in S : a # b => <<a, b>> \in R \/ <<b, a>> \in R
        BY <1>1, <1>2, <1>5
  <2> QED BY <1>6, <2>1, <2>2, <2>3 DEF Orders
<1>8. /\ s \in Seq(S) /\ Len(s) = Cardinality(S)
      /\ \A d \in S : \E n \in 1 .. Len(s) : s[n] = d
      /\ \A m, n \in 1 .. Len(s) : m < n => <<s[m], s[n]>> \in R
      /\ \A m, n \in 1 .. Len(s) : s[m] = s[n] => m = n
      BY <1>3, <1>4, <1>7, InOrderLists
<1>9. \A m, n \in 1 .. Len(s) : m < n => score(s[m]) >= score(s[n])
  <2>1. \A n \in 1 .. Len(s) : s[n] \in S
        BY <1>8, ElementOfSeq
  <2>2. ASSUME NEW m \in 1 .. Len(s), NEW n \in 1 .. Len(s), m < n
        PROVE  score(s[m]) >= score(s[n])
    <3>1. s[m] \in S /\ s[n] \in S /\ <<s[m], s[n]>> \in R
          BY <1>8, <2>1, <2>2
    <3>2. score(s[m]) > score(s[n]) \/ score(s[m]) = score(s[n])
          BY <1>5, <3>1
    <3>3. score(s[m]) \in Nat /\ score(s[n]) \in Nat
          BY <1>1
    <3> QED BY <3>2, <3>3
  <2> QED BY <2>2
<1> QED BY <1>1, <1>2, <1>3, <1>8, <1>9 DEF S, s, score

\* A search asks its legs for something, and for no more than the limit.
LEMMA LimitsAreMet ==
  /\ \A asked \in Nat : Searching!TopK(asked) \in Nat /\ 1 <= Searching!TopK(asked)
  /\ \A k \in Nat : 1 <= k => /\ Searching!Candidates(k) \in Nat /\ (k <= Searching!Candidates(k) \/ MaxRequest <= Searching!Candidates(k))
                              /\ 1 <= Searching!Candidates(k) /\ Searching!Candidates(k) <= MaxRequest
                              /\ Searching!Candidates(k) <= 1000
<1>0. MaxRequest \in Nat /\ 1 <= MaxRequest /\ MaxRequest <= 1000 /\ DefaultTopK \in Nat /\ DefaultTopK # 0
      BY LimitsAssumption
<1>1. ASSUME NEW asked \in Nat
      PROVE  Searching!TopK(asked) \in Nat /\ 1 <= Searching!TopK(asked)
      BY <1>0 DEF Searching!TopK
<1>2. ASSUME NEW k \in Nat, 1 <= k
      PROVE  /\ Searching!Candidates(k) \in Nat
             /\ (k <= Searching!Candidates(k) \/ MaxRequest <= Searching!Candidates(k))
             /\ 1 <= Searching!Candidates(k) /\ Searching!Candidates(k) <= MaxRequest
             /\ Searching!Candidates(k) <= 1000
  <2> DEFINE M == Searching!MostOf(4 * k, 20)
  <2>1. M \in Nat /\ M >= 1 /\ k <= M
        BY <1>2 DEF Searching!MostOf
  <2>2. Searching!Candidates(k) = Searching!LeastOf(M, MaxRequest)
        BY DEF Searching!Candidates
  <2> HIDE DEF M
  <2>3. Searching!Candidates(k) = IF M < MaxRequest THEN M ELSE MaxRequest
        BY <2>2 DEF Searching!LeastOf
  <2> QED BY <1>0, <1>2, <2>1, <2>3
<1> QED BY <1>1, <1>2

\* What a leg gives, of what it would rank.
Heard(leg, failed, k) == IF failed THEN << >> ELSE Searching!Cut(leg, Searching!Candidates(k))

\* A leg is a beginning of its ranking, and none when it failed.
LEMMA LegsAreCut ==
  ASSUME NEW D, NEW leg \in Searching!Rankings(D), NEW failed \in BOOLEAN, NEW k \in Nat \ {0}
  PROVE  LET c == Heard(leg, failed, k)
         IN /\ c \in Searching!Rankings(D) /\ Len(c) <= 1000 /\ Len(c) \in Nat /\ Len(c) <= Len(leg)
            /\ failed => Len(c) = 0
            /\ ~failed /\ Len(leg) > 0 => Len(c) > 0
            /\ \A i \in 1 .. Len(c) : i \in 1 .. Len(leg) /\ c[i] = leg[i]
<1> DEFINE c == Heard(leg, failed, k)
           C == Searching!Candidates(k)
<1>1. /\ leg \in Seq(D) /\ Len(leg) \in Nat /\ DOMAIN leg = 1 .. Len(leg)
      /\ \A i, j \in 1 .. Len(leg) : leg[i] = leg[j] => i = j
      BY LenProperties DEF Searching!Rankings
<1>2. C \in Nat /\ 1 <= C /\ C <= 1000
  <2>1. k \in Nat /\ 1 <= k
        OBVIOUS
  <2> QED BY <2>1, LimitsAreMet
<1>3. CASE failed
  <2> DEFINE e == << >>
  <2>1. c = e
        BY <1>3 DEF Heard
  <2>2. e \in Seq(D) /\ Len(e) = 0
        BY EmptySeq
  <2> HIDE DEF c, e
  <2>3. DOMAIN e = 1 .. 0
        BY <2>2, LenProperties
  <2>4. e \in Searching!Rankings(D)
        BY <2>2, <2>3 DEF Searching!Rankings
  <2>5. \A i \in 1 .. 0 : i \in 1 .. Len(leg) /\ c[i] = leg[i]
        OBVIOUS
  <2>6. /\ c \in Searching!Rankings(D) /\ Len(c) <= 1000 /\ Len(c) \in Nat /\ Len(c) <= Len(leg)
        /\ Len(c) = 0
        BY <1>1, <2>1, <2>2, <2>4
  <2> QED BY <1>3, <2>5, <2>6 DEF c
<1>4. CASE ~failed
  <2>1. c = Searching!Cut(leg, C)
        BY <1>4 DEF Heard
  <2> HIDE DEF C, c
  <2>2. /\ c \in Seq(D) /\ Len(c) \in Nat /\ Len(c) <= C /\ Len(c) <= Len(leg)
        /\ C <= Len(leg) => Len(c) = C
        /\ Len(c) = Searching!LeastOf(C, Len(leg))
        /\ \A i \in 1 .. Len(c) : i \in 1 .. Len(leg) /\ c[i] = leg[i]
    <3>1. leg \in Seq(D) /\ C \in Nat
          BY <1>1, <1>2
    <3>2. /\ Searching!Cut(leg, C) \in Seq(D)
          /\ Len(Searching!Cut(leg, C)) = Searching!LeastOf(C, Len(leg))
          /\ Len(Searching!Cut(leg, C)) \in Nat
          /\ Len(Searching!Cut(leg, C)) <= C /\ Len(Searching!Cut(leg, C)) <= Len(leg)
          /\ C <= Len(leg) => Len(Searching!Cut(leg, C)) = C
          /\ \A i \in 1 .. Len(Searching!Cut(leg, C)) :
               i \in 1 .. Len(leg) /\ Searching!Cut(leg, C)[i] = leg[i]
          BY <3>1, CutKeeps, Zenon
    <3> QED BY <2>1, <3>2
  <2>3. DOMAIN c = 1 .. Len(c)
        BY <2>2, LenProperties
  <2>4. c \in Searching!Rankings(D)
        BY <1>1, <2>2, <2>3 DEF Searching!Rankings
  <2>5. Len(leg) > 0 => Len(c) > 0
    <3>1. Len(c) = IF C < Len(leg) THEN C ELSE Len(leg)
          BY <2>2 DEF Searching!LeastOf
    <3> QED BY <1>1, <1>2, <3>1
  <2> QED BY <1>2, <1>4, <2>2, <2>4, <2>5 DEF c
<1> QED BY <1>3, <1>4

\* The two legs of a request.
LEMMA LegsOfRequest ==
  ASSUME NEW x \in Searching!Inputs, NEW k \in Nat \ {0}
  PROVE  /\ Legs(Searching!Legs(x, k))
         /\ Searching!Legs(x, k).text = Heard(x.text, x.failed.text, k)
         /\ Searching!Legs(x, k).vector = Heard(x.vector, x.failed.vector, k)
         /\ x.text \in Searching!Rankings(ChunkRows)
         /\ x.vector \in Searching!Rankings(ChunkRows \cup Dead)
         /\ x.failed.text \in BOOLEAN /\ x.failed.vector \in BOOLEAN
<1> DEFINE A == Searching!Rankings(ChunkRows)
           B == Searching!Rankings(ChunkRows \cup Dead)
           F == [text : BOOLEAN, vector : BOOLEAN]
<1>1. x.text \in A /\ x.vector \in B /\ x.failed \in F
  <2> HIDE DEF A, B, F
  <2> QED BY DEF Searching!Inputs, A, B, F
<1>2. x.failed.text \in BOOLEAN /\ x.failed.vector \in BOOLEAN
      BY <1>1
<1>3. /\ Searching!Legs(x, k).text = Heard(x.text, x.failed.text, k)
      /\ Searching!Legs(x, k).vector = Heard(x.vector, x.failed.vector, k)
      BY DEF Searching!Legs, Heard
<1> HIDE DEF A, B, F
<1>4. /\ Heard(x.text, x.failed.text, k) \in A /\ Len(Heard(x.text, x.failed.text, k)) <= 1000
      /\ Heard(x.vector, x.failed.vector, k) \in B /\ Len(Heard(x.vector, x.failed.vector, k)) <= 1000
      BY <1>1, <1>2, LegsAreCut DEF A, B
<1> QED BY <1>1, <1>2, <1>3, <1>4 DEF Legs, A, B

Hits == [doc : ChunkRows, score : Nat]

\* What a search serves: the best of what its legs found, each once, the best first.
LEMMA HybridServes ==
  ASSUME NEW x \in Searching!Inputs, NEW asked \in Nat
  PROVE  LET hits == Searching!SearchHybrid(x, asked)
             k == Searching!TopK(asked)
             legs == Searching!Legs(x, k)
             S == Searching!Fetched(x, asked)
         IN /\ S = Searching!Found(legs) /\ IsFiniteSet(S) /\ S \subseteq ChunkRows
            /\ hits \in Seq(Hits) /\ Len(hits) = Searching!LeastOf(k, Cardinality(S))
            /\ \A n \in 1 .. Len(hits) : hits[n].doc \in S /\ hits[n].score = Searching!Rrf(legs, hits[n].doc)
            /\ \A m, n \in 1 .. Len(hits) : hits[m].doc = hits[n].doc => m = n
            /\ \A m, n \in 1 .. Len(hits) : m < n => hits[m].score >= hits[n].score
            /\ \A d \in S : \A n \in 1 .. Len(hits) :
                 Searching!Rrf(legs, d) > hits[n].score => \E m \in 1 .. n - 1 : hits[m].doc = d
            /\ Cardinality(S) <= k => \A d \in S : \E n \in 1 .. Len(hits) : hits[n].doc = d
<1> DEFINE hits == Searching!SearchHybrid(x, asked)
           k == Searching!TopK(asked)
           legs == Searching!Legs(x, k)
           S == Searching!Found(legs)
           s == Searching!Fused(legs)
           best == Searching!Cut(s, k)
           score(d) == Searching!Rrf(legs, d)
<1>1. Searching!Fetched(x, asked) = S
      BY DEF Searching!Fetched
<1>2. k \in Nat /\ k \in Nat \ {0}
  <2>1. k \in Nat /\ 1 <= k
        BY LimitsAreMet
  <2> QED BY <2>1
<1>3. Legs(legs)
      BY <1>2, LegsOfRequest
<1>4. hits = [n \in DOMAIN best |-> [doc |-> best[n], score |-> score(best[n])]]
      BY Zenon DEF Searching!SearchHybrid
<1> HIDE DEF hits, k, legs
<1>5. /\ IsFiniteSet(S) /\ S \subseteq ChunkRows
      /\ \A d : score(d) \in Nat
      /\ s \in Seq(S) /\ Len(s) = Cardinality(S)
      /\ \A d \in S : \E n \in 1 .. Len(s) : s[n] = d
      /\ \A m, n \in 1 .. Len(s) : s[m] = s[n] => m = n
      /\ \A m, n \in 1 .. Len(s) : m < n => score(s[m]) >= score(s[n])
      BY <1>3, FusedInOrder
<1> HIDE DEF S, s, score
<1>6. /\ best \in Seq(S) /\ Len(best) = Searching!LeastOf(k, Len(s)) /\ Len(best) \in Nat
      /\ Len(best) <= Len(s) /\ (k <= Len(s) => Len(best) = k)
      /\ \A i \in 1 .. Len(best) : i \in 1 .. Len(s) /\ best[i] = s[i]
  <2>1. k \in Nat /\ s \in Seq(S)
        BY <1>2, <1>5
  <2>2. Begun(Searching!Cut(s, k), S, s, k)
        BY <2>1, CutIsBegun, Zenon
  <2> QED BY <2>2 DEF Begun
<1> DEFINE N == Len(best)
<1>7. Len(s) \in Nat /\ DOMAIN best = 1 .. N
      BY <1>5, <1>6, LenProperties
<1> HIDE DEF best
<1>8. /\ hits \in Seq(Hits) /\ Len(hits) = N
      /\ \A n \in 1 .. N : hits[n] = [doc |-> s[n], score |-> score(s[n])] /\ s[n] \in S
  <2>1. \A n \in 1 .. N : best[n] = s[n] /\ s[n] \in S
        BY <1>5, <1>6, ElementOfSeq
  <2>2. hits = [n \in 1 .. N |-> [doc |-> best[n], score |-> score(best[n])]]
        BY <1>4, <1>7
  <2>3. \A n \in 1 .. N : [doc |-> best[n], score |-> score(best[n])] \in Hits
        BY <1>5, <2>1 DEF Hits
  <2> HIDE DEF N
  <2>4. hits \in Seq(Hits) /\ Len(hits) = N
        BY <1>6, <2>2, <2>3 DEF N
  <2> QED BY <2>1, <2>2, <2>4
<1>9. \A n \in 1 .. N : hits[n].doc = s[n] /\ hits[n].score = score(s[n]) /\ n \in 1 .. Len(s)
      BY <1>6, <1>8
<1> HIDE DEF N
<1>10. \A m, n \in 1 .. N : hits[m].doc = hits[n].doc => m = n
       BY <1>5, <1>9
<1>11. \A m, n \in 1 .. N : m < n => hits[m].score >= hits[n].score
       BY <1>5, <1>9
<1>12. ASSUME NEW d \in S, NEW n \in 1 .. N, score(d) > hits[n].score
       PROVE  \E m \in 1 .. n - 1 : hits[m].doc = d
  <2>1. PICK m \in 1 .. Len(s) : s[m] = d
        BY <1>5
  <2>2. n \in 1 .. Len(s) /\ hits[n].score = score(s[n]) /\ score(s[n]) \in Nat /\ score(d) \in Nat
        BY <1>5, <1>9
  <2>3. m < n
    <3> SUFFICES ASSUME ~(m < n) PROVE FALSE
        OBVIOUS
    <3>1. n < m \/ n = m
          BY <1>7, <2>2
    <3>2. score(s[n]) >= score(s[m])
          BY <1>5, <2>1, <2>2, <3>1
    <3> QED BY <1>12, <2>1, <2>2, <3>2
  <2>4. m \in 1 .. n - 1 /\ m \in 1 .. N
        BY <1>6, <1>7, <2>1, <2>2, <2>3 DEF N
  <2> QED BY <1>9, <2>1, <2>4
<1>13. ASSUME Cardinality(S) <= k, NEW d \in S
       PROVE  \E n \in 1 .. N : hits[n].doc = d
  <2>1. PICK m \in 1 .. Len(s) : s[m] = d
        BY <1>5
  <2>2. N = Len(s)
    <3>1. N = IF k < Len(s) THEN k ELSE Len(s)
          BY <1>6 DEF N, Searching!LeastOf
    <3> QED BY <1>2, <1>5, <1>7, <1>13, <3>1
  <2> QED BY <1>9, <2>1, <2>2
<1>14. Len(hits) = N /\ Len(hits) = Searching!LeastOf(k, Cardinality(S))
       BY <1>5, <1>6, <1>8 DEF N
<1>15. \A n \in 1 .. N : hits[n].doc \in S /\ hits[n].score = score(hits[n].doc)
       BY <1>8, <1>9 DEF N
<1> HIDE DEF N
<1>16. /\ Searching!Fetched(x, asked) = S /\ IsFiniteSet(S) /\ S \subseteq ChunkRows
       /\ hits \in Seq(Hits) /\ Len(hits) = Searching!LeastOf(k, Cardinality(S))
       /\ \A n \in 1 .. Len(hits) : hits[n].doc \in S /\ hits[n].score = score(hits[n].doc)
       /\ \A m, n \in 1 .. Len(hits) : hits[m].doc = hits[n].doc => m = n
       /\ \A m, n \in 1 .. Len(hits) : m < n => hits[m].score >= hits[n].score
       /\ \A d \in S : \A n \in 1 .. Len(hits) :
            score(d) > hits[n].score => \E m \in 1 .. n - 1 : hits[m].doc = d
       /\ Cardinality(S) <= k => \A d \in S : \E n \in 1 .. Len(hits) : hits[n].doc = d
       BY <1>1, <1>5, <1>8, <1>10, <1>11, <1>12, <1>13, <1>14, <1>15
<1> QED BY <1>1, <1>16 DEF hits, k, legs, score, S

\* What a leg places no later keeps its lead when the leg is cut.
LEMMA LegsPrefer ==
  ASSUME NEW D, NEW leg \in Searching!Rankings(D), NEW failed \in BOOLEAN, NEW k \in Nat \ {0},
         NEW d, NEW e \in ChunkRows, d # e, failed \/ Searching!Placed(leg, d, e)
  PROVE  LET c == Heard(leg, failed, k)
         IN /\ Searching!Share(c, d) \in Nat /\ Searching!Share(c, e) \in Nat
            /\ Searching!Share(c, d) >= Searching!Share(c, e)
            /\ e \in Searching!ToSet(c) => /\ d \in Searching!ToSet(c)
                                           /\ Searching!Share(c, d) > Searching!Share(c, e)
<1> DEFINE c == Heard(leg, failed, k)
<1>1. /\ leg \in Seq(D) /\ Len(leg) \in Nat /\ DOMAIN leg = 1 .. Len(leg)
      /\ \A i, j \in 1 .. Len(leg) : leg[i] = leg[j] => i = j
      BY LenProperties DEF Searching!Rankings
<1>2. /\ c \in Searching!Rankings(D) /\ Len(c) <= 1000 /\ Len(c) \in Nat /\ Len(c) <= Len(leg)
      /\ failed => Len(c) = 0
      /\ \A i \in 1 .. Len(c) : i \in 1 .. Len(leg) /\ c[i] = leg[i]
      BY LegsAreCut
<1> HIDE DEF c
<1>3. DOMAIN c = 1 .. Len(c)
      BY <1>2, LenProperties DEF Searching!Rankings
<1>4. /\ Searching!Share(c, d) \in Nat /\ Searching!Share(c, e) \in Nat
      /\ e \notin Searching!ToSet(c) => Searching!Share(c, e) = 0
      /\ \A i \in 1 .. Len(c) : c[i] = d => Searching!Share(c, d) = Searching!Reciprocal(i)
      /\ \A i \in 1 .. Len(c) : c[i] = e => Searching!Share(c, e) = Searching!Reciprocal(i)
      BY <1>2, SharesAreRanks
<1>5. ASSUME e \in Searching!ToSet(c)
      PROVE  d \in Searching!ToSet(c) /\ Searching!Share(c, d) > Searching!Share(c, e)
  <2>1. PICK j \in 1 .. Len(c) : c[j] = e
        BY <1>3, <1>5 DEF Searching!ToSet
  <2>2. ~failed /\ j \in 1 .. Len(leg) /\ leg[j] = e
        BY <1>2, <2>1
  <2>3. Searching!Placed(leg, d, e) /\ e \in Searching!Hydrated(leg)
        BY <1>1, <2>2 DEF Searching!Hydrated, Searching!ToSet
  <2>4. PICK i \in Searching!Rank(leg, d) : \A n \in Searching!Rank(leg, e) : i <= n
        BY <2>3 DEF Searching!Placed
  <2>5. i \in 1 .. Len(leg) /\ leg[i] = d /\ i <= j
        BY <1>1, <2>2, <2>4 DEF Searching!Rank
  <2>6. i # j
        BY <2>2, <2>5
  <2>7. i \in 1 .. Len(c) /\ i \in 1 .. j - 1 /\ j \in Nat /\ 1 <= j /\ j <= 1000
        BY <1>1, <1>2, <2>1, <2>5, <2>6
  <2>8. c[i] = d
        BY <1>2, <2>5, <2>7
  <2>9. Searching!Reciprocal(j) < Searching!Reciprocal(i)
        BY <2>7, ReciprocalFalls
  <2>10. Searching!Share(c, d) = Searching!Reciprocal(i) /\ Searching!Share(c, e) = Searching!Reciprocal(j)
         BY <1>4, <2>1, <2>7, <2>8
  <2>11. d \in Searching!ToSet(c)
         BY <1>3, <2>7, <2>8 DEF Searching!ToSet
  <2> QED BY <1>4, <2>9, <2>10, <2>11
<1>6. Searching!Share(c, d) >= Searching!Share(c, e)
      BY <1>4, <1>5
<1> QED BY <1>4, <1>5, <1>6 DEF c

\* What no leg places later is served no later.
LEMMA BetterComesBefore ==
  ASSUME NEW x \in Searching!Inputs, NEW asked \in Nat,
         NEW d \in ChunkRows, NEW e \in ChunkRows, Searching!Better(x, d, e)
  PROVE  Searching!Before(Searching!SearchHybrid(x, asked), d, e)
<1> DEFINE hits == Searching!SearchHybrid(x, asked)
           k == Searching!TopK(asked)
           legs == Searching!Legs(x, k)
           S == Searching!Fetched(x, asked)
           score(a) == Searching!Rrf(legs, a)
<1>1. /\ S = Searching!Found(legs)
      /\ hits \in Seq(Hits)
      /\ \A n \in 1 .. Len(hits) : hits[n].doc \in S /\ hits[n].score = score(hits[n].doc)
      /\ \A a \in S : \A n \in 1 .. Len(hits) :
           score(a) > hits[n].score => \E m \in 1 .. n - 1 : hits[m].doc = a
      BY HybridServes
<1>2. k \in Nat \ {0}
  <2>1. k \in Nat /\ 1 <= k
        BY LimitsAreMet
  <2> QED BY <2>1
<1>3. /\ legs.text = Heard(x.text, x.failed.text, k)
      /\ legs.vector = Heard(x.vector, x.failed.vector, k)
      /\ x.text \in Searching!Rankings(ChunkRows)
      /\ x.vector \in Searching!Rankings(ChunkRows \cup Dead)
      /\ x.failed.text \in BOOLEAN /\ x.failed.vector \in BOOLEAN
      BY <1>2, LegsOfRequest
<1>4. /\ d # e
      /\ x.failed.text \/ Searching!Placed(x.text, d, e)
      /\ x.failed.vector \/ Searching!Placed(x.vector, d, e)
      BY DEF Searching!Better
<1> HIDE DEF hits, k, S, legs
<1>5. DOMAIN hits = 1 .. Len(hits)
      BY <1>1, LenProperties
<1>6. /\ Searching!Share(legs.text, d) \in Nat /\ Searching!Share(legs.text, e) \in Nat
      /\ Searching!Share(legs.text, d) >= Searching!Share(legs.text, e)
      /\ e \in Searching!ToSet(legs.text) => /\ d \in Searching!ToSet(legs.text)
                                             /\ Searching!Share(legs.text, d) > Searching!Share(legs.text, e)
      BY <1>2, <1>3, <1>4, LegsPrefer
<1>7. /\ Searching!Share(legs.vector, d) \in Nat /\ Searching!Share(legs.vector, e) \in Nat
      /\ Searching!Share(legs.vector, d) >= Searching!Share(legs.vector, e)
      /\ e \in Searching!ToSet(legs.vector) => /\ d \in Searching!ToSet(legs.vector)
                                               /\ Searching!Share(legs.vector, d) > Searching!Share(legs.vector, e)
      BY <1>2, <1>3, <1>4, LegsPrefer
<1>8. ASSUME NEW j \in 1 .. Len(hits), hits[j].doc = e
      PROVE  \E i \in 1 .. j - 1 : hits[i].doc = d
  <2>1. e \in Searching!ToSet(legs.text) \/ e \in Searching!ToSet(legs.vector)
        BY <1>1, <1>8 DEF Searching!Found
  <2>2. d \in S
        BY <1>1, <1>6, <1>7, <2>1 DEF Searching!Found
  <2>3. score(d) > score(e)
        BY <1>6, <1>7, <2>1 DEF Searching!Rrf
  <2> QED BY <1>1, <1>8, <2>2, <2>3
<1> QED BY <1>5, <1>8 DEF Searching!Before, hits

\* What a request is made of.
LEMMA InputsAreWell ==
  ASSUME NEW x \in Searching!Inputs
  PROVE  /\ x.topK \in Nat /\ 1 <= x.topK /\ x.topK <= MaxRequest
         /\ x.sources \subseteq Nat /\ IsFiniteSet(x.sources)
         /\ x.active \subseteq Nat
         /\ x.about \in [ChunkRows -> Searching!About]
         /\ x.text \in Searching!Rankings(ChunkRows)
         /\ x.vector \in Searching!Rankings(ChunkRows \cup Dead)
         /\ x.failed \in [text : BOOLEAN, vector : BOOLEAN]
         /\ x = [text |-> x.text, vector |-> x.vector, failed |-> x.failed, topK |-> x.topK,
                 sources |-> x.sources, active |-> x.active, about |-> x.about]
<1> DEFINE A == Searching!Rankings(ChunkRows)
           B == Searching!Rankings(ChunkRows \cup Dead)
           F == [text : BOOLEAN, vector : BOOLEAN]
           K == 1 .. MaxRequest
           S == {T \in SUBSET Nat : Searching!IsFiniteSet(T)}
           W == SUBSET Nat
           G == [ChunkRows -> Searching!About]
<1>1. Searching!Inputs = [text : A, vector : B, failed : F, topK : K, sources : S, active : W, about : G]
      BY DEF Searching!Inputs
<1>2. \A T : Searching!IsFiniteSet(T) = IsFiniteSet(T)
      BY Zenon DEF Searching!IsFiniteSet, IsFiniteSet
<1>3. MaxRequest \in Nat
      BY LimitsAssumption
<1>4. /\ x.topK \in K /\ x.sources \in S /\ x.active \in W /\ x.about \in G
      /\ x.text \in A /\ x.vector \in B /\ x.failed \in F
      /\ x = [text |-> x.text, vector |-> x.vector, failed |-> x.failed, topK |-> x.topK,
              sources |-> x.sources, active |-> x.active, about |-> x.about]
  <2> HIDE DEF A, B, F, K, S, W, G
  <2> QED BY <1>1
<1>5. x.topK \in Nat /\ 1 <= x.topK /\ x.topK <= MaxRequest
      BY <1>3, <1>4
<1>6. x.sources \subseteq Nat /\ IsFiniteSet(x.sources)
      BY <1>2, <1>4
<1> QED BY <1>4, <1>5, <1>6

\* A search is fair: the best of what the legs found, each once.
LEMMA HybridsAreFair ==
  ASSUME NEW x \in Searching!Inputs
  PROVE  Searching!HybridIsFair(x)
<1> DEFINE hits == Searching!SearchHybrid(x, x.topK)
           k == Searching!TopK(x.topK)
           pool == Searching!Fetched(x, x.topK)
<1>1. x.topK \in Nat /\ x.topK = k
      BY InputsAreWell, LimitsAssumption DEF Searching!TopK
<1>2. /\ hits \in Seq(Hits) /\ Len(hits) = Searching!LeastOf(k, Cardinality(pool))
      /\ \A n \in 1 .. Len(hits) : hits[n].doc \in pool
      /\ \A m, n \in 1 .. Len(hits) : hits[m].doc = hits[n].doc => m = n
      BY <1>1, HybridServes
<1>3. \A d, e \in ChunkRows : Searching!Better(x, d, e) => Searching!Before(hits, d, e)
      BY <1>1, BetterComesBefore
<1>4. Searching!Cardinality(pool) = Cardinality(pool)
      BY SearchingSelects
<1>5. DOMAIN hits = 1 .. Len(hits)
      BY <1>2, LenProperties
<1> HIDE DEF hits, k, pool
<1>6. /\ {hits[n].doc : n \in DOMAIN hits} \subseteq pool
      /\ Len(hits) = Searching!LeastOf(k, Searching!Cardinality(pool))
      /\ \A m, n \in DOMAIN hits : hits[m].doc = hits[n].doc => m = n
      /\ \A d, e \in ChunkRows : Searching!Better(x, d, e) => Searching!Before(hits, d, e)
      BY <1>2, <1>3, <1>4, <1>5
<1> QED BY <1>1, <1>6 DEF Searching!HybridIsFair, hits, pool

\* What increases is never behind.
LEMMA IncreasingIsAhead ==
  ASSUME NEW N \in Nat, NEW e \in [1 .. N -> Nat \ {0}],
         \A j, k \in 1 .. N : j < k => e[j] < e[k]
  PROVE  \A k \in 1 .. N : k <= e[k]
<1> DEFINE S == {n \in Nat : n + 1 \in 1 .. N => n + 1 <= e[n + 1]}
<1>1. 0 \in S
  <2>1. 1 \in 1 .. N => e[1] \in Nat \ {0}
        OBVIOUS
  <2> QED BY <2>1
<1>2. ASSUME NEW n \in Nat, n \in S
      PROVE  n + 1 \in S
  <2>1. ASSUME (n + 1) + 1 \in 1 .. N
        PROVE  (n + 1) + 1 <= e[(n + 1) + 1]
    <3>1. n + 1 \in 1 .. N /\ n + 1 < (n + 1) + 1
          BY <2>1
    <3>2. e[n + 1] < e[(n + 1) + 1] /\ e[n + 1] \in Nat /\ e[(n + 1) + 1] \in Nat
          BY <2>1, <3>1
    <3>3. n + 1 <= e[n + 1]
          BY <1>2, <3>1
    <3> QED BY <3>2, <3>3
  <2> QED BY <2>1
<1>3. Nat \subseteq S
  <2> HIDE DEF S
  <2> QED BY <1>1, <1>2, InductionOnNat
<1>4. ASSUME NEW k \in 1 .. N
      PROVE  k <= e[k]
  <2>1. k - 1 \in Nat /\ (k - 1) + 1 = k
        OBVIOUS
  <2> QED BY <1>3, <2>1
<1> QED BY <1>4

\* What is picked is as long as there are places, and no longer than what it is of.
LEMMA PickedCounts ==
  ASSUME NEW T, NEW s \in Seq(T), NEW I
  PROVE  LET p == Picked(s, I)
             J == I \cap 1 .. Len(s)
         IN /\ p \in Seq(T) /\ Len(p) \in Nat
            /\ IsFiniteSet(J) /\ Len(p) = Cardinality(J) /\ Len(p) <= Len(s)
            /\ 1 .. Len(s) \subseteq I => Len(p) = Len(s)
<1> DEFINE p == Picked(s, I)
           J == I \cap 1 .. Len(s)
           N == Len(s)
<1>1. N \in Nat
      BY LenProperties
<1>2. p \in Seq(T) /\ \E e : Takes(p, s, J, e)
      BY PickedTakes
<1>3. PICK e : Takes(p, s, J, e)
      BY <1>2
<1>4. Len(p) \in Nat
      BY <1>2, LenProperties
<1>5. IsFiniteSet(1 .. N) /\ Cardinality(1 .. N) = N
  <2> HIDE DEF N
  <2> QED BY <1>1, FS_Interval
<1>6. IsFiniteSet(1 .. Len(p)) /\ Cardinality(1 .. Len(p)) = Len(p)
  <2> DEFINE L == Len(p)
  <2>1. L \in Nat
        BY <1>4
  <2> HIDE DEF L, p
  <2>2. IsFiniteSet(1 .. L) /\ Cardinality(1 .. L) = L
        BY <2>1, FS_Interval
  <2> QED BY <2>2 DEF L
<1>7. J \in SUBSET (1 .. N)
      OBVIOUS
<1> HIDE DEF p, J, N
<1>8. e \in Bijection(1 .. Len(p), J)
  <2>1. e \in [1 .. Len(p) -> J] /\ \A i \in J : \E k \in 1 .. Len(p) : e[k] = i
        BY <1>3 DEF Takes
  <2>2. ASSUME NEW j \in 1 .. Len(p), NEW k \in 1 .. Len(p), e[j] = e[k]
        PROVE  j = k
    <3>1. e[j] \in 1 .. N /\ e[k] \in 1 .. N
          BY <1>7, <2>1
    <3>2. ~(j < k) /\ ~(k < j)
          BY <1>3, <2>2, <3>1, <1>1 DEF Takes
    <3> QED BY <1>4, <3>2
  <2> QED BY <2>1, <2>2 DEF Bijection, Injection, IsInjective, Surjection
<1>9. IsFiniteSet(J) /\ Cardinality(J) <= N
      BY <1>5, <1>7, FS_Subset
<1>10. Cardinality(J) = Len(p)
  <2> DEFINE D == 1 .. Len(p)
  <2>1. e \in Bijection(D, J) /\ IsFiniteSet(D) /\ Cardinality(D) = Len(p)
        BY <1>6, <1>8
  <2> HIDE DEF D
  <2>2. ExistsBijection(D, J)
        BY <2>1 DEF ExistsBijection
  <2> QED BY <1>9, <2>1, <2>2, FS_Bijection
<1>11. 1 .. Len(s) \subseteq I => J = 1 .. N
       BY DEF J, N
<1> QED BY <1>2, <1>4, <1>5, <1>9, <1>10, <1>11 DEF p, J, N

\* Those before another stay before it if they are picked, and if the rest is cut.
LEMMA BeforeStays ==
  ASSUME NEW s \in Seq(Hits), NEW d, NEW e, Searching!Before(s, d, e)
  PROVE  /\ \A I : (\A i \in 1 .. Len(s) : s[i].doc = d => i \in I)
                     => Searching!Before(Picked(s, I), d, e)
         /\ \A n \in Nat : Searching!Before(Searching!Cut(s, n), d, e)
<1>1. Len(s) \in Nat /\ DOMAIN s = 1 .. Len(s)
      BY LenProperties
<1>2. \A j \in 1 .. Len(s) : s[j].doc = e => \E i \in 1 .. j - 1 : s[i].doc = d
      BY <1>1 DEF Searching!Before
<1>3. ASSUME NEW I, \A i \in 1 .. Len(s) : s[i].doc = d => i \in I
      PROVE  Searching!Before(Picked(s, I), d, e)
  <2> DEFINE p == Picked(s, I)
             J == I \cap 1 .. Len(s)
  <2>1. p \in Seq(Hits) /\ \E f : Takes(p, s, J, f)
        BY PickedTakes
  <2>2. PICK f : Takes(p, s, J, f)
        BY <2>1
  <2>3. DOMAIN p = 1 .. Len(p) /\ Len(p) \in Nat
        BY <2>1, LenProperties
  <2> HIDE DEF p
  <2>4. ASSUME NEW j \in 1 .. Len(p), p[j].doc = e
        PROVE  \E k \in 1 .. j - 1 : p[k].doc = d
    <3>1. f[j] \in J /\ p[j] = s[f[j]]
          BY <2>2 DEF Takes
    <3>2. PICK i \in 1 .. f[j] - 1 : s[i].doc = d
          BY <1>2, <2>4, <3>1
    <3>3. i \in 1 .. Len(s) /\ i \in J /\ i < f[j] /\ f[j] \in Nat
          BY <1>1, <1>3, <3>1, <3>2
    <3>4. PICK k \in 1 .. Len(p) : f[k] = i
          BY <2>2, <3>3 DEF Takes
    <3>5. p[k].doc = d
          BY <2>2, <3>2, <3>4 DEF Takes
    <3>6. ~(j < k) /\ j # k
          BY <2>2, <3>3, <3>4 DEF Takes
    <3> QED BY <2>3, <3>5, <3>6
  <2> QED BY <2>3, <2>4 DEF Searching!Before, p
<1>4. ASSUME NEW n \in Nat
      PROVE  Searching!Before(Searching!Cut(s, n), d, e)
  <2> DEFINE c == Searching!Cut(s, n)
  <2>1. /\ c \in Seq(Hits) /\ Len(c) \in Nat
        /\ \A i \in 1 .. Len(c) : i \in 1 .. Len(s) /\ c[i] = s[i]
        BY CutKeeps
  <2>2. DOMAIN c = 1 .. Len(c)
        BY <2>1, LenProperties
  <2> HIDE DEF c
  <2>3. ASSUME NEW j \in 1 .. Len(c), c[j].doc = e
        PROVE  \E i \in 1 .. j - 1 : c[i].doc = d
    <3>1. PICK i \in 1 .. j - 1 : s[i].doc = d
          BY <1>2, <2>1, <2>3
    <3>2. i \in 1 .. Len(c)
          BY <2>1
    <3> QED BY <2>1, <3>1, <3>2
  <2> QED BY <2>2, <2>3 DEF Searching!Before, c
<1> QED BY <1>3, <1>4

\* A source that a request may see.
Seen(x, d) == x.about[d].source \in x.sources

\* A leg that is asked for one source has its rows, in the leg's order, and no later.
LEMMA OwnLegs ==
  ASSUME NEW D, NEW leg \in Searching!Rankings(D), NEW x
  PROVE  LET own == Searching!Own(x, leg)
         IN /\ own \in Searching!Rankings(D)
            /\ \A k \in 1 .. Len(own) : own[k] \in ChunkRows => Seen(x, own[k])
            /\ \A d \in ChunkRows : \A i \in 1 .. Len(leg) : Seen(x, d) /\ leg[i] = d
                 => \E k \in 1 .. Len(own) : own[k] = d /\ k <= i
            /\ \A d, e \in ChunkRows : Seen(x, d) /\ d # e /\ Searching!Placed(leg, d, e)
                 => Searching!Placed(own, d, e)
<1> DEFINE own == Searching!Own(x, leg)
           I == {i \in DOMAIN leg : leg[i] \in ChunkRows => x.about[leg[i]].source \in x.sources}
           J == I \cap 1 .. Len(leg)
<1>1. /\ leg \in Seq(D) /\ Len(leg) \in Nat /\ DOMAIN leg = 1 .. Len(leg)
      /\ \A i, j \in 1 .. Len(leg) : leg[i] = leg[j] => i = j
      BY LenProperties DEF Searching!Rankings
<1>2. own = Picked(leg, I)
      BY SearchingSelects DEF Searching!Own
<1>3. \A i : i \in J <=> i \in 1 .. Len(leg) /\ (leg[i] \in ChunkRows => Seen(x, leg[i]))
      BY <1>1 DEF Seen
<1> HIDE DEF own, I
<1>4. own \in Seq(D) /\ \E f : Takes(own, leg, J, f)
      BY <1>1, <1>2, PickedTakes
<1>5. PICK f : Takes(own, leg, J, f)
      BY <1>4
<1>6. DOMAIN own = 1 .. Len(own) /\ Len(own) \in Nat
      BY <1>4, LenProperties
<1> HIDE DEF J
<1>7. /\ f \in [1 .. Len(own) -> J]
      /\ \A i \in J : \E k \in 1 .. Len(own) : f[k] = i
      /\ \A j, k \in 1 .. Len(own) : j < k => f[j] < f[k]
      /\ \A k \in 1 .. Len(own) : own[k] = leg[f[k]] /\ f[k] \in J
      BY <1>5 DEF Takes
<1>8. \A k \in 1 .. Len(own) : k <= f[k] /\ f[k] \in 1 .. Len(leg)
  <2>1. f \in [1 .. Len(own) -> Nat \ {0}]
        BY <1>1, <1>3, <1>7
  <2>2. \A k \in 1 .. Len(own) : k <= f[k]
        BY <1>6, <1>7, <2>1, IncreasingIsAhead
  <2> QED BY <1>3, <1>7, <2>2
<1>9. own \in Searching!Rankings(D)
  <2>1. ASSUME NEW i \in 1 .. Len(own), NEW j \in 1 .. Len(own), own[i] = own[j]
        PROVE  i = j
    <3>1. f[i] = f[j] /\ f[i] \in Nat
          BY <1>1, <1>7, <1>8, <2>1
    <3> QED BY <1>6, <1>7, <3>1
  <2> QED BY <1>4, <1>6, <2>1 DEF Searching!Rankings
<1>10. \A k \in 1 .. Len(own) : own[k] \in ChunkRows => Seen(x, own[k])
       BY <1>3, <1>7
<1>11. ASSUME NEW d \in ChunkRows, NEW i \in 1 .. Len(leg), Seen(x, d), leg[i] = d
       PROVE  \E k \in 1 .. Len(own) : own[k] = d /\ f[k] = i /\ k <= i
  <2>1. i \in J
        BY <1>3, <1>11
  <2>2. PICK k \in 1 .. Len(own) : f[k] = i
        BY <1>7, <2>1
  <2> QED BY <1>7, <1>8, <1>11, <2>2
<1>12. ASSUME NEW d \in ChunkRows, NEW e \in ChunkRows, Seen(x, d), d # e, Searching!Placed(leg, d, e)
       PROVE  Searching!Placed(own, d, e)
  <2> SUFFICES ASSUME e \in Searching!Hydrated(own)
               PROVE  \E i \in Searching!Rank(own, d) : \A j \in Searching!Rank(own, e) : i <= j
      BY DEF Searching!Placed
  <2>1. PICK j \in 1 .. Len(own) : own[j] = e
        BY <1>6 DEF Searching!Hydrated, Searching!ToSet
  <2>2. f[j] \in 1 .. Len(leg) /\ leg[f[j]] = e
        BY <1>7, <1>8, <2>1
  <2>3. e \in Searching!Hydrated(leg) /\ f[j] \in Searching!Rank(leg, e)
        BY <1>1, <2>2 DEF Searching!Hydrated, Searching!ToSet, Searching!Rank
  <2>4. PICK i \in Searching!Rank(leg, d) : \A n \in Searching!Rank(leg, e) : i <= n
        BY <1>12, <2>3 DEF Searching!Placed
  <2>5. i \in 1 .. Len(leg) /\ leg[i] = d /\ i <= f[j]
        BY <1>1, <2>3, <2>4 DEF Searching!Rank
  <2>6. PICK k \in 1 .. Len(own) : own[k] = d /\ f[k] = i
        BY <1>11, <1>12, <2>5
  <2>7. ~(j < k)
        BY <1>7, <2>5, <2>6, <1>8
  <2>8. \A n \in Searching!Rank(own, e) : n = j
        BY <1>6, <1>9, <2>1 DEF Searching!Rank, Searching!Rankings
  <2>9. k \in Searching!Rank(own, d)
        BY <1>6, <2>6 DEF Searching!Rank
  <2> QED BY <1>6, <2>7, <2>8, <2>9
<1> QED BY <1>9, <1>10, <1>11, <1>12 DEF own

\* What a caller may see, and what it asks the legs for.
Visible(x) == {d \in ChunkRows : x.sources = {} \/ x.about[d].source \in x.sources}

\* A request for one source is one for its own legs.
LEMMA AskedIsARequest ==
  ASSUME NEW x \in Searching!Inputs
  PROVE  /\ Searching!Asked(x) \in Searching!Inputs
         /\ Searching!Asked(x).failed = x.failed
         /\ Cardinality(x.sources) = 1 =>
              /\ Searching!Asked(x).text = Searching!Own(x, x.text)
              /\ Searching!Asked(x).vector = Searching!Own(x, x.vector)
         /\ Cardinality(x.sources) # 1 => Searching!Asked(x) = x
<1> DEFINE y == Searching!Asked(x)
           z == [x EXCEPT !.text = Searching!Own(x, x.text), !.vector = Searching!Own(x, x.vector)]
<1>1. y = IF Cardinality(x.sources) = 1 THEN z ELSE x
      BY SearchingSelects DEF Searching!Asked
<1>2. CASE Cardinality(x.sources) # 1
      BY <1>1, <1>2
<1>3. CASE Cardinality(x.sources) = 1
  <2> DEFINE A == Searching!Rankings(ChunkRows)
             B == Searching!Rankings(ChunkRows \cup Dead)
             F == [text : BOOLEAN, vector : BOOLEAN]
             K == 1 .. MaxRequest
             S == {T \in SUBSET Nat : Searching!IsFiniteSet(T)}
             W == SUBSET Nat
             G == [ChunkRows -> Searching!About]
             a == Searching!Own(x, x.text)
             b == Searching!Own(x, x.vector)
  <2>1. Searching!Inputs = [text : A, vector : B, failed : F, topK : K, sources : S, active : W, about : G]
        BY DEF Searching!Inputs
  <2>2. a \in A /\ b \in B
    <3>1. x.text \in A /\ x.vector \in B
          BY InputsAreWell
    <3> QED BY <3>1, OwnLegs
  <2>3. y = [x EXCEPT !.text = a, !.vector = b]
        BY <1>1, <1>3
  <2> HIDE DEF A, B, F, K, S, W, G, a, b, y
  <2>4. y \in Searching!Inputs /\ y.failed = x.failed /\ y.text = a /\ y.vector = b
        BY <2>1, <2>2, <2>3
  <2> QED BY <1>3, <2>4 DEF y, a, b
<1> QED BY <1>2, <1>3

\* The preference of the legs is that of the legs of a caller's own sources.
LEMMA AskedPrefers ==
  ASSUME NEW x \in Searching!Inputs, NEW d \in Visible(x), NEW e \in Visible(x), Searching!Better(x, d, e)
  PROVE  Searching!Better(Searching!Asked(x), d, e)
<1> DEFINE y == Searching!Asked(x)
<1>1. CASE Cardinality(x.sources) # 1
      BY <1>1, AskedIsARequest
<1>2. CASE Cardinality(x.sources) = 1
  <2>1. /\ y.failed = x.failed
        /\ y.text = Searching!Own(x, x.text) /\ y.vector = Searching!Own(x, x.vector)
        BY <1>2, AskedIsARequest
  <2>2. d \in ChunkRows /\ e \in ChunkRows /\ Seen(x, d) /\ Seen(x, e)
    <3>1. x.sources # {}
          BY <1>2, FS_EmptySet
    <3> QED BY <3>1 DEF Visible, Seen
  <2>3. /\ d # e
        /\ x.failed.text \/ Searching!Placed(x.text, d, e)
        /\ x.failed.vector \/ Searching!Placed(x.vector, d, e)
        /\ \/ ~x.failed.text /\ d \in Searching!Hydrated(x.text)
           \/ ~x.failed.vector /\ d \in Searching!Hydrated(x.vector)
        BY DEF Searching!Better
  <2>4. \A D : \A leg \in Searching!Rankings(D) :
          /\ Searching!Placed(leg, d, e) => Searching!Placed(Searching!Own(x, leg), d, e)
          /\ d \in Searching!Hydrated(leg) => d \in Searching!Hydrated(Searching!Own(x, leg))
    <3> TAKE D
    <3> TAKE leg \in Searching!Rankings(D)
    <3> DEFINE own == Searching!Own(x, leg)
    <3>1. /\ own \in Searching!Rankings(D)
          /\ \A i \in 1 .. Len(leg) : Seen(x, d) /\ leg[i] = d
               => \E k \in 1 .. Len(own) : own[k] = d /\ k <= i
          /\ Seen(x, d) /\ d # e /\ Searching!Placed(leg, d, e) => Searching!Placed(own, d, e)
          BY <2>2, OwnLegs
    <3> HIDE DEF own
    <3>2. DOMAIN leg = 1 .. Len(leg) /\ DOMAIN own = 1 .. Len(own)
          BY <3>1, LenProperties DEF Searching!Rankings
    <3>3. d \in Searching!Hydrated(leg) => d \in Searching!Hydrated(own)
          BY <2>2, <3>1, <3>2 DEF Searching!Hydrated, Searching!ToSet
    <3> QED BY <2>2, <2>3, <3>1, <3>3 DEF own
  <2>5. x.text \in Searching!Rankings(ChunkRows) /\ x.vector \in Searching!Rankings(ChunkRows \cup Dead)
        BY InputsAreWell
  <2>6. /\ Searching!Placed(x.text, d, e) => Searching!Placed(y.text, d, e)
        /\ d \in Searching!Hydrated(x.text) => d \in Searching!Hydrated(y.text)
        BY <2>1, <2>4, <2>5
  <2>7. /\ Searching!Placed(x.vector, d, e) => Searching!Placed(y.vector, d, e)
        /\ d \in Searching!Hydrated(x.vector) => d \in Searching!Hydrated(y.vector)
        BY <2>1, <2>4, <2>5
  <2> HIDE DEF y
  <2> QED BY <2>1, <2>3, <2>6, <2>7 DEF Searching!Better, y
<1> QED BY <1>1, <1>2

\* What a caller may see of what the legs found, its own legs find.
LEMMA OwnIsFound ==
  ASSUME NEW x \in Searching!Inputs, Cardinality(x.sources) <= 1
  PROVE  Searching!Fetched(x, x.topK) \cap Visible(x) \subseteq Searching!Fetched(Searching!Asked(x), x.topK)
<1> DEFINE y == Searching!Asked(x)
           k == Searching!TopK(x.topK)
           C == Searching!Candidates(k)
<1>1. CASE Cardinality(x.sources) # 1
      BY <1>1, AskedIsARequest
<1>2. CASE Cardinality(x.sources) = 1
  <2>1. /\ y \in Searching!Inputs /\ y.failed = x.failed
        /\ y.text = Searching!Own(x, x.text) /\ y.vector = Searching!Own(x, x.vector)
        BY <1>2, AskedIsARequest
  <2>2. k \in Nat /\ 1 <= k /\ C \in Nat /\ k \in Nat \ {0}
    <3>1. x.topK \in Nat
          BY InputsAreWell
    <3>2. k \in Nat /\ 1 <= k
          BY <3>1, LimitsAreMet
    <3> QED BY <3>2, LimitsAreMet
  <2>3. x.sources # {}
        BY <1>2, FS_EmptySet
  <2>4. \A D : \A leg \in Searching!Rankings(D) : \A failed \in BOOLEAN : \A d \in Visible(x) :
          d \in Searching!ToSet(Heard(leg, failed, k))
            => d \in Searching!ToSet(Heard(Searching!Own(x, leg), failed, k))
    <3> TAKE D
    <3> TAKE leg \in Searching!Rankings(D)
    <3> TAKE failed \in BOOLEAN
    <3> TAKE d \in Visible(x)
    <3> DEFINE own == Searching!Own(x, leg)
               c == Heard(leg, failed, k)
               o == Heard(own, failed, k)
    <3>1. d \in ChunkRows /\ Seen(x, d)
          BY <2>3 DEF Visible, Seen
    <3>2. /\ own \in Searching!Rankings(D)
          /\ \A i \in 1 .. Len(leg) : Seen(x, d) /\ leg[i] = d
               => \E n \in 1 .. Len(own) : own[n] = d /\ n <= i
          BY <3>1, OwnLegs
    <3> HIDE DEF own
    <3>3. /\ c \in Searching!Rankings(D) /\ Len(c) \in Nat
          /\ \A i \in 1 .. Len(c) : i \in 1 .. Len(leg) /\ c[i] = leg[i]
          BY <2>2, LegsAreCut
    <3>4. /\ o \in Searching!Rankings(D) /\ Len(o) \in Nat
          /\ \A i \in 1 .. Len(o) : i \in 1 .. Len(own) /\ o[i] = own[i]
          BY <2>2, <3>2, LegsAreCut
    <3>5. DOMAIN c = 1 .. Len(c) /\ DOMAIN o = 1 .. Len(o)
          BY <3>3, <3>4, LenProperties DEF Searching!Rankings
    <3> SUFFICES ASSUME d \in Searching!ToSet(c)
                 PROVE  d \in Searching!ToSet(o)
        BY DEF own
    <3>6. PICK i \in 1 .. Len(c) : c[i] = d
          BY <3>5 DEF Searching!ToSet
    <3>7. PICK n \in 1 .. Len(own) : own[n] = d /\ n <= i
          BY <3>1, <3>2, <3>3, <3>6
    <3>8. ~failed
          BY <3>3, <3>6, LegsAreCut, <2>2
    <3>9. leg \in Seq(D) /\ own \in Seq(D) /\ Len(own) \in Nat /\ Len(leg) \in Nat
          BY <3>2, LenProperties DEF Searching!Rankings
    <3>10. Len(c) <= C
      <4>1. c = Searching!Cut(leg, C)
            BY <3>8 DEF Heard
      <4> HIDE DEF c, C
      <4> QED BY <2>2, <3>9, <4>1, CutKeeps
    <3>11. Len(o) = IF C < Len(own) THEN C ELSE Len(own)
      <4>1. o = Searching!Cut(own, C)
            BY <3>8 DEF Heard
      <4> HIDE DEF o, C
      <4>2. Len(o) = Searching!LeastOf(C, Len(own))
            BY <2>2, <3>9, <4>1, CutKeeps
      <4> QED BY <4>2 DEF Searching!LeastOf
    <3> HIDE DEF c, o, C
    <3>12. n \in 1 .. Len(o)
          BY <2>2, <3>3, <3>6, <3>7, <3>9, <3>10, <3>11
    <3>13. o[n] = d
          BY <3>4, <3>7, <3>12
    <3> QED BY <3>5, <3>12, <3>13 DEF Searching!ToSet
  <2>5. /\ x.text \in Searching!Rankings(ChunkRows) /\ x.vector \in Searching!Rankings(ChunkRows \cup Dead)
        /\ x.failed.text \in BOOLEAN /\ x.failed.vector \in BOOLEAN
        BY InputsAreWell
  <2>6. /\ Searching!Legs(x, k).text = Heard(x.text, x.failed.text, k)
        /\ Searching!Legs(x, k).vector = Heard(x.vector, x.failed.vector, k)
        BY <2>2, LegsOfRequest
  <2>7. /\ Searching!Legs(y, k).text = Heard(y.text, x.failed.text, k)
        /\ Searching!Legs(y, k).vector = Heard(y.vector, x.failed.vector, k)
        BY <2>1, <2>2, LegsOfRequest
  <2>8. \A d \in Visible(x) : d \in Searching!ToSet(Searching!Legs(x, k).text)
                                => d \in Searching!ToSet(Searching!Legs(y, k).text)
        BY <2>1, <2>4, <2>5, <2>6, <2>7
  <2>9. \A d \in Visible(x) : d \in Searching!ToSet(Searching!Legs(x, k).vector)
                                => d \in Searching!ToSet(Searching!Legs(y, k).vector)
        BY <2>1, <2>4, <2>5, <2>6, <2>7
  <2> HIDE DEF y, k
  <2>10. Searching!Found(Searching!Legs(x, k)) \cap Visible(x) \subseteq Searching!Found(Searching!Legs(y, k))
        BY <2>8, <2>9 DEF Searching!Found
  <2> QED BY <2>10 DEF Searching!Fetched, k, y
<1> QED BY <1>1, <1>2

\* A search of sources keeps to them, in the order of its legs.
LEMMA KnowledgeIsSearched ==
  ASSUME NEW x \in Searching!Inputs
  PROVE  Searching!SourcesAreKept(x)
<1> DEFINE y == Searching!Asked(x)
           count == Cardinality(x.sources)
           wide == IF count > 1 THEN Searching!LeastOf(x.topK * count, MaxRequest) ELSE x.topK
           found == Searching!SearchHybrid(y, wide)
           I == {n \in DOMAIN found : count <= 1 \/ x.about[found[n].doc].source \in x.sources}
           kept == Picked(found, I)
           hits == Searching!Cut(kept, x.topK)
           own == {d \in ChunkRows : x.sources = {} \/ x.about[d].source \in x.sources}
           pool == Searching!Fetched(y, x.topK)
<1>0. \A S : Searching!Cardinality(S) = Cardinality(S)
      BY SearchingSelects
<1>1. hits = Searching!SearchKnowledge(x)
  <2>1. \A s, J : Searching!Picked(s, J) = Picked(s, J)
        BY SearchingSelects
  <2> QED BY <1>0, <2>1 DEF Searching!SearchKnowledge
<1>2. /\ x.topK \in Nat /\ 1 <= x.topK /\ x.topK <= MaxRequest /\ MaxRequest \in Nat
      /\ x.sources \subseteq Nat /\ IsFiniteSet(x.sources)
      BY InputsAreWell, LimitsAssumption
<1>3. y \in Searching!Inputs
      BY AskedIsARequest
<1>4. count \in Nat
      BY <1>2, FS_CardinalityType
<1>5. wide \in Nat /\ (count <= 1 => wide = x.topK)
  <2> HIDE DEF count
  <2>1. x.topK * count \in Nat
        BY <1>2, <1>4
  <2> QED BY <1>2, <1>4, <2>1 DEF Searching!LeastOf
<1> HIDE DEF y, wide
<1>6. /\ found \in Seq(Hits)
      /\ Len(found) = Searching!LeastOf(Searching!TopK(wide), Cardinality(Searching!Fetched(y, wide)))
      /\ \A n \in 1 .. Len(found) : found[n].doc \in Searching!Fetched(y, wide)
      /\ IsFiniteSet(Searching!Fetched(y, wide))
      BY <1>3, <1>5, HybridServes
<1>7. DOMAIN found = 1 .. Len(found) /\ Len(found) \in Nat
      BY <1>6, LenProperties
<1> HIDE DEF found
<1>8. /\ kept \in Seq(Hits) /\ Len(kept) \in Nat
      /\ 1 .. Len(found) \subseteq I => Len(kept) = Len(found)
      BY <1>6, PickedCounts
<1>9. \A k \in 1 .. Len(kept) : \E n \in I : kept[k] = found[n] /\ n \in 1 .. Len(found)
  <2>1. PICK f : Takes(kept, found, I \cap 1 .. Len(found), f)
        BY <1>6, PickedTakes
  <2>2. \A k \in 1 .. Len(kept) : f[k] \in I \cap 1 .. Len(found) /\ kept[k] = found[f[k]]
        BY <2>1 DEF Takes
  <2> HIDE DEF I, kept
  <2> QED BY <2>2
<1> HIDE DEF kept
<1>10. /\ hits \in Seq(Hits) /\ Len(hits) \in Nat
       /\ Len(hits) = Searching!LeastOf(x.topK, Len(kept))
       /\ \A i \in 1 .. Len(hits) : i \in 1 .. Len(kept) /\ hits[i] = kept[i]
  <2>1. kept \in Seq(Hits) /\ x.topK \in Nat
        BY <1>2, <1>8
  <2>2. Begun(Searching!Cut(kept, x.topK), Hits, kept, x.topK)
        BY <2>1, CutIsBegun, Zenon
  <2> QED BY <2>2 DEF Begun
<1>11. DOMAIN hits = 1 .. Len(hits)
       BY <1>10, LenProperties
<1>12. ASSUME NEW n \in Searching!Fetched(y, wide)
       PROVE  n \in ChunkRows /\ (count = 1 => Seen(x, n))
  <2>1. n \in ChunkRows
        BY <1>12 DEF Searching!Fetched, Searching!Found
  <2>2. ASSUME count = 1
        PROVE  Seen(x, n)
    <3> DEFINE k == Searching!TopK(wide)
    <3>1. k \in Nat /\ k \in Nat \ {0}
      <4>1. k \in Nat /\ 1 <= k
            BY <1>5, LimitsAreMet
      <4> QED BY <4>1
    <3> HIDE DEF k
    <3>2. y.text = Searching!Own(x, x.text) /\ y.vector = Searching!Own(x, x.vector)
          BY <2>2, AskedIsARequest DEF y
    <3>3. /\ Searching!Legs(y, k).text = Heard(y.text, y.failed.text, k)
          /\ Searching!Legs(y, k).vector = Heard(y.vector, y.failed.vector, k)
          /\ y.failed.text \in BOOLEAN /\ y.failed.vector \in BOOLEAN
          BY <1>3, <3>1, LegsOfRequest
    <3>4. \A D : \A leg \in Searching!Rankings(D) : \A failed \in BOOLEAN :
            n \in Searching!ToSet(Heard(Searching!Own(x, leg), failed, k)) => Seen(x, n)
      <4> TAKE D
      <4> TAKE leg \in Searching!Rankings(D)
      <4> TAKE failed \in BOOLEAN
      <4> DEFINE o == Searching!Own(x, leg)
                 c == Heard(o, failed, k)
      <4>1. /\ o \in Searching!Rankings(D)
            /\ \A i \in 1 .. Len(o) : o[i] \in ChunkRows => Seen(x, o[i])
            BY OwnLegs
      <4> HIDE DEF o
      <4>2. /\ c \in Searching!Rankings(D)
            /\ \A i \in 1 .. Len(c) : i \in 1 .. Len(o) /\ c[i] = o[i]
            BY <3>1, <4>1, LegsAreCut
      <4>3. DOMAIN c = 1 .. Len(c)
            BY <4>2, LenProperties DEF Searching!Rankings
      <4> HIDE DEF c
      <4>4. n \in Searching!ToSet(c) => Seen(x, n)
            BY <2>1, <4>1, <4>2, <4>3 DEF Searching!ToSet
      <4> QED BY <4>4 DEF c, o
    <3>5. x.text \in Searching!Rankings(ChunkRows) /\ x.vector \in Searching!Rankings(ChunkRows \cup Dead)
          BY InputsAreWell
    <3>6. n \in Searching!ToSet(Searching!Legs(y, k).text) \/ n \in Searching!ToSet(Searching!Legs(y, k).vector)
          BY <1>12 DEF Searching!Fetched, Searching!Found, k
    <3> QED BY <3>2, <3>3, <3>4, <3>5, <3>6
  <2> QED BY <2>1, <2>2
<1>13. \A n \in 1 .. Len(hits) : hits[n].doc \in own
  <2> TAKE n \in 1 .. Len(hits)
  <2>1. PICK m \in I : hits[n] = found[m] /\ m \in 1 .. Len(found)
        BY <1>9, <1>10
  <2>2. hits[n].doc \in ChunkRows /\ (count = 1 => Seen(x, hits[n].doc))
        BY <1>6, <1>12, <2>1
  <2>3. count <= 1 \/ x.about[hits[n].doc].source \in x.sources
        BY <2>1
  <2>4. count = 0 => x.sources = {}
        BY <1>2, FS_EmptySet
  <2> HIDE DEF count
  <2> QED BY <1>4, <2>2, <2>3, <2>4 DEF Seen
<1>14. ASSUME count <= 1
       PROVE  Len(hits) = Searching!LeastOf(x.topK, Cardinality(pool))
  <2>1. pool = Searching!Fetched(y, wide) /\ Searching!TopK(wide) = x.topK
        BY <1>2, <1>5, <1>14 DEF Searching!TopK
  <2>2. 1 .. Len(found) \subseteq I
        BY <1>7, <1>14
  <2>3. Cardinality(pool) \in Nat
        BY <1>6, <2>1, FS_CardinalityType
  <2> HIDE DEF pool, I
  <2>4. Len(kept) = IF x.topK < Cardinality(pool) THEN x.topK ELSE Cardinality(pool)
        BY <1>6, <1>8, <2>1, <2>2 DEF Searching!LeastOf
  <2> QED BY <1>2, <1>10, <2>3, <2>4 DEF Searching!LeastOf
<1>15. ASSUME count <= 1
       PROVE  Searching!Fetched(x, x.topK) \cap own \subseteq pool
       BY <1>15, OwnIsFound DEF Visible, y
<1>16. ASSUME NEW d \in own, NEW e \in own, Searching!Better(x, d, e)
       PROVE  Searching!Before(hits, d, e)
  <2>1. Searching!Better(y, d, e)
        BY <1>16, AskedPrefers DEF Visible, y
  <2>2. Searching!Before(found, d, e)
        BY <1>3, <1>5, <2>1, BetterComesBefore DEF found
  <2>3. \A i \in 1 .. Len(found) : found[i].doc = d => i \in I
    <3> TAKE i \in 1 .. Len(found)
    <3> HAVE found[i].doc = d
    <3>1. x.sources = {} => count = 0
          BY FS_EmptySet
    <3> HIDE DEF count
    <3> QED BY <1>4, <1>7, <3>1
  <2> HIDE DEF I
  <2>4. Searching!Before(kept, d, e)
        BY <1>6, <2>2, <2>3, BeforeStays DEF kept
  <2> QED BY <1>2, <1>8, <2>4, BeforeStays
<1> HIDE DEF hits, pool
<1>17. /\ \A n \in DOMAIN hits : hits[n].doc \in own
       /\ Searching!Cardinality(x.sources) <= 1 =>
            /\ Len(hits) = Searching!LeastOf(x.topK, Searching!Cardinality(pool))
            /\ Searching!Fetched(x, x.topK) \cap own \subseteq pool
       /\ \A d, e \in own : Searching!Better(x, d, e) => Searching!Before(hits, d, e)
       BY <1>0, <1>11, <1>13, <1>14, <1>15, <1>16
<1> QED BY <1>1, <1>17 DEF Searching!SourcesAreKept, pool, y

\* What is served is, page by page, the first chunk of it, at places that f tells.
Firsts(x, served, out, f) ==
  /\ \A n \in 1 .. Len(out) : /\ f[n] \in 1 .. Len(served)
                              /\ out[n].page = x.about[served[f[n]].doc].page
                              /\ out[n].score = served[f[n]].score
  /\ \A m, n \in 1 .. Len(out) : m < n =>
       f[m] < f[n] /\ x.about[served[f[m]].doc].page # x.about[served[f[n]].doc].page

\* A page is served once, by the first chunk of it, and none is left out but by the limit.
LEMMA PagesAreFirst ==
  ASSUME NEW x \in Searching!Inputs, NEW served \in Seq(Hits)
  PROVE  LET page(n) == x.about[served[n].doc].page
             P == {page(n) : n \in 1 .. Len(served)}
             out == Searching!PagesOf(x, served)
         IN /\ DOMAIN out = 1 .. Len(out) /\ Len(out) \in Nat
            /\ IsFiniteSet(P) /\ Len(out) = Searching!LeastOf(x.topK, Cardinality(P))
            /\ \E f : Firsts(x, served, out, f)
<1> DEFINE N == Len(served)
           page(n) == x.about[served[n].doc].page
           P == {page(n) : n \in 1 .. N}
           I == {n \in DOMAIN served : \A m \in 1 .. n - 1 : page(m) # page(n)}
           pages == Picked(served, I)
           row(n) == [page |-> Searching!PageAt(x, pages, n), score |-> pages[n].score,
                      matched |-> Searching!Cardinality({m \in DOMAIN served :
                                        Searching!PageAt(x, served, m) = Searching!PageAt(x, pages, n)})]
           rows == [n \in DOMAIN pages |-> row(n)]
           out == Searching!Cut(rows, x.topK)
<1>1. out = Searching!PagesOf(x, served)
  <2>1. \A s, J : Searching!Picked(s, J) = Picked(s, J)
        BY SearchingSelects
  <2>2. I = {n \in DOMAIN served : \A m \in 1 .. n - 1 : Searching!PageAt(x, served, m) # Searching!PageAt(x, served, n)}
        BY DEF Searching!PageAt
  <2>3. pages = Searching!Picked(served, {n \in DOMAIN served : \A m \in 1 .. n - 1 :
                   Searching!PageAt(x, served, m) # Searching!PageAt(x, served, n)})
        BY <2>1, <2>2
  <2> HIDE DEF pages, I
  <2> QED BY <2>3 DEF Searching!PagesOf
<1>2. N \in Nat /\ DOMAIN served = 1 .. N
      BY LenProperties
<1>3. pages \in Seq(Hits) /\ \E f : Takes(pages, served, I \cap 1 .. N, f)
      BY PickedTakes
<1>4. PICK f : Takes(pages, served, I \cap 1 .. N, f)
      BY <1>3
<1> DEFINE L == Len(pages)
<1>5. L \in Nat /\ DOMAIN pages = 1 .. L
      BY <1>3, LenProperties
<1>6. \A n : n \in I <=> n \in 1 .. N /\ \A m \in 1 .. n - 1 : page(m) # page(n)
      BY <1>2
<1>7. \A n \in 1 .. L : pages[n] = served[f[n]] /\ f[n] \in 1 .. N /\ f[n] \in I
      BY <1>4 DEF Takes
<1>8. \A m, n \in 1 .. L : m < n => f[m] < f[n]
      BY <1>4 DEF Takes
<1>9. \A i \in I : \E n \in 1 .. L : f[n] = i
  <2>1. \A i \in I \cap 1 .. N : \E n \in 1 .. L : f[n] = i
        BY <1>4 DEF Takes
  <2> QED BY <1>6, <2>1
<1> DEFINE T == {row(n) : n \in 1 .. L}
<1>10. rows \in Seq(T) /\ Len(rows) = L /\ \A n \in 1 .. L : rows[n] = row(n)
  <2>1. rows = [n \in 1 .. L |-> row(n)]
        BY <1>5
  <2> HIDE DEF rows, row, L
  <2> QED BY <1>5, <2>1, SeqDef, LenProperties
<1>11. \A n \in 1 .. L : row(n).page = page(f[n]) /\ row(n).score = served[f[n]].score
  <2>1. \A n \in 1 .. L : row(n).page = x.about[pages[n].doc].page /\ row(n).score = pages[n].score
        BY DEF Searching!PageAt
  <2> HIDE DEF row, pages, L
  <2> QED BY <1>7, <2>1
<1> HIDE DEF rows, row, pages, I
<1>12. \A m, n \in 1 .. L : m < n => page(f[m]) # page(f[n])
  <2> TAKE m, n \in 1 .. L
  <2> HAVE m < n
  <2>1. f[m] \in 1 .. N /\ f[n] \in 1 .. N /\ f[m] < f[n] /\ f[n] \in I
        BY <1>7, <1>8
  <2>2. f[m] \in 1 .. f[n] - 1
        BY <1>2, <2>1
  <2> QED BY <1>6, <2>1, <2>2
<1>13. \A p \in P : \E n \in 1 .. L : page(f[n]) = p
  <2> TAKE p \in P
  <2> DEFINE M == {n \in 1 .. N : page(n) = p}
  <2>1. M \in SUBSET Nat /\ M # {}
        BY <1>2
  <2>2. PICK m \in M : \A k \in M : m <= k
        BY <2>1, Least
  <2>3. m \in I
    <3>1. m \in 1 .. N /\ page(m) = p
          BY <2>2
    <3>2. ASSUME NEW k \in 1 .. m - 1, page(k) = page(m)
          PROVE  FALSE
      <4>1. k \in M
            BY <1>2, <3>1, <3>2
      <4>2. m <= k /\ k \in Nat /\ m \in Nat
            BY <1>2, <2>2, <3>1, <4>1
      <4> QED BY <3>2, <4>2
    <3> HIDE DEF page
    <3> QED BY <1>6, <3>1, <3>2
  <2> QED BY <1>9, <2>2, <2>3
<1> DEFINE to == [n \in 1 .. L |-> page(f[n])]
<1>14. IsFiniteSet(P) /\ Cardinality(P) = L
  <2> DEFINE D == 1 .. L
  <2>1. IsFiniteSet(D) /\ Cardinality(D) = L
    <3> HIDE DEF L
    <3> QED BY <1>5, FS_Interval
  <2>2. to \in Bijection(D, P)
    <3>1. \A n \in 1 .. L : to[n] = page(f[n]) /\ page(f[n]) \in P
          BY <1>7
    <3>2. to \in [D -> P]
          BY <3>1
    <3> HIDE DEF to, page, P, L
    <3>3. \A m, n \in D : to[m] = to[n] => m = n
      <4> TAKE m, n \in D
      <4> HAVE to[m] = to[n]
      <4>1. ~(m < n) /\ ~(n < m)
            BY <1>12, <3>1
      <4> QED BY <1>5, <4>1
    <3>4. \A p \in P : \E n \in D : to[n] = p
          BY <1>13, <3>1
    <3> HIDE DEF D
    <3> QED BY <3>2, <3>3, <3>4 DEF Bijection, Injection, IsInjective, Surjection
  <2> HIDE DEF to, D, P, L
  <2>3. ExistsBijection(D, P)
        BY <2>2 DEF ExistsBijection
  <2> QED BY <2>1, <2>3, FS_Bijection
<1> HIDE DEF to
<1>15. /\ out \in Seq(T) /\ Len(out) = Searching!LeastOf(x.topK, L) /\ Len(out) \in Nat /\ Len(out) <= L
       /\ \A n \in 1 .. Len(out) : n \in 1 .. L /\ out[n] = row(n)
  <2>1. x.topK \in Nat
        BY InputsAreWell
  <2> HIDE DEF T, L
  <2>2. /\ out \in Seq(T) /\ Len(out) = Searching!LeastOf(x.topK, Len(rows)) /\ Len(out) \in Nat /\ Len(out) <= Len(rows)
        /\ \A n \in 1 .. Len(out) : n \in 1 .. Len(rows) /\ out[n] = rows[n]
    <3> DEFINE c == Searching!Cut(rows, x.topK)
    <3>1. rows \in Seq(T)
          BY <1>10
    <3> HIDE DEF c
    <3>2. /\ c \in Seq(T) /\ Len(c) = Searching!LeastOf(x.topK, Len(rows))
          /\ Len(c) \in Nat /\ Len(c) <= x.topK /\ Len(c) <= Len(rows)
          /\ x.topK <= Len(rows) => Len(c) = x.topK
          /\ \A i \in 1 .. Len(c) : i \in 1 .. Len(rows) /\ c[i] = rows[i]
          BY <2>1, <3>1, CutKeeps, Zenon DEF c
    <3> QED BY <3>2 DEF c
  <2> HIDE DEF out
  <2> QED BY <1>10, <2>2
<1>16. DOMAIN out = 1 .. Len(out)
       BY <1>15, LenProperties
<1> HIDE DEF out, L, T
<1>17. Firsts(x, served, out, f)
       BY <1>7, <1>8, <1>11, <1>12, <1>15 DEF Firsts
<1>18. Len(out) = Searching!LeastOf(x.topK, Cardinality(P))
       BY <1>14, <1>15
<1> HIDE DEF P, page
<1>19. /\ DOMAIN out = 1 .. Len(out) /\ Len(out) \in Nat
       /\ IsFiniteSet(P) /\ Len(out) = Searching!LeastOf(x.topK, Cardinality(P))
       /\ \E g : Firsts(x, served, out, g)
       BY <1>14, <1>15, <1>16, <1>17, <1>18
<1> QED BY <1>1, <1>19 DEF P, page

\* What a search of a wiki serves is of active builds, and nothing of them is lost to others.
LEMMA WikiIsSearched ==
  ASSUME NEW x \in Searching!Inputs
  PROVE  Searching!WikiIsServed(x)
<1> DEFINE asked == x.topK * OverFetch
           h == Searching!SearchHybrid(x, asked)
           k == Searching!TopK(asked)
           I == {n \in DOMAIN h : x.about[h[n].doc].build \in x.active}
           served == Picked(h, I)
           out == Searching!PagesOf(x, served)
           pool == Searching!Fetched(x, asked)
           right == {d \in pool : x.about[d].build \in x.active}
           page(d) == x.about[d].page
           seen == IF asked > MaxRequest THEN DefaultTopK ELSE asked
           score(d) == Searching!Rrf(Searching!Legs(x, k), d)
<1>0. \A S : Searching!Cardinality(S) = Cardinality(S)
      BY SearchingSelects
<1>1. /\ x.topK \in Nat /\ 1 <= x.topK /\ MaxRequest \in Nat
      /\ OverFetch \in Nat /\ 1 <= OverFetch /\ DefaultTopK \in Nat /\ 1 <= DefaultTopK
      BY InputsAreWell, LimitsAssumption
<1>2. asked \in Nat /\ asked # 0
      BY <1>1
<1>3. out = Searching!SearchWiki(x)
  <2>1. \A s, J : Searching!Picked(s, J) = Picked(s, J)
        BY SearchingSelects
  <2>2. served = Searching!Picked(h, I)
        BY <2>1
  <2> HIDE DEF served
  <2> QED BY <2>2 DEF Searching!SearchWiki
<1> HIDE DEF asked
<1>4. k = seen /\ k \in Nat /\ 1 <= k
      BY <1>1, <1>2 DEF Searching!TopK
<1>5. /\ IsFiniteSet(pool) /\ pool \subseteq ChunkRows
      /\ h \in Seq(Hits) /\ Len(h) = Searching!LeastOf(k, Cardinality(pool))
      /\ \A n \in 1 .. Len(h) : h[n].doc \in pool
      /\ \A m, n \in 1 .. Len(h) : h[m].doc = h[n].doc => m = n
      /\ \A m, n \in 1 .. Len(h) : m < n => h[m].score >= h[n].score
      /\ Cardinality(pool) <= k => \A d \in pool : \E n \in 1 .. Len(h) : h[n].doc = d
      BY <1>2, HybridServes
<1> HIDE DEF h, k, pool, seen
<1>6. Len(h) \in Nat /\ DOMAIN h = 1 .. Len(h) /\ Cardinality(pool) \in Nat
      BY <1>5, LenProperties, FS_CardinalityType
<1>7. served \in Seq(Hits) /\ \E g : Takes(served, h, I \cap 1 .. Len(h), g)
      BY <1>5, PickedTakes
<1>8. PICK g : Takes(served, h, I \cap 1 .. Len(h), g)
      BY <1>7
<1>9. Len(served) \in Nat /\ DOMAIN served = 1 .. Len(served)
      BY <1>7, LenProperties
<1>10. /\ \A n \in 1 .. Len(served) : /\ g[n] \in 1 .. Len(h) /\ served[n] = h[g[n]]
                                      /\ h[g[n]].doc \in right
       /\ \A m, n \in 1 .. Len(served) : m < n => g[m] < g[n]
       /\ \A i \in 1 .. Len(h) : h[i].doc \in right => \E n \in 1 .. Len(served) : g[n] = i
  <2> HIDE DEF served
  <2>1. \A n \in 1 .. Len(served) : g[n] \in I /\ g[n] \in 1 .. Len(h) /\ served[n] = h[g[n]]
        BY <1>8 DEF Takes
  <2>2. \A m, n \in 1 .. Len(served) : m < n => g[m] < g[n]
        BY <1>8 DEF Takes
  <2>3. \A i \in I \cap 1 .. Len(h) : \E n \in 1 .. Len(served) : g[n] = i
        BY <1>8 DEF Takes
  <2>4. \A i \in 1 .. Len(h) : h[i].doc \in right <=> i \in I
        BY <1>5, <1>6
  <2> HIDE DEF I, right
  <2> QED BY <2>1, <2>2, <2>3, <2>4
<1> HIDE DEF I, served
<1> DEFINE P == {page(served[n].doc) : n \in 1 .. Len(served)}
<1>11. /\ DOMAIN out = 1 .. Len(out) /\ Len(out) \in Nat
       /\ IsFiniteSet(P) /\ Len(out) = Searching!LeastOf(x.topK, Cardinality(P))
       /\ \E f : Firsts(x, served, out, f)
       BY <1>7, PagesAreFirst
<1> HIDE DEF out, P
<1>12. PICK f : Firsts(x, served, out, f)
       BY <1>11
<1>20. /\ \A n \in 1 .. Len(out) : /\ f[n] \in 1 .. Len(served)
                                   /\ out[n].page = page(served[f[n]].doc)
                                   /\ out[n].score = served[f[n]].score
       /\ \A m, n \in 1 .. Len(out) : m < n => /\ f[m] < f[n]
                                               /\ page(served[f[m]].doc) # page(served[f[n]].doc)
       BY <1>12 DEF Firsts
<1> USE DEF P
<1> HIDE DEF right
<1>13. \A n \in 1 .. Len(out) : \E d \in right : page(d) = out[n].page
  <2> TAKE n \in 1 .. Len(out)
  <2>1. served[f[n]].doc \in right /\ page(served[f[n]].doc) = out[n].page
        BY <1>10, <1>20
  <2> QED BY <2>1
<1>14. ASSUME NEW m \in 1 .. Len(out), NEW n \in 1 .. Len(out), m < n
       PROVE  out[m].page # out[n].page /\ out[m].score >= out[n].score
  <2>1. /\ f[m] \in 1 .. Len(served) /\ f[n] \in 1 .. Len(served) /\ f[m] < f[n]
        /\ out[m].page # out[n].page
        /\ out[m].score = served[f[m]].score /\ out[n].score = served[f[n]].score
        BY <1>14, <1>20
  <2>2. /\ g[f[m]] \in 1 .. Len(h) /\ g[f[n]] \in 1 .. Len(h) /\ g[f[m]] < g[f[n]]
        /\ served[f[m]] = h[g[f[m]]] /\ served[f[n]] = h[g[f[n]]]
        BY <1>10, <2>1
  <2>3. h[g[f[m]]].score >= h[g[f[n]]].score
        BY <1>5, <2>2
  <2> QED BY <2>1, <2>2, <2>3
<1>15. ASSUME seen >= Cardinality(pool)
       PROVE  P = {page(d) : d \in right}
  <2>1. \A d \in pool : \E n \in 1 .. Len(h) : h[n].doc = d
        BY <1>4, <1>5, <1>15
  <2>2. \A d \in right : \E n \in 1 .. Len(served) : served[n].doc = d
    <3> TAKE d \in right
    <3>1. PICK i \in 1 .. Len(h) : h[i].doc = d
          BY <2>1 DEF right
    <3>2. PICK n \in 1 .. Len(served) : g[n] = i
          BY <1>10, <3>1
    <3> QED BY <1>10, <3>1, <3>2
  <2> QED BY <1>10, <2>2
<1>16. right \in SUBSET pool /\ IsFiniteSet(right) /\ Cardinality(right) \in Nat
  <2>1. right \in SUBSET pool
        BY DEF right
  <2>2. IsFiniteSet(right)
        BY <1>5, <2>1, FS_Subset
  <2> QED BY <2>1, <2>2, FS_CardinalityType
<1>17. ASSUME seen > Cardinality(pool) - Cardinality(right), right # {}, Len(out) = 0
       PROVE  FALSE
  <2>1. P = {}
    <3>1. Cardinality(P) \in Nat
          BY <1>11, FS_CardinalityType
    <3> HIDE DEF P
    <3>2. Cardinality(P) = 0
          BY <1>1, <1>11, <1>17, <3>1 DEF Searching!LeastOf
    <3> QED BY <1>11, <3>2, FS_EmptySet
  <2>2. \A i \in 1 .. Len(h) : h[i].doc \in pool \ right
    <3>1. \A n \in 1 .. Len(served) : page(served[n].doc) \in P
          OBVIOUS
    <3> HIDE DEF P, page
    <3>2. \A n \in 1 .. Len(served) : FALSE
          BY <2>1, <3>1
    <3> QED BY <1>5, <1>10, <3>2
  <2> DEFINE D == 1 .. Len(h)
             W == pool \ right
             q == [i \in D |-> h[i].doc]
  <2>3. IsFiniteSet(D) /\ Cardinality(D) = Len(h)
    <3> DEFINE L == Len(h)
    <3>1. L \in Nat
          BY <1>6
    <3> HIDE DEF L
    <3>2. IsFiniteSet(1 .. L) /\ Cardinality(1 .. L) = L
          BY <3>1, FS_Interval
    <3> QED BY <3>2 DEF L
  <2>4. q \in Injection(D, W)
    <3>1. q \in [D -> W] /\ \A m, n \in D : q[m] = q[n] => m = n
          BY <1>5, <2>2
    <3> HIDE DEF q, D, W
    <3> QED BY <3>1 DEF Injection, IsInjective
  <2>5. IsFiniteSet(W) /\ Cardinality(W) = Cardinality(pool) - Cardinality(right)
    <3>1. pool \cap right = right
          BY <1>16
    <3>2. /\ IsFiniteSet(pool \ right)
          /\ Cardinality(pool \ right) = Cardinality(pool) - Cardinality(pool \cap right)
          BY <1>5, <1>16, FS_Difference
    <3> QED BY <3>1, <3>2
  <2> HIDE DEF q, D, W
  <2>6. Len(h) <= Cardinality(pool) - Cardinality(right)
        BY <2>3, <2>4, <2>5, FS_Injection
  <2>7. Cardinality(right) # 0
        BY <1>16, <1>17, FS_EmptySet
  <2>8. Len(h) = IF seen < Cardinality(pool) THEN seen ELSE Cardinality(pool)
        BY <1>4, <1>5 DEF Searching!LeastOf
  <2> QED BY <1>4, <1>6, <1>16, <1>17, <2>6, <2>7, <2>8
<1>18. Len(out) # 0 => out # << >>
  <2> DEFINE e == << >>
  <2>1. Len(e) = 0
        BY EmptySeq
  <2> HIDE DEF e
  <2>2. Len(out) # 0 => out # e
        BY <2>1
  <2> QED BY <2>2 DEF e
<1> DEFINE wrong == Searching!Cardinality(pool) - Searching!Cardinality(right)
<1> HIDE DEF P
<1>19. /\ \A n \in DOMAIN out : \E d \in right : page(d) = out[n].page
       /\ \A m, n \in DOMAIN out : m < n => out[m].page # out[n].page /\ out[m].score >= out[n].score
       /\ seen >= Searching!Cardinality(pool) =>
            Len(out) = Searching!LeastOf(x.topK, Searching!Cardinality({page(d) : d \in right}))
       /\ seen > wrong /\ right # {} => out # << >>
       BY <1>0, <1>11, <1>13, <1>14, <1>15, <1>17, <1>18
<1>21. asked <= MaxRequest => seen = asked
       BY <1>1, <1>2 DEF seen
<1>22. asked <= MaxRequest =>
         /\ asked >= Searching!Cardinality(pool) =>
              Len(out) = Searching!LeastOf(x.topK, Searching!Cardinality({page(d) : d \in right}))
         /\ asked > wrong /\ right # {} => out # << >>
  <2> HIDE DEF wrong, page
  <2> QED BY <1>19, <1>21
<1> QED BY <1>3, <1>19, <1>22 DEF Searching!WikiIsServed, Searching!WikiServes, pool, right, page, asked

\* What the first rank is worth, and two of them.
LEMMA HighestIsTwo ==
  /\ Searching!Reciprocal(1) = 16393442
  /\ Searching!Highest = 32786884
  /\ (Searching!Highest \div 100) * 15 = 4918020
<1>1. Searching!Reciprocal(1) = 16393442
  <2>1. 1000000000 \div 61 = 16393442
        OBVIOUS
  <2>2. 60 + 1 = 61
        OBVIOUS
  <2> QED BY <2>1, <2>2 DEF Searching!Reciprocal
<1>2. Searching!Highest = 32786884
      BY <1>1 DEF Searching!Highest
<1>3. 32786884 \div 100 = 327868
      OBVIOUS
<1> QED BY <1>1, <1>2, <1>3

\* Feedback is worth at most fifteen percent of the highest score, either way.
LEMMA FeedbackIsCapped ==
  ASSUME NEW a \in Searching!About
  PROVE  /\ Searching!FeedbackAdjustment(a) \in Int
         /\ -4918020 <= Searching!FeedbackAdjustment(a) /\ Searching!FeedbackAdjustment(a) <= 4918020
<1> DEFINE u == a.useful
           h == a.harmful
           e == 4918020 * (u - h)
           t == u + h + 3
           q == e \div t
<1>1. u \in Nat /\ h \in Nat
      BY DEF Searching!About
<1>2. Searching!FeedbackAdjustment(a) = q
      BY HighestIsTwo DEF Searching!FeedbackAdjustment
<1> HIDE DEF u, h
<1>3. e \in Int /\ t \in Nat /\ t > 0 /\ e <= 4918020 * t /\ -(4918020 * t) <= e
      BY <1>1
<1> HIDE DEF e, t
<1>4. q \in Int /\ e % t \in 0 .. t - 1 /\ e = q * t + (e % t)
      BY <1>3, SMT
<1> DEFINE r == e % t
<1>5. q \in Int /\ r \in Int /\ 0 <= r /\ r < t /\ e = q * t + r
      BY <1>3, <1>4
<1> HIDE DEF q, r
<1>6. q <= 4918020
  <2> SUFFICES ASSUME q >= 4918021
               PROVE  FALSE
      BY <1>5
  <2>1. q * t >= 4918021 * t
        BY <1>3, <1>5
  <2> QED BY <1>3, <1>5, <2>1
<1>7. -4918020 <= q
  <2> SUFFICES ASSUME q <= -4918021
               PROVE  FALSE
      BY <1>5
  <2>1. q * t <= (-4918021) * t
        BY <1>3, <1>5
  <2> QED BY <1>3, <1>5, <2>1
<1> QED BY <1>2, <1>5, <1>6, <1>7

\* An entry's score with its feedback, and entries by that, at places that f tells.
Moved(x, live, n) == Searching!Clamp(live[n].score + Searching!FeedbackAdjustment(x.about[live[n].doc]))

ByMoved(x, live, out, f) ==
  /\ \A n \in 1 .. Len(out) : /\ f[n] \in 1 .. Len(live)
                              /\ out[n].doc = live[f[n]].doc
                              /\ out[n].score = Moved(x, live, f[n])
  /\ \A m, n \in 1 .. Len(out) : m < n => /\ f[m] # f[n]
                                          /\ Moved(x, live, f[m]) >= Moved(x, live, f[n])
  /\ \A a \in 1 .. Len(live) : \A n \in 1 .. Len(out) :
       Moved(x, live, a) > Moved(x, live, f[n]) => \E m \in 1 .. n - 1 : f[m] = a

\* The entries again, by what feedback makes of their scores.
LEMMA AdjustedServes ==
  ASSUME NEW x \in Searching!Inputs, NEW live \in Seq(Hits)
  PROVE  LET out == Searching!Adjusted(x, live)
         IN /\ DOMAIN out = 1 .. Len(out) /\ Len(out) \in Nat
            /\ \A n \in 1 .. Len(live) : Moved(x, live, n) \in Nat
            /\ \E f : ByMoved(x, live, out, f)
<1> DEFINE D == DOMAIN live
           score(n) == Moved(x, live, n)
           scores == [n \in D |-> score(n)]
           R == {p \in D \X D : scores[p[1]] > scores[p[2]] \/ (scores[p[1]] = scores[p[2]] /\ p[1] < p[2])}
           order == InOrder(D, R)
           row(n) == [doc |-> live[order[n]].doc, score |-> scores[order[n]]]
           rows == [n \in DOMAIN order |-> row(n)]
           out == Searching!Cut(rows, x.topK)
<1>1. out = Searching!Adjusted(x, live)
      BY SearchingSelects DEF Searching!Adjusted, Moved
<1>2. Len(live) \in Nat /\ D = 1 .. Len(live)
      BY LenProperties
<1>3. \A n \in 1 .. Len(live) : score(n) \in Nat
  <2> TAKE n \in 1 .. Len(live)
  <2>1. live[n] \in Hits
        BY ElementOfSeq
  <2>2. live[n].score \in Nat /\ live[n].doc \in ChunkRows
        BY <2>1 DEF Hits
  <2>3. x.about[live[n].doc] \in Searching!About
        BY <2>2, InputsAreWell
  <2>4. Searching!FeedbackAdjustment(x.about[live[n].doc]) \in Int
        BY <2>3, FeedbackIsCapped
  <2> DEFINE v == live[n].score + Searching!FeedbackAdjustment(x.about[live[n].doc])
  <2>5. v \in Int
        BY <2>2, <2>4
  <2> HIDE DEF v
  <2>6. Searching!Clamp(v) \in Nat
        BY <2>5, HighestIsTwo DEF Searching!Clamp, Searching!LeastOf, Searching!MostOf
  <2> QED BY <2>6 DEF v, Moved
<1> HIDE DEF score
<1>4. IsFiniteSet(D)
  <2> DEFINE N == Len(live)
  <2>1. N \in Nat /\ D = 1 .. N
        BY <1>2
  <2> HIDE DEF N, D
  <2> QED BY <2>1, FS_Interval
<1>5. \A a, b \in D : <<a, b>> \in R <=> score(a) > score(b) \/ (score(a) = score(b) /\ a < b)
      OBVIOUS
<1>6. R \subseteq D \X D
      OBVIOUS
<1> HIDE DEF D, R, scores
<1>7. Orders(R, D)
  <2>1. \A a \in D : score(a) \in Nat /\ a \in Nat
        BY <1>2, <1>3
  <2>2. \A a \in D : <<a, a>> \notin R
        BY <1>5, <2>1
  <2>3. \A a, b, c \in D : <<a, b>> \in R /\ <<b, c>> \in R => <<a, c>> \in R
        BY <1>5, <2>1
  <2>4. \A a, b \in D : a # b => <<a, b>> \in R \/ <<b, a>> \in R
        BY <1>5, <2>1
  <2> QED BY <1>6, <2>2, <2>3, <2>4 DEF Orders
<1>8. /\ order \in Seq(D) /\ Len(order) = Cardinality(D)
      /\ \A a \in D : \E n \in 1 .. Len(order) : order[n] = a
      /\ \A m, n \in 1 .. Len(order) : m < n => <<order[m], order[n]>> \in R
      /\ \A m, n \in 1 .. Len(order) : order[m] = order[n] => m = n
      BY <1>4, <1>7, InOrderLists
<1> HIDE DEF order
<1> DEFINE L == Len(order)
<1>9. L \in Nat /\ DOMAIN order = 1 .. L /\ \A n \in 1 .. L : order[n] \in D
      BY <1>8, LenProperties, ElementOfSeq
<1> DEFINE T == {row(n) : n \in 1 .. L}
<1>10. rows \in Seq(T) /\ Len(rows) = L /\ \A n \in 1 .. L : rows[n] = row(n)
  <2>1. rows = [n \in 1 .. L |-> row(n)]
        BY <1>9
  <2> HIDE DEF rows, row, L
  <2> QED BY <1>9, <2>1, SeqDef, LenProperties
<1>11. \A n \in 1 .. L : row(n).doc = live[order[n]].doc /\ row(n).score = score(order[n])
       BY <1>9 DEF scores
<1> HIDE DEF rows, row, T, L
<1>12. /\ out \in Seq(T) /\ Len(out) \in Nat /\ Len(out) <= L
       /\ \A n \in 1 .. Len(out) : n \in 1 .. L /\ out[n] = row(n)
  <2>1. x.topK \in Nat
        BY InputsAreWell
  <2> DEFINE c == Searching!Cut(rows, x.topK)
  <2>2. rows \in Seq(T)
        BY <1>10
  <2>3. /\ c \in Seq(T) /\ Len(c) = Searching!LeastOf(x.topK, Len(rows))
        /\ Len(c) \in Nat /\ Len(c) <= x.topK /\ Len(c) <= Len(rows)
        /\ x.topK <= Len(rows) => Len(c) = x.topK
        /\ \A i \in 1 .. Len(c) : i \in 1 .. Len(rows) /\ c[i] = rows[i]
        BY <2>1, <2>2, CutKeeps, Zenon
  <2> HIDE DEF c
  <2> QED BY <1>10, <2>3 DEF c
<1>13. DOMAIN out = 1 .. Len(out)
       BY <1>12, LenProperties
<1> HIDE DEF out
<1>14. \A n \in 1 .. Len(out) : /\ order[n] \in 1 .. Len(live)
                                /\ out[n].doc = live[order[n]].doc
                                /\ out[n].score = score(order[n])
       BY <1>2, <1>9, <1>11, <1>12
<1>15. ASSUME NEW m \in 1 .. Len(out), NEW n \in 1 .. Len(out), m < n
       PROVE  order[m] # order[n] /\ score(order[m]) >= score(order[n])
  <2>1. m \in 1 .. L /\ n \in 1 .. L /\ m # n
        BY <1>12, <1>15
  <2>2. /\ order[m] \in D /\ order[n] \in D /\ <<order[m], order[n]>> \in R /\ order[m] # order[n]
        BY <1>8, <1>9, <1>15, <2>1 DEF L
  <2>3. score(order[m]) \in Nat /\ score(order[n]) \in Nat
        BY <1>2, <1>3, <2>2
  <2> QED BY <1>5, <2>2, <2>3
<1>16. ASSUME NEW a \in 1 .. Len(live), NEW n \in 1 .. Len(out), score(a) > score(order[n])
       PROVE  \E m \in 1 .. n - 1 : order[m] = a
  <2>1. PICK m \in 1 .. L : order[m] = a
        BY <1>2, <1>8 DEF L
  <2>2. n \in 1 .. L /\ order[n] \in D /\ order[m] \in D
        BY <1>9, <1>12, <2>1
  <2>3. score(a) \in Nat /\ score(order[n]) \in Nat
        BY <1>2, <1>3, <2>2
  <2>4. m < n
    <3> SUFFICES ASSUME ~(m < n) PROVE FALSE
        OBVIOUS
    <3>1. n < m \/ n = m
          BY <1>9, <2>2
    <3>2. n # m
          BY <1>16, <2>1, <2>3
    <3>3. <<order[n], order[m]>> \in R
          BY <1>8, <2>1, <2>2, <3>1, <3>2 DEF L
    <3>4. score(order[n]) > score(a) \/ score(order[n]) = score(a)
          BY <1>5, <2>1, <2>2, <3>3
    <3> QED BY <1>16, <2>3, <3>4
  <2> QED BY <1>9, <1>12, <2>1, <2>2, <2>4
<1>17. ByMoved(x, live, out, order)
       BY <1>14, <1>15, <1>16 DEF ByMoved, score
<1>18. \A n \in 1 .. Len(live) : Moved(x, live, n) \in Nat
       BY <1>3 DEF score
<1>19. \E f : ByMoved(x, live, out, f)
       BY <1>17
<1> QED BY <1>1, <1>12, <1>13, <1>18, <1>19

\* An entry that both legs put first has the highest score, one of a single leg half of it.
LEMMA FirstOfBoth ==
  ASSUME NEW x \in Searching!Inputs, NEW k \in Nat \ {0}
  PROVE  LET legs == Searching!Legs(x, k)
         IN /\ \A d : ~x.failed.text /\ ~x.failed.vector /\ Len(x.text) # 0 /\ Len(x.vector) # 0
                        /\ x.text[1] = d /\ x.vector[1] = d
                        => /\ Searching!Rrf(legs, d) = 32786884
                           /\ d \in Searching!ToSet(legs.text)
            /\ \A e : e \notin Searching!ToSet(x.text) \/ e \notin Searching!ToSet(x.vector)
                        => /\ Searching!Rrf(legs, e) \in Nat
                           /\ Searching!Rrf(legs, e) <= 16393442
<1> DEFINE legs == Searching!Legs(x, k)
<1>1. /\ legs.text = Heard(x.text, x.failed.text, k)
      /\ legs.vector = Heard(x.vector, x.failed.vector, k)
      /\ x.text \in Searching!Rankings(ChunkRows)
      /\ x.vector \in Searching!Rankings(ChunkRows \cup Dead)
      /\ x.failed.text \in BOOLEAN /\ x.failed.vector \in BOOLEAN
      BY LegsOfRequest
<1> HIDE DEF legs
<1>2. ASSUME NEW D, NEW leg \in Searching!Rankings(D), NEW failed \in BOOLEAN
      PROVE  LET c == Heard(leg, failed, k)
             IN /\ \A d : ~failed /\ Len(leg) # 0 /\ leg[1] = d
                            => Searching!Share(c, d) = 16393442 /\ d \in Searching!ToSet(c)
                /\ \A e : Searching!Share(c, e) \in Nat /\ Searching!Share(c, e) <= 16393442
                /\ \A e : e \notin Searching!ToSet(leg) => Searching!Share(c, e) = 0
  <2> DEFINE c == Heard(leg, failed, k)
  <2>1. /\ c \in Searching!Rankings(D) /\ Len(c) <= 1000 /\ Len(c) \in Nat
        /\ ~failed /\ Len(leg) > 0 => Len(c) > 0
        /\ \A i \in 1 .. Len(c) : i \in 1 .. Len(leg) /\ c[i] = leg[i]
        BY LegsAreCut
  <2>2. /\ DOMAIN leg = 1 .. Len(leg) /\ Len(leg) \in Nat /\ DOMAIN c = 1 .. Len(c)
        BY <2>1, LenProperties DEF Searching!Rankings
  <2> HIDE DEF c
  <2>3. \A e : /\ Searching!Share(c, e) \in Nat
               /\ e \notin Searching!ToSet(c) => Searching!Share(c, e) = 0
               /\ \A i \in 1 .. Len(c) : c[i] = e => Searching!Share(c, e) = Searching!Reciprocal(i)
        BY <2>1, SharesAreRanks
  <2>4. ASSUME NEW d, ~failed, Len(leg) # 0, leg[1] = d
        PROVE  Searching!Share(c, d) = 16393442 /\ d \in Searching!ToSet(c)
    <3>1. 1 \in 1 .. Len(c)
          BY <2>1, <2>2, <2>4
    <3>2. c[1] = d
          BY <2>1, <2>4, <3>1
    <3> QED BY <2>2, <2>3, <3>1, <3>2, HighestIsTwo DEF Searching!ToSet
  <2>5. ASSUME NEW e
        PROVE  Searching!Share(c, e) <= 16393442
    <3>1. CASE e \in Searching!ToSet(c)
      <4>1. PICK i \in 1 .. Len(c) : c[i] = e
            BY <2>2, <3>1 DEF Searching!ToSet
      <4>2. Searching!Share(c, e) = Searching!Reciprocal(i) /\ i \in Nat /\ 1 <= i /\ i <= 1000
            BY <2>1, <2>3, <4>1
      <4>3. i # 1 => Searching!Reciprocal(i) < Searching!Reciprocal(1)
        <5>1. i # 1 => 1 \in 1 .. i - 1
              BY <4>2
        <5> QED BY <4>2, <5>1, ReciprocalFalls
      <4>4. Searching!Reciprocal(i) \in Nat
            BY <2>3, <4>2
      <4> QED BY <4>2, <4>3, <4>4, HighestIsTwo
    <3> QED BY <2>3, <3>1
  <2>6. ASSUME NEW e, e \notin Searching!ToSet(leg)
        PROVE  Searching!Share(c, e) = 0
    <3>1. e \notin Searching!ToSet(c)
          BY <2>1, <2>2, <2>6 DEF Searching!ToSet
    <3> QED BY <2>3, <3>1
  <2> QED BY <2>3, <2>4, <2>5, <2>6 DEF c
<1>3. ASSUME NEW d, ~x.failed.text, ~x.failed.vector, Len(x.text) # 0, Len(x.vector) # 0,
             x.text[1] = d, x.vector[1] = d
      PROVE  Searching!Rrf(legs, d) = 32786884 /\ d \in Searching!ToSet(legs.text)
  <2>1. Searching!Share(legs.text, d) = 16393442 /\ d \in Searching!ToSet(legs.text)
        BY <1>1, <1>2, <1>3
  <2>2. Searching!Share(legs.vector, d) = 16393442
        BY <1>1, <1>2, <1>3
  <2> QED BY <2>1, <2>2 DEF Searching!Rrf
<1>4. ASSUME NEW e, e \notin Searching!ToSet(x.text) \/ e \notin Searching!ToSet(x.vector)
      PROVE  Searching!Rrf(legs, e) \in Nat /\ Searching!Rrf(legs, e) <= 16393442
  <2>1. /\ Searching!Share(legs.text, e) \in Nat /\ Searching!Share(legs.text, e) <= 16393442
        /\ e \notin Searching!ToSet(x.text) => Searching!Share(legs.text, e) = 0
        BY <1>1, <1>2
  <2>2. /\ Searching!Share(legs.vector, e) \in Nat /\ Searching!Share(legs.vector, e) <= 16393442
        /\ e \notin Searching!ToSet(x.vector) => Searching!Share(legs.vector, e) = 0
        BY <1>1, <1>2
  <2> QED BY <1>4, <2>1, <2>2 DEF Searching!Rrf
<1> QED BY <1>3, <1>4 DEF legs

\* Feedback does not bring what one leg found before what both put first.
LEMMA EntriesAreSearched ==
  ASSUME NEW x \in Searching!Inputs
  PROVE  Searching!FeedbackIsBounded(x)
<1> DEFINE asked == Searching!LeastOf(x.topK * MemoryFetch, MaxRequest)
           h == Searching!SearchHybrid(x, asked)
           k == Searching!TopK(asked)
           legs == Searching!Legs(x, k)
           I == {n \in DOMAIN h : x.about[h[n].doc].live}
           live == Picked(h, I)
           out == Searching!Adjusted(x, live)
           pool == Searching!Fetched(x, asked)
           score(d) == Searching!Rrf(legs, d)
<1>1. out = Searching!SearchEntries(x)
      BY SearchingSelects DEF Searching!SearchEntries
<1>2. asked \in Nat /\ k \in Nat /\ k \in Nat \ {0}
  <2>1. x.topK \in Nat /\ MemoryFetch \in Nat /\ MaxRequest \in Nat
        BY InputsAreWell, LimitsAssumption
  <2>2. x.topK * MemoryFetch \in Nat
        BY <2>1
  <2>3. asked \in Nat
        BY <2>1, <2>2 DEF Searching!LeastOf
  <2> HIDE DEF asked
  <2>4. k \in Nat /\ 1 <= k
        BY <2>3, LimitsAreMet
  <2> QED BY <2>3, <2>4
<1>3. /\ pool = Searching!Found(legs) /\ pool \subseteq ChunkRows
      /\ h \in Seq(Hits)
      /\ \A n \in 1 .. Len(h) : h[n].doc \in pool /\ h[n].score = score(h[n].doc)
      /\ \A m, n \in 1 .. Len(h) : h[m].doc = h[n].doc => m = n
      /\ \A d \in pool : \A n \in 1 .. Len(h) : score(d) > h[n].score => \E m \in 1 .. n - 1 : h[m].doc = d
      BY <1>2, HybridServes
<1>4. /\ \A d : ~x.failed.text /\ ~x.failed.vector /\ Len(x.text) # 0 /\ Len(x.vector) # 0
                  /\ x.text[1] = d /\ x.vector[1] = d
                  => score(d) = 32786884 /\ d \in Searching!ToSet(legs.text)
      /\ \A e : e \notin Searching!ToSet(x.text) \/ e \notin Searching!ToSet(x.vector)
                  => score(e) \in Nat /\ score(e) <= 16393442
      BY <1>2, FirstOfBoth
<1> HIDE DEF h, k, legs, pool, asked, score
<1>5. Len(h) \in Nat /\ DOMAIN h = 1 .. Len(h)
      BY <1>3, LenProperties
<1>6. live \in Seq(Hits) /\ \E g : Takes(live, h, I \cap 1 .. Len(h), g)
      BY <1>3, PickedTakes
<1>7. PICK g : Takes(live, h, I \cap 1 .. Len(h), g)
      BY <1>6
<1>8. /\ \A n \in 1 .. Len(live) : g[n] \in 1 .. Len(h) /\ g[n] \in I /\ live[n] = h[g[n]]
      /\ \A m, n \in 1 .. Len(live) : m < n => g[m] < g[n]
      /\ \A i \in I \cap 1 .. Len(h) : \E n \in 1 .. Len(live) : g[n] = i
  <2> HIDE DEF live, I
  <2> QED BY <1>7 DEF Takes
<1> DEFINE alive == {d \in ChunkRows : x.about[d].live}
<1>9. \A i : i \in I <=> i \in 1 .. Len(h) /\ h[i].doc \in alive
  <2>1. \A i \in 1 .. Len(h) : h[i].doc \in ChunkRows
        BY <1>3
  <2> QED BY <1>5, <2>1, Zenon
<1> HIDE DEF live, I
<1>10. Len(live) \in Nat
       BY <1>6, LenProperties
<1>11. /\ DOMAIN out = 1 .. Len(out) /\ Len(out) \in Nat
       /\ \A n \in 1 .. Len(live) : Moved(x, live, n) \in Nat
       /\ \E f : ByMoved(x, live, out, f)
       BY <1>6, AdjustedServes
<1> HIDE DEF out
<1>12. PICK f : ByMoved(x, live, out, f)
       BY <1>11
<1>13. \A n \in 1 .. Len(out) : /\ f[n] \in 1 .. Len(live)
                                /\ out[n].doc = live[f[n]].doc
                                /\ out[n].score = Moved(x, live, f[n])
       BY <1>12 DEF ByMoved
<1>14. \A n \in 1 .. Len(out) : x.about[out[n].doc].live
  <2>1. \A n \in 1 .. Len(out) : out[n].doc \in alive
    <3> HIDE DEF alive
    <3> TAKE n \in 1 .. Len(out)
    <3>1. f[n] \in 1 .. Len(live) /\ out[n].doc = live[f[n]].doc
          BY <1>13
    <3>2. g[f[n]] \in I /\ live[f[n]] = h[g[f[n]]]
          BY <1>8, <3>1
    <3>3. h[g[f[n]]].doc \in alive
          BY <1>9, <3>2
    <3> QED BY <3>1, <3>2, <3>3
  <2> QED BY <2>1, Zenon
<1>15. ASSUME NEW m \in 1 .. Len(out), NEW n \in 1 .. Len(out), m < n
       PROVE  out[m].doc # out[n].doc /\ out[m].score >= out[n].score
  <2>1. f[m] # f[n] /\ Moved(x, live, f[m]) >= Moved(x, live, f[n])
        BY <1>12, <1>15 DEF ByMoved
  <2>2. f[m] \in 1 .. Len(live) /\ f[n] \in 1 .. Len(live)
        BY <1>13
  <2>3. g[f[m]] # g[f[n]]
    <3>1. f[m] < f[n] \/ f[n] < f[m]
          BY <1>10, <2>1, <2>2
    <3>2. g[f[m]] \in 1 .. Len(h) /\ g[f[n]] \in 1 .. Len(h)
          BY <1>8, <2>2
    <3>3. g[f[m]] < g[f[n]] \/ g[f[n]] < g[f[m]]
          BY <1>8, <2>2, <3>1
    <3> QED BY <1>5, <3>2, <3>3
  <2>4. h[g[f[m]]].doc # h[g[f[n]]].doc
        BY <1>3, <1>8, <2>2, <2>3
  <2> QED BY <1>8, <1>13, <2>1, <2>2, <2>4
<1>16. ASSUME NEW d \in ChunkRows, NEW e \in ChunkRows,
              ~x.failed.text, ~x.failed.vector, x.about[d].live,
              Len(x.text) # 0, Len(x.vector) # 0, x.text[1] = d, x.vector[1] = d,
              e \notin Searching!ToSet(x.text) \/ e \notin Searching!ToSet(x.vector)
       PROVE  Searching!Before(out, d, e)
  <2>1. score(d) = 32786884 /\ d \in pool /\ score(e) \in Nat /\ score(e) <= 16393442
        BY <1>3, <1>4, <1>16 DEF Searching!Found
  <2> SUFFICES ASSUME NEW j \in 1 .. Len(out), out[j].doc = e
               PROVE  \E i \in 1 .. j - 1 : out[i].doc = d
      BY <1>11 DEF Searching!Before
  <2> DEFINE b == f[j]
             ib == g[b]
  <2>2. b \in 1 .. Len(live) /\ live[b] = h[ib] /\ ib \in 1 .. Len(h) /\ h[ib].doc = e
        BY <1>8, <1>13
  <2> HIDE DEF b, ib
  <2>3. h[ib].score = score(e)
        BY <1>3, <2>2
  <2>4. PICK ia \in 1 .. ib - 1 : h[ia].doc = d
        BY <1>3, <2>1, <2>2, <2>3
  <2>5. ia \in 1 .. Len(h) /\ ia \in I
    <3>1. d \in alive
          BY <1>16, Zenon
    <3> HIDE DEF alive
    <3> QED BY <1>5, <1>9, <2>2, <2>4, <3>1
  <2>6. PICK a \in 1 .. Len(live) : g[a] = ia
        BY <1>8, <2>5
  <2>7. live[a] = h[ia] /\ h[ia].score = score(d)
        BY <1>3, <1>8, <2>4, <2>5, <2>6
  <2>8. Moved(x, live, a) > Moved(x, live, b)
    <3> DEFINE fa == Searching!FeedbackAdjustment(x.about[d])
               fb == Searching!FeedbackAdjustment(x.about[e])
    <3>1. x.about[d] \in Searching!About /\ x.about[e] \in Searching!About
          BY InputsAreWell
    <3>2. /\ fa \in Int /\ -4918020 <= fa /\ fa <= 4918020
          /\ fb \in Int /\ -4918020 <= fb /\ fb <= 4918020
          BY <3>1, FeedbackIsCapped
    <3>3. live[a].score = 32786884 /\ live[a].doc = d /\ live[b].score = score(e) /\ live[b].doc = e
          BY <2>1, <2>2, <2>3, <2>4, <2>7
    <3>4. /\ Moved(x, live, a) = Searching!Clamp(32786884 + fa)
          /\ Moved(x, live, b) = Searching!Clamp(score(e) + fb)
          BY <3>3 DEF Moved
    <3> HIDE DEF fa, fb
    <3> DEFINE va == 32786884 + fa
               vb == score(e) + fb
    <3>5. /\ va \in Int /\ va >= 27868864 /\ vb \in Int /\ vb <= 21311462
          BY <2>1, <3>2
    <3> HIDE DEF va, vb
    <3>6. Searching!Clamp(va) > Searching!Clamp(vb)
          BY <3>5, HighestIsTwo DEF Searching!Clamp, Searching!LeastOf, Searching!MostOf
    <3> QED BY <3>4, <3>6 DEF va, vb
  <2>9. PICK i \in 1 .. j - 1 : f[i] = a
        BY <1>12, <2>6, <2>8 DEF ByMoved, b
  <2>10. i \in 1 .. Len(out)
         BY <1>11
  <2> QED BY <1>13, <2>4, <2>7, <2>9, <2>10
<1>17. \A d : /\ x.text # << >> /\ Head(x.text) = d => Len(x.text) # 0 /\ x.text[1] = d
              /\ x.vector # << >> /\ Head(x.vector) = d => Len(x.vector) # 0 /\ x.vector[1] = d
  <2>1. \A D : \A s \in Seq(D) : s # << >> => Len(s) # 0 /\ Head(s) = s[1]
        BY HeadTailProperties, EmptySeq, LenProperties
  <2>2. x.text \in Seq(ChunkRows) /\ x.vector \in Seq(ChunkRows \cup Dead)
        BY InputsAreWell DEF Searching!Rankings
  <2>3. x.text # << >> => Len(x.text) # 0 /\ Head(x.text) = x.text[1]
        BY <2>1, <2>2
  <2>4. x.vector # << >> => Len(x.vector) # 0 /\ Head(x.vector) = x.vector[1]
        BY <2>1, <2>2
  <2> QED BY <2>3, <2>4
<1> DEFINE first(d) == ~Searching!Fails(x) /\ ~x.failed.text /\ ~x.failed.vector /\ x.about[d].live
                         /\ x.text # << >> /\ x.vector # << >> /\ Head(x.text) = d /\ Head(x.vector) = d
<1>18. \A d, e \in ChunkRows :
         first(d) /\ (e \notin Searching!ToSet(x.text) \/ e \notin Searching!ToSet(x.vector))
           => Searching!Before(out, d, e)
       BY <1>16, <1>17
<1> HIDE DEF first
<1>19. /\ \A n \in DOMAIN out : x.about[out[n].doc].live
       /\ \A m, n \in DOMAIN out : m < n => out[m].doc # out[n].doc /\ out[m].score >= out[n].score
       /\ \A d, e \in ChunkRows :
            first(d) /\ (e \notin Searching!ToSet(x.text) \/ e \notin Searching!ToSet(x.vector))
              => Searching!Before(out, d, e)
       BY <1>11, <1>14, <1>15, <1>18
<1> QED BY <1>1, <1>19, Zenon DEF Searching!FeedbackIsBounded, Searching!FeedbackMoves, first

-----------------------------------------------------------------------------
\* A search answers with the best of what its two legs found that the caller may see, and
\* feedback moves a memory by no more than its cap: for every request and every ranking,
\* whichever leg fails (SearchHybrid and its three callers).  A search of a wiki misses
\* nothing that it saw as long as its over-fetch fits the limit of a request; beyond it
\* the theorem says only that what it serves is of active builds, each page once.
THEOREM SearchesServeBest ==
  ASSUME Given("search") => input.x \in Searching!Inputs
  PROVE  SearchServesBest
<1>1. ASSUME Given("search")
      PROVE  /\ Searching!HybridIsFair(input.x) /\ Searching!SourcesAreKept(input.x)
             /\ Searching!WikiIsServed(input.x) /\ Searching!FeedbackIsBounded(input.x)
  <2>1. input.x \in Searching!Inputs
        BY <1>1
  <2> QED BY <2>1, HybridsAreFair, KnowledgeIsSearched, WikiIsSearched, EntriesAreSearched
<1> QED BY <1>1 DEF SearchServesBest
=============================================================================
