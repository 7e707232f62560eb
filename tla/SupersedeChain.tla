--------------------------- MODULE SupersedeChain ---------------------------
(***************************************************************************)
(* Replacing one durable memory by another: Repo.SupersedeEntry of         *)
(* internal/memory/repo.go, as concurrent READ COMMITTED transactions over *)
(* memory_entries.superseded_by.  A transaction locks both rows in a fixed *)
(* order, checks, and writes; every statement sees what is committed when  *)
(* it starts.                                                              *)
(***************************************************************************)
EXTENDS Naturals, FiniteSets

CONSTANTS
  Entries,    \* memory entries of one account; their order is that of the ids
  Calls,      \* concurrent SupersedeEntry calls
  None        \* NULL superseded_by, a row that is not locked

ASSUME EntriesAssumption == Entries \subseteq Nat
ASSUME NoneAssumption == None \notin Entries \cup Calls

VARIABLES
  by,      \* superseded_by, as committed
  lock,    \* the transaction that holds each row
  tx       \* the calls

vars == <<by, lock, tx>>

Txs == [pc : {"idle", "locking", "checking", "writing"},
        new : Entries \cup {None}, old : Entries \cup {None}]

NoTx == [pc |-> "idle", new |-> None, old |-> None]

Init == /\ by = [e \in Entries |-> None]
        /\ lock = [e \in Entries |-> None]
        /\ tx = [c \in Calls |-> NoTx]

\* The recursive query of the cycle check: e and everything that replaced it,
\* directly or transitively.  (The least set that holds e and is closed.)
Closed(S) == \A x \in S : by[x] # None => by[x] \in S
Chain(e) == {x \in Entries : \A S \in SUBSET Entries : e \in S /\ Closed(S) => x \in S}

\* UNION ALL does not notice a row it has already seen: on a loop the query
\* never ends.
Ends(e) == \E x \in Chain(e) : by[x] = None

EndTx(c) == /\ tx' = [tx EXCEPT ![c] = NoTx]
            /\ lock' = [e \in Entries |-> IF lock[e] = c THEN None ELSE lock[e]]

\* Mutant: an entry may supersede itself.
BeginAny(c) ==
  /\ tx[c].pc = "idle"
  /\ \E new, old \in Entries :
       tx' = [tx EXCEPT ![c] = [pc |-> "locking", new |-> new, old |-> old]]
  /\ UNCHANGED <<by, lock>>

\* SupersedeEntry refuses an entry that would supersede itself.
Begin(c) ==
  /\ tx[c].pc = "idle"
  /\ \E new, old \in Entries :
       /\ new # old
       /\ tx' = [tx EXCEPT ![c] = [pc |-> "locking", new |-> new, old |-> old]]
  /\ UNCHANGED <<by, lock>>

\* Takes one of the rows the call has yet to lock, among those `first` allows.
LockOne(c, wanted, first) ==
  /\ tx[c].pc = "locking"
  /\ \E e \in first :
       /\ lock[e] = None
       /\ lock' = [lock EXCEPT ![e] = c]
       /\ tx' = [tx EXCEPT ![c].pc = IF wanted = {e} THEN "checking" ELSE "locking"]
  /\ UNCHANGED by

Unlocked(c, rows) == {e \in rows : lock[e] # c}

\* Mutants: only the old entry's row is locked; only the new one's; both, in
\* the order the caller named them.
LockOld(c) == LockOne(c, {tx[c].old}, {tx[c].old})
LockNew(c) == LockOne(c, {tx[c].new}, {tx[c].new})
LockUnordered(c) ==
  LET wanted == Unlocked(c, {tx[c].new, tx[c].old}) IN
  LockOne(c, wanted, IF tx[c].new \in wanted THEN {tx[c].new} ELSE wanted)

\* SELECT ... FOR UPDATE on the pair, in the order of sortedPair.
LockRow(c) ==
  LET wanted == Unlocked(c, {tx[c].new, tx[c].old}) IN
  LockOne(c, wanted, {e \in wanted : \A f \in wanted : e <= f})

\* Already replaced: by this entry (an idempotent replay) or by another one
\* (ErrSupersedeConflict).  Either way nothing is written.
AlreadyReplaced(c) ==
  /\ tx[c].pc = "checking" /\ by[tx[c].old] # None
  /\ EndTx(c)
  /\ UNCHANGED by

\* The cycle check refuses.
RefuseCycle(c) ==
  /\ tx[c].pc = "checking" /\ by[tx[c].old] = None /\ Ends(tx[c].new)
  /\ tx[c].old \in Chain(tx[c].new)
  /\ EndTx(c)
  /\ UNCHANGED by

Passes(c) == /\ tx' = [tx EXCEPT ![c].pc = "writing"]
             /\ UNCHANGED <<by, lock>>

\* Mutants: the check that old is not replaced yet is missing; the cycle check
\* looks at the direct replacement only.
PassReplaced(c) == tx[c].pc = "checking" /\ tx[c].old \notin Chain(tx[c].new) /\ Passes(c)
PassDirect(c) == /\ tx[c].pc = "checking" /\ by[tx[c].old] = None
                 /\ by[tx[c].new] # tx[c].old /\ Passes(c)

\* The cycle check passes.
PassCycle(c) ==
  /\ tx[c].pc = "checking" /\ by[tx[c].old] = None /\ Ends(tx[c].new)
  /\ tx[c].old \notin Chain(tx[c].new) /\ Passes(c)

\* UPDATE ... SET superseded_by, COMMIT.
Write(c) ==
  /\ tx[c].pc = "writing"
  /\ by' = [by EXCEPT ![tx[c].old] = tx[c].new]
  /\ EndTx(c)

\* The connection or the process dies: Postgres rolls back.
Abort(c) ==
  /\ tx[c].pc # "idle"
  /\ EndTx(c)
  /\ UNCHANGED by

CallStep(c) ==
  LockRow(c) \/ AlreadyReplaced(c) \/ RefuseCycle(c) \/ PassCycle(c) \/ Write(c)

Next == \E c \in Calls : Begin(c) \/ CallStep(c) \/ Abort(c)

Spec == Init /\ [][Next]_vars

\* Postgres queues lock waiters, and a transaction that can go on does.
FairSpec == Spec /\ \A c \in Calls : SF_vars(CallStep(c))

-----------------------------------------------------------------------------
TypeOK ==
  /\ by \in [Entries -> Entries \cup {None}]
  /\ lock \in [Entries -> Calls \cup {None}]
  /\ tx \in [Calls -> Txs]

\* A transaction past the locking phase holds both rows, so what it read about
\* them still holds when it writes.
Holds(c) == lock[tx[c].new] = c /\ lock[tx[c].old] = c

ChecksAreCurrent == \A c \in Calls :
  /\ tx[c].pc \in {"checking", "writing"} => Holds(c)
  /\ tx[c].pc = "writing" => by[tx[c].old] = None /\ by[tx[c].new] # tx[c].old

\* A call under way names two different entries.
PairOK == \A c \in Calls : tx[c].pc # "idle" =>
            tx[c].new \in Entries /\ tx[c].old \in Entries /\ tx[c].new # tx[c].old

\* Two entries never replace each other, and none replaces itself, however the
\* calls interleave.
NoMutualReplacement == \A e, f \in Entries : by[e] = f => by[f] # e

IInv == TypeOK /\ PairOK /\ ChecksAreCurrent /\ NoMutualReplacement

\* A replacement is final: no later or concurrent call switches it.
ReplacementIsFinal ==
  [][\A e \in Entries : by[e] # None => by'[e] = by[e]]_vars

\* "Which one is current" has an answer for every entry: no replacement cycle
\* of any length.  With three entries two pairs always share a row and the
\* locks serialise the calls; with four they need not (see NeverCyclic's run).
NeverCyclic == \A e \in Entries : Ends(e)

\* Why, when calls cannot overlap there: what the cycle check found still holds at
\* the write, as long as no other call is between its own check and its commit.
Serial == \A c, d \in Calls : tx[c].pc = "writing" /\ tx[d].pc = "writing" => c = d

CycleChecksHold ==
  \A c \in Calls : tx[c].pc = "writing" => tx[c].old \notin Chain(tx[c].new)

\* No call waits for ever: the ordered locks do not deadlock, and the recursive
\* query ends.
CallsEnd == \A c \in Calls : tx[c].pc # "idle" ~> tx[c].pc = "idle"
=============================================================================
