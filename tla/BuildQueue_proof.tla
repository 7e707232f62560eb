------------------------- MODULE BuildQueue_proof -------------------------
(***************************************************************************)
(* Theorems about the compile queue, for every set of builds, processes    *)
(* and slots, every attempt budget and any number of database faults.      *)
(***************************************************************************)
EXTENDS BuildQueue, TLAPS

USE AttemptsAssumption, FaultsAssumption, NoneAssumption, GoneAssumption

-----------------------------------------------------------------------------
(* One row: what each statement of the repository may do to it.            *)

\* Undecided to decided, never back and never twice.
FateStep(f, g) ==
  \/ f = g
  \/ f = "none" /\ g = "open"
  \/ f = "open" /\ g \in {"written", "closed"}

RowStep(r, n) ==
  /\ n \in Rows /\ RowOK(n)
  /\ r.pages # {} => n.pages = r.pages
  /\ FateStep(Fate(r), Fate(n))

\* A row that is left alone takes a legal step.
LEMMA RowStutters ==
  ASSUME NEW r \in Rows, RowOK(r)
  PROVE  RowStep(r, r)
BY DEF RowStep, FateStep

\* ClaimNextBuild: a claimable row is empty, so clearing it loses nothing.
LEMMA ClaimedStep ==
  ASSUME NEW r \in Rows, RowOK(r), NEW p \in Procs,
         r.status \in {"queued", "running"}, r.attempt < MaxAttempts
  PROVE  RowStep(r, Claimed(r, p))
<1>1. r.attempt + 1 \in 0 .. MaxAttempts
  BY DEF Rows
<1>2. Claimed(r, p) \in Rows
  BY <1>1 DEF Rows, Claimed, Statuses
<1>3. RowOK(Claimed(r, p)) /\ r.pages = {}
  BY DEF RowOK, Claimed, Rows
<1>4. Fate(Claimed(r, p)) = Fate(r)
  BY DEF Fate, RowOK, Claimed, Rows
<1> QED BY <1>2, <1>3, <1>4 DEF RowStep, FateStep

\* The claim of a build whose budget is spent.
LEMMA RetiredStep ==
  ASSUME NEW r \in Rows, RowOK(r), r.status \in {"queued", "running"}
  PROVE  RowStep(r, [Released(r) EXCEPT !.status = "failed"])
BY DEF RowStep, FateStep, RowOK, Rows, Released, Fate, Statuses, Checks

\* FinishBuild, on a row in whatever state it is.
LEMMA FinishedStep ==
  ASSUME NEW r \in Rows, RowOK(r), r.status # "absent", NEW v \in Checks
  PROVE  RowStep(r, Finished(r, v))
BY DEF RowStep, FateStep, RowOK, Rows, Finished, Released, Fate, Statuses, Checks

\* YieldBuild: guarded by owner and status.
LEMMA YieldedStep ==
  ASSUME NEW r \in Rows, RowOK(r), NEW p \in Procs
  PROVE  RowStep(r, Yielded(r, p))
<1>1. CASE ~(r.owner = p /\ r.status = "running")
  BY <1>1, RowStutters DEF Yielded
<1>2. CASE r.owner = p /\ r.status = "running"
  <2> DEFINE refund == IF r.attempt > 0 THEN r.attempt - 1 ELSE 0
             n == [r EXCEPT !.owner = None, !.lease = "none", !.status = "queued",
                            !.due = TRUE, !.attempt = refund]
  <2>1. Yielded(r, p) = n
    BY <1>2 DEF Yielded, Released, Rows
  <2>2. refund \in 0 .. MaxAttempts
    BY DEF Rows
  <2> HIDE DEF refund
  <2>3. n \in Rows
    BY <2>2 DEF Rows, Statuses
  <2>4. RowOK(n) /\ r.pages = {} /\ Fate(n) = Fate(r)
    BY <1>2 DEF RowOK, Rows, Fate
  <2> QED BY <2>1, <2>3, <2>4 DEF RowStep, FateStep
<1> QED BY <1>1, <1>2

\* RequeueBuild: guarded by the owner alone.
LEMMA RequeuedStep ==
  ASSUME NEW r \in Rows, RowOK(r), NEW p \in Procs
  PROVE  RowStep(r, Requeued(r, p))
BY DEF RowStep, FateStep, RowOK, Rows, Requeued, Released, Fate, Statuses, Checks

\* CommitBuild: guarded by the owner and by the unique (build_id, path).
LEMMA CommittedStep ==
  ASSUME NEW r \in Rows, RowOK(r), NEW p \in Procs, NEW s \in Slots,
         r.owner = p, r.pages = {}
  PROVE  RowStep(r, Committed(r, p, s))
<1>0. {<<p, s>>} \in SUBSET (Procs \X Slots)
  OBVIOUS
<1>1. Committed(r, p, s) \in Rows
  BY <1>0 DEF Rows, Committed, Released, Statuses, Checks
<1>2. Committed(r, p, s).pages = {<<p, s>>} /\ <<p, s>> \in Procs \X Slots
  BY DEF Committed, Released, Rows
<1>3. RowOK(Committed(r, p, s))
  BY <1>1, <1>2 DEF RowOK, Committed, Released, Rows
<1>4. FateStep(Fate(r), Fate(Committed(r, p, s)))
  BY <1>2 DEF FateStep, Fate, RowOK, Committed, Released, Rows
<1> QED BY <1>1, <1>3, <1>4 DEF RowStep

\* CreateBuild.
LEMMA EnqueuedStep ==
  ASSUME NEW r \in Rows, RowOK(r), r.status = "absent", NEW a \in BOOLEAN
  PROVE  RowStep(r, NewRow("queued", a))
<1>1. 0 \in 0 .. MaxAttempts /\ {} \in SUBSET (Procs \X Slots)
  OBVIOUS
<1>2. NewRow("queued", a) \in Rows
  BY <1>1 DEF NewRow, Rows, Statuses, Checks
<1>3. RowOK(NewRow("queued", a))
  BY DEF NewRow, RowOK
<1>4. Fate(r) = "none" /\ Fate(NewRow("queued", a)) = "open" /\ r.pages = {}
  BY DEF Fate, RowOK, NewRow
<1> QED BY <1>2, <1>3, <1>4 DEF RowStep, FateStep

\* The clock: a lease runs out.
LEMMA ExpiredStep ==
  ASSUME NEW r \in Rows, RowOK(r), r.lease = "held"
  PROVE  RowStep(r, [r EXCEPT !.lease = "expired"])
BY DEF RowStep, FateStep, RowOK, Rows, Fate

\* HeartbeatBuild revives a lease.
LEMMA RenewedStep ==
  ASSUME NEW r \in Rows, RowOK(r), r.status = "running"
  PROVE  RowStep(r, [r EXCEPT !.lease = "held"])
BY DEF RowStep, FateStep, RowOK, Rows, Fate

\* The clock: a backoff runs out.
LEMMA DueStep ==
  ASSUME NEW r \in Rows, RowOK(r)
  PROVE  RowStep(r, [r EXCEPT !.due = TRUE])
BY DEF RowStep, FateStep, RowOK, Rows, Fate

\* The owner of a row dies and is replaced.
LEMMA OrphanedStep ==
  ASSUME NEW r \in Rows, RowOK(r), r.owner # None
  PROVE  RowStep(r, [r EXCEPT !.owner = Gone]) /\ Fate([r EXCEPT !.owner = Gone]) = Fate(r)
BY DEF RowStep, FateStep, RowOK, Rows, Fate

-----------------------------------------------------------------------------
(* All rows and the pointer: what a step of the system may do to them.     *)

RowsOK == row \in [Builds -> Rows] /\ \A b \in Builds : RowOK(row[b])

Effect ==
  /\ row' \in [Builds -> Rows]
  /\ \A b \in Builds : RowStep(row[b], row'[b])
  /\ \/ /\ active' = active
        /\ \/ \A b \in Builds : Fate(row'[b]) = Fate(row[b])
           \/ \E b \in Builds : \A c \in Builds \ {b} : row'[c] = row[c]
     \/ row' = row /\ active' \in Builds /\ row[active'].pages # {}

LEMMA UnchangedEffect ==
  ASSUME RowsOK, UNCHANGED <<row, active>>
  PROVE  Effect
BY RowStutters DEF RowsOK, Effect

LEMMA SetRowEffect ==
  ASSUME RowsOK, NEW b \in Builds, NEW n, RowStep(row[b], n), SetRow(b, n),
         active' = active
  PROVE  Effect
<1>1. n \in Rows /\ row \in [Builds -> Rows]
  BY DEF RowStep, RowsOK
<1>2. row' \in [Builds -> Rows] /\ row'[b] = n /\ \A c \in Builds \ {b} : row'[c] = row[c]
  BY <1>1 DEF SetRow
<1>3. \A c \in Builds : RowStep(row[c], row'[c])
  BY <1>2, RowStutters DEF RowsOK
<1> QED BY <1>2, <1>3 DEF Effect

LEMMA StartEffect ==
  ASSUME RowsOK, NEW p \in Procs, Start(p)
  PROVE  Effect
<1> DEFINE n(b) == IF row[b].owner = p THEN [row[b] EXCEPT !.owner = Gone] ELSE row[b]
<1>1. row' = [b \in Builds |-> n(b)] /\ active' = active
  BY DEF Start
<1>2. ASSUME NEW b \in Builds
      PROVE  RowStep(row[b], n(b)) /\ Fate(n(b)) = Fate(row[b])
  <2>1. row[b] \in Rows /\ RowOK(row[b])
    BY DEF RowsOK
  <2>2. CASE row[b].owner = p
    BY <2>1, <2>2, OrphanedStep
  <2>3. CASE row[b].owner # p
    BY <2>1, <2>3, RowStutters
  <2> QED BY <2>2, <2>3
<1>3. \A b \in Builds : n(b) \in Rows
  BY <1>2 DEF RowStep
<1> HIDE DEF n
<1> QED BY <1>1, <1>2, <1>3 DEF Effect

LEMMA UserActivateEffect ==
  ASSUME RowsOK, NEW b \in Builds, Activatable(b), row' = row, active' = b
  PROVE  Effect
BY RowStutters DEF RowsOK, RowOK, Effect, Activatable

\* Every step of the queue respects every row and moves the pointer only onto
\* a build that has pages.
LEMMA StepEffect ==
  ASSUME IInv, [Next]_vars
  PROVE  Effect
<1>0. RowsOK /\ \A b \in Builds : row[b] \in Rows /\ RowOK(row[b])
  BY DEF IInv, TypeOK, RowsOK
<1>r. \A p \in Procs, s \in Slots : Working(p, s) =>
        /\ run[p][s].build \in Builds /\ row[run[p][s].build].status # "absent"
        /\ row[run[p][s].build] \in Rows /\ RowOK(row[run[p][s].build])
        /\ run[p][s].verdict \in Checks
  BY <1>0 DEF IInv, TypeOK, Runs
<1>1. CASE UNCHANGED vars
  BY <1>0, <1>1, UnchangedEffect DEF vars
<1>2. ASSUME NEW b \in Builds, BuildStep(b)
      PROVE  Effect
  <2>0. row[b] \in Rows /\ RowOK(row[b])
    BY <1>0
  <2>1. CASE Enqueue(b)
    BY <2>1, <2>0, <1>0, EnqueuedStep, SetRowEffect DEF Enqueue
  <2>2. CASE UserActivate(b)
    BY <2>2, <1>0, UserActivateEffect DEF UserActivate
  <2>3. CASE LeaseExpires(b)
    BY <2>3, <2>0, <1>0, ExpiredStep, SetRowEffect DEF LeaseExpires
  <2>4. CASE BackoffElapses(b)
    BY <2>4, <2>0, <1>0, DueStep, SetRowEffect DEF BackoffElapses
  <2> QED BY <1>2, <2>1, <2>2, <2>3, <2>4 DEF BuildStep
<1>3. ASSUME NEW p \in Procs, NEW b \in Builds, ClaimAckLost(p, b)
      PROVE  Effect
  <2>1. RowStep(row[b], Claimed(row[b], p))
    BY <1>0, <1>3, ClaimedStep DEF ClaimAckLost, Eligible, HasBudget
  <2> QED BY <1>0, <1>3, <2>1, SetRowEffect DEF ClaimAckLost
<1>4. ASSUME NEW p \in Procs, ClaimNext(p)
      PROVE  Effect
  <2>1. ASSUME NEW b \in Builds, Retire(p, b)
        PROVE  Effect
    <3>1. RowStep(row[b], [Released(row[b]) EXCEPT !.status = "failed"])
      BY <1>0, <2>1, RetiredStep DEF Retire, Eligible, HasBudget
    <3> QED BY <1>0, <2>1, <3>1, SetRowEffect DEF Retire
  <2>2. ASSUME NEW b \in Builds, NEW s \in Slots, Claim(p, s, b)
        PROVE  Effect
    <3>1. RowStep(row[b], Claimed(row[b], p))
      BY <1>0, <2>2, ClaimedStep DEF Claim, Eligible, HasBudget
    <3> QED BY <1>0, <2>2, <3>1, SetRowEffect DEF Claim
  <2> QED BY <1>4, <2>1, <2>2 DEF ClaimNext
<1>5. ASSUME NEW p \in Procs, LifeStep(p)
      PROVE  Effect
  <2>1. CASE Shutdown(p) \/ ShutdownCopies(p) \/ Exit(p) \/ Crash(p)
    BY <1>0, <2>1, UnchangedEffect DEF Shutdown, ShutdownCopies, Exit, Crash, Vanish
  <2>2. CASE Start(p)
    BY <1>0, <2>2, StartEffect
  <2>3. ASSUME NEW b \in Builds, ShutdownYields(p, b)
        PROVE  Effect
    <3>1. RowStep(row[b], Yielded(row[b], p))
      BY <1>0, YieldedStep
    <3> QED BY <1>0, <2>3, <3>1, SetRowEffect, UnchangedEffect DEF ShutdownYields
  <2> QED BY <1>5, <2>1, <2>2, <2>3 DEF LifeStep
<1>6. ASSUME NEW p \in Procs, NEW s \in Slots, ContextStep(p, s)
      PROVE  Effect
  <2>1. CASE HeartbeatRenews(p, s)
    BY <1>0, <1>r, <2>1, RenewedStep, SetRowEffect DEF HeartbeatRenews
  <2>2. CASE HeartbeatLost(p, s) \/ Deadline(p, s)
    BY <1>0, <2>2, UnchangedEffect DEF HeartbeatLost, Deadline
  <2> QED BY <1>6, <2>1, <2>2 DEF ContextStep
<1>7. ASSUME NEW p \in Procs, NEW s \in Slots, RunStep(p, s)
      PROVE  Effect
  <2> DEFINE b == run[p][s].build
             v == run[p][s].verdict
  <2>0. b \in Builds /\ row[b].status # "absent" /\ row[b] \in Rows /\ RowOK(row[b])
        /\ v \in Checks
    <3>1. Working(p, s)
      BY <1>7 DEF RunStep, Working, CompileReturns, Commit, CommitLeaseLost, CommitFails,
         CommitAckLost, Finish, FinishFails, Activate, HandleError, HandleErrorFails
    <3> QED BY <1>r, <3>1
  <2>1. RowStep(row[b], Finished(row[b], v)) /\ RowStep(row[b], Finished(row[b], "pending"))
    BY <2>0, FinishedStep DEF Checks
  <2>2. CASE CompileReturns(p, s) \/ CommitLeaseLost(p, s) \/ CommitFails(p, s)
             \/ HandleErrorFails(p, s)
    BY <1>0, <2>2, UnchangedEffect
    DEF CompileReturns, CommitLeaseLost, CommitFails, HandleErrorFails
  <2>3. CASE Commit(p, s) \/ CommitAckLost(p, s)
    <3>1. RowStep(row[b], Committed(row[b], p, s))
      BY <2>0, <2>3, CommittedStep DEF Commit, CommitAckLost
    <3>2. SetRow(b, Committed(row[b], p, s)) /\ active' = active
      BY <2>3 DEF Commit, CommitAckLost
    <3> QED BY <1>0, <2>0, <3>1, <3>2, SetRowEffect
  <2>4. CASE Finish(p, s)
    BY <1>0, <2>0, <2>1, <2>4, SetRowEffect DEF Finish
  <2>5. CASE FinishFails(p, s)
    BY <1>0, <2>0, <2>1, <2>5, RowStutters, SetRowEffect DEF FinishFails
  <2>6. CASE Activate(p, s)
    <3>1. CASE active' = active
      BY <1>0, <2>6, <3>1, UnchangedEffect DEF Activate
    <3>2. CASE active' = b /\ Activatable(b)
      BY <1>0, <2>0, <2>6, <3>2, UserActivateEffect DEF Activate
    <3> QED BY <2>6, <3>1, <3>2 DEF Activate
  <2>7. CASE HandleError(p, s)
    <3>1. RowStep(row[b], Requeued(row[b], p)) /\ RowStep(row[b], Yielded(row[b], p))
      BY <2>0, RequeuedStep, YieldedStep
    <3>2. \/ SetRow(b, Requeued(row[b], p)) \/ SetRow(b, Yielded(row[b], p))
          \/ SetRow(b, Finished(row[b], "pending"))
      BY <2>7 DEF HandleError
    <3> QED BY <1>0, <2>0, <2>1, <2>7, <3>1, <3>2, SetRowEffect DEF HandleError
  <2> QED BY <1>7, <2>2, <2>3, <2>4, <2>5, <2>6, <2>7 DEF RunStep
<1> QED BY <1>1, <1>2, <1>3, <1>4, <1>5, <1>6, <1>7 DEF Next

-----------------------------------------------------------------------------
(* Processes and runs.                                                     *)

LocalOK ==
  /\ proc \in [Procs -> Phases]
  /\ leased \in [Procs -> SUBSET Builds]
  /\ run \in [Procs -> [Slots -> Runs]]
  /\ faults \in 0 .. MaxFaults

\* A run that is at work keeps its build; the others stay or end.
RunsKept == \A p \in Procs, s \in Slots :
  (run'[p][s]).pc # "idle" =>
    \/ Working(p, s) /\ (run'[p][s]).build = run[p][s].build
    \/ /\ (run'[p][s]).build \in Builds
       /\ (row'[(run'[p][s]).build]).status # "absent"

LEMMA StepLocal ==
  ASSUME LocalOK, NEW p \in Procs, NEW s \in Slots, NEW r \in Runs,
         Step(p, s, r), Working(p, s), r.build = run[p][s].build,
         UNCHANGED <<proc, leased>>, faults' \in 0 .. MaxFaults
  PROVE  LocalOK' /\ RunsKept
<1>1. run' \in [Procs -> [Slots -> Runs]]
  BY DEF Step, LocalOK
<1>2. \A q \in Procs, t \in Slots : run'[q][t] = IF q = p /\ t = s THEN r ELSE run[q][t]
  BY DEF Step, LocalOK
<1>3. RunsKept
  BY <1>2 DEF RunsKept, Working
<1> QED BY <1>1, <1>3 DEF LocalOK

LEMMA EndLocal ==
  ASSUME LocalOK, NEW p \in Procs, NEW s \in Slots,
         EndRun(p, s), UNCHANGED proc, faults' \in 0 .. MaxFaults
  PROVE  LocalOK' /\ RunsKept
<1>0. IdleRun \in Runs /\ IdleRun.pc = "idle"
  BY DEF IdleRun, Runs, Checks
<1>1. run' \in [Procs -> [Slots -> Runs]]
  BY <1>0 DEF EndRun, LocalOK
<1>2. leased' \in [Procs -> SUBSET Builds]
  BY DEF EndRun, LocalOK
<1>3. \A q \in Procs, t \in Slots : run'[q][t] = IF q = p /\ t = s THEN IdleRun ELSE run[q][t]
  BY DEF EndRun, LocalOK
<1>4. RunsKept
  BY <1>0, <1>3 DEF RunsKept, Working
<1> QED BY <1>1, <1>2, <1>4 DEF LocalOK

LEMMA SameLocal ==
  ASSUME LocalOK, UNCHANGED <<proc, leased, run>>, faults' \in 0 .. MaxFaults
  PROVE  LocalOK' /\ RunsKept
BY DEF LocalOK, RunsKept, Working

LEMMA VanishLocal ==
  ASSUME LocalOK, NEW p \in Procs, Vanish(p)
  PROVE  LocalOK' /\ RunsKept
<1>0. IdleRun \in Runs /\ IdleRun.pc = "idle"
  BY DEF IdleRun, Runs, Checks
<1>1. run' \in [Procs -> [Slots -> Runs]]
  BY <1>0 DEF Vanish, LocalOK
<1>2. \A q \in Procs, t \in Slots : run'[q][t] = IF q = p THEN IdleRun ELSE run[q][t]
  BY <1>0 DEF Vanish, LocalOK
<1>3. proc' \in [Procs -> Phases] /\ leased' \in [Procs -> SUBSET Builds]
      /\ faults' \in 0 .. MaxFaults
  BY DEF Vanish, LocalOK, Phases
<1>4. RunsKept
  BY <1>0, <1>2 DEF RunsKept, Working
<1> QED BY <1>1, <1>3, <1>4 DEF LocalOK

LEMMA ClaimLocal ==
  ASSUME LocalOK, RowsOK, NEW p \in Procs, NEW s \in Slots, NEW b \in Builds, Claim(p, s, b)
  PROVE  LocalOK' /\ RunsKept
<1> DEFINE r == [IdleRun EXCEPT !.pc = "compiling", !.build = b, !.attempt = row[b].attempt + 1]
<1>1. row[b] \in Rows /\ row[b].attempt + 1 \in 0 .. MaxAttempts
  BY DEF RowsOK, Rows, Claim, HasBudget
<1>2. r \in Runs /\ r.build = b
  BY <1>1 DEF IdleRun, Runs, Checks
<1>3. Step(p, s, r)
  BY DEF Claim
<1> HIDE DEF r
<1>4. run' \in [Procs -> [Slots -> Runs]]
  BY <1>2, <1>3 DEF Step, LocalOK
<1>5. \A q \in Procs, t \in Slots : run'[q][t] = IF q = p /\ t = s THEN r ELSE run[q][t]
  BY <1>3 DEF Step, LocalOK
<1>6. row'[b].status # "absent"
  BY <1>1 DEF Claim, SetRow, Claimed, RowsOK, Rows
<1>7. RunsKept
  BY <1>2, <1>5, <1>6 DEF RunsKept, Working
<1>8. leased' \in [Procs -> SUBSET Builds] /\ proc' = proc /\ faults' = faults
  BY DEF Claim, LocalOK
<1> QED BY <1>4, <1>7, <1>8 DEF LocalOK

LEMMA StepLocalOK ==
  ASSUME IInv, [Next]_vars
  PROVE  LocalOK' /\ RunsKept
<1>0. LocalOK /\ RowsOK
  BY DEF IInv, TypeOK, LocalOK, RowsOK
<1>f. faults \in 0 .. MaxFaults /\ (CanFault => faults + 1 \in 0 .. MaxFaults)
  BY <1>0 DEF LocalOK, CanFault
<1>1. CASE UNCHANGED vars
  BY <1>0, <1>f, <1>1, SameLocal DEF vars
<1>2. ASSUME NEW b \in Builds, BuildStep(b)
      PROVE  LocalOK' /\ RunsKept
  BY <1>0, <1>f, <1>2, SameLocal DEF BuildStep, Enqueue, UserActivate, LeaseExpires, BackoffElapses
<1>3. ASSUME NEW p \in Procs, NEW b \in Builds, ClaimAckLost(p, b)
      PROVE  LocalOK' /\ RunsKept
  BY <1>0, <1>f, <1>3, SameLocal DEF ClaimAckLost
<1>4. ASSUME NEW p \in Procs, ClaimNext(p)
      PROVE  LocalOK' /\ RunsKept
  <2>1. ASSUME NEW b \in Builds, Retire(p, b)
        PROVE  LocalOK' /\ RunsKept
    BY <1>0, <1>f, <2>1, SameLocal DEF Retire
  <2> QED BY <1>0, <1>4, <2>1, ClaimLocal DEF ClaimNext
<1>5. ASSUME NEW p \in Procs, LifeStep(p)
      PROVE  LocalOK' /\ RunsKept
  <2>1. CASE Shutdown(p) \/ ShutdownCopies(p) \/ Start(p)
    <3>1. proc' \in [Procs -> Phases] /\ leased' = leased /\ run' = run /\ faults' = faults
      BY <1>0, <2>1 DEF Shutdown, ShutdownCopies, Start, LocalOK, Phases
    <3> QED BY <1>0, <3>1 DEF LocalOK, RunsKept, Working
  <2>2. CASE Exit(p) \/ Crash(p)
    BY <1>0, <2>2, VanishLocal DEF Exit, Crash
  <2>3. ASSUME NEW b \in Builds, ShutdownYields(p, b)
        PROVE  LocalOK' /\ RunsKept
    <3>1. leased' \in [Procs -> SUBSET Builds] /\ proc' = proc /\ run' = run
          /\ faults' \in 0 .. MaxFaults
      BY <1>0, <1>f, <2>3 DEF ShutdownYields, LocalOK
    <3> QED BY <1>0, <3>1 DEF LocalOK, RunsKept, Working
  <2> QED BY <1>5, <2>1, <2>2, <2>3 DEF LifeStep
<1>6. ASSUME NEW p \in Procs, NEW s \in Slots, RunStep(p, s) \/ ContextStep(p, s)
      PROVE  LocalOK' /\ RunsKept
  <2> DEFINE r == run[p][s]
  <2>0. r \in Runs
    BY <1>0 DEF LocalOK
  <2>1. faults' \in 0 .. MaxFaults
    BY <1>6, <1>f DEF RunStep, ContextStep, CompileReturns, Commit, CommitLeaseLost,
       CommitFails, CommitAckLost, Finish, FinishFails, Activate, HandleError,
       HandleErrorFails, HeartbeatRenews, HeartbeatLost, Deadline
  <2>2. CASE CommitLeaseLost(p, s) \/ Finish(p, s) \/ Activate(p, s)
             \/ HandleError(p, s) \/ HandleErrorFails(p, s)
    BY <1>0, <2>1, <2>2, EndLocal
    DEF CommitLeaseLost, Finish, Activate, HandleError, HandleErrorFails
  <2>3. CASE HeartbeatRenews(p, s)
    BY <1>0, <2>1, <2>3, SameLocal DEF HeartbeatRenews
  <2>4. CASE CompileReturns(p, s) \/ CommitFails(p, s) \/ CommitAckLost(p, s)
             \/ FinishFails(p, s) \/ HeartbeatLost(p, s) \/ Deadline(p, s)
    <3>1. Working(p, s) /\ UNCHANGED <<proc, leased>>
      BY <2>4 DEF CompileReturns, CommitFails, CommitAckLost, FinishFails,
                  HeartbeatLost, Deadline, Working
    <3>2. \E n \in Runs : n.build = r.build /\ Step(p, s, n)
      <4>1. [r EXCEPT !.pc = "committing"] \in Runs
        BY <2>0 DEF Runs
      <4>2. \A v \in Checks : [r EXCEPT !.pc = "finishing", !.verdict = v] \in Runs
        BY <2>0 DEF Runs
      <4>3. \A y \in BOOLEAN : [r EXCEPT !.pc = "erred", !.retryable = y] \in Runs
        BY <2>0 DEF Runs
      <4>4. \A c \in {"deadline", "lost"} : [r EXCEPT !.cut = c] \in Runs
        BY <2>0 DEF Runs
      <4>5. CASE CompileReturns(p, s)
        <5> DEFINE commits == [r EXCEPT !.pc = "committing"]
                   finishes(v) == [r EXCEPT !.pc = "finishing", !.verdict = v]
                   errs(y) == [r EXCEPT !.pc = "erred", !.retryable = y]
        <5>1. commits.build = r.build /\ commits \in Runs
          BY <2>0, <4>1 DEF Runs
        <5>2. \A v \in {"failed", "pending"} : finishes(v).build = r.build /\ finishes(v) \in Runs
          BY <2>0, <4>2 DEF Runs, Checks
        <5>3. \A y \in BOOLEAN : errs(y).build = r.build /\ errs(y) \in Runs
          BY <2>0, <4>3 DEF Runs
        <5>4. \/ Step(p, s, commits)
              \/ Step(p, s, finishes("failed")) \/ Step(p, s, finishes("pending"))
              \/ Step(p, s, errs(TRUE)) \/ Step(p, s, errs(FALSE))
          BY <4>5 DEF CompileReturns
        <5> HIDE DEF commits, finishes, errs
        <5> QED BY <5>1, <5>2, <5>3, <5>4
      <4>6. CASE CommitFails(p, s) \/ CommitAckLost(p, s)
        BY <2>0, <4>2, <4>6 DEF CommitFails, CommitAckLost, Checks, Runs
      <4>7. CASE FinishFails(p, s)
        BY <2>0, <4>3, <4>7 DEF FinishFails, Runs
      <4>8. CASE HeartbeatLost(p, s) \/ Deadline(p, s)
        BY <2>0, <4>4, <4>8 DEF HeartbeatLost, Deadline, Runs
      <4> QED BY <2>4, <4>5, <4>6, <4>7, <4>8
    <3> QED BY <1>0, <2>1, <3>1, <3>2, StepLocal
  <2>5. CASE Commit(p, s)
    <3>1. CASE EndRun(p, s)
      BY <1>0, <2>1, <2>5, <3>1, EndLocal DEF Commit
    <3>2. CASE Step(p, s, [r EXCEPT !.pc = "activating"]) /\ UNCHANGED leased
      <4>1. [r EXCEPT !.pc = "activating"] \in Runs
            /\ [r EXCEPT !.pc = "activating"].build = r.build
        BY <2>0 DEF Runs
      <4>2. Working(p, s) /\ UNCHANGED <<proc, leased>>
        BY <2>5, <3>2 DEF Commit, Working
      <4> QED BY <1>0, <2>1, <3>2, <4>1, <4>2, StepLocal
    <3> QED BY <2>5, <3>1, <3>2 DEF Commit
  <2> QED BY <1>6, <2>2, <2>3, <2>4, <2>5 DEF RunStep, ContextStep
<1> QED BY <1>1, <1>2, <1>3, <1>4, <1>5, <1>6 DEF Next

-----------------------------------------------------------------------------
(* The inductive invariant.                                                *)

LEMMA InitIInv == Init => IInv
<1> SUFFICES ASSUME Init PROVE IInv
  OBVIOUS
<1>1. NewRow("absent", FALSE) \in Rows /\ RowOK(NewRow("absent", FALSE))
  <2>1. 0 \in 0 .. MaxAttempts /\ {} \in SUBSET (Procs \X Slots)
    OBVIOUS
  <2> QED BY <2>1 DEF NewRow, Rows, RowOK, Statuses, Checks
<1>2. IdleRun \in Runs /\ IdleRun.pc = "idle"
  BY DEF IdleRun, Runs, Checks
<1>3. TypeOK
  <2>1. row \in [Builds -> Rows] /\ active \in Builds \cup {None}
    BY <1>1 DEF Init
  <2>2. proc \in [Procs -> Phases] /\ leased \in [Procs -> SUBSET Builds]
    BY DEF Init, Phases
  <2>3. run \in [Procs -> [Slots -> Runs]] /\ faults \in 0 .. MaxFaults
    BY <1>2 DEF Init
  <2> QED BY <2>1, <2>2, <2>3 DEF TypeOK
<1>4. \A p \in Procs, s \in Slots : ~Working(p, s)
  BY <1>2 DEF Init, Working
<1> QED BY <1>1, <1>3, <1>4 DEF Init, IInv, ServedIsWritten

LEMMA NextIInv == IInv /\ [Next]_vars => IInv'
<1> SUFFICES ASSUME IInv, [Next]_vars PROVE IInv'
  OBVIOUS
<1>1. Effect /\ LocalOK' /\ RunsKept
  BY StepEffect, StepLocalOK
<1>2. active' \in Builds \cup {None}
  BY <1>1 DEF Effect, IInv, TypeOK
<1>3. TypeOK'
  BY <1>1, <1>2 DEF Effect, LocalOK, TypeOK
<1>4. \A b \in Builds : RowOK(row'[b])
  BY <1>1 DEF Effect, RowStep
<1>5. ServedIsWritten'
  BY <1>1 DEF Effect, RowStep, IInv, TypeOK, ServedIsWritten
<1>6. \A b \in Builds : row[b].status # "absent" => row'[b].status # "absent"
  <2> SUFFICES ASSUME NEW b \in Builds, row[b].status # "absent"
               PROVE  row'[b].status # "absent"
    OBVIOUS
  <2>1. FateStep(Fate(row[b]), Fate(row'[b])) /\ RowOK(row'[b])
    BY <1>1 DEF Effect, RowStep
  <2> QED BY <2>1 DEF FateStep, Fate
<1>7. \A p \in Procs, s \in Slots : Working(p, s)' =>
        run'[p][s].build \in Builds /\ row'[run'[p][s].build].status # "absent"
  BY <1>1, <1>6 DEF RunsKept, IInv, Working
<1> QED BY <1>3, <1>4, <1>5, <1>7 DEF IInv

\* In every reachable state the inductive invariant holds.
THEOREM Invariance == Spec => []IInv
BY InitIInv, NextIInv, PTL DEF Spec

\* Every variable keeps its type: in particular the attempt counter stays
\* within the budget through claims, refunds and retirements.
THEOREM TypeCorrect == Spec => []TypeOK
<1>1. IInv => TypeOK
  BY DEF IInv
<1> QED BY <1>1, Invariance, PTL

\* ClaimNextBuild's clean-up never deletes a page.
THEOREM ClaimableAlwaysEmpty == Spec => []ClaimableIsEmpty
<1>1. IInv => ClaimableIsEmpty
  BY DEF IInv, RowOK, ClaimableIsEmpty
<1> QED BY <1>1, Invariance, PTL

\* A succeeded build holds the wiki of exactly one run.
THEOREM SucceededAlwaysWhole == Spec => []SucceededIsWhole
<1>1. IInv => SucceededIsWhole
  BY DEF IInv, RowOK, SucceededIsWhole, TypeOK, Rows
<1> QED BY <1>1, Invariance, PTL

\* The active pointer only ever names a build that has pages.
THEOREM ServedAlwaysWritten == Spec => []ServedIsWritten
<1>1. IInv => ServedIsWritten
  BY DEF IInv
<1> QED BY <1>1, Invariance, PTL

-----------------------------------------------------------------------------
(* Leases.                                                                 *)

\* A step that leaves the row, or its owner, alone respects every lease.
LEMMA SameRowLease ==
  ASSUME row' = row
  PROVE  LeaseHolds
BY DEF LeaseHolds

\* So does a step that changes one row: if that row was not leased, if it is
\* being closed, if its owner stays, or if its owner did it.
LEMMA SetRowLease ==
  ASSUME RowsOK, NEW b \in Builds, NEW n \in Rows, SetRow(b, n),
         \/ ~(row[b].status = "running" /\ row[b].lease = "held")
         \/ n.owner = row[b].owner \/ n.status = "failed" \/ OthersIdle(row[b].owner)
  PROVE  LeaseHolds
<1>1. \A c \in Builds : row'[c] = IF c = b THEN n ELSE row[c]
  BY DEF SetRow, RowsOK
<1> QED BY <1>1 DEF LeaseHolds

\* A run's own step touches nothing of another process.
LEMMA RunOthersIdle ==
  ASSUME LocalOK, NEW p \in Procs, NEW s \in Slots,
         EndRun(p, s) \/ \E r : Step(p, s, r) /\ UNCHANGED leased
  PROVE  OthersIdle(p)
BY DEF LocalOK, EndRun, Step, OthersIdle

LEMMA StepLease ==
  ASSUME IInv, [Next]_vars
  PROVE  LeaseHolds
<1>0. RowsOK /\ LocalOK /\ \A b \in Builds : row[b] \in Rows /\ RowOK(row[b])
  BY DEF IInv, TypeOK, RowsOK, LocalOK
<1>e. Effect
  BY StepEffect
<1>n. \A b \in Builds : \A n : SetRow(b, n) => n \in Rows
  BY <1>0, <1>e DEF SetRow, RowsOK, Effect
<1>r. \A p \in Procs, s \in Slots : Working(p, s) => run[p][s].build \in Builds
  BY DEF IInv
<1>1. CASE UNCHANGED vars
  BY <1>1, SameRowLease DEF vars
<1>2. ASSUME NEW b \in Builds, BuildStep(b)
      PROVE  LeaseHolds
  <2>1. CASE Enqueue(b)
    <3>1. row[b].status # "running"
      BY <2>1 DEF Enqueue
    <3> QED BY <1>0, <1>n, <2>1, <3>1, SetRowLease DEF Enqueue
  <2>2. CASE UserActivate(b)
    BY <2>2, SameRowLease DEF UserActivate
  <2>3. CASE LeaseExpires(b)
    <3>1. [row[b] EXCEPT !.lease = "expired"].owner = row[b].owner
      BY <1>0 DEF Rows
    <3> QED BY <1>0, <1>n, <2>3, <3>1, SetRowLease DEF LeaseExpires
  <2>4. CASE BackoffElapses(b)
    <3>1. [row[b] EXCEPT !.due = TRUE].owner = row[b].owner
      BY <1>0 DEF Rows
    <3> QED BY <1>0, <1>n, <2>4, <3>1, SetRowLease DEF BackoffElapses
  <2> QED BY <1>2, <2>1, <2>2, <2>3, <2>4 DEF BuildStep
<1>3. ASSUME NEW p \in Procs, NEW b \in Builds, ClaimAckLost(p, b)
      PROVE  LeaseHolds
  BY <1>0, <1>n, <1>3, SetRowLease DEF ClaimAckLost, Eligible
<1>4. ASSUME NEW p \in Procs, ClaimNext(p)
      PROVE  LeaseHolds
  BY <1>0, <1>n, <1>4, SetRowLease DEF ClaimNext, Retire, Claim, Eligible
<1>5. ASSUME NEW p \in Procs, LifeStep(p)
      PROVE  LeaseHolds
  <2>1. CASE Shutdown(p) \/ ShutdownCopies(p) \/ Exit(p) \/ Crash(p)
    BY <2>1, SameRowLease DEF Shutdown, ShutdownCopies, Exit, Crash, Vanish
  <2>2. CASE Start(p)
    BY <1>0, <2>2 DEF Start, LeaseHolds, OthersIdle, RowsOK
  <2>3. ASSUME NEW b \in Builds, ShutdownYields(p, b)
        PROVE  LeaseHolds
    <3>1. CASE row[b].owner = p
      <4>1. OthersIdle(p)
        BY <1>0, <2>3 DEF ShutdownYields, OthersIdle, LocalOK
      <4> QED BY <1>0, <1>n, <2>3, <3>1, <4>1, SetRowLease, SameRowLease DEF ShutdownYields
    <3>2. CASE row[b].owner # p
      <4>1. Yielded(row[b], p) = row[b]
        BY <3>2 DEF Yielded
      <4> QED BY <1>0, <1>n, <2>3, <4>1, SetRowLease, SameRowLease DEF ShutdownYields
    <3> QED BY <3>1, <3>2
  <2> QED BY <1>5, <2>1, <2>2, <2>3 DEF LifeStep
<1>6. ASSUME NEW p \in Procs, NEW s \in Slots, ContextStep(p, s)
      PROVE  LeaseHolds
  <2>1. CASE HeartbeatRenews(p, s)
    BY <1>0, <1>n, <1>r, <2>1, SetRowLease DEF HeartbeatRenews
  <2>2. CASE HeartbeatLost(p, s) \/ Deadline(p, s)
    BY <2>2, SameRowLease DEF HeartbeatLost, Deadline
  <2> QED BY <1>6, <2>1, <2>2 DEF ContextStep
<1>7. ASSUME NEW p \in Procs, NEW s \in Slots, RunStep(p, s)
      PROVE  LeaseHolds
  <2> DEFINE b == run[p][s].build
             v == run[p][s].verdict
  <2>0. b \in Builds /\ row[b] \in Rows
    <3>1. Working(p, s)
      BY <1>7 DEF RunStep, Working, CompileReturns, Commit, CommitLeaseLost, CommitFails,
         CommitAckLost, Finish, FinishFails, Activate, HandleError, HandleErrorFails
    <3> QED BY <1>0, <1>r, <3>1
  <2>f. \A w : Finished(row[b], w).status = "failed"
    BY <2>0 DEF Finished, Released, Rows
  <2>1. CASE CompileReturns(p, s) \/ CommitLeaseLost(p, s) \/ CommitFails(p, s)
             \/ Activate(p, s) \/ HandleErrorFails(p, s)
    BY <2>1, SameRowLease
    DEF CompileReturns, CommitLeaseLost, CommitFails, Activate, HandleErrorFails
  <2>2. CASE Commit(p, s) \/ CommitAckLost(p, s)
    <3>1. OthersIdle(p)
      BY <1>0, <2>2, RunOthersIdle DEF Commit, CommitAckLost
    <3>2. SetRow(b, Committed(row[b], p, s)) /\ row[b].owner = p
      BY <2>2 DEF Commit, CommitAckLost
    <3> QED BY <1>0, <1>n, <2>0, <3>1, <3>2, SetRowLease
  <2>3. CASE Finish(p, s)
    BY <1>0, <1>n, <2>0, <2>f, <2>3, SetRowLease DEF Finish
  <2>4. CASE FinishFails(p, s)
    BY <1>0, <1>n, <2>0, <2>f, <2>4, SetRowLease DEF FinishFails
  <2>5. CASE HandleError(p, s)
    <3>1. OthersIdle(p)
      BY <1>0, <2>5, RunOthersIdle DEF HandleError
    <3>2. \/ SetRow(b, Requeued(row[b], p)) \/ SetRow(b, Yielded(row[b], p))
          \/ SetRow(b, Finished(row[b], "pending"))
      BY <2>5 DEF HandleError
    <3>3. row[b].owner # p => Requeued(row[b], p) = row[b] /\ Yielded(row[b], p) = row[b]
      BY DEF Requeued, Yielded
    <3> QED BY <1>0, <1>n, <2>0, <2>f, <3>1, <3>2, <3>3, SetRowLease
  <2> QED BY <1>7, <2>1, <2>2, <2>3, <2>4, <2>5 DEF RunStep
<1> QED BY <1>1, <1>2, <1>3, <1>4, <1>5, <1>6, <1>7 DEF Next

\* While a lease is held, a build leaves its owner only by its owner's own
\* steps, or by being closed.
THEOREM LeaseAlwaysKept == Spec => LeaseIsKept
<1>1. IInv /\ [Next]_vars => [LeaseHolds]_vars
  BY StepLease
<1> QED BY <1>1, Invariance, PTL DEF Spec, LeaseIsKept

-----------------------------------------------------------------------------
(* Refinement.                                                             *)

LEMMA InitOutcome == Init => Abstract!Init
BY DEF Init, Abstract!Init, Outcome, Fate, NewRow

LEMMA StepOutcome ==
  ASSUME IInv, [Next]_vars
  PROVE  [Abstract!Next]_(Abstract!vars)
<1>1. Effect
  BY StepEffect
<1>o. /\ Outcome = [b \in Builds |-> Fate(row[b])]
      /\ Outcome' = [b \in Builds |-> Fate(row'[b])]
  BY DEF Outcome, Fate
<1>2. CASE active' = active /\ \A b \in Builds : Fate(row'[b]) = Fate(row[b])
  BY <1>2, <1>o DEF Abstract!vars
<1>3. ASSUME active' = active, NEW b \in Builds, \A c \in Builds \ {b} : row'[c] = row[c]
      PROVE  [Abstract!Next]_(Abstract!vars)
  <2>1. FateStep(Fate(row[b]), Fate(row'[b]))
    BY <1>1 DEF Effect, RowStep
  <2>2. Outcome' = [Outcome EXCEPT ![b] = Fate(row'[b])] /\ Outcome[b] = Fate(row[b])
    BY <1>3, <1>o
  <2>3. CASE Fate(row'[b]) = Fate(row[b])
    BY <1>3, <1>o, <2>3, <1>2
  <2>4. CASE Fate(row'[b]) # Fate(row[b])
    <3>1. Abstract!Request(b) \/ Abstract!Write(b) \/ Abstract!Close(b)
      BY <1>3, <2>1, <2>2, <2>4
      DEF FateStep, Abstract!Request, Abstract!Write, Abstract!Close, Abstract!Decide
    <3> QED BY <3>1 DEF Abstract!Next
  <2> QED BY <2>3, <2>4
<1>4. CASE row' = row /\ active' \in Builds /\ row[active'].pages # {}
  <2>1. Fate(row[active']) = "written" /\ Outcome' = Outcome
    BY <1>4, <1>o DEF Fate, IInv, RowOK
  <2>2. Abstract!Serve(active')
    BY <1>4, <1>o, <2>1 DEF Abstract!Serve
  <2> QED BY <1>4, <2>2 DEF Abstract!Next
<1> QED BY <1>1, <1>2, <1>3, <1>4 DEF Effect

\* The leased queue implements the promise of BuildOutcome: each build is
\* decided at most once, and a source serves only what was written.
THEOREM QueueImplementsOutcome == Spec => Implements
<1>1. IInv /\ [Next]_vars => [Abstract!Next]_(Abstract!vars)
  BY StepOutcome
<1> QED BY <1>1, InitOutcome, Invariance, PTL DEF Spec, Implements, Abstract!Spec
=============================================================================
