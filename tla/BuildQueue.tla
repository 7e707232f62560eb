----------------------------- MODULE BuildQueue -----------------------------
(***************************************************************************)
(* The wiki compile queue: rows of knowledge_build_revisions leased to     *)
(* worker processes (internal/knowledge/wiki_worker.go), the repository    *)
(* statements that claim, renew, requeue, yield, commit, finish and        *)
(* activate a build (wiki_repo.go), and RunBuild, which drives one attempt *)
(* (wiki_service.go).                                                      *)
(*                                                                         *)
(* Every repository call is one transaction and so one step.  Everything   *)
(* between two calls is local to a process, and any other process, a lease *)
(* expiry, a shutdown or a crash can come in between.                      *)
(***************************************************************************)
EXTENDS Naturals, FiniteSets

CONSTANTS
  Builds,       \* build rows of one knowledge source
  Procs,        \* worker processes: lease_owner names one lifetime of one
  Slots,        \* WorkerConfig.Concurrency slots of a process
  MaxAttempts,  \* max_attempts of every build
  MaxFaults,    \* bound: database errors and lost acknowledgements
  None,         \* empty lease_owner, NULL active_build_id
  Gone          \* the lease_owner of a process that was replaced

ASSUME AttemptsAssumption == MaxAttempts \in Nat \ {0}
ASSUME FaultsAssumption == MaxFaults \in Nat
ASSUME NoneAssumption == None \notin Builds \cup Procs
ASSUME GoneAssumption == Gone \notin Procs \cup {None}

VARIABLES
  row,      \* the build rows in Postgres
  active,   \* knowledge_sources.active_build_id
  proc,     \* life cycle of each worker process
  leased,   \* Worker.leased; once shutdown() has copied it, the copy
  run,      \* the run occupying each slot of each process
  faults    \* database faults so far

vars == <<row, active, proc, leased, run, faults>>

-----------------------------------------------------------------------------
(* Rows, runs and the state predicates the code evaluates on them.         *)

Statuses == {"absent", "queued", "running", "succeeded", "failed"}
Checks   == {"pending", "passed", "failed"}

\* lease: "none" is lease_expires_at NULL, "expired" is lease_expires_at <= NOW().
\* due: next_attempt_at <= NOW().  pages: who wrote the rows of knowledge_pages;
\* every wiki holds wiki/index.md, and (build_id, path) is unique.
Rows == [status : Statuses, check : Checks, owner : Procs \cup {None, Gone},
         lease : {"none", "held", "expired"}, due : BOOLEAN,
         attempt : 0 .. MaxAttempts, pages : SUBSET (Procs \X Slots),
         activate : BOOLEAN]

\* A row as CreateBuild inserts it (and the rows that are not there yet).
NewRow(status, activate) ==
  [status |-> status, check |-> "pending", owner |-> None, lease |-> "none",
   due |-> TRUE, attempt |-> 0, pages |-> {}, activate |-> activate]

\* pc names the next call of the run.  attempt is the claimed row's snapshot.
\* cut: why runCtx was cancelled by the run itself, if it was.
Runs == [pc : {"idle", "compiling", "committing", "activating", "finishing", "erred"},
         build : Builds \cup {None}, attempt : 0 .. MaxAttempts,
         verdict : Checks, retryable : BOOLEAN, cut : {"no", "deadline", "lost"}]

IdleRun == [pc |-> "idle", build |-> None, attempt |-> 0,
            verdict |-> "pending", retryable |-> FALSE, cut |-> "no"]

Phases == {"up", "stopping", "yielding", "dead"}

Alive(p)    == proc[p] # "dead"
Stopping(p) == proc[p] \in {"stopping", "yielding"}
Working(p, s) == run[p][s].pc # "idle"

\* runCtx.Err() # nil: the run was cut, or the worker's context was cancelled.
Done(p, s) == run[p][s].cut # "no" \/ Stopping(p)

CanFault == faults < MaxFaults

\* Mutant: a running build is never taken over.
EligibleQueued(b) == row[b].status = "queued" /\ row[b].due /\ row[b].lease # "held"

\* Mutant: the lease of a running build is not looked at.
EligibleLeased(b) == row[b].status \in {"queued", "running"} /\ row[b].due

\* The predicate of ClaimNextBuild's SELECT.
Eligible(b) == /\ row[b].status \in {"queued", "running"}
               /\ row[b].due
               /\ row[b].lease # "held"

\* Mutant: one attempt too many.
HasBudgetOffByOne(b) == row[b].attempt <= MaxAttempts

HasBudget(b) == row[b].attempt < MaxAttempts

Claimed(r, p) == [r EXCEPT !.status = "running", !.attempt = @ + 1,
                           !.owner = p, !.lease = "held", !.pages = {}]

Released(r) == [r EXCEPT !.owner = None, !.lease = "none"]

\* Mutant: closing a build also cleans up its pages.
FinishedBare(r, verdict) ==
  [Released(r) EXCEPT !.status = "failed", !.check = verdict, !.pages = {}]

\* FinishBuild's UPDATE: keyed by build id alone.
Finished(r, verdict) == [Released(r) EXCEPT !.status = "failed", !.check = verdict]

\* Mutant: YieldBuild looks at neither the owner nor the status.
YieldedAny(r, p) ==
  [Released(r) EXCEPT !.status = "queued", !.due = TRUE,
                      !.attempt = IF @ > 0 THEN @ - 1 ELSE 0]

\* YieldBuild's UPDATE: the attempt is refunded.
Yielded(r, p) ==
  IF r.owner = p /\ r.status = "running"
  THEN [Released(r) EXCEPT !.status = "queued", !.due = TRUE,
                           !.attempt = IF @ > 0 THEN @ - 1 ELSE 0]
  ELSE r

\* RequeueBuild's UPDATE: guarded by the owner, not by the status.
Requeued(r, p) ==
  IF r.owner = p
  THEN [Released(r) EXCEPT !.status = "queued", !.due = FALSE]
  ELSE r

\* Mutant: a commit that leaves the lease in place.
CommittedLeased(r, p, s) ==
  [r EXCEPT !.status = "succeeded", !.check = "passed", !.pages = {<<p, s>>}]

Committed(r, p, s) == [Released(r) EXCEPT !.status = "succeeded",
                                          !.check = "passed", !.pages = {<<p, s>>}]

SetRow(b, r) == row' = [row EXCEPT ![b] = r]

\* The run moves on to its next call.
Step(p, s, r) == run' = [run EXCEPT ![p][s] = r]

\* The goroutine's deferred calls: untrack, free the slot.  A shutdown that has
\* copied Worker.leased keeps its copy.
EndRun(p, s) ==
  /\ run' = [run EXCEPT ![p][s] = IdleRun]
  /\ leased' = IF proc[p] = "yielding" THEN leased
               ELSE [leased EXCEPT ![p] = @ \ {run[p][s].build}]

Init ==
  /\ row = [b \in Builds |-> NewRow("absent", FALSE)]
  /\ active = None
  /\ proc = [p \in Procs |-> "up"]
  /\ leased = [p \in Procs |-> {}]
  /\ run = [p \in Procs |-> [s \in Slots |-> IdleRun]]
  /\ faults = 0

-----------------------------------------------------------------------------
(* Requests from the API.                                                  *)

\* EnqueueCompile found no build to reuse: CreateBuild inserts a queued row.
Enqueue(b) ==
  /\ row[b].status = "absent"
  /\ \E a \in BOOLEAN : SetRow(b, NewRow("queued", a))
  /\ UNCHANGED <<active, proc, leased, run, faults>>

\* Mutant: the check's verdict is taken for the build's success.
ActivatableChecked(b) == row[b].check = "passed"

\* ActivateBuild accepts a build.
Activatable(b) == row[b].status = "succeeded" /\ row[b].check = "passed"

\* A user activates a build, or rolls back to an older one.
UserActivate(b) ==
  /\ Activatable(b)
  /\ active' = b
  /\ UNCHANGED <<row, proc, leased, run, faults>>

-----------------------------------------------------------------------------
(* The poll loop: claimAndRun and ClaimNextBuild.                          *)

\* A free slot claims a build and starts a run of it.  SKIP LOCKED makes any
\* eligible row a possible head of the queue.
Claim(p, s, b) ==
  /\ proc[p] = "up" /\ ~Working(p, s)
  /\ Eligible(b) /\ HasBudget(b)
  /\ SetRow(b, Claimed(row[b], p))
  /\ leased' = [leased EXCEPT ![p] = @ \cup {b}]
  /\ Step(p, s, [IdleRun EXCEPT !.pc = "compiling", !.build = b,
                                !.attempt = row[b].attempt + 1])
  /\ UNCHANGED <<active, proc, faults>>

\* The claim's transaction commits but its answer is lost: nothing runs.
ClaimAckLost(p, b) ==
  /\ CanFault /\ faults' = faults + 1
  /\ proc[p] = "up" /\ \E s \in Slots : ~Working(p, s)
  /\ Eligible(b) /\ HasBudget(b)
  /\ SetRow(b, Claimed(row[b], p))
  /\ UNCHANGED <<active, proc, leased, run>>

\* The budget is spent: the claim closes the build instead.
Retire(p, b) ==
  /\ proc[p] = "up" /\ \E s \in Slots : ~Working(p, s)
  /\ Eligible(b) /\ ~HasBudget(b)
  /\ SetRow(b, [Released(row[b]) EXCEPT !.status = "failed"])
  /\ UNCHANGED <<active, proc, leased, run, faults>>

-----------------------------------------------------------------------------
(* The heartbeat goroutine and the run's deadline.                         *)

\* HeartbeatBuild matches the row: the lease is extended, even an expired one.
HeartbeatRenews(p, s) ==
  LET b == run[p][s].build IN
  /\ Working(p, s) /\ Alive(p) /\ ~Done(p, s)
  /\ row[b].owner = p /\ row[b].status = "running" /\ row[b].lease = "expired"
  /\ SetRow(b, [row[b] EXCEPT !.lease = "held"])
  /\ UNCHANGED <<active, proc, leased, run, faults>>

\* HeartbeatBuild matches no row: ErrLeaseLost cancels the run.
HeartbeatLost(p, s) ==
  LET b == run[p][s].build IN
  /\ Working(p, s) /\ Alive(p) /\ ~Done(p, s)
  /\ row[b].owner # p \/ row[b].status # "running"
  /\ Step(p, s, [run[p][s] EXCEPT !.cut = "lost"])
  /\ UNCHANGED <<row, active, proc, leased, faults>>

\* context.WithTimeout(ctx, LeaseFor) fires.
Deadline(p, s) ==
  /\ Working(p, s) /\ Alive(p) /\ ~Done(p, s)
  /\ Step(p, s, [run[p][s] EXCEPT !.cut = "deadline"])
  /\ UNCHANGED <<row, active, proc, leased, faults>>

-----------------------------------------------------------------------------
(* RunBuild: the model call, the check, and the calls after them.          *)

\* compileWithModel or runIncremental, then runChecks.  The reply may arrive
\* although the context has died since.
CompileReturns(p, s) ==
  LET r == run[p][s] IN
  /\ Alive(p) /\ r.pc = "compiling"
  /\ \/ Step(p, s, [r EXCEPT !.pc = "committing"])
     \/ \* check rejected the pages
        Step(p, s, [r EXCEPT !.pc = "finishing", !.verdict = "failed"])
     \/ \* the revision has no documents, or the parent build is unusable
        Step(p, s, [r EXCEPT !.pc = "finishing", !.verdict = "pending"])
     \/ \* transport failure, rate limit, provider fault, undecodable reply
        Step(p, s, [r EXCEPT !.pc = "erred", !.retryable = TRUE])
     \/ \* truncated or unparseable reply, refused request, cancelled context
        Step(p, s, [r EXCEPT !.pc = "erred", !.retryable = FALSE])
  /\ UNCHANGED <<row, active, proc, leased, faults>>

\* CommitBuild: insert pages, then UPDATE ... WHERE lease_owner = $8.
Commit(p, s) ==
  LET r == run[p][s] b == r.build IN
  /\ Alive(p) /\ r.pc = "committing" /\ ~Done(p, s)
  /\ row[b].pages = {} /\ row[b].owner = p
  /\ SetRow(b, Committed(row[b], p, s))
  /\ IF row[b].activate
     THEN Step(p, s, [r EXCEPT !.pc = "activating"]) /\ UNCHANGED leased
     ELSE EndRun(p, s)
  /\ UNCHANGED <<active, proc, faults>>

\* ErrLeaseLost: the transaction rolls back and the run ends without a write.
CommitLeaseLost(p, s) ==
  LET r == run[p][s] b == r.build IN
  /\ Alive(p) /\ r.pc = "committing" /\ ~Done(p, s)
  /\ row[b].pages = {} /\ row[b].owner # p
  /\ EndRun(p, s)
  /\ UNCHANGED <<row, active, proc, faults>>

\* Any other error: a dead context, pages already there, a database fault.
CommitFails(p, s) ==
  LET r == run[p][s] b == r.build IN
  /\ Alive(p) /\ r.pc = "committing"
  /\ \/ (Done(p, s) \/ row[b].pages # {}) /\ UNCHANGED faults
     \/ CanFault /\ faults' = faults + 1
  /\ Step(p, s, [r EXCEPT !.pc = "finishing", !.verdict = "passed"])
  /\ UNCHANGED <<row, active, proc, leased>>

\* The commit is applied but its answer is lost.
CommitAckLost(p, s) ==
  LET r == run[p][s] b == r.build IN
  /\ Alive(p) /\ r.pc = "committing"
  /\ CanFault /\ faults' = faults + 1
  /\ row[b].pages = {} /\ row[b].owner = p
  /\ SetRow(b, Committed(row[b], p, s))
  /\ Step(p, s, [r EXCEPT !.pc = "finishing", !.verdict = "passed"])
  /\ UNCHANGED <<active, proc, leased>>

\* finishBuild: terminal without pages, so RunBuild returns nil.
Finish(p, s) ==
  LET r == run[p][s] b == r.build IN
  /\ Alive(p) /\ r.pc = "finishing"
  /\ SetRow(b, Finished(row[b], r.verdict))
  /\ EndRun(p, s)
  /\ UNCHANGED <<active, proc, faults>>

\* finishBuild fails, with or without its effect: the worker gets the error.
FinishFails(p, s) ==
  LET r == run[p][s] b == r.build IN
  /\ Alive(p) /\ r.pc = "finishing"
  /\ CanFault /\ faults' = faults + 1
  /\ SetRow(b, row[b]) \/ SetRow(b, Finished(row[b], r.verdict))
  /\ Step(p, s, [r EXCEPT !.pc = "erred", !.retryable = FALSE])
  /\ UNCHANGED <<active, proc, leased>>

\* ActivateOnSuccess: move the pointer; an error here is swallowed.
Activate(p, s) ==
  LET b == run[p][s].build
      fails == Done(p, s) \/ ~Activatable(b) IN
  /\ Alive(p) /\ run[p][s].pc = "activating"
  /\ \/ active' = (IF fails THEN active ELSE b) /\ UNCHANGED faults
     \/ CanFault /\ faults' = faults + 1 /\ UNCHANGED active
  /\ EndRun(p, s)
  /\ UNCHANGED <<row, proc>>

-----------------------------------------------------------------------------
(* Worker.run classifies an error that RunBuild returned.                  *)

Requeues(p, s) == run[p][s].retryable /\ run[p][s].attempt < MaxAttempts

\* Requeue, yield on shutdown, or close the build; all on a detached context.
HandleError(p, s) ==
  LET b == run[p][s].build IN
  /\ Alive(p) /\ run[p][s].pc = "erred"
  /\ SetRow(b, IF Requeues(p, s) THEN Requeued(row[b], p)
               ELSE IF Stopping(p) THEN Yielded(row[b], p)
               ELSE Finished(row[b], "pending"))
  /\ EndRun(p, s)
  /\ UNCHANGED <<active, proc, faults>>

\* The write fails and is only logged: the row keeps its owner.
HandleErrorFails(p, s) ==
  /\ Alive(p) /\ run[p][s].pc = "erred"
  /\ CanFault /\ faults' = faults + 1
  /\ EndRun(p, s)
  /\ UNCHANGED <<row, active, proc>>

-----------------------------------------------------------------------------
(* Process life cycle.                                                     *)

\* SIGTERM: main cancels the worker's context.
Shutdown(p) ==
  /\ proc[p] = "up"
  /\ proc' = [proc EXCEPT ![p] = "stopping"]
  /\ UNCHANGED <<row, active, leased, run, faults>>

\* The loop notices and copies Worker.leased.
ShutdownCopies(p) ==
  /\ proc[p] = "stopping"
  /\ proc' = [proc EXCEPT ![p] = "yielding"]
  /\ UNCHANGED <<row, active, leased, run, faults>>

\* shutdown() hands back one of the builds it copied; an error is only logged.
ShutdownYields(p, b) ==
  /\ proc[p] = "yielding" /\ b \in leased[p]
  /\ \/ SetRow(b, Yielded(row[b], p)) /\ UNCHANGED faults
     \/ CanFault /\ faults' = faults + 1 /\ UNCHANGED row
  /\ leased' = [leased EXCEPT ![p] = @ \ {b}]
  /\ UNCHANGED <<active, proc, run>>

Vanish(p) ==
  /\ proc' = [proc EXCEPT ![p] = "dead"]
  /\ leased' = [leased EXCEPT ![p] = {}]
  /\ run' = [run EXCEPT ![p] = [s \in Slots |-> IdleRun]]
  /\ UNCHANGED <<row, active, faults>>

\* Stop returns: the runs ended or its timeout passed.  It waits for the runs,
\* not for shutdown().
Exit(p) == Stopping(p) /\ Vanish(p)

Crash(p) == proc[p] = "up" /\ Vanish(p)

\* NewWorker draws a fresh nonce, so the new lifetime of p is a new identity:
\* a row its predecessor still owns now has an owner no process can present.
Start(p) ==
  /\ proc[p] = "dead"
  /\ proc' = [proc EXCEPT ![p] = "up"]
  /\ row' = [b \in Builds |-> IF row[b].owner = p
                            THEN [row[b] EXCEPT !.owner = Gone] ELSE row[b]]
  /\ UNCHANGED <<active, leased, run, faults>>

-----------------------------------------------------------------------------
(* Time.                                                                   *)

\* lease_expires_at passes: heartbeats stopped, or were held up for that long.
LeaseExpires(b) ==
  /\ row[b].lease = "held"
  /\ SetRow(b, [row[b] EXCEPT !.lease = "expired"])
  /\ UNCHANGED <<active, proc, leased, run, faults>>

\* next_attempt_at passes.
BackoffElapses(b) ==
  /\ ~row[b].due
  /\ SetRow(b, [row[b] EXCEPT !.due = TRUE])
  /\ UNCHANGED <<active, proc, leased, run, faults>>

-----------------------------------------------------------------------------
RunStep(p, s) ==
  \/ CompileReturns(p, s) \/ Commit(p, s) \/ CommitLeaseLost(p, s)
  \/ CommitFails(p, s) \/ CommitAckLost(p, s) \/ Finish(p, s)
  \/ FinishFails(p, s) \/ Activate(p, s) \/ HandleError(p, s)
  \/ HandleErrorFails(p, s)

ContextStep(p, s) ==
  HeartbeatRenews(p, s) \/ HeartbeatLost(p, s) \/ Deadline(p, s)

ClaimNext(p) ==
  \E b \in Builds : Retire(p, b) \/ \E s \in Slots : Claim(p, s, b)

LifeStep(p) ==
  \/ Shutdown(p) \/ ShutdownCopies(p) \/ Exit(p) \/ Crash(p) \/ Start(p)
  \/ \E b \in Builds : ShutdownYields(p, b)

BuildStep(b) ==
  Enqueue(b) \/ UserActivate(b) \/ LeaseExpires(b) \/ BackoffElapses(b)

Next ==
  \/ \E b \in Builds : BuildStep(b) \/ \E p \in Procs : ClaimAckLost(p, b)
  \/ \E p \in Procs : ClaimNext(p) \/ LifeStep(p)
  \/ \E p \in Procs, s \in Slots : RunStep(p, s) \/ ContextStep(p, s)

Spec == Init /\ [][Next]_vars

-----------------------------------------------------------------------------
(* Fairness.                                                               *)

\* Nobody is renewing the lease any more.
Orphaned(b) == \A p \in Procs, s \in Slots :
                 ~(row[b].owner = p /\ Working(p, s) /\ run[p][s].build = b)

OrphanExpires(b) == Orphaned(b) /\ LeaseExpires(b)

\* Runs progress (the model call is bounded by the deadline), processes are
\* restarted, clocks move, and a worker that comes up polls before it dies
\* every time.
Fairness ==
  /\ \A p \in Procs, s \in Slots : WF_vars(RunStep(p, s))
  /\ \A p \in Procs : WF_vars(Start(p)) /\ WF_vars(Exit(p)) /\ SF_vars(ClaimNext(p))
  /\ \A b \in Builds : WF_vars(OrphanExpires(b)) /\ WF_vars(BackoffElapses(b))

FairSpec == Spec /\ Fairness

-----------------------------------------------------------------------------
(* Properties.                                                             *)

TypeOK ==
  /\ row \in [Builds -> Rows]
  /\ active \in Builds \cup {None}
  /\ proc \in [Procs -> Phases]
  /\ leased \in [Procs -> SUBSET Builds]
  /\ run \in [Procs -> [Slots -> Runs]]
  /\ faults \in 0 .. MaxFaults

\* A row a worker may still pick up carries no pages: the clean-up in
\* ClaimNextBuild never has anything to delete.
ClaimableIsEmpty == \A b \in Builds :
  row[b].status \in {"absent", "queued", "running"} => row[b].pages = {}

\* A succeeded build passed the check, holds the whole wiki of exactly one run,
\* and belongs to nobody, however many runs raced to commit it.
SucceededIsWhole == \A b \in Builds : row[b].status = "succeeded" =>
  /\ row[b].check = "passed" /\ row[b].owner = None /\ row[b].lease = "none"
  /\ \E w \in Procs \X Slots : row[b].pages = {w}

\* The active pointer never names a build without pages.
ServedIsWritten == active # None => row[active].pages # {}

\* The three invariants above are not inductive.  What makes them so: exactly
\* the running rows have an owner and a lease (so CommitBuild and RequeueBuild,
\* guarded by the owner alone, only ever meet running rows), and any pages are
\* those of a single run.
RowOK(r) ==
  /\ r.owner # None <=> r.status = "running"
  /\ r.lease # "none" <=> r.status = "running"
  /\ r.status \in {"absent", "queued", "running"} => r.pages = {}
  /\ r.status = "succeeded" => r.check = "passed" /\ r.pages # {}
  /\ r.pages = {} \/ \E w \in Procs \X Slots : r.pages = {w}

IInv ==
  /\ TypeOK
  /\ \A b \in Builds : RowOK(row[b])
  /\ \A p \in Procs, s \in Slots : Working(p, s) =>
       run[p][s].build \in Builds /\ row[run[p][s].build].status # "absent"
  /\ ServedIsWritten

\* While a lease is held, only its owner's steps take the build away from it or
\* hand it back; the one exception is a build being closed as failed.
\* (LeaseIsRespected has no exception, and the code does not satisfy it.)
OthersIdle(p) == \A q \in Procs \ {p} : run'[q] = run[q] /\ leased'[q] = leased[q]

LeaseHolds == \A b \in Builds :
  row[b].status = "running" /\ row[b].lease = "held" =>
    \/ row'[b].owner = row[b].owner
    \/ row'[b].status = "failed"
    \/ OthersIdle(row[b].owner)

LeaseIsKept == [][LeaseHolds]_vars

\* The queue implements BuildOutcome: what a row means to whoever requested it.
Fate(r) ==
  IF r.status = "absent" THEN "none"
  ELSE IF r.pages # {} THEN "written"
  ELSE IF r.status = "failed" THEN "closed" ELSE "open"

Outcome == [b \in Builds |-> Fate(row[b])]

Abstract == INSTANCE BuildOutcome WITH outcome <- Outcome, serving <- active

Implements == Abstract!Spec

\* Unless processes are stopped for ever (a yield refunds the attempt), every
\* enqueued build ends, whatever crashes: a build that kills its workers too.
BuildsEnd ==
  <>[](\A p \in Procs : ~Stopping(p)) =>
    \A b \in Builds : row[b].status \in {"queued", "running"}
                        ~> row[b].status \in {"succeeded", "failed"}

-----------------------------------------------------------------------------
\* wiki_worker.go, where a lease was lost: "Another worker owns the build. Say
\* nothing to the row: the new owner is authoritative".  FinishBuild does not
\* keep to it: it has no guard on the owner.
LeaseIsRespected ==
  [][\A b \in Builds : row[b].status = "running" /\ row[b].lease = "held" =>
       row'[b].owner = row[b].owner \/ OthersIdle(row[b].owner)]_vars
=============================================================================
