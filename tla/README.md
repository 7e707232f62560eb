# A TLA+ model of AgentMate

AgentMate is a Go server that keeps an agent's working memory: durable
memories and session journals, skills, and knowledge bases that it compiles into
wikis with a language model. All state is in PostgreSQL and, derived from it, in
Qdrant. Several replicas of the server run against the same databases, so what is
hard happens between the statements of different requests, workers and processes,
and in a few algorithms with many cases. Both are modelled here: the
transactions of the repositories as atomic steps with the code between them as
the places where others come in, and the algorithms as functions checked on every
argument of a bounded set.

`PROJECT.json` lists the components, the runs, the source lines of every
definition, the hazards and the theorems. This file explains them.

## 1. Inventory

| Component (`src/internal/...`) | State | Operations | What is hard about it | What makes it correct |
|---|---|---|---|---|
| wiki compile queue and worker (`knowledge/wiki_worker.go`, `wiki_repo.go`) | build rows with lease, attempt, status; per process a set of leased builds, slots, contexts | claim, heartbeat, requeue, yield, commit, finish, retire, activate; start, shutdown | replicas race for rows; leases expire under a live run; crashes, shutdowns, lost answers | a build is decided once; a succeeded build is one run's whole wiki; only written wikis are served; every build ends |
| wiki compile service (`wiki_service.go`, `wiki_compile.go`) | the builds and the source's pointer | EnqueueCompile, RunBuild, ActivateBuild | check-then-insert; two compilers during a roll-out; an old build finishing late | parents fit their increments; rows tell what compiled them; the newest revision comes to be served |
| wiki index and search (`wiki_search.go`) | `indexed_build_id`, rows of the retrieval service | IndexActiveWikiBuilds, SearchWiki, WikiIndexStatuses | a run lasts minutes; the pointer moves; runs overlap | a lagging index can be told from an empty wiki |
| retrieval service (`retrieval/`) | `retrieval_documents`, Qdrant points | IndexDocument, two deletes, hybrid search | five writes in two stores without a transaction; one leg may fail | a row that says indexed has its vector; the best of two legs is served |
| durable memories (`memory/`) | `memory_entries`, their projection | CreateEntry, SupersedeEntry, SearchEntries | concurrent supersedes; the projection lags the rows | replacements are final; active memories stay found; what is left of replaced ones is accounted for |
| memory journal and feedback (`memory/`) | `memory_events`, `memory_feedback`, counters | RecordEvent, SaveCheckpoint, Resume, timelines, RecordFeedback | retries next to the call they repeat; a time of the client's | a key is recorded once; a counter is its log; Resume starts from the last checkpoint |
| knowledge sources (`knowledge/repo.go`, `service.go`) | sources, revisions, documents, active revision, sync state | register, snapshots, Git syncs | a fetch is slow; results and failures arrive late | one origin per history; no conflict among replays; the sync state is that of what is served |
| packages (`gitfetch/`, `knowledge/manifest.go`, `chunker.go`) | none (pure) | read an archive, select, identify, cut into chunks and links | sizes, globs, fences, limits | the same tree is the same package whatever way it comes; chunks lose nothing |
| raw catalog index and search (`catalog_service.go`) | rows of the retrieval service | IndexActiveRevisions, SearchKnowledge | as the wiki index | as the wiki index |
| incremental compile and check (`wiki_incremental.go`, `wiki_check.go`) | none (pure) | plan, copy, check | impact of a change through citations and links | no reused page rests on a changed document |
| review, lint, validation (`wiki_review*.go`, `wiki_lint*.go`, `wiki_validation*.go`) | verdicts, findings, signals | run, record, sweep | several reviews of one build; cycles; evidence of a moment | no verdict claims more than was seen; a cause rests on what the query log shows |
| discovery and resolution runs (`discovery.go`, `resolution.go`, `skills/knowledge_contract.go`) | append-only runs | discover, record | which inputs an answer depends on | a fingerprint stands for the answer; a run is never replaced |
| skill registry (`skills/service.go`, `repo.go`) | sources, revisions, versions, active flag, search rows | publish, activate, sync, submit, index | the flag has three writers; two locks; an index run that outlives an activation | one active version per skill; no request lost to a race; re-indexing converges |
| skill compiler and quality runs (`skills/compiler.go`, `quality_*.go`) | artifacts, reports | compile, evaluate, compare, telemetry | files, content and artifact are stored apart | a version passes only if it is the package that was published |
| context packs (`contextpack/`) | none (pure) | build a pack | budget arithmetic, scopes, failing providers | the budget and the scopes are kept; failures stay in their layer |
| authentication (`auth/`, `mcpauth/`, `ownership/`) | users, API keys | login, keys, scopes | none across requests | scopes |
| personal data (`todo/`, `notes/`, `reports/`, `bookmarks/`, `expenses/`, `tags/`) | one row per item | create, update, delete, list | single statements | none beyond SQL |
| model client, server, admin (`llm/`, `cmd/server`, ...) | none | I/O | classification of errors | only a transient error is retried |

How they interact. HTTP and MCP handlers call the services; the services call
their repositories and the retrieval service. An ingest moves a source's active
revision; `EnqueueCompile` reads it, inserts a build row and returns; the worker
inside every replica claims the row, drives `RunBuild` and may move
`active_build_id`. Indexing is a separate request that reads that pointer, writes
through the retrieval service and sets `indexed_build_id`. `SearchWiki` filters
by the former. A memory is committed first and indexed afterwards by the same
request; a supersede commits first and deletes the old projection afterwards. A
skill version is published or activated in one transaction and compiled and
indexed after it. There are no callbacks and no queues besides the build table:
components meet in rows.

## 2. Modules

| Module | Models | Checked and proved in |
|---|---|---|
| `BuildOutcome` | what a requested build means to its requester | refined by `BuildQueue` |
| `BuildQueue` | the lease queue, the worker and `RunBuild` | `MCBuildQueue`, `BuildQueue_proof` |
| `BuildEnqueue` | `EnqueueCompile`, the builds it makes or reuses, the two activations | `MCBuildEnqueue`, `BuildEnqueue_proof` |
| `SupersedeChain` | `Repo.SupersedeEntry` as concurrent transactions | `MCSupersedeChain`, `Recall_proof` |
| `RetrievalIndex` | `IndexDocument` and the deletes | `WikiIndex`, `MemoryProjection`, `RetrievalIndex_proof` |
| `WikiIndex` | `IndexActiveWikiBuilds` on top of `RetrievalIndex` | `MCWikiIndex`, `Indexing_proof` |
| `MemoryProjection` | `CreateEntry`, `SupersedeEntry` on top of `RetrievalIndex` | `MCMemoryProjection`, `RetrievalIndex_proof` |
| `SessionJournal` | events, checkpoints, Resume, feedback | `MCSessionJournal`, `SessionJournal_proof` |
| `SourceIngest` | one knowledge source, its branch, syncs and snapshots | `MCSourceIngest`, `Knowledge_proof` |
| `SkillRegistry` | versions, activation, syncs and snapshots of skills, their index | `MCSkillRegistry`, `Context_proof` |
| `WikiIncremental` | `runIncremental`, `runChecks` | `MCAlgorithms`, `Knowledge_proof` |
| `WikiReview`, `WikiLint`, `WikiValidation` | the three kinds of judgement on a wiki | `MCAlgorithms`, `Knowledge_proof` |
| `KnowledgeDiscovery` | contract, discovery, fingerprint, resolution runs | `MCAlgorithms`, `Knowledge_proof` |
| `PackageFiles` | from an archive or a push to the files of a package | `MCAlgorithms`, `Knowledge_proof` |
| `DocumentChunks` | from a document to its chunks and links | `MCAlgorithms`, `Indexing_proof` |
| `HybridSearch` | fusion of the legs, and its three callers | `MCAlgorithms`, `Recall_proof` |
| `SkillQuality` | compile, the checks of a package, comparison, telemetry | `MCAlgorithms`, `Knowledge_proof` |
| `ContextPack` | budgets, fit, scopes, failures of a pack | `MCAlgorithms`, `Context_proof` |
| `Selections` | subsequences and sorting, as a prover can unfold them | used by the three before |
| `Arguments`, `Documents`, `Searches`, `Packs`, `Algorithms` | the ten modules above side by side, with what each owes to its argument | `MCAlgorithms`, the proof modules of each |

An operator whose comment calls it a mutant is not part of any specification: it
is a plausible wrong version of the operator that follows it, kept to show that
a property notices.

### BuildQueue

One variable per place where the code keeps state: `row` (the build rows),
`active` (`active_build_id`), `proc` (life cycle of each worker process),
`leased` (`Worker.leased`), `run` (the goroutine in each slot). Each repository
statement is a step. `run[p][s].pc` names the next call of `RunBuild` or of
`Worker.run`; `cut` records why the run's own context died, and `Done` adds the
worker's. Status, owner and lease of a row are kept apart as in the table,
because the statements guard on different ones: `HeartbeatBuild` and
`YieldBuild` on owner and status, `RequeueBuild` and `CommitBuild` on the owner,
`FinishBuild` on neither.

Abstracted: time (a lease is `none`, `held` or `expired`; expiry and the end of a
backoff are steps that may happen whenever they could), the order in which rows
are polled (`SKIP LOCKED` makes every eligible row a possible head), the contents
of pages (who wrote them is kept), token counts, events. A heartbeat is a step
only when it changes something: on an expired lease it renews, on a moved lease it cancels.
The review after a commit writes no field of the model and is left out; the slot
it holds meanwhile only delays claims. `cancelled` is a status that no code sets.

### BuildEnqueue

What `BuildQueue` leaves out: which rows there are. A request reads the source,
the parent, a build of the same inputs, and inserts or activates, one statement a
step; between them others insert, workers decide rows (`RunBuild`, `FinishFailed`,
each one step: how a row is decided is `BuildQueue`'s), and the active revision
moves. `FinishFailed` may come to any row that is queued or succeeded, whether it is
served or not: a lost answer of a commit and a run that comes late look at the id alone.
`Fleets` says which compilers the replicas of a deployment have, more than one
while a change of model, compiler version or prompt rolls out: `EnqueueCompile`
writes the one it has into the row, the worker compiles with the one it has, and
`made` keeps whose pages a build holds. `calm` is a history variable: has every row
been run by the compiler it names? It guards nothing. What clients ask for (`Asks`)
and how many builds there may be (`Room`) are bounds.

### SourceIngest

One source name. `upstream` is the branch (a push may return to an old tree),
`source` the row with its sync metadata, `revisions` what was ingested and from
where. A sync resolves a commit, fetches it, takes the advisory lock and looks for
the package, and inserts or reuses; it may fail at each point, and then records
the failure in a transaction of its own, later. A registration of the same name
may come between any two of these; it writes the metadata of the client as they
are, so with them any sync state that the client has read before, or none
(`Metadata`). `recorded` is a history variable: was the sync state last written by an
ingest?

### SkillRegistry

The transactions of `CreateVersion`, `ActivateVersion` and
`IngestSourceRevision` with their two advisory locks (skill first, then source),
each as look and write, and the two statements of an activation in one write. A
step that would violate a unique index ends in `conflict`: the pc that
`NeverConflicts` excludes. The index of a skill is read (`listing`) and written
(`indexing`) in two steps of a request that may outlive any number of activations.
Usage logs are single inserts and left out.

### SessionJournal

`RecordEvent`'s insert and the read of the row that was in the way are two
statements; a checkpoint is an event whose default key is its content. `Resume`
reads the latest checkpoint and then the activity since. Time is a small clock,
several events may share a tick, and `RecordEvent` may be given an earlier time.
`saved` and `calm` are history variables: what was saved last, and whether each
save was alone, in a tick of its own and new.

### RetrievalIndex and its two users

A row is absent, pending, failed or indexed, and its `qdrant_point_id` has a
point or not. A delete drops the row and its id, so a call that still holds the
id writes to nothing; `own` says whether the row whose id a call holds is still
there. Every step may fail with or without its effect, and the caller may vanish
between any two. `WikiIndex` adds the pointers and the loop over the pages,
`MemoryProjection` the status of the entries. Both use `RetrievalIndex`
with their own keys, and take its steps. Their history variables guard nothing:
`lone` holds the index runs that have been alone at work since they began, `early` the
entries whose last delete came before the last insert of their own indexing.

Text, vectors, scores and ranking are abstracted there: a search is "every
document that could be returned to a query that matches all of them"; ranking is
`HybridSearch`'s. `Keys` of the wiki are chunks of pages; the clean-up of chunks a
page no longer has finds nothing as long as the chunker stays the same, and is
not a step.

### SupersedeChain

Transactions at READ COMMITTED: locks on the two named rows in the order of
their ids, one step for the two checks (the row they read first is locked), one
for the write. The recursive query is the least closed set, and is enabled only
if it ends, as `UNION ALL` requires.

### The algorithms

Ten modules without variables. Each models functions of the code on structured
values (a page is what it cites and where it links; a line of a document is its
kind and length; a text in a pack is its length and where it may be cut) and ends
with one or more operators that say what the result owes to the argument, stated
without the operators of the algorithm where there is another way to say it:
`RestsIn` (a path of links) for the cascade of the lint, `Means` for the matching
of globs, exact arithmetic for the sizes in an archive. `Algorithms` puts them side
by side: its one variable (of `Arguments`) holds the name of one of them and an argument,
its properties say of the result what must hold whatever the argument is, and its
assumptions say what the constants must be for that. It extends `Documents`, `Searches`
and `Packs`, which do the same for `DocumentChunks`, `HybridSearch` and `ContextPack`: a
proof about one of these then has only its own definitions before it. `MCAlgorithms` gives
each of them a bounded set of arguments for TLC: a step chooses one, an invariant looks at
it. The theorems are about the sets that the modules themselves define as their arguments (`Inputs`, `Packages`, `Reports`, sequences of `Events`, of
`Entries`, ...), of any size; `ArgumentsAssumption` in `MCAlgorithms` lets TLC confirm
that what it is given lies in those sets, so that both speak of the same thing.

Numbers of the code that only scale a case are small constants here (`MaxRunes`,
`MaxChunks`, `MaxRequest`, `MaxLogs`, `MaxDepth`, ...). In `HybridSearch` reciprocal
ranks are integers; the cap on the effect of feedback keeps its relation to them.
A 64-bit size is one of 7 or 4 bits, with overflow by wrapping.

## 3. Runs

| Run | Instance | Distinct states | Shows |
|---|---|---|---|
| `queue` | 1 build, 2 processes of 1 slot, 2 attempts, 1 database fault | 270 000 | `IInv`, `SucceededIsWhole`, `ServedIsWritten`, `LeaseIsKept`, `Implements`, `BuildsEnd` |
| `enqueue` | 2 revisions, 1 client; 3 builds of one compiler, or 2 while a second one rolls out | 536 000 | `IInv` (lineage), `CalmProvenance`, `Converges` |
| `wiki_index` | 2 builds of 2 chunks, 2 requests, 1 tolerated error, failures | 1 410 000 | `CalmGapIsVisible`, `LoneRunIsWhole` |
| `supersede` | 3 entries, 3 calls | 53 000 | `IInv` (with `ChecksAreCurrent`), `NoMutualReplacement`, `NeverCyclic`, `ReplacementIsFinal`, `CallsEnd` |
| `memory_projection` | 2 entries, 2 requests, failures | 14 700 | `IInv` and `IndexedHasPoint` of the retrieval service, `ProjectionIsOfEntries`, `ActiveStaysFound`, `LeftoversAreKnown` |
| `journal` | 2 contents, 1 key, 2 requests, 3 events, 3 ticks, a limit of 1 | 2 200 000 | `JournalOK`, `AnswerIsOwn`, `CalmResume` |
| `sources` | 3 packages, a Git and a local origin, 2 requests, 3 commits, metadata of the client with and without a sync state | 274 000 | `HistoryOfOneOrigin`, `ReplayNeverConflicts`, `SyncDescribesActive` |
| `skills` | 1 skill, 1 package, a Git and a local source, 2 requests, 2 versions | 272 000 | `IInv` (one active version, pairing, locks), `NeverConflicts`, `ReindexConverges` |
| `algorithms` | every argument of fifteen bounded sets | 618 000 | `IncrementIsFaithful`, `VerdictIsEarned`, `LintIsExact`, `DiscoveryIsReproducible`, `AttributionIsEvidenced`, `PackageIsRead`, `DocumentIsCarried`, `SearchServesBest`, `QualityIsEarned`, `PackIsSound` |
| `v_lease`, `v_supersede`, `v_provenance` | as small as the counterexample | | one claim of the repository each, refuted (section 6) |

Why these bounds are enough for what they are meant to show. Every hazard of the
queue needs one build, a run that lost it and a run that has it: two processes
are two identities, and an identity changes at every restart, so a crashed
process, its successor and the other process already make three. Two attempts
give a retry and an exhausted budget; one fault gives each lost answer once, at
every place. Slots of one process share an identity; that case, several builds
and larger numbers are covered by the proofs, which are for any constants.

`enqueue` needs an older and a newer revision, a parent and its increment, and a
compiler that changes between them. `Converges` needs more: a build of the older
revision that ends after one of the newer, the same work queued twice, a rollback, and
a request after each; hence three builds where the compiler stays the same. One client
is enough because requests of several only differ in what the others' builds do
meanwhile, and the workers and the pointers provide that; it queues the same work twice
by asking again before the first build is run. The bound is in the property only where
it must be (`Exhausted`): no more builds may be made and none of those there are is a
full one of the revision by a compiler that is asked for. A behaviour that uses up its
builds but has such a one still has to come to serve it.

`NeverCyclic` does hold for three entries, because any two pairs of three rows
share one, and does not for four: the run and the counterexample mark the exact
limit of the row locks. The projection needs two calls for one key to collide
and a second key for a delete to be too wide. `journal` needs a retry next to its
original, a checkpoint after another and an event between them, hence three
events and two requests. A source needs a branch that moves twice (an older sync
landing after a newer one, and a return to a tree that was there before) and a
second origin. Two versions of one skill, from any two of a Git source, a local
source and a client, are all that can race for its active flag; several skills and
packages, whose locks and rows are disjoint, are left to the proof. `ReindexConverges`
needs one request with an old card and one with the new.

Only `MaxFaults`, `MaxBuilds`, `MaxCommits`, `MaxVersions`, `MaxTime` and
`MaxEvents` bound behaviours; all else (restarts, expiries, shutdowns, failed
calls, pointer moves, retries) may happen any number of times. In the queue the
attempt counter, which a yield counts down again, is the code's own bound.

`wiki_index` tolerates one error (`maxIndexErrorsPerSource` is 20 in the code), so that
a run may skip a chunk and go on, and the second failed chunk ends it; the proofs are
for any number. `calm` is a history variable here too: no call has failed and no two
runs have overlapped. It guards nothing, and states the condition under which the
claim of migration 29 does hold. `LoneRunIsWhole` does not need it: whatever runs that
overlapped, gave up or died have left, one that is then alone from its beginning to its
end deletes the rows of every other build and indexes each chunk of its own, or counts
an error.

The arguments of the algorithms are products of small sets, chosen so that the
cases of each function meet: an increment has two pages that may link to each
other and cite two documents that change, vanish or stay; a lint has four pages in
chains, cycles and both; a review is followed by a second one of each sort, on a row
that names the reviewer configured when it was queued; a query is of the wiki, the raw
layer or another namespace; an archive has three entries of each kind, below and beside
the package; a document is four lines of every kind or six of headings and text; the
two legs of a search
overlap in every way in three ranks, with dead points and failing legs; a package
of a skill has one thing changed since it was published; a pack asks for four
combinations of layers, with budgets at the minimum, not divisible, and generous.

Deadlock is checked in every run.

### Fairness

* `queue`. `RunStep` is weakly fair: the model call ends by its deadline (`LeaseFor`),
  every other call by a driver's timeout. `Start` and `Exit` are weakly fair: a
  supervisor restarts a process, and `Stop` has a timeout. Heartbeats, shutdowns
  and crashes are not fair: they may happen or not. `ClaimNext` is strongly fair: a
  worker that keeps coming up polls on coming up (`loop` claims before it waits),
  so it is not always killed before its first poll; and a row the others keep
  locked is skipped, not waited for. `OrphanExpires` and `BackoffElapses` are weakly
  fair: clocks move. A lease with a live run behind it need not expire. `BuildsEnd`
  assumes that stopping processes eventually stop stopping: a yield refunds the
  attempt, so endless shutdowns can retry a build for ever.
* `supersede`. `CallStep` is strongly fair: PostgreSQL queues the waiters of a row
  lock, so a call is not overtaken for ever.
* `enqueue`. Builds are decided (that is `BuildsEnd`) and requests end. The three
  strongly fair steps are those of one client that keeps polling for the current
  wiki: now and then its request is not cut off at the same place, whatever else
  it asks for. New revisions and rollbacks are not fair; `Converges` speaks of
  behaviours in which the revision stays the same from some time on.
* `skills`. Requests end, and a client that keeps asking for an index run has its
  two statements done now and then, after any number of failures.

## 4. Proofs

Checked by TLAPS, for every value of the constants that satisfies the named
assumptions: bounds are natural numbers, null values are distinct from the real
ones, entry ids are comparable, the names of skills and of sources differ as lock keys.
`MaxAttempts` and `MaxCommits` are positive.

`BuildQueue_proof`. `SucceededIsWhole` and `ServedIsWritten` are not inductive:
`CommitBuild` looks at the owner only, so one has to know that exactly the
running rows have an owner; `FinishBuild` looks at nothing, so one has to know
that it never touches pages and that a row with pages holds those of one run.
`RowOK` says that of each row, `IInv` adds that a run's build exists and that
the pointer names a written build. `Init => IInv`, `IInv /\ [Next]_vars =>
IInv'` (one lemma per group of actions that changes a row in the same way) give
`Invariance`; from it follow the invariants, the action property `LeaseIsKept`,
and `QueueImplementsOutcome`: under `Outcome`, each step of the queue is a step
of `BuildOutcome` or a stutter. In particular a build that was closed by
mistake is never written afterwards, and a written one never loses its pages.

`BuildEnqueue_proof`. That an increment has a parent of its own compiler and
profile is a fact about a row; it is checked by a request statements before the row
is inserted. So `RequestOK` keeps it for each request on its way, and holds because
nothing ever changes a row's revision or compiler and no row loses its pages.
`CalmProvenance` follows from `CalmMade`, its strengthening to rows that have been
written and not closed: an increment inherits what its parent holds.

`Recall_proof`. `IInv` says that a call past its locking phase holds both
rows and that what it checked about them is still so; hence replacements are
never switched and never mutual. `NeverCyclic` is false as it stands (`v_supersede`),
and what keeps it is proved instead. `SerialNeverCyclic`: no cycle arises in a behaviour
in which no two calls are past their cycle check at once (`Serial`); the check itself
is right, as a write that `old` is not reached from `new` leaves every chain with an
end (`WriteNeverCyclic`, over the least closed set that the recursive query returns).
`Serial` then holds in two cases without being assumed: of three entries two pairs share
a row, which only one call can have locked (`NeverCyclicOfThree`), and calls that come one at a
time do not overlap (`NeverCyclicOneByOne`). Four entries and two calls are the
counterexample, so nothing weaker than `Serial` would do.

`RetrievalIndex_proof`. `IInv` ties a call to its row: while `own` holds the row
exists, and a call about to mark it has stored its point. A delete ends `own`
for every call on that key, which is why no later write by id can hit the new
row that somebody inserts under the same key.

The same module proves the three properties of `MemoryProjection`, whose steps are steps
of the service. An action property needs to know what no row says:
that only `CreateEntry` starts a call and only once for an entry, so that an entry has
one call at most (`OneCall`), and that this call, once it has read the row, has taken it
out of the search until it marks it (`NotYetFound`). From these: no failure and no
other supersede hides an active memory that could be found (`ActiveEntriesStayFound`).
`LeftoversKnown` needs `LeftoverInv`: of a superseded entry that owes nothing to a
delete there is no row, and no call that may still insert one; a mark or a rewrite
finds its row by an id that the delete has taken away.

`Indexing_proof`. Each step of `WikiIndex` is a step of `RetrievalIndex` or
leaves it alone, with a small invariant on the runs' builds; so
the theorem about the service carries over (`IndexedAlwaysHasPoint`).
`GapVisibleWhileCalm` needs more (`GapInv`): a call belongs to its run and to a chunk
the run has begun; and while no call has failed and no two runs have overlapped, every
chunk the run has begun is indexed except the one it is at, because its call still owns
its row (the run deletes only the rows of other builds, and only before its first
call). So the build a run marks is whole, and stays so until the next run begins.
`LoneRunsRepair` rests on `LoneInv`, which says the same of a run that is alone without
the past being calm: once it has cleaned there is no row of another build, and a chunk it
has begun is indexed, at work, or one of its errors. TLC checked both invariants on the
instance of `wiki_index` before they were proved.

`Knowledge_proof`, on `SourceIngest`. The three properties hold because a name never changes its
origin once it has a revision (`UpsertSource` refuses), because the lock makes the
request's look at the revisions true until it writes (`LockOK`), and because the
transaction that moves the active pointer writes the sync state with it; only a
registration writes one without the other, which `recorded` takes out. `CallOK`
carries the commit and package of a fetch to the ingest.

`Context_proof`. `ReadHolds`: what a transaction read under its locks (the
version it found, the active versions it has cleared) is still so when it writes;
`LocksOK`: the lock of a skill belongs to exactly the request in its transaction.
From these, that no skill ever has two active versions (`OneActiveVersion`), that
versions and revisions name each other, and that no request meets a unique index
(`NoRaceLost`), although the look and the write of two sources of one skill are
under different source locks: it is the skill's lock, taken first, that orders them.

`SessionJournal_proof`. A unique key and a counter that is its log
(`FS_AddElement` on the signals of each kind). `CalmResume` rests on `InOrder`: one
save at a time keeps checkpoints in the order of their times, and the pending one
is later than all. The reading half of a Resume then only has to keep what it found.

Each module proves its invariant along the same lines: a lemma for a step of one
request that leaves the rest alone, a lemma for each action that writes a row, and
a last lemma that goes through `Next`.

### What is proved of the algorithms

All ten properties of `Algorithms`, for every argument of the sets that their modules
define: seven in `Knowledge_proof`, those about documents, searches and packs beside the
component that they serve, in `Indexing_proof`, `Recall_proof` and `Context_proof`. The named assumptions there are that `Nil` is none
of the values it stands in for the absence of (hashes, models, builds, contents,
packages, numbers), that sources are finitely many, and that limits are numbers. An
archive may have any number of entries, a glob any number of segments, a wiki any number
of pages and cycles, a log any number of events.

What a loop of the code computes is a function defined along a sequence. Two lemmas make
it accessible: `InductionOnNat`, induction with the statement given as the set of the numbers
it holds of, and `Recursion`, that a function whose values follow one from the other
exists (without it nothing is known of a recursive definition). Each proof then finds what holds
after every step.

* `IncrementsAreFaithful`: by cases on whether anything changed; a page that is not scheduled
  cites nothing that was touched, nor anything that was added, because the parent is a wiki
  of the old revision (`IsWiki`), and the plan's check catches whatever the model
  wrote or left out beyond it.
* `LintsAreExact`: after n steps the walk is at the pages from which a path of n links
  leads to stale text (`WalkIsRest`), so the cascade's number is the shortest distance.
* `VerdictsAreEarned`: `EarnedStep` carries, over one review, that some review saw what the row
  says, and that a status other than skipped has a reviewer other than the compiler.
* `SizesAreExact`: before each digit, the code's test by division holds exactly
  when the next value does not exceed the maximum (`OneDigit`).
* `GlobsAreExact`: the places the matching reaches after n segments are those on which
  n segments can be laid (`LaysOneMore`, `ReachesOneMore`), with `**` at the end needing one.
* `SelectionsAreExact`: an accepted archive has every path once, so its files are a function
  of it (`ExtractedAre`); listing them in any order is a push that is accepted and read as
  the same files (`PushIsAccepted`). `PackagesAreRead` joins the last three.
* `QualitiesAreEarned`: each blocker speaks of one field, and together they make the package
  the published one (`ArtifactIsCompiled`, `OneHashOneText`). For the report, that the newest
  `MaxLogs` logs of the newest `MaxLogs` are the same ones rests on `FirstAreCounted`:
  the elements of a finite ordered set with fewer than m before them are m, or all.
* `DiscoveriesAreReproducible`: what the fingerprint keeps is all that matching and ranking
  read (`SameAnswer`); ranks are the places of an order (`PlacesAreTaken`). The
  second half is over the sequence of recorded requests.
* `AttributionsAreEvidenced`: the log of signals only grows (`LogGrows`), each event adds
  signals that are evidenced by the events before it (`OneSignal`, `OneSweep`), and an
  interpretation as a skill's fault has two sources (`SkillIsOfTwo`).

Three more work on sequences that the code cuts, selects, sorts and joins. `SelectSeq` and
`SortSeq` have no definition that the prover can unfold, so these modules use `Picked` and
`InOrder` of `Selections`. The proofs do not follow the elements but their places: `Takes`
says that one sequence has, at rising places of another, those of a set (`PickedTakes`);
a set that a relation `Orders` is listed by `InOrder`, each element once and after those
before it (`InOrderLists`, over `PlacesAreTaken`). The
few lemmas about these stand in each of the three modules.

* `PacksAreSound`, with budgets of any size and any number of items. Shares are
  floored one by one, so their sum is at most the request's (`Sums`, `Cancel`), and what is left
  over goes to the largest layer; fewer layers leave each at least what it had
  among all. What `Fit` keeps is decided by the sums of the sizes (`Sizes`): the
  largest number of items that fit, and a beginning of the next. From that, more
  room or a longer list never shows less, which is what a provider's failure comes to for
  the layer that it shares; scopes hold because each item is of the provider that was read.
* `SearchesServeBest`, for rankings of any length. A document's score is the sum of its reciprocal ranks,
  which fall strictly over the ranks that a leg can have, since a leg is cut at
  `MaxRequest <= 1000`: the one fact the proof needs of the
  arithmetic. So a document that both legs prefer is fused before the other, and a
  cut keeps the first of them. The pages of `SearchWiki` are the first chunks of each page, in the
  order of the hits; that none is missed is counted from what was fetched, and is claimed
  only while the over-fetch is within `MaxRequest`. Feedback is bounded by division
  (`Division`), below what a leg is worth.
* `DocumentsAreCarried`, for documents of any number of lines. A rune is its line and
  place, so a text without its line ends (`Marks`) is determined by which runes it holds and
  that they rise (`Held`, `Sorted`): two such texts that hold the same are equal. What the
  chunks made of the first n sections hold, with what is pending, is what the lines up to the n-th
  cut hold (`Series`), through paragraphs, windows and packing; a truncated answer
  is a beginning. The path of a section is the stack of headings that enclose it,
  by induction over the cuts. A link is followed one step at a time:
  what `Clean` has left is as deep as the path has led, or begins with `..` once the
  path has left the root (`CleanOf`).

Only model-checked: the liveness properties (`BuildsEnd`, `CallsEnd`, `Converges`,
`ReindexConverges`), which are outside the prover's reach. Every invariant and every
action property of a passing run has a theorem.

## 5. Not modelled, and the plan

Not modelled, and why:

* personal data (`todo`, `notes`, `reports`, `bookmarks`, `expenses`, `tags`): one
  statement on one row for each operation;
* HTTP handlers, MCP tools, the dashboard, middleware, configuration, logging: they
  parse, call a service and format; what they call is modelled;
* authentication but for `HasScope`: checks of one request, without shared state
  that another request changes;
* how PostgreSQL and Qdrant rank one leg, and how the model client talks to its
  provider; only whether an error is transient is modelled;
* lists, overviews and statistics: reads of a single statement;
* `IndexActiveRevisions`, the index run of the raw catalog: the same loop over the
  same service as `WikiIndex`, without a pointer to compare with. Its search and
  its chunks are modelled.

What is left to do: the index run of the raw catalog with an ingest moving the active
revision under it, as a further client of `RetrievalIndex`.

## 6. Where code and text disagree

Three claims of comments are refuted by a run each:

* `v_lease`: "Say nothing to the row: the new owner is authoritative"
  (`wiki_worker.go:197`). A run whose commit fails for another reason than the
  lost lease (most simply because the heartbeat has just cancelled its context)
  or whose check rejects the pages calls `finishBuild`, whose `UPDATE` is keyed
  by the build id alone, and closes the build its new owner is compiling.
* `v_supersede`: "a concurrent call cannot slip between check and write"
  (`memory/repo.go:505`). The cycle check reads rows that are not locked.
* `v_provenance`: the parent check of `wiki_incremental.go:400` is there so that no
  "build recorded model=qwen while every page came from a deepseek run".
  `EnqueueCompile` records the model configured when a build is asked for, the
  worker compiles with the one it has, and `CommitBuild` leaves the columns alone;
  increments inherit the difference.

Others were seen in the code and are contained in the models, without a run of
their own.

Compile queue and service:

* A shutdown during the commit. `run` means to yield a build whose context died
  with the process (`wiki_worker.go:217`), but `RunBuild` turns the dead context
  into "commit failed" and closes the build (`wiki_service.go:345`).
* The build that a source serves can become `failed` after the fact: a commit
  whose answer is lost is followed by `finishBuild`. Its pages stay, so
  `ServedIsWritten` holds, but it cannot be activated again.
* A heartbeat between `CommitBuild` and `ActivateBuild` finds no running row,
  cancels the run's context, and the activation that was asked for is dropped
  without an error (`wiki_service.go:354`). A failed activation also skips the review.
* Asking for a full build while one is queued or running inserts another: only
  succeeded builds are reused.
* `DiffBuilds` means to compare with "the immediate predecessor" (`wiki_service.go:548`)
  and takes the newest succeeded build other than the one asked about (`wiki_repo.go:862`).
* An increment whose diff touches no page and adds no document, or whose answer is
  empty, cannot succeed. A "clean" incremental build says nothing of reused pages.

Index and search:

* "What must not happen is that difference being invisible" (migration 29, and
  `wiki_search.go:35`). Two overlapping index runs each delete what the other has
  written; the one for the current build marks it as indexed and the other's
  clean-up comes last. `CalmGapIsVisible` is the claim without the overlap.
* "Its projection is therefore removed as well" (`memory/service.go:1011`), unless
  `CreateEntry` is still indexing it and inserts the row again.
  `LeftoversAreKnown` says that, with a delete that is pending or was reported as
  failed, this is all that can be left, and that superseding once more removes it.
* "The chunk row remains status=failed and keeps serving the PostgreSQL lexical
  fallback" (`catalog_service.go:122`): `MarkDocumentFailed` runs on the context
  that has just failed, so after a cancellation the row stays pending, which
  neither leg of a search returns.
* The over-fetch of `SearchWiki` multiplies `top_k` by four; from 13 to 20 that is
  more than the 50 the retrieval service accepts, which then falls back to 8
  candidates (`wiki_search.go:242`, `retrieval/service.go:265`), although the
  over-fetch is there so that a page does not "crowd out every other answer"
  (`wiki_search.go:234`). `SearchServesBest` claims completeness up to that limit and
  nothing beyond it. A search over
  several sources filters after the fetch and may miss what other sources crowd
  out; the raw search does not ask for the active revision.
* "It does not reorder semantically better matches" (`memory/service.go:1118`) is said
  of the feedback on memories; an adjustment of up to 0.15 is large next to
  reciprocal ranks of 1/60.

Memories, journal:

* Saving the contents A, B and A again is a replay of the first A: B stays the
  latest checkpoint. An event at, or dated before, the time of the checkpoint, or
  committed late, is neither in it nor after it.
* `Resume` and the journal of a session return the oldest events up to their limit
  (200, 50), without saying that there are more.

Sources and skills:

* A disabled source becomes active or in error when an ingest under way ends, which
  `docs/skill-registry-design-v0.1.md:252` and `:437` exclude.
* The sync state of a local source stays `failed` after a later snapshot has
  succeeded. A failure that is recorded late replaces the state of a sync that has
  succeeded since. Registering a source again writes the client's metadata as they
  are: without a sync state it is lost, and one that was read before the last sync
  comes back and names what is no longer served. `SyncDescribesActive` speaks of states that an
  ingest recorded.
* Renaming a Git source of a skill without a name in its package makes the sync of
  a package that was ingested before fail.
* Between an activation and its index run, a search serves the previous version.
* An empty Markdown file is indexed from Git and not from a push, with the same
  package hash. An archive of a skill is not checked for UTF-8.

Judgements and packs:

* A second review that is skipped keeps the findings and replaces the status and
  the page counts of the first: of "must not destroy the verdict of one that did"
  (`wiki_review_repo.go:40`) half is kept, and no property here says that the other
  half were. The reviewer on a row is the one configured at the enqueue until a
  review has run, also if it is the model that compiled the build; `VerdictIsEarned`
  asks for another one only of a review that was not skipped.
* A query of any namespace but the wiki's counts as raw, but across from a query of
  the wiki only those of `knowledge` do. `source_gap` is reported though the other
  layer was never asked, against "rather than pretending the query said nothing"
  (`wiki_validation_repo.go:37`) and `wiki_validation.go:83`: never asked and nothing
  there are one to `AttributionIsEvidenced` as they are to the code. A signal without a build is charged to
  the build that is active when it is reported.
* The identity of a contract joins lists with commas and compares values by case;
  pins are sorted in it although their order ranks the answer.
  `KnowledgeDiscovery` assumes values without commas that differ in more than case.
* `compiledArtifactCurrent` does not compare the contract; a check that has become
  inapplicable is not a regression; the leak check of the L0 card fails for a skill
  with a trigger such as "content", or with a body of one word that its card repeats
  (`quotes` in `SkillQuality`; `QualityIsEarned` allows the failure for no other reason).
* An oversized section whose first paragraph is too long gives a chunk of a heading
  alone (`chunker.go:41`); a text file of lines that look like headings gives none.
* The note of a pack says that nothing matched also when everything was dropped for
  its budget; at the minimum budget the task's share is below the smallest item, so
  a longer goal is dropped whole; a larger `max_chars` may take up to three
  characters from the largest layer.
