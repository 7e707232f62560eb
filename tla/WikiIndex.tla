----------------------------- MODULE WikiIndex -----------------------------
(***************************************************************************)
(* Indexing the active wiki build of one source for search                 *)
(* (internal/knowledge/wiki_search.go): IndexActiveWikiBuilds walks the    *)
(* pages of the build the pointer named when it began, one IndexDocument   *)
(* after the other, while the pointer moves on and other requests index    *)
(* the same source.  SearchWiki filters by the pointer, never by the       *)
(* index; WikiIndexStatuses tells a caller when the two differ.            *)
(***************************************************************************)
EXTENDS Naturals, FiniteSets

CONSTANTS
  Builds,      \* succeeded builds of the source: BuildQueue's outcome
  Pages,       \* indexable chunks of every build (all pages but wiki/log.md)
  Indexers,    \* requests to index the source
  MaxErrors,   \* maxIndexErrorsPerSource
  None,        \* NULL active_build_id, indexed_build_id
  MayFail      \* may calls fail, answers get lost and processes die?

ASSUME ErrorsAssumption == MaxErrors \in Nat
ASSUME MayFailAssumption == MayFail \in BOOLEAN
ASSUME BuildsAssumption == None \notin Builds /\ None \notin Builds \X Pages

VARIABLES
  docs, call,   \* see RetrievalIndex
  active,       \* knowledge_sources.active_build_id
  indexed,      \* knowledge_sources.indexed_build_id
  job,          \* the indexWikiBuild of each request
  calm,         \* history: so far no call failed and no two runs overlapped
  lone          \* history: the runs that were alone at work since they began

vars == <<docs, call, active, indexed, job, calm, lone>>

\* A page belongs to one build, and its id is part of the key.
Keys == Builds \X Pages

Index == INSTANCE RetrievalIndex WITH NoKey <- None

Jobs == [pc : {"idle", "cleaning", "paging"}, build : Builds \cup {None},
         todo : SUBSET Pages, errors : 0 .. MaxErrors]

NoJob == [pc |-> "idle", build |-> None, todo |-> {}, errors |-> 0]

Init == /\ Index!Init
        /\ active = None /\ indexed = None
        /\ job = [i \in Indexers |-> NoJob]
        /\ calm = TRUE /\ lone = {}

EndJob(i) == job' = [job EXCEPT ![i] = NoJob]

\* ActivateBuild, or a rollback.
Activate(b) ==
  /\ active' = b
  /\ UNCHANGED <<docs, call, indexed, job>>

\* ListSourcesWithActiveBuild, ListPages.
StartIndex(i) ==
  /\ job[i].pc = "idle" /\ active # None
  /\ job' = [job EXCEPT ![i] = [pc |-> "cleaning", build |-> active,
                                todo |-> Pages, errors |-> 0]]
  /\ UNCHANGED <<docs, call, active, indexed>>

\* Mutant: only the rows of the build that was marked are deleted.
OthersMarked(b) == {k \in Keys : k[1] = indexed /\ k[1] # b}

\* Rows of every build of the source but this one are deleted.
Others(b) == {k \in Keys : k[1] # b}

Clean(i) ==
  /\ job[i].pc = "cleaning"
  /\ Index!Delete(Others(job[i].build))
  /\ job' = [job EXCEPT ![i].pc = "paging"]
  /\ UNCHANGED <<active, indexed>>

CleanFails(i) ==
  /\ MayFail /\ job[i].pc = "cleaning"
  /\ UNCHANGED <<docs, call>> \/ Index!Delete(Others(job[i].build))
  /\ EndJob(i)
  /\ UNCHANGED <<active, indexed>>

IndexPage(i, p) ==
  /\ job[i].pc = "paging" /\ p \in job[i].todo
  /\ Index!Begin(i, <<job[i].build, p>>)
  /\ job' = [job EXCEPT ![i].todo = @ \ {p}]
  /\ UNCHANGED <<active, indexed>>

IndexStep(i) == Index!CallStep(i) /\ UNCHANGED <<active, indexed, job>>

\* A failed chunk is counted and skipped; one too many aborts the run.
PageReturns(i) ==
  /\ Index!Return(i)
  /\ IF call[i].pc = "done" THEN UNCHANGED job
     ELSE IF job[i].errors = MaxErrors THEN EndJob(i)
     ELSE job' = [job EXCEPT ![i].errors = @ + 1]
  /\ UNCHANGED <<active, indexed>>

\* The rows of chunks this build no longer produces are deleted (there are none
\* while the chunker is the same), and MarkWikiIndexed sets the pointer.
Paged(i) == job[i].pc = "paging" /\ job[i].todo = {} /\ call[i].pc = "idle"

\* Mutant: the build served now is marked, not the one that was indexed.
MarkServed(i) ==
  /\ Paged(i)
  /\ indexed' = active
  /\ EndJob(i)
  /\ UNCHANGED <<docs, call, active>>

MarkWikiIndexed(i) ==
  /\ Paged(i)
  /\ indexed' = job[i].build
  /\ EndJob(i)
  /\ UNCHANGED <<docs, call, active>>

MarkWikiFails(i) ==
  /\ MayFail /\ Paged(i)
  /\ indexed' \in {indexed, job[i].build}
  /\ EndJob(i)
  /\ UNCHANGED <<docs, call, active>>

\* The request's process dies, or its client hangs up.
Abandon(i) ==
  /\ MayFail /\ job[i].pc # "idle"
  /\ EndJob(i)
  /\ \/ Index!Abandon(i)
     \/ call[i].pc = "idle" /\ UNCHANGED <<docs, call>>
  /\ UNCHANGED <<active, indexed>>

Work(i) ==
  \/ StartIndex(i) \/ Clean(i) \/ \E p \in Pages : IndexPage(i, p)
  \/ IndexStep(i) \/ PageReturns(i) \/ MarkWikiIndexed(i)

Failure(i) == CleanFails(i) \/ MarkWikiFails(i) \/ Abandon(i)

Busy(i) == job[i].pc # "idle"

Undisturbed == /\ \A i \in Indexers : call[i].pc \notin {"failing", "failed"}
               /\ \A i, j \in Indexers : Busy(i) /\ Busy(j) => i = j

Lone == lone' = {i \in Indexers : /\ Busy(i)' /\ (Busy(i) => i \in lone)
                                  /\ \A j \in Indexers : Busy(j)' => j = i}

Next == \/ \E b \in Builds : Activate(b) /\ UNCHANGED <<calm, lone>>
        \/ \E i \in Indexers : Work(i) /\ calm' = (calm /\ Undisturbed') /\ Lone
        \/ \E i \in Indexers : Failure(i) /\ calm' = FALSE /\ Lone

Spec == Init /\ [][Next]_vars

-----------------------------------------------------------------------------
\* SearchWiki with a query every page matches: the hits that survive the filter
\* on the active build.
Hits == {k \in Keys : Index!Found(k) /\ k[1] = active}

\* WikiIndexStatuses.
Stale == active # None /\ indexed # active

JobsOK ==
  /\ active \in Builds \cup {None} /\ indexed \in Builds \cup {None}
  /\ job \in [Indexers -> Jobs]
  /\ \A i \in Indexers : job[i].pc # "idle" => job[i].build \in Builds

TypeOK == Index!TypeOK /\ JobsOK /\ calm \in BOOLEAN /\ lone \subseteq Indexers

\* A search that finds less than the whole active wiki can be told from a wiki
\* with nothing to say: either the source reads as stale, or a run is at work.
\* (Migration 29: that difference must not be "invisible".)  Two overlapping
\* runs refute it.
GapIsVisible ==
  active # None /\ Hits # {active} \X Pages
    => Stale \/ \E i \in Indexers : Busy(i)

\* So it is, wherever the pointer moves meanwhile, as long as runs do not overlap
\* and no call fails: a run marks the build it indexed, not the one served now.
CalmGapIsVisible == calm => GapIsVisible

\* Whatever is there when it begins, left by runs that gave up at a failed chunk,
\* died, or deleted each other's work, a run that stays alone ends with no row of
\* another build, and with every chunk of its own indexed unless one has failed:
\* to index the source once more is enough.
LoneRunIsWhole ==
  \A i \in lone : Paged(i) =>
    /\ \A k \in Keys : k[1] # job[i].build => docs[k].status = "absent"
    /\ job[i].errors = 0 => \A p \in Pages : docs[<<job[i].build, p>>].status = "indexed"

\* Why: a call is one of its run, for a chunk the run has begun; and while calm there
\* is one run at most, its calls keep their rows, and what it has begun is indexed
\* but for the chunk it is at.  So the build it marks is whole.
CallOfRun(i) ==
  call[i].pc # "idle" =>
    job[i].pc = "paging" /\ \E p \in Pages \ job[i].todo : call[i].key = <<job[i].build, p>>

RunOK(i) ==
  /\ job[i].pc = "cleaning" => job[i].todo = Pages
  /\ job[i].pc = "paging" =>
       \A p \in Pages \ job[i].todo :
         \/ docs[<<job[i].build, p>>].status = "indexed"
         \/ call[i].pc # "idle" /\ call[i].key = <<job[i].build, p>>
  /\ call[i].pc \notin {"idle", "registering"} => call[i].own
  /\ call[i].pc \in {"reading", "done"} => docs[call[i].key].status = "indexed"

Rested ==
  indexed # None /\ (\A i \in Indexers : ~Busy(i))
    => \A p \in Pages : docs[<<indexed, p>>].status = "indexed"

GapInv ==
  /\ \A i \in Indexers : CallOfRun(i)
  /\ calm => Undisturbed /\ Rested /\ \A i \in Indexers : RunOK(i)

\* The same for a lone run, whose failed chunks are counted.
LoneOK(i) ==
  /\ Busy(i) /\ \A j \in Indexers : Busy(j) => j = i
  /\ job[i].pc = "cleaning" => job[i].todo = Pages
  /\ job[i].pc = "paging" => \A k \in Keys : k[1] # job[i].build => docs[k].status = "absent"
  /\ job[i].pc = "paging" /\ job[i].errors = 0 =>
       \A p \in Pages \ job[i].todo :
         \/ docs[<<job[i].build, p>>].status = "indexed"
         \/ call[i].pc # "idle" /\ call[i].key = <<job[i].build, p>>
  /\ call[i].pc \notin {"idle", "registering", "failing", "failed"} => call[i].own
  /\ call[i].pc \in {"reading", "done"} => docs[call[i].key].status = "indexed"

LoneInv == lone \subseteq Indexers /\ \A i \in lone : LoneOK(i)
=============================================================================
