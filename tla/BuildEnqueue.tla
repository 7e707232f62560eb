---------------------------- MODULE BuildEnqueue ----------------------------
(***************************************************************************)
(* Which builds a source gets and which one it serves                      *)
(* (internal/knowledge/wiki_service.go, wiki_repo.go): EnqueueCompile      *)
(* reuses a succeeded build of the same inputs, chooses the parent of an   *)
(* incremental one, and queues a row; workers decide it later and may move *)
(* active_build_id; so do reuse and rollback.  Meanwhile the active        *)
(* revision moves (SourceIngest) and replicas with another model roll out. *)
(* What a worker does with a row is BuildQueue's subject; here its run is  *)
(* the step that decides the row, and the activation after it.             *)
(***************************************************************************)
EXTENDS Naturals, Sequences, FiniteSets, FiniteSetsExt

CONSTANTS
  Packages,    \* revisions of the source, all with indexable documents
  Profile(_),  \* the profile version a revision's manifest resolves to
  Compilers,   \* compiler identities: model, compiler and prompt version
  Fleets,      \* the compilers that the replicas of a deployment may have: more
               \* than one while a change rolls out
  Clients,     \* whoever calls EnqueueCompile
  Asks,        \* bound: what they ask for, a mode, force and activate_on_success
  Room(_),     \* bound: builds of the source, for a fleet
  MaxBuilds,   \* bound: the most of these
  None         \* no value

ASSUME NoneAssumption == None \notin Packages
ASSUME FleetsAssumption == Fleets \subseteq SUBSET Compilers
ASSUME MaxBuildsAssumption == MaxBuilds \in Nat /\ \A f \in Fleets : Room(f) \in 0 .. MaxBuilds

VARIABLES
  revision,    \* knowledge_sources.active_revision_id
  builds,      \* knowledge_build_revisions of the source, by created_at
  serving,     \* knowledge_sources.active_build_id, 0 if NULL
  request,     \* the EnqueueCompile of each client
  calm,        \* history: so far every row was compiled by the compiler it names
  fleet        \* the compilers of this deployment; it never changes

vars == <<revision, builds, serving, request, calm, fleet>>

Modes    == {"full", "incremental"}
Ids      == 1 .. Len(builds)
Question == [mode : Modes, force : BOOLEAN, activate : BOOLEAN]

\* A poll asks for the wiki of what is there now, by whatever builds it has.
Poll == [mode |-> "full", force |-> FALSE, activate |-> TRUE]

ASSUME AsksAssumption == Asks \subseteq Question /\ Poll \in Asks

\* activate: activate_on_success, until the run has acted on it.  made: whose
\* model wrote the pages.
BuildRows ==
  [rev : Packages, compiler : Compilers, mode : Modes, parent : 0 .. MaxBuilds,
   activate : BOOLEAN, status : {"queued", "succeeded", "failed"},
   made : SUBSET Compilers]

NoRequest == [pc |-> "idle", rev |-> None, compiler |-> None, mode |-> "full",
              force |-> FALSE, activate |-> FALSE, parent |-> 0, target |-> 0]

Init ==
  /\ revision = None /\ serving = 0 /\ builds = <<>>
  /\ request = [c \in Clients |-> NoRequest]
  /\ calm = TRUE /\ fleet \in Fleets

-----------------------------------------------------------------------------
\* SourceIngest moves the pointer, to a new revision or back to an old one.
Ingest(p) ==
  /\ revision' = p
  /\ UNCHANGED <<builds, serving, request, calm, fleet>>

-----------------------------------------------------------------------------
\* PreviousSucceededBuild with nothing excluded, FindBuildByInputIdentity: the
\* newest succeeded build that qualifies, 0 if there is none.
Newest(S) == IF S = {} THEN 0 ELSE Max(S)

Succeeded == {i \in Ids : builds[i].status = "succeeded"}

\* Mutant: the newest build, whatever became of it.
PreviousAny == Newest(Ids)

PreviousSucceeded == Newest(Succeeded)

SameInput(i, q) ==
  /\ builds[i].rev = q.rev /\ builds[i].compiler = q.compiler
  /\ builds[i].mode = q.mode /\ builds[i].parent = q.parent

\* The checks of EnqueueCompile and of runIncremental agree.
\* Mutant: any parent will do.
CompatibleAlways(i, rev, k) == i \in Ids

Compatible(i, rev, k) ==
  /\ builds[i].compiler = k
  /\ Profile(builds[i].rev) = Profile(rev)

Covers(i, q) ==
  /\ builds[i].rev = q.rev /\ builds[i].compiler = q.compiler

Ask(c, a) ==
  /\ request[c].pc = "idle" /\ revision # None
  /\ \E k \in fleet :
       request' = [request EXCEPT ![c] =
         [NoRequest EXCEPT !.pc = IF a.mode = "full" THEN "looking" ELSE "parent",
                           !.rev = revision, !.compiler = k, !.mode = a.mode,
                           !.force = a.force, !.activate = a.activate]]
  /\ UNCHANGED <<revision, builds, serving, calm, fleet>>

End(c) == request' = [request EXCEPT ![c] = NoRequest]

\* No parent or an incompatible one: refused.  One that compiled this very
\* revision: reused, unless forced.
FindParent(c) ==
  LET q == request[c]
      i == PreviousSucceeded
  IN /\ q.pc = "parent"
     /\ IF i = 0 \/ ~Compatible(i, q.rev, q.compiler) THEN End(c)
        ELSE request' = [request EXCEPT ![c] =
               IF ~q.force /\ Covers(i, q)
               THEN [q EXCEPT !.pc = "activating", !.target = i]
               ELSE [q EXCEPT !.pc = "looking", !.parent = i]]
     /\ UNCHANGED <<revision, builds, serving, calm, fleet>>

FindBuildByInputIdentity(c) ==
  LET q == request[c]
      i == IF q.force THEN 0 ELSE Newest({j \in Succeeded : SameInput(j, q)})
  IN /\ q.pc = "looking"
     /\ request' = [request EXCEPT ![c].pc = IF i = 0 THEN "inserting" ELSE "activating",
                                   ![c].target = i]
     /\ UNCHANGED <<revision, builds, serving, calm, fleet>>

CreateBuild(c) ==
  LET q == request[c]
  IN /\ q.pc = "inserting" /\ Len(builds) < Room(fleet)
     /\ builds' = Append(builds,
          [rev |-> q.rev, compiler |-> q.compiler, mode |-> q.mode,
           parent |-> q.parent, activate |-> q.activate, status |-> "queued",
           made |-> {}])
     /\ End(c)
     /\ UNCHANGED <<revision, serving, calm, fleet>>

\* Mutant: a build that is reused is activated only where nothing is served yet.
MaybeActivateFirst(c) ==
  LET q == request[c]
  IN /\ q.pc = "activating"
     /\ serving' = IF q.activate /\ q.target \in Succeeded /\ serving = 0
                   THEN q.target ELSE serving
     /\ End(c)
     /\ UNCHANGED <<revision, builds, calm, fleet>>

\* A build that has failed since it was found is not activated.
MaybeActivate(c) ==
  LET q == request[c]
  IN /\ q.pc = "activating"
     /\ serving' = IF q.activate /\ q.target \in Succeeded THEN q.target ELSE serving
     /\ End(c)
     /\ UNCHANGED <<revision, builds, calm, fleet>>

\* An error, or a client that hangs up.
HangUp(c) ==
  /\ request[c].pc # "idle"
  /\ End(c)
  /\ UNCHANGED <<revision, builds, serving, calm, fleet>>

\* ActivateBuild by name, the way to roll back.
ActivateBuild(i) ==
  /\ i \in Succeeded
  /\ serving' = i
  /\ UNCHANGED <<revision, builds, request, calm, fleet>>

-----------------------------------------------------------------------------
\* Which compilers' pages an incremental build can end up with: those of its
\* parent and those its worker writes.
Merged(i, k) == {builds[builds[i].parent].made, {k},
                 builds[builds[i].parent].made \cup {k}}

\* RunBuild up to CommitBuild: the worker compiles with the model it has.
RunBuild(i, k) ==
  /\ builds[i].status = "queued"
  /\ \E made \in IF builds[i].mode = "full" THEN {{k}} ELSE Merged(i, k) :
       builds' = [builds EXCEPT ![i].status = "succeeded", ![i].made = made]
  /\ calm' = (calm /\ k = builds[i].compiler)
  /\ UNCHANGED <<revision, serving, request, fleet>>

Pending(i) == builds[i].status = "succeeded" /\ builds[i].activate

\* finishBuild looks at the id alone: a failed compile or check; the lost answer
\* of a commit that was applied; or a run that has lost its lease and comes late,
\* when the build may long be served.
FinishFailed(i) ==
  /\ builds[i].status \in {"queued", "succeeded"}
  /\ builds' = [builds EXCEPT ![i].status = "failed", ![i].activate = FALSE]
  /\ UNCHANGED <<revision, serving, request, calm, fleet>>

\* activate_on_success, or its silent failure.
ActivateOnSuccess(i) ==
  /\ Pending(i)
  /\ builds' = [builds EXCEPT ![i].activate = FALSE]
  /\ serving' \in {i, serving}
  /\ UNCHANGED <<revision, request, calm, fleet>>

\* What is left to do for a row.
Worker(i) ==
  \/ \E k \in fleet : RunBuild(i, k)
  \/ builds[i].status = "queued" /\ FinishFailed(i)
  \/ ActivateOnSuccess(i)

Answer(c) ==
  FindParent(c) \/ FindBuildByInputIdentity(c) \/ CreateBuild(c) \/ MaybeActivate(c)

Next ==
  \/ \E p \in Packages : Ingest(p)
  \/ \E c \in Clients, a \in Asks : Ask(c, a)
  \/ \E c \in Clients : Answer(c) \/ HangUp(c)
  \/ \E i \in Ids : ActivateBuild(i) \/ Worker(i) \/ FinishFailed(i)

Polls(c) ==
  /\ request[c].mode = Poll.mode /\ request[c].force = Poll.force
  /\ request[c].activate = Poll.activate

\* The workers go on (BuildQueue's BuildsEnd), requests end, and a client that
\* keeps polling gets each step of a poll done now and then, whatever else it asks
\* for and however often it hangs up.  No row need ever fail once it has succeeded.
Fairness ==
  /\ WF_vars(\E i \in Ids : Worker(i))
  /\ \A c \in Clients :
       /\ WF_vars(Answer(c) \/ HangUp(c)) /\ SF_vars(Ask(c, Poll))
       /\ SF_vars(Polls(c) /\ FindBuildByInputIdentity(c))
       /\ SF_vars(Polls(c) /\ (CreateBuild(c) \/ MaybeActivate(c)))

Spec == Init /\ [][Next]_vars
FairSpec == Spec /\ Fairness

-----------------------------------------------------------------------------
Requests ==
  [pc : {"idle", "parent", "looking", "inserting", "activating"},
   rev : Packages \cup {None}, compiler : Compilers \cup {None}, mode : Modes,
   force : BOOLEAN, activate : BOOLEAN, parent : 0 .. MaxBuilds, target : 0 .. MaxBuilds]

TypeOK ==
  /\ revision \in Packages \cup {None}
  /\ builds \in Seq(BuildRows) /\ Len(builds) <= Room(fleet)
  /\ serving \in 0 .. Len(builds) /\ calm \in BOOLEAN /\ fleet \in Fleets
  /\ request \in [Clients -> Requests]

\* What an incremental build is an increment of: an older build of the same
\* compiler and profile, with pages of its own to reuse, however the newest
\* succeeded build changed between the request, the insertion and the run.
LineageOK ==
  \A i \in Ids :
    /\ builds[i].mode = "full" <=> builds[i].parent = 0
    /\ builds[i].parent # 0 =>
         /\ builds[i].parent < i
         /\ builds[builds[i].parent].made # {}
         /\ builds[builds[i].parent].compiler = builds[i].compiler
         /\ Profile(builds[builds[i].parent].rev) = Profile(builds[i].rev)

\* "a build recorded model=qwen while every page came from a deepseek run" (the
\* comment on the check of the parent in wiki_incremental.go): a build's pages,
\* the reused ones included, are of the model its row names.
ProvenanceIsTrue ==
  \A i \in Ids : builds[i].status = "succeeded" => builds[i].made = {builds[i].compiler}

\* So they are as long as no row is run by a replica of another model than the one
\* that queued it.
CalmProvenance == calm => ProvenanceIsTrue

\* While calm, what a row's pages were written by is what the row says.
CalmMade == calm => \A i \in Ids : builds[i].made \in {{}, {builds[i].compiler}}

\* A succeeded build was written by somebody, and so was the served one.
Written ==
  /\ \A i \in Ids : builds[i].status = "succeeded" => builds[i].made # {}
  /\ serving # 0 => builds[serving].made # {}

\* What a request on its way knows stays true of the builds it names.
RequestOK(q) ==
  /\ q.pc # "idle" => q.rev \in Packages /\ q.compiler \in Compilers
  /\ q.pc = "activating" => q.target # 0
  /\ q.target \in 0 .. Len(builds) /\ q.parent \in 0 .. Len(builds)
  /\ q.parent # 0 => /\ builds[q.parent].made # {}
                     /\ builds[q.parent].compiler = q.compiler
                     /\ Profile(builds[q.parent].rev) = Profile(q.rev)
  /\ q.pc = "parent" => q.mode = "incremental"
  /\ q.pc \in {"looking", "inserting"} => (q.mode = "full" <=> q.parent = 0)

RequestsOK == \A c \in Clients : RequestOK(request[c])

IInv == TypeOK /\ LineageOK /\ CalmMade /\ Written /\ RequestsOK

\* Once the revision settles, a source that is polled comes to serve the wiki of
\* that revision again and again, whatever older builds finish late, however often
\* the same work was queued, and whoever rolls the source back.  The exception is
\* a source that may have no more builds and has no succeeded full one of this
\* revision by some compiler that is asked for it.
Current == serving # 0 /\ builds[serving].rev = revision

Exhausted ==
  /\ Len(builds) = Room(fleet)
  /\ \E k \in fleet : ~ \E i \in Succeeded :
       builds[i].rev = revision /\ builds[i].compiler = k /\ builds[i].mode = "full"

Converges ==
  \A p \in Packages : <>[](revision = p) => []<>(Current \/ Exhausted)
=============================================================================
