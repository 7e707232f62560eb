--------------------------- MODULE Indexing_proof ---------------------------
(***************************************************************************)
(* Proofs about how documents come into an index.                          *)
(*                                                                         *)
(* WikiIndex: indexing runs are clients of the retrieval service, for any  *)
(* builds, pages, requests and failures, so the service's own theorem      *)
(* carries over to them.                                                   *)
(*                                                                         *)
(* DocumentChunks, for every document: its chunks hold it, in order, and   *)
(* nothing else, and its links stay inside its package                     *)
(* (DocumentsAreCarried).  A sequence that the code takes from another is  *)
(* told by its places there (Takes, Spans), a loop by induction on the     *)
(* recursive function it is (Recurs), and what a text holds by its runes,  *)
(* each a line and a place (Held, Sorted, Series).                         *)
(***************************************************************************)
EXTENDS WikiIndex, Documents, Selections,
        FiniteSetTheorems, FunctionTheorems, SequenceTheorems, WellFoundedInduction, TLAPS

\* The retrieval service and its theorems; no durable memories take part.
Service == INSTANCE RetrievalIndex_proof
  WITH NoKey <- None, entry <- [k \in Keys |-> "absent"], removing <- {}, warned <- {}, early <- {}

\* A run at work has a build: it began with the one the pointer named.
LEMMA JobsInit == Init => JobsOK
BY ErrorsAssumption DEF Init, JobsOK, Jobs, NoJob

\* Every step keeps that.
LEMMA JobsStep == JobsOK /\ [Next]_vars => JobsOK'
<1> SUFFICES ASSUME JobsOK, [Next]_vars PROVE JobsOK'
    OBVIOUS
<1>0. NoJob \in Jobs BY ErrorsAssumption DEF NoJob, Jobs
<1>1. ASSUME NEW b \in Builds, Activate(b) PROVE JobsOK'
      BY <1>1 DEF Activate, JobsOK
<1>2. ASSUME NEW i \in Indexers, EndJob(i), active' = active,
             indexed' \in Builds \cup {None}
      PROVE  JobsOK'
      BY <1>0, <1>2 DEF EndJob, JobsOK, NoJob
<1>3. ASSUME NEW i \in Indexers, NEW j \in Jobs, job' = [job EXCEPT ![i] = j],
             j.pc # "idle" => j.build \in Builds, UNCHANGED <<active, indexed>>
      PROVE  JobsOK'
      BY <1>3 DEF JobsOK
<1>4. ASSUME NEW i \in Indexers, Work(i) \/ Failure(i) PROVE JobsOK'
  <2>1. CASE StartIndex(i)
    <3> DEFINE j == [pc |-> "cleaning", build |-> active, todo |-> Pages, errors |-> 0]
    <3>1. j \in Jobs /\ j.build \in Builds
          BY <2>1, ErrorsAssumption DEF StartIndex, JobsOK, Jobs
    <3> QED BY <1>3, <2>1, <3>1 DEF StartIndex
  <2>2. CASE Clean(i)
    <3> DEFINE j == [job[i] EXCEPT !.pc = "paging"]
    <3>1. j \in Jobs /\ j.build \in Builds
          BY <2>2 DEF Clean, JobsOK, Jobs
    <3> QED BY <1>3, <2>2, <3>1 DEF Clean
  <2>3. ASSUME NEW p \in Pages, IndexPage(i, p) PROVE JobsOK'
    <3> DEFINE j == [job[i] EXCEPT !.todo = @ \ {p}]
    <3>1. j \in Jobs /\ j.build \in Builds
          BY <2>3 DEF IndexPage, JobsOK, Jobs
    <3> QED BY <1>3, <2>3, <3>1 DEF IndexPage
  <2>4. CASE IndexStep(i)
        BY <2>4 DEF IndexStep, JobsOK
  <2>5. CASE PageReturns(i)
    <3> DEFINE j == [job[i] EXCEPT !.errors = @ + 1]
    <3>1. CASE UNCHANGED job BY <2>5, <3>1 DEF PageReturns, JobsOK
    <3>2. CASE EndJob(i) BY <1>2, <2>5, <3>2 DEF PageReturns, JobsOK
    <3>3. CASE job[i].errors # MaxErrors /\ job' = [job EXCEPT ![i] = j]
      <4>1. job[i] \in Jobs /\ job[i].errors + 1 \in 0 .. MaxErrors
            BY <3>3, ErrorsAssumption DEF JobsOK, Jobs
      <4>2. j \in Jobs /\ (j.pc # "idle" => j.build \in Builds)
            BY <4>1 DEF JobsOK, Jobs
      <4> QED BY <1>3, <2>5, <3>3, <4>2 DEF PageReturns
    <3> QED BY <2>5, <3>1, <3>2, <3>3 DEF PageReturns
  <2>6. CASE CleanFails(i) \/ MarkWikiIndexed(i) \/ MarkWikiFails(i) \/ Abandon(i)
    <3>1. EndJob(i) /\ active' = active
          BY <2>6 DEF CleanFails, MarkWikiIndexed, MarkWikiFails, Abandon
    <3>2. indexed' \in {indexed, job[i].build}
          BY <2>6 DEF CleanFails, MarkWikiIndexed, MarkWikiFails, Abandon
    <3>3. indexed \in Builds \cup {None} /\ job[i].build \in Builds \cup {None}
          BY DEF JobsOK, Jobs
    <3> QED BY <1>2, <3>1, <3>2, <3>3
  <2> QED BY <1>4, <2>1, <2>2, <2>3, <2>4, <2>5, <2>6 DEF Work, Failure
<1>5. CASE UNCHANGED vars BY <1>5 DEF vars, JobsOK
<1> QED BY <1>1, <1>4, <1>5 DEF Next

\* Every step of a run is a step of the service or leaves it alone.
LEMMA StepMaps ==
  ASSUME JobsOK, [Next]_vars
  PROVE  [Index!Next]_<<docs, call>>
<1>1. ASSUME NEW b \in Builds, Activate(b) PROVE UNCHANGED <<docs, call>>
      BY <1>1 DEF Activate
<1>2. ASSUME NEW i \in Indexers, NEW S \in SUBSET Keys,
             \/ Index!CallStep(i) \/ Index!Return(i) \/ Index!Abandon(i)
             \/ (\E k \in Keys : Index!Begin(i, k)) \/ Index!Delete(S)
      PROVE  Index!Next
      BY <1>2 DEF Index!Next
<1>3. ASSUME NEW i \in Indexers, Work(i) \/ Failure(i) PROVE [Index!Next]_<<docs, call>>
  <2>1. CASE StartIndex(i) \/ MarkWikiIndexed(i) \/ MarkWikiFails(i)
        BY <2>1 DEF StartIndex, MarkWikiIndexed, MarkWikiFails
  <2>2. CASE Clean(i) \/ CleanFails(i)
    <3>1. CASE UNCHANGED <<docs, call>> BY <3>1
    <3>2. CASE Index!Delete(Others(job[i].build))
      <4>1. Others(job[i].build) \in SUBSET Keys BY DEF Others
      <4> QED BY <1>2, <3>2, <4>1
    <3> QED BY <2>2, <3>1, <3>2 DEF Clean, CleanFails
  <2>3. ASSUME NEW p \in Pages, IndexPage(i, p) PROVE Index!Next
    <3>1. <<job[i].build, p>> \in Keys
          BY <2>3 DEF IndexPage, JobsOK, Keys
    <3> QED BY <1>2, <2>3, <3>1 DEF IndexPage
  <2>4. CASE IndexStep(i) \/ PageReturns(i)
        BY <1>2, <2>4 DEF IndexStep, PageReturns
  <2>5. CASE Abandon(i)
        BY <1>2, <2>5 DEF Abandon
  <2> QED BY <1>3, <2>1, <2>2, <2>3, <2>4, <2>5 DEF Work, Failure
<1>4. CASE UNCHANGED vars BY <1>4 DEF vars
<1> QED BY <1>1, <1>3, <1>4 DEF Next

\* The two instances of the service's module are the same service.
LEMMA SameService ==
  /\ Index!Init <=> Service!Init
  /\ [Index!Next]_(Index!vars) <=> [Service!Next]_(Service!vars)
  /\ Index!IndexedHasPoint <=> Service!IndexedHasPoint
<1>1. Index!Init <=> Service!Init
      BY DEF Index!Init, Service!Init, Index!NoRow, Service!NoRow, Index!NoCall,
          Service!NoCall
<1>2. Index!Next <=> Service!Next
      BY DEF Index!At, Service!At, Index!To, Service!To, Index!Begin,
          Service!Begin, Index!Upserted, Service!Upserted, Index!Upsert,
          Service!Upsert, Index!UpsertFails, Service!UpsertFails,
          Index!Register, Service!Register, Index!RegisterFails,
          Service!RegisterFails, Index!Embed, Service!Embed, Index!EmbedFails,
          Service!EmbedFails, Index!Rewrite, Service!Rewrite,
          Index!RewriteFails, Service!RewriteFails, Index!Mark, Service!Mark,
          Index!Stored, Service!Stored, Index!Store, Service!Store,
          Index!StoreFails, Service!StoreFails, Index!MarkIndexed,
          Service!MarkIndexed, Index!MarkIndexedFails,
          Service!MarkIndexedFails, Index!MarkFailed, Service!MarkFailed,
          Index!Read, Service!Read, Index!ReadFails, Service!ReadFails,
          Index!Release, Service!Release, Index!Return, Service!Return,
          Index!Abandon, Service!Abandon, Index!Delete, Service!Delete,
          Index!CallStep, Service!CallStep, Index!Next, Service!Next,
          Index!NoCall, Service!NoCall, Index!NoRow, Service!NoRow
<1>3. Index!IndexedHasPoint <=> Service!IndexedHasPoint
      BY DEF Index!IndexedHasPoint, Service!IndexedHasPoint
<1> QED BY <1>1, <1>2, <1>3 DEF Index!vars, Service!vars

\* So the service's own invariant holds here.
LEMMA ServiceHolds == Spec => []Service!IInv
<1>1. Init => Service!IInv
      BY SameService, BuildsAssumption, MayFailAssumption, Service!InitIInv
      DEF Init, Keys
<1>2. Service!IInv /\ JobsOK /\ [Next]_vars => Service!IInv'
  <2> SUFFICES ASSUME Service!IInv, JobsOK, [Next]_vars PROVE Service!IInv'
      OBVIOUS
  <2>1. [Service!Next]_(Service!vars)
        BY StepMaps, SameService DEF Index!vars
  <2> QED BY <2>1, BuildsAssumption, MayFailAssumption, Service!StepIInv
          DEF Keys
<1> QED BY <1>1, <1>2, JobsInit, JobsStep, PTL DEF Spec

\* A chunk that says "indexed" has its own vector, through any number of
\* overlapping runs, pointer moves and failures.
THEOREM IndexedAlwaysHasPoint == Spec => []Index!IndexedHasPoint
<1>1. Service!IInv => Index!IndexedHasPoint
      BY SameService DEF Service!IInv
<1> QED BY <1>1, ServiceHolds, PTL

-----------------------------------------------------------------------------
\* A step inside a call keeps its key and touches no other call.
LEMMA CallKeeps ==
  ASSUME Index!TypeOK, NEW i \in Indexers, Index!CallStep(i)
  PROVE  /\ call[i].pc # "idle" /\ call'[i].pc # "idle"
         /\ call'[i].key = call[i].key
         /\ \A j \in Indexers \ {i} : call'[j] = call[j]
         /\ \A k \in Keys \ {call[i].key} : docs'[k] = docs[k]
<1>1. call \in [Indexers -> Index!Calls] BY DEF Index!TypeOK
<1>2. ASSUME NEW to, call' = [call EXCEPT ![i].pc = to]
      PROVE  /\ call'[i].pc = to /\ call'[i].key = call[i].key
             /\ \A j \in Indexers \ {i} : call'[j] = call[j]
      BY <1>1, <1>2 DEF Index!Calls
<1>3. ASSUME NEW to, call' = [call EXCEPT ![i].pc = to, ![i].own = TRUE]
      PROVE  /\ call'[i].pc = to /\ call'[i].key = call[i].key
             /\ \A j \in Indexers \ {i} : call'[j] = call[j]
      BY <1>1, <1>3 DEF Index!Calls
<1>9. \A k \in Keys \ {call[i].key} : docs'[k] = docs[k]
  <2>1. docs \in [Keys -> Index!Rows] BY DEF Index!TypeOK
  <2> QED BY <2>1
          DEF Index!CallStep, Index!Register, Index!Rewrite, Index!Upsert, Index!RegisterFails,
              Index!RewriteFails, Index!UpsertFails, Index!Upserted, Index!Embed,
              Index!EmbedFails, Index!Store, Index!StoreFails, Index!Stored, Index!MarkIndexed,
              Index!MarkIndexedFails, Index!MarkFailed, Index!Mark, Index!Read, Index!ReadFails
<1>4. CASE Index!Register(i) \/ Index!Rewrite(i)
      BY <1>3, <1>4, <1>9 DEF Index!Register, Index!Rewrite, Index!Upsert, Index!At
<1>5. CASE Index!RegisterFails(i) \/ Index!RewriteFails(i)
      BY <1>2, <1>5, <1>9 DEF Index!RegisterFails, Index!RewriteFails, Index!UpsertFails,
         Index!At, Index!To
<1>6. CASE Index!Embed(i) \/ Index!EmbedFails(i) \/ Index!Store(i) \/ Index!StoreFails(i)
      BY <1>2, <1>6, <1>9 DEF Index!Embed, Index!EmbedFails, Index!Store, Index!StoreFails,
         Index!At, Index!To
<1>7. CASE Index!MarkIndexed(i) \/ Index!MarkIndexedFails(i) \/ Index!MarkFailed(i)
      BY <1>2, <1>7, <1>9 DEF Index!MarkIndexed, Index!MarkIndexedFails, Index!MarkFailed,
         Index!At, Index!To
<1>8. CASE Index!Read(i) \/ Index!ReadFails(i)
      BY <1>2, <1>8, <1>9 DEF Index!Read, Index!ReadFails, Index!At, Index!To
<1> QED BY <1>4, <1>5, <1>6, <1>7, <1>8 DEF Index!CallStep

\* A call that is not failing owns its row, writes no other row, and has marked it
\* by the time it reads it back.
LEMMA CalmCall ==
  ASSUME Index!TypeOK, NEW i \in Indexers, Index!CallStep(i),
         call[i].key \in Keys,
         call[i].pc \notin {"idle", "registering"} => call[i].own,
         call[i].pc \in {"reading", "done"} => docs[call[i].key].status = "indexed",
         call'[i].pc \notin {"failing", "failed"}
  PROVE  /\ call'[i].own
         /\ \A k \in Keys \ {call[i].key} : docs'[k] = docs[k]
         /\ call'[i].pc \in {"reading", "done"} => docs'[call[i].key].status = "indexed"
<1>1. call \in [Indexers -> Index!Calls] /\ docs \in [Keys -> Index!Rows]
      BY DEF Index!TypeOK
<1>2. ASSUME NEW to, call' = [call EXCEPT ![i].pc = to]
      PROVE  call'[i].pc = to /\ call'[i].own = call[i].own
      BY <1>1, <1>2 DEF Index!Calls
<1>3. CASE Index!Register(i) \/ Index!Rewrite(i)
  <2>1. PICK to \in {"embedding", "storing"} :
          call' = [call EXCEPT ![i].pc = to, ![i].own = TRUE]
        BY <1>3 DEF Index!Register, Index!Rewrite, Index!Upsert
  <2>2. call'[i].pc = to /\ call'[i].own BY <1>1, <2>1 DEF Index!Calls
  <2>3. docs' = [docs EXCEPT ![call[i].key].status = "pending"]
        BY <1>3 DEF Index!Register, Index!Rewrite, Index!Upsert, Index!Upserted
  <2> QED BY <1>1, <2>1, <2>2, <2>3
<1>4. CASE Index!Embed(i)
      BY <1>2, <1>4 DEF Index!Embed, Index!At, Index!To
<1>5. CASE Index!Store(i)
  <2>1. call'[i].pc = "marking" /\ call'[i].own
        BY <1>2, <1>5 DEF Index!Store, Index!At, Index!To
  <2>2. docs' = [docs EXCEPT ![call[i].key].point = TRUE]
        BY <1>5 DEF Index!Store, Index!Stored, Index!At
  <2> QED BY <1>1, <2>1, <2>2
<1>6. CASE Index!MarkIndexed(i)
  <2>1. call'[i].pc = "reading" /\ call'[i].own
        BY <1>2, <1>6 DEF Index!MarkIndexed, Index!At, Index!To
  <2>2. docs' = [docs EXCEPT ![call[i].key].status = "indexed"]
        BY <1>6 DEF Index!MarkIndexed, Index!Mark, Index!At
  <2> QED BY <1>1, <2>1, <2>2 DEF Index!Rows
<1>7. CASE Index!Read(i)
  <2>1. call'[i].pc = "done" /\ call'[i].own
        BY <1>2, <1>7 DEF Index!Read, Index!At, Index!To
  <2> QED BY <1>7, <2>1 DEF Index!Read, Index!At
<1>8. ~ \/ Index!RegisterFails(i) \/ Index!EmbedFails(i) \/ Index!RewriteFails(i)
        \/ Index!StoreFails(i) \/ Index!MarkIndexedFails(i) \/ Index!MarkFailed(i)
        \/ Index!ReadFails(i)
      BY <1>2 DEF Index!RegisterFails, Index!EmbedFails, Index!RewriteFails,
         Index!UpsertFails, Index!StoreFails, Index!MarkIndexedFails, Index!MarkFailed,
         Index!ReadFails, Index!To
<1> QED BY <1>3, <1>4, <1>5, <1>6, <1>7, <1>8 DEF Index!CallStep
\* A call that has failed can only say so.
LEMMA FailedStays ==
  ASSUME Index!TypeOK, NEW i \in Indexers, Index!CallStep(i),
         call[i].pc \in {"failing", "failed"}
  PROVE  call'[i].pc \in {"failing", "failed"}
<1>1. Index!MarkFailed(i)
      BY DEF Index!CallStep, Index!Register, Index!Rewrite, Index!Upsert, Index!RegisterFails,
             Index!RewriteFails, Index!UpsertFails, Index!Embed, Index!EmbedFails, Index!Store,
             Index!StoreFails, Index!MarkIndexed, Index!MarkIndexedFails, Index!Read,
             Index!ReadFails, Index!At
<1> QED BY <1>1 DEF Index!MarkFailed, Index!To, Index!TypeOK

-----------------------------------------------------------------------------
\* At the start no run is at work.
LEMMA GapInit == Init => GapInv
BY BuildsAssumption
   DEF Init, GapInv, CallOfRun, Undisturbed, Busy, Rested, RunOK, NoJob, Index!Init,
       Index!NoCall, Index!NoRow

\* The run whose step leaves the state calm is the only one at work, and no other
\* request is in a call.
LEMMA Alone ==
  ASSUME JobsOK, GapInv, NEW i \in Indexers, Busy(i), calm
  PROVE  \A j \in Indexers \ {i} : job[j].pc = "idle" /\ call[j].pc = "idle"
BY DEF GapInv, Undisturbed, Busy, CallOfRun

\* The pointer may move at any time: the invariant does not mention it.
LEMMA GapActivate ==
  ASSUME GapInv, UNCHANGED <<docs, call, indexed, job, calm>>
  PROVE  GapInv'
BY DEF GapInv, CallOfRun, Undisturbed, Busy, Rested, RunOK

\* A run begins with nothing indexed that it need answer for.
LEMMA GapStart ==
  ASSUME JobsOK, GapInv, NEW i \in Indexers, StartIndex(i), calm' = (calm /\ Undisturbed')
  PROVE  GapInv'
<1>1. job'[i] = [pc |-> "cleaning", build |-> active, todo |-> Pages, errors |-> 0]
      BY DEF StartIndex, JobsOK
<1>2. \A j \in Indexers \ {i} : job'[j] = job[j]
      BY DEF StartIndex, JobsOK
<1>3. UNCHANGED <<docs, call, indexed>> BY DEF StartIndex
<1>4. call[i].pc = "idle" BY DEF StartIndex, GapInv, CallOfRun
<1>5. \A j \in Indexers : CallOfRun(j)' BY <1>1, <1>2, <1>3, <1>4 DEF CallOfRun, GapInv
<1>6. ASSUME calm' PROVE Rested' BY <1>1 DEF Rested, Busy
<1>7. ASSUME calm', NEW j \in Indexers PROVE RunOK(j)'
  <2>1. CASE j = i BY <1>1, <1>3, <1>4, <2>1 DEF RunOK
  <2>2. CASE j # i
    <3>1. RunOK(j) BY <1>7 DEF GapInv
    <3> QED BY <1>2, <1>3, <2>2, <3>1 DEF RunOK
  <2> QED BY <2>1, <2>2
<1> QED BY <1>5, <1>6, <1>7 DEF GapInv

\* Deleting the rows of other builds leaves every call its pc and its key.
LEMMA DeleteKeeps ==
  ASSUME Index!TypeOK, NEW S, Index!Delete(S), NEW i \in Indexers
  PROVE  call'[i].pc = call[i].pc /\ call'[i].key = call[i].key
BY DEF Index!TypeOK, Index!Delete, Index!Calls

\* Its clean-up deletes rows of other builds only.
LEMMA GapClean ==
  ASSUME Index!TypeOK, JobsOK, GapInv, NEW i \in Indexers, Clean(i),
         calm' = (calm /\ Undisturbed')
  PROVE  GapInv'
<1>1. job'[i].pc = "paging" /\ job'[i].build = job[i].build /\ job'[i].todo = job[i].todo
      BY DEF Clean, JobsOK, Jobs
<1>2. \A j \in Indexers \ {i} : job'[j] = job[j] BY DEF Clean, JobsOK
<1>3. \A j \in Indexers : call'[j].pc = call[j].pc /\ call'[j].key = call[j].key
      BY DeleteKeeps DEF Clean
<1>4. call[i].pc = "idle" BY DEF Clean, GapInv, CallOfRun
<1>5. \A j \in Indexers : CallOfRun(j)' BY <1>1, <1>2, <1>3, <1>4 DEF CallOfRun, GapInv
<1>6. ASSUME calm' PROVE Rested' BY <1>1 DEF Rested, Busy
<1>7. ASSUME calm', NEW j \in Indexers PROVE RunOK(j)'
  <2>1. calm /\ Busy(i) BY <1>7 DEF Clean, Busy
  <2>2. CASE j = i
    <3>1. job[i].todo = Pages BY <2>1 DEF Clean, GapInv, RunOK
    <3> QED BY <1>1, <1>3, <1>4, <2>2, <3>1 DEF RunOK
  <2>3. CASE j # i
        BY <1>2, <1>3, <2>1, <2>3, Alone DEF RunOK
  <2> QED BY <2>2, <2>3
<1> QED BY <1>5, <1>6, <1>7 DEF GapInv

\* Passing to the next chunk leaves the ones before it indexed.
LEMMA GapPage ==
  ASSUME Index!TypeOK, JobsOK, GapInv, NEW i \in Indexers, NEW p \in Pages,
         IndexPage(i, p), calm' = (calm /\ Undisturbed')
  PROVE  GapInv'
<1>1. /\ job[i].pc = "paging" /\ job'[i].pc = "paging" /\ job'[i].build = job[i].build
      /\ job'[i].todo = job[i].todo \ {p}
      BY DEF IndexPage, JobsOK, Jobs
<1>2. \A j \in Indexers \ {i} : job'[j] = job[j] /\ call'[j] = call[j]
      BY DEF IndexPage, JobsOK, Index!Begin, Index!TypeOK
<1>3. /\ call[i].pc = "idle" /\ UNCHANGED <<docs, indexed>>
      /\ call'[i] = [pc |-> "registering", key |-> <<job[i].build, p>>, own |-> FALSE]
      BY DEF IndexPage, Index!Begin, Index!At, Index!TypeOK
<1>4. \A j \in Indexers : CallOfRun(j)'
  <2> TAKE j \in Indexers
  <2>1. CASE j = i BY <1>1, <1>3, <2>1 DEF CallOfRun
  <2>2. CASE j # i BY <1>2, <2>2 DEF CallOfRun, GapInv
  <2> QED BY <2>1, <2>2
<1>5. ASSUME calm' PROVE Rested' BY <1>1 DEF Rested, Busy
<1>6. ASSUME calm', NEW j \in Indexers PROVE RunOK(j)'
  <2>1. calm /\ Busy(i) BY <1>1, <1>6 DEF Busy
  <2>2. CASE j = i
    <3>1. \A q \in Pages \ job[i].todo : docs[<<job[i].build, q>>].status = "indexed"
          BY <1>1, <1>3, <2>1 DEF GapInv, RunOK
    <3> QED BY <1>1, <1>3, <2>2, <3>1 DEF RunOK
  <2>3. CASE j # i BY <1>2, <2>1, <2>3, Alone DEF RunOK
  <2> QED BY <2>2, <2>3
<1> QED BY <1>4, <1>5, <1>6 DEF GapInv

\* A step of its call is at the chunk it is at.
LEMMA GapCall ==
  ASSUME Index!TypeOK, JobsOK, GapInv, NEW i \in Indexers, IndexStep(i),
         calm' = (calm /\ Undisturbed')
  PROVE  GapInv'
<1>1. UNCHANGED <<indexed, job>> BY DEF IndexStep
<1>2. /\ call[i].pc # "idle" /\ call'[i].pc # "idle" /\ call'[i].key = call[i].key
      /\ \A j \in Indexers \ {i} : call'[j] = call[j]
      BY CallKeeps DEF IndexStep
<1>3. \A j \in Indexers : CallOfRun(j)'
  <2> TAKE j \in Indexers
  <2>1. CASE j = i BY <1>1, <1>2, <2>1 DEF CallOfRun, GapInv
  <2>2. CASE j # i BY <1>1, <1>2, <2>2 DEF CallOfRun, GapInv
  <2> QED BY <2>1, <2>2
<1>4. PICK p \in Pages \ job[i].todo : call[i].key = <<job[i].build, p>>
      BY <1>2 DEF GapInv, CallOfRun
<1>5. job[i].pc = "paging" /\ Busy(i) /\ Busy(i)' /\ job[i].build \in Builds
      BY <1>1, <1>2 DEF GapInv, CallOfRun, Busy, JobsOK
<1>6. ASSUME calm' PROVE Rested' BY <1>5 DEF Rested
<1>7. ASSUME calm', NEW j \in Indexers PROVE RunOK(j)'
  <2>1. CASE j = i
    <3>1. RunOK(i) /\ Undisturbed' BY <1>7 DEF GapInv
    <3>2. call[i].key \in Keys BY <1>4, <1>5 DEF Keys
    <3>3. /\ call'[i].own
          /\ \A k \in Keys \ {call[i].key} : docs'[k] = docs[k]
          /\ call'[i].pc \in {"reading", "done"} => docs'[call[i].key].status = "indexed"
          BY <3>1, <3>2, CalmCall DEF IndexStep, RunOK, Undisturbed
    <3>4. \A q \in Pages : <<job[i].build, q>> \in Keys BY <1>5 DEF Keys
    <3>5. \A q \in Pages \ job[i].todo :
            docs'[<<job[i].build, q>>].status = "indexed" \/ call[i].key = <<job[i].build, q>>
          BY <1>5, <3>1, <3>3, <3>4 DEF RunOK
    <3> QED BY <1>1, <1>2, <1>5, <2>1, <3>3, <3>5 DEF RunOK
  <2>2. CASE j # i
    <3>1. job[j].pc = "idle" /\ call[j].pc = "idle" BY <1>7, <1>5, <2>2, Alone
    <3>2. job'[j] = job[j] /\ call'[j] = call[j] BY <1>1, <1>2, <2>2
    <3> QED BY <3>1, <3>2 DEF RunOK
  <2> QED BY <2>1, <2>2
<1> QED BY <1>3, <1>6, <1>7 DEF GapInv

\* While calm, the call that returns has indexed its chunk.
LEMMA GapReturn ==
  ASSUME Index!TypeOK, JobsOK, GapInv, NEW i \in Indexers, PageReturns(i),
         calm' = (calm /\ Undisturbed')
  PROVE  GapInv'
<1>1. /\ call[i].pc \in {"done", "failed"} /\ call'[i] = Index!NoCall
      /\ \A j \in Indexers \ {i} : call'[j] = call[j]
      /\ UNCHANGED <<docs, indexed>>
      BY DEF PageReturns, Index!Return, Index!Release, Index!TypeOK
<1>2. \A j \in Indexers \ {i} : job'[j] = job[j]
      BY DEF PageReturns, EndJob, JobsOK
<1>3. \A j \in Indexers : CallOfRun(j)'
  <2> TAKE j \in Indexers
  <2>1. CASE j = i BY <1>1, <2>1 DEF CallOfRun, Index!NoCall
  <2>2. CASE j # i BY <1>1, <1>2, <2>2 DEF CallOfRun, GapInv
  <2> QED BY <2>1, <2>2
<1>4. PICK p \in Pages \ job[i].todo : call[i].key = <<job[i].build, p>>
      BY <1>1 DEF GapInv, CallOfRun
<1>5. job[i].pc = "paging" /\ Busy(i) BY <1>1 DEF GapInv, CallOfRun, Busy
<1>6. ASSUME calm' PROVE call[i].pc = "done" /\ UNCHANGED job
  <2>1. call[i].pc # "failed" BY <1>6 DEF GapInv, Undisturbed
  <2> QED BY <1>1, <2>1 DEF PageReturns
<1>7. ASSUME calm' PROVE Rested' BY <1>5, <1>6, <1>7 DEF Rested, Busy
<1>8. ASSUME calm', NEW j \in Indexers PROVE RunOK(j)'
  <2>1. CASE j = i
    <3>1. RunOK(i) /\ call[i].pc = "done" /\ UNCHANGED job BY <1>6, <1>8 DEF GapInv
    <3>2. \A q \in Pages \ job[i].todo : docs[<<job[i].build, q>>].status = "indexed"
          BY <1>5, <3>1 DEF RunOK
    <3> QED BY <1>1, <1>5, <2>1, <3>1, <3>2 DEF RunOK, Index!NoCall
  <2>2. CASE j # i
    <3>1. job[j].pc = "idle" /\ call[j].pc = "idle" BY <1>8, <1>5, <2>2, Alone
    <3>2. job'[j] = job[j] /\ call'[j] = call[j] BY <1>1, <1>2, <2>2
    <3> QED BY <3>1, <3>2 DEF RunOK
  <2> QED BY <2>1, <2>2
<1> QED BY <1>3, <1>7, <1>8 DEF GapInv

\* The run has begun every chunk and is in no call: the build it marks is whole.
LEMMA GapMark ==
  ASSUME Index!TypeOK, JobsOK, GapInv, NEW i \in Indexers, MarkWikiIndexed(i),
         calm' = (calm /\ Undisturbed')
  PROVE  GapInv'
<1>1. /\ job[i].pc = "paging" /\ job[i].todo = {} /\ call[i].pc = "idle"
      /\ job'[i] = NoJob /\ \A j \in Indexers \ {i} : job'[j] = job[j]
      BY DEF MarkWikiIndexed, Paged, EndJob, JobsOK
<1>2. UNCHANGED <<docs, call>> /\ indexed' = job[i].build BY DEF MarkWikiIndexed
<1>3. \A j \in Indexers : CallOfRun(j)' BY <1>1, <1>2 DEF CallOfRun, GapInv
<1>4. ASSUME calm' PROVE Rested' /\ \A j \in Indexers : RunOK(j)'
  <2>1. RunOK(i) /\ \A j \in Indexers : RunOK(j) BY <1>4 DEF GapInv
  <2>2. \A p \in Pages : docs[<<job[i].build, p>>].status = "indexed"
        BY <1>1, <2>1 DEF RunOK
  <2>3. Rested' BY <1>2, <2>2 DEF Rested
  <2>4. \A j \in Indexers : RunOK(j)' BY <1>1, <1>2, <2>1 DEF RunOK, NoJob
  <2> QED BY <2>3, <2>4
<1> QED BY <1>3, <1>4 DEF GapInv

\* After a failure the state is not calm again; calls still belong to their runs.
LEMMA GapFailure ==
  ASSUME Index!TypeOK, JobsOK, GapInv, NEW i \in Indexers, Failure(i), calm' = FALSE
  PROVE  GapInv'
<1>1. job'[i] = NoJob /\ \A j \in Indexers \ {i} : job'[j] = job[j]
      BY DEF Failure, CleanFails, MarkWikiFails, Abandon, EndJob, JobsOK
<1>2. /\ call'[i].pc = "idle"
      /\ \A j \in Indexers \ {i} : call'[j].pc = call[j].pc /\ call'[j].key = call[j].key
  <2>1. CASE CleanFails(i)
    <3>1. call[i].pc = "idle" BY <2>1 DEF CleanFails, GapInv, CallOfRun
    <3> QED BY <2>1, <3>1, DeleteKeeps DEF CleanFails
  <2>2. CASE MarkWikiFails(i) BY <2>2 DEF MarkWikiFails, Paged
  <2>3. CASE Abandon(i)
        BY <2>3 DEF Abandon, Index!Abandon, Index!Release, Index!NoCall, Index!TypeOK
  <2> QED BY <2>1, <2>2, <2>3 DEF Failure
<1> QED BY <1>1, <1>2 DEF GapInv, CallOfRun

\* So every step keeps the invariant.
LEMMA GapStep ==
  ASSUME Index!TypeOK, JobsOK, GapInv, [Next]_vars
  PROVE  GapInv'
<1>1. ASSUME NEW b \in Builds, Activate(b), UNCHANGED calm PROVE GapInv'
      BY <1>1, GapActivate DEF Activate
<1>2. ASSUME NEW i \in Indexers, Work(i), calm' = (calm /\ Undisturbed') PROVE GapInv'
      BY <1>2, GapStart, GapClean, GapPage, GapCall, GapReturn, GapMark DEF Work
<1>3. ASSUME NEW i \in Indexers, Failure(i), calm' = FALSE PROVE GapInv'
      BY <1>3, GapFailure
<1>4. CASE UNCHANGED vars BY <1>4, GapActivate DEF vars
<1> QED BY <1>1, <1>2, <1>3, <1>4 DEF Next

\* What the invariant is for.
LEMMA GapInvShows == JobsOK /\ GapInv => CalmGapIsVisible
<1> SUFFICES ASSUME JobsOK, GapInv, calm, active # None, ~Stale,
                    \A i \in Indexers : ~Busy(i)
             PROVE  Hits = {active} \X Pages
    BY DEF CalmGapIsVisible, GapIsVisible
<1>1. indexed = active /\ active \in Builds BY DEF Stale, JobsOK
<1>2. \A p \in Pages : docs[<<active, p>>].status = "indexed"
      BY <1>1 DEF GapInv, Rested
<1>3. \A p \in Pages : <<active, p>> \in Hits
      BY <1>1, <1>2 DEF Hits, Keys, Index!Found, Index!Lexical
<1>4. \A k \in Hits : k \in {active} \X Pages BY DEF Hits, Keys
<1> QED BY <1>3, <1>4

\* As long as no call fails and no two runs overlap, an idle, unfinished index reads
\* as stale, for any pages, requests and moves of the pointer.
THEOREM GapVisibleWhileCalm == Spec => []CalmGapIsVisible
<1>1. Service!IInv => Index!TypeOK
      BY DEF Service!IInv, Service!TypeOK, Index!TypeOK, Service!Rows, Index!Rows,
         Service!Calls, Index!Calls
<1>2. Service!IInv /\ JobsOK /\ GapInv /\ [Next]_vars => GapInv'
      BY <1>1, GapStep
<1> QED BY <1>2, ServiceHolds, JobsInit, JobsStep, GapInit, GapInvShows, PTL DEF Spec

-----------------------------------------------------------------------------
\* A step of a run that was at work leaves no other run alone.
LEMMA LoneIs ==
  ASSUME LoneInv, Lone, NEW i \in Indexers, Busy(i),
         \A j \in Indexers \ {i} : job'[j] = job[j],
         NEW l \in lone'
  PROVE  l = i /\ i \in lone /\ Busy(i)' /\ \A j \in Indexers : Busy(j)' => j = i
<1>1. /\ l \in Indexers /\ Busy(l)' /\ (Busy(l) => l \in lone)
      /\ \A j \in Indexers : Busy(j)' => j = l
      BY DEF Lone
<1>2. ASSUME l # i PROVE FALSE
  <2>1. Busy(l) BY <1>1, <1>2 DEF Busy
  <2> QED BY <1>1, <1>2, <2>1 DEF LoneInv, LoneOK
<1> QED BY <1>1, <1>2

LEMMA LoneStart ==
  ASSUME JobsOK, GapInv, LoneInv, Lone, NEW i \in Indexers, StartIndex(i)
  PROVE  LoneInv'
<1>1. job'[i] = [pc |-> "cleaning", build |-> active, todo |-> Pages, errors |-> 0]
      BY DEF StartIndex, JobsOK
<1>2. call'[i].pc = "idle" BY DEF StartIndex, GapInv, CallOfRun
<1>3. Busy(i)' BY <1>1 DEF Busy
<1>4. ASSUME NEW l \in lone' PROVE l \in Indexers /\ LoneOK(l)'
  <2>1. l = i /\ l \in Indexers /\ \A j \in Indexers : Busy(j)' => j = i
        BY <1>3 DEF Lone
  <2> QED BY <1>1, <1>2, <1>3, <2>1 DEF LoneOK
<1> QED BY <1>4 DEF LoneInv

LEMMA LoneClean ==
  ASSUME Index!TypeOK, JobsOK, GapInv, LoneInv, Lone, NEW i \in Indexers, Clean(i)
  PROVE  LoneInv'
<1>1. job'[i].pc = "paging" /\ job'[i].build = job[i].build /\ job'[i].todo = job[i].todo
      BY DEF Clean, JobsOK, Jobs
<1>2. \A j \in Indexers \ {i} : job'[j] = job[j] BY DEF Clean, JobsOK
<1>3. call'[i].pc = "idle"
  <2>1. call[i].pc = "idle" BY DEF Clean, GapInv, CallOfRun
  <2> QED BY <2>1, DeleteKeeps DEF Clean
<1>4. \A k \in Keys : k[1] # job[i].build => docs'[k].status = "absent"
      BY DEF Clean, Index!Delete, Index!NoRow, Others
<1>5. ASSUME NEW l \in lone' PROVE l \in Indexers /\ LoneOK(l)'
  <2>1. l = i /\ i \in lone /\ Busy(i)' /\ \A j \in Indexers : Busy(j)' => j = i
        BY <1>2, LoneIs DEF Clean, Busy
  <2>2. job[i].todo = Pages BY <2>1 DEF Clean, LoneInv, LoneOK
  <2> QED BY <1>1, <1>3, <1>4, <2>1, <2>2 DEF LoneOK
<1> QED BY <1>5 DEF LoneInv

LEMMA LonePage ==
  ASSUME Index!TypeOK, JobsOK, LoneInv, Lone, NEW i \in Indexers, NEW p \in Pages,
         IndexPage(i, p)
  PROVE  LoneInv'
<1>1. /\ job[i].pc = "paging" /\ job'[i].pc = "paging" /\ job'[i].build = job[i].build
      /\ job'[i].todo = job[i].todo \ {p} /\ job'[i].errors = job[i].errors
      BY DEF IndexPage, JobsOK, Jobs
<1>2. \A j \in Indexers \ {i} : job'[j] = job[j] BY DEF IndexPage, JobsOK
<1>3. /\ call[i].pc = "idle" /\ docs' = docs
      /\ call'[i] = [pc |-> "registering", key |-> <<job[i].build, p>>, own |-> FALSE]
      BY DEF IndexPage, Index!Begin, Index!At, Index!TypeOK
<1>4. ASSUME NEW l \in lone' PROVE l \in Indexers /\ LoneOK(l)'
  <2>1. l = i /\ i \in lone /\ Busy(i)' /\ \A j \in Indexers : Busy(j)' => j = i
        BY <1>1, <1>2, LoneIs DEF Busy
  <2>2. LoneOK(i) BY <2>1 DEF LoneInv
  <2> QED BY <1>1, <1>3, <2>1, <2>2 DEF LoneOK
<1> QED BY <1>4 DEF LoneInv

\* A step of the lone run's call: its other chunks stay as they are, and unless it
\* fails its own is indexed in the end.
LEMMA LoneCall ==
  ASSUME Index!TypeOK, JobsOK, GapInv, LoneInv, Lone, NEW i \in Indexers, IndexStep(i)
  PROVE  LoneInv'
<1>1. UNCHANGED job BY DEF IndexStep
<1>2. /\ call[i].pc # "idle" /\ call'[i].pc # "idle" /\ call'[i].key = call[i].key
      /\ \A k \in Keys \ {call[i].key} : docs'[k] = docs[k]
      BY CallKeeps DEF IndexStep
<1>3. PICK p \in Pages \ job[i].todo : call[i].key = <<job[i].build, p>>
      BY <1>2 DEF GapInv, CallOfRun
<1>4. job[i].pc = "paging" /\ Busy(i) /\ job[i].build \in Builds /\ call[i].key \in Keys
      BY <1>2, <1>3 DEF GapInv, CallOfRun, Busy, JobsOK, Keys
<1>5. ASSUME NEW l \in lone' PROVE l \in Indexers /\ LoneOK(l)'
  <2>1. l = i /\ i \in lone /\ Busy(i)' /\ \A j \in Indexers : Busy(j)' => j = i
        BY <1>1, <1>4, LoneIs
  <2>2. LoneOK(i) BY <2>1 DEF LoneInv
  <2>3. \A k \in Keys : k[1] # job[i].build => docs'[k].status = "absent"
        BY <1>2, <1>3, <1>4, <2>2 DEF LoneOK
  <2>4. \A q \in Pages : <<job[i].build, q>> \in Keys BY <1>4 DEF Keys
  <2>5. job[i].errors = 0 =>
          \A q \in Pages \ job[i].todo :
            docs'[<<job[i].build, q>>].status = "indexed" \/ call[i].key = <<job[i].build, q>>
        BY <1>2, <1>4, <2>2, <2>4 DEF LoneOK
  <2>6. ASSUME call'[i].pc \notin {"failing", "failed"}
        PROVE  /\ call'[i].own
               /\ call'[i].pc \in {"reading", "done"} => docs'[call[i].key].status = "indexed"
    <3>1. call[i].pc \notin {"failing", "failed"}
          BY <2>6, FailedStays DEF IndexStep
    <3> QED BY <1>4, <2>2, <2>6, <3>1, CalmCall DEF IndexStep, LoneOK
  <2> QED BY <1>1, <1>2, <1>4, <2>1, <2>2, <2>3, <2>5, <2>6 DEF LoneOK
<1> QED BY <1>5 DEF LoneInv

\* A chunk that failed is counted, and from then on nothing is claimed of the chunks.
LEMMA LoneReturn ==
  ASSUME Index!TypeOK, JobsOK, GapInv, LoneInv, Lone, NEW i \in Indexers, PageReturns(i)
  PROVE  LoneInv'
<1>1. /\ call[i].pc \in {"done", "failed"} /\ call'[i] = Index!NoCall /\ docs' = docs
      BY DEF PageReturns, Index!Return, Index!Release, Index!TypeOK
<1>2. \A j \in Indexers \ {i} : job'[j] = job[j] BY DEF PageReturns, EndJob, JobsOK
<1>3. job[i].pc = "paging" /\ Busy(i) BY <1>1 DEF GapInv, CallOfRun, Busy
<1>4. ASSUME NEW l \in lone' PROVE l \in Indexers /\ LoneOK(l)'
  <2>1. l = i /\ i \in lone /\ Busy(i)' /\ \A j \in Indexers : Busy(j)' => j = i
        BY <1>2, <1>3, LoneIs
  <2>2. LoneOK(i) BY <2>1 DEF LoneInv
  <2>3. CASE call[i].pc = "done"
    <3>1. UNCHANGED job BY <2>3 DEF PageReturns
    <3>2. job[i].errors = 0 =>
            \A q \in Pages \ job[i].todo : docs[<<job[i].build, q>>].status = "indexed"
          BY <1>3, <2>2, <2>3 DEF LoneOK
    <3> QED BY <1>1, <1>3, <2>1, <2>2, <3>1, <3>2 DEF LoneOK, Index!NoCall
  <2>4. CASE call[i].pc = "failed"
    <3>1. job'[i].pc # "idle" BY <2>1 DEF Busy
    <3>2. job' = [job EXCEPT ![i].errors = @ + 1]
          BY <2>4, <3>1 DEF PageReturns, EndJob, NoJob, JobsOK
    <3>3. job[i].errors \in Nat BY ErrorsAssumption DEF JobsOK, Jobs
    <3>4. /\ job'[i].errors # 0 /\ job'[i].pc = "paging" /\ job'[i].build = job[i].build
          BY <1>3, <3>2, <3>3 DEF JobsOK, Jobs
    <3> QED BY <1>1, <1>3, <2>1, <2>2, <3>4 DEF LoneOK, Index!NoCall
  <2> QED BY <1>1, <2>3, <2>4
<1> QED BY <1>4 DEF LoneInv

\* A run that ends leaves nobody alone at work.
LEMMA LoneEnds ==
  ASSUME JobsOK, LoneInv, Lone, NEW i \in Indexers, MarkWikiIndexed(i) \/ Failure(i)
  PROVE  LoneInv'
<1>1. Busy(i) /\ job'[i] = NoJob /\ \A j \in Indexers \ {i} : job'[j] = job[j]
      BY DEF MarkWikiIndexed, Failure, CleanFails, MarkWikiFails, Abandon, Paged, EndJob,
             JobsOK, Busy
<1>2. ~Busy(i)' BY <1>1 DEF Busy, NoJob
<1>3. lone' = {} BY <1>1, <1>2, LoneIs
<1> QED BY <1>3 DEF LoneInv

LEMMA LoneStep ==
  ASSUME Index!TypeOK, JobsOK, GapInv, LoneInv, [Next]_vars
  PROVE  LoneInv'
<1>1. ASSUME UNCHANGED <<docs, call, job, lone>> PROVE LoneInv'
      BY <1>1 DEF LoneInv, LoneOK, Busy
<1>2. ASSUME NEW b \in Builds, Activate(b), UNCHANGED <<calm, lone>> PROVE LoneInv'
      BY <1>1, <1>2 DEF Activate
<1>3. ASSUME NEW i \in Indexers, Work(i), Lone PROVE LoneInv'
      BY <1>3, LoneStart, LoneClean, LonePage, LoneCall, LoneReturn, LoneEnds DEF Work
<1>4. ASSUME NEW i \in Indexers, Failure(i), Lone PROVE LoneInv'
      BY <1>4, LoneEnds
<1> QED BY <1>1, <1>2, <1>3, <1>4 DEF Next, vars

\* However runs gave up, died or overlapped before, one that stays alone ends with
\* the rows of its own build only, and with all of them indexed if no chunk failed
\* (indexWikiBuild), for any builds, chunks and requests.
THEOREM LoneRunsRepair == Spec => []LoneRunIsWhole
<1>1. Service!IInv => Index!TypeOK
      BY DEF Service!IInv, Service!TypeOK, Index!TypeOK, Service!Rows, Index!Rows,
         Service!Calls, Index!Calls
<1>2. Service!IInv /\ JobsOK /\ GapInv /\ [Next]_vars => GapInv'
      BY <1>1, GapStep
<1>3. Service!IInv /\ JobsOK /\ GapInv /\ LoneInv /\ [Next]_vars => LoneInv'
      BY <1>1, LoneStep
<1>4. Init => LoneInv BY DEF Init, LoneInv
<1>5. LoneInv => LoneRunIsWhole
      BY DEF LoneInv, LoneOK, LoneRunIsWhole, Paged
<1> QED BY <1>2, <1>3, <1>4, <1>5, ServiceHolds, JobsInit, JobsStep, GapInit, PTL DEF Spec

-----------------------------------------------------------------------------
\* Recursion and orders.

\* Induction over the naturals, the statement being the set of those it holds of.
LEMMA InductionOnNat ==
  ASSUME NEW S, 0 \in S, \A n \in Nat : n \in S => n + 1 \in S
  PROVE  Nat \subseteq S
<1> DEFINE T == Nat \ S
           R == {r \in Nat \X Nat : r[1] < r[2]}
<1> SUFFICES ASSUME T # {} PROVE FALSE
    OBVIOUS
<1>1. IsWellFoundedOn(R, Nat)
      BY NatLessThanWellFounded DEF OpToRel
<1>2. \E n \in T : \A m \in T : ~(<<m, n>> \in R)
  <2>1. T \subseteq Nat
        OBVIOUS
  <2> HIDE DEF T, R
  <2> QED BY <1>1, <2>1, WFMin
<1>3. PICK n \in T : \A m \in T : ~(m < n)
      BY <1>2
<1>4. n # 0 /\ n - 1 \in Nat /\ n - 1 \in S
      BY <1>3
<1> QED BY <1>3, <1>4

\* A function whose values follow one from the other.
Recurs(f, c, h, N) == f[0] = c /\ \A n \in 1 .. N : f[n] = h[<<f[n - 1], n>>]

\* A function whose values follow one from the other exists.
LEMMA Recursion ==
  ASSUME NEW V, NEW c \in V, NEW h \in [V \X Nat -> V], NEW N \in Nat
  PROVE  \E f \in [0 .. N -> V] : Recurs(f, c, h, N)
<1> DEFINE F(n) == {f \in [0 .. n -> V] :
                      /\ f[0] = c
                      /\ \A i \in 1 .. n : f[i] = h[<<f[i - 1], i>>]}
           S == {n \in Nat : F(n) # {}}
<1>1. 0 \in S
  <2>1. [i \in 0 .. 0 |-> c] \in F(0)
        OBVIOUS
  <2> QED BY <2>1
<1>2. ASSUME NEW n \in Nat, n \in S
      PROVE  n + 1 \in S
  <2>1. PICK f \in F(n) : TRUE
        BY <1>2
  <2> DEFINE g == [i \in 0 .. n + 1 |-> IF i = n + 1 THEN h[<<f[n], n + 1>>] ELSE f[i]]
  <2>2. g \in F(n + 1)
    <3>1. f[n] \in V /\ h[<<f[n], n + 1>>] \in V
          OBVIOUS
    <3>2. g \in [0 .. n + 1 -> V] /\ g[0] = c
          BY <3>1
    <3>3. ASSUME NEW i \in 1 .. n + 1
          PROVE  g[i] = h[<<g[i - 1], i>>]
          OBVIOUS
    <3> QED BY <3>2, <3>3
  <2> HIDE DEF F
  <2> QED BY <2>2
<1>3. Nat \subseteq S
  <2> HIDE DEF S
  <2> QED BY <1>1, <1>2, InductionOnNat
<1>4. PICK f \in F(N) : TRUE
      BY <1>3
<1> QED BY <1>4 DEF Recurs

\* A strict total order of a set, and what is before an element.
Orders(R, S) ==
  /\ R \subseteq S \X S /\ \A a \in S : <<a, a>> \notin R
  /\ \A a, b, c \in S : <<a, b>> \in R /\ <<b, c>> \in R => <<a, c>> \in R
  /\ \A a, b \in S : a # b => <<a, b>> \in R \/ <<b, a>> \in R

Ahead(R, S, s) == {t \in S : <<t, s>> \in R}

\* In a finite set the number of those before it tells an element's place.
LEMMA PlacesAreTaken ==
  ASSUME NEW S, IsFiniteSet(S), NEW R, Orders(R, S)
  PROVE  [s \in S |-> Cardinality(Ahead(R, S, s))]
           \in Bijection(S, 0 .. Cardinality(S) - 1)
<1> DEFINE N == Cardinality(S)
           place == [s \in S |-> Cardinality(Ahead(R, S, s))]
<1>1. N \in Nat
      BY FS_CardinalityType
<1>2. \A s \in S : IsFiniteSet(Ahead(R, S, s)) /\ Cardinality(Ahead(R, S, s)) \in Nat
      BY FS_Subset, FS_CardinalityType DEF Ahead
<1>3. \A s \in S : Cardinality(Ahead(R, S, s)) < N
  <2> TAKE s \in S
  <2>1. Ahead(R, S, s) \in SUBSET S /\ s \notin Ahead(R, S, s)
        BY DEF Ahead, Orders
  <2> QED BY <1>1, <1>2, <2>1, FS_Subset
<1>4. ASSUME NEW s \in S, NEW t \in S, <<s, t>> \in R
      PROVE  Cardinality(Ahead(R, S, s)) < Cardinality(Ahead(R, S, t))
  <2>1. Ahead(R, S, s) \in SUBSET Ahead(R, S, t) /\ s \in Ahead(R, S, t) /\ s \notin Ahead(R, S, s)
        BY <1>4 DEF Ahead, Orders
  <2> QED BY <1>2, <2>1, FS_Subset
<1>5. place \in Injection(S, 0 .. N - 1)
  <2>1. place \in [S -> 0 .. N - 1]
        BY <1>1, <1>2, <1>3
  <2>2. ASSUME NEW s \in S, NEW t \in S, s # t
        PROVE  place[s] # place[t]
    <3>1. <<s, t>> \in R \/ <<t, s>> \in R
          BY <2>2 DEF Orders
    <3> QED BY <1>2, <1>4, <3>1
  <2> QED BY <2>1, <2>2 DEF Injection, IsInjective
<1>6. IsFiniteSet(0 .. N - 1) /\ Cardinality(0 .. N - 1) = N
      BY <1>1, FS_Interval
<1>7. place \in Surjection(S, 0 .. N - 1)
      BY <1>5, <1>6, FS_Injection
<1> QED BY <1>5, <1>7 DEF Bijection

\* A non-empty set of numbers up to one has a greatest.
LEMMA Greatest ==
  ASSUME NEW N \in Nat, NEW M \in SUBSET (0 .. N), M # {}
  PROVE  \E m \in M : \A k \in M : k <= m
<1> DEFINE S == {n \in Nat : \A L \in SUBSET (0 .. n) : L # {} => \E m \in L : \A k \in L : k <= m}
<1>1. 0 \in S
  <2>1. ASSUME NEW L \in SUBSET (0 .. 0), L # {}
        PROVE  \E m \in L : \A k \in L : k <= m
    <3>1. PICK m \in L : TRUE
          BY <2>1
    <3> QED BY <2>1, <3>1
  <2> QED BY <2>1
<1>2. ASSUME NEW n \in Nat, n \in S
      PROVE  n + 1 \in S
  <2> SUFFICES ASSUME NEW L \in SUBSET (0 .. n + 1), L # {}
               PROVE  \E m \in L : \A k \in L : k <= m
      OBVIOUS
  <2>1. CASE n + 1 \in L
        BY <2>1
  <2>2. CASE n + 1 \notin L
    <3>1. L \in SUBSET (0 .. n)
          BY <2>2
    <3> QED BY <1>2, <3>1
  <2> QED BY <2>1, <2>2
<1>3. Nat \subseteq S
  <2> HIDE DEF S
  <2> QED BY <1>1, <1>2, InductionOnNat
<1> QED BY <1>3

\* Induction over the numbers up to one.
LEMMA InductionUpTo ==
  ASSUME NEW N \in Nat, NEW S, 0 \in S, \A n \in 0 .. N - 1 : n \in S => n + 1 \in S
  PROVE  0 .. N \subseteq S
<1> DEFINE T == {n \in Nat : n <= N => n \in S}
<1>1. 0 \in T
      OBVIOUS
<1>2. \A n \in Nat : n \in T => n + 1 \in T
      OBVIOUS
<1> HIDE DEF T
<1>3. Nat \subseteq T
      BY <1>1, <1>2, InductionOnNat
<1> QED BY <1>3 DEF T

\* A non-empty set of numbers has a least.
LEMMA Least ==
  ASSUME NEW M \in SUBSET Nat, M # {}
  PROVE  \E m \in M : \A k \in M : m <= k
<1> DEFINE S == {n \in Nat : \A k \in M : n <= k}
<1> SUFFICES ASSUME \A m \in M : \E k \in M : ~(m <= k)
             PROVE  FALSE
    OBVIOUS
<1>1. 0 \in S
      OBVIOUS
<1>2. ASSUME NEW n \in Nat, n \in S
      PROVE  n + 1 \in S
  <2>1. n \notin M
        BY <1>2
  <2>2. \A k \in M : k # n /\ n <= k /\ k \in Nat
        BY <1>2, <2>1
  <2> QED BY <2>2
<1> HIDE DEF S
<1>3. Nat \subseteq S
      BY <1>1, <1>2, InductionOnNat
<1>4. PICK m \in M : TRUE
      OBVIOUS
<1>5. m + 1 \in S
      BY <1>3
<1> QED BY <1>4, <1>5 DEF S

-----------------------------------------------------------------------------
\* Selections.

\* A sequence is what another has at some places, which e counts in order.
Takes(p, s, I, e) ==
  /\ e \in [1 .. Len(p) -> I]
  /\ \A i \in I : \E k \in 1 .. Len(p) : e[k] = i
  /\ \A j, k \in 1 .. Len(p) : j < k => e[j] < e[k]
  /\ \A k \in 1 .. Len(p) : p[k] = s[e[k]]

\* One more place, after the others.
LEMMA TakesOneMore ==
  ASSUME NEW T, NEW s \in Seq(T), NEW n \in 1 .. Len(s), NEW I \in SUBSET (1 .. n - 1),
         NEW p \in Seq(T), NEW e, Takes(p, s, I, e)
  PROVE  \E d : Takes(Append(p, s[n]), s, I \cup {n}, d)
<1> DEFINE q == Append(p, s[n])
           d == [k \in 1 .. Len(p) + 1 |-> IF k = Len(p) + 1 THEN n ELSE e[k]]
<1>1. s[n] \in T /\ Len(p) \in Nat /\ n \in Nat
      BY LenProperties, ElementOfSeq
<1>2. /\ Len(q) = Len(p) + 1 /\ q[Len(p) + 1] = s[n]
      /\ \A k \in 1 .. Len(p) : q[k] = p[k]
      BY <1>1, AppendProperties
<1>3. ASSUME NEW k \in 1 .. Len(p)
      PROVE  d[k] = e[k] /\ e[k] \in I /\ e[k] < n
  <2>1. d[k] = e[k]
        BY <1>1
  <2> HIDE DEF d
  <2>2. e[k] \in I
        BY DEF Takes
  <2>3. e[k] \in 1 .. n - 1
        BY <2>2
  <2> QED BY <1>1, <2>1, <2>2, <2>3
<1>4. d \in [1 .. Len(p) + 1 -> I \cup {n}] /\ d[Len(p) + 1] = n
  <2>1. ASSUME NEW k \in 1 .. Len(p) + 1
        PROVE  d[k] \in I \cup {n}
    <3>1. CASE k = Len(p) + 1
          BY <3>1
    <3>2. CASE k \in 1 .. Len(p)
          BY <1>3, <3>2
    <3> QED BY <1>1, <3>1, <3>2
  <2> QED BY <1>1, <2>1
<1> HIDE DEF q, d
<1>5. \A i \in I \cup {n} : \E k \in 1 .. Len(q) : d[k] = i
  <2>1. n = d[Len(q)] /\ Len(q) \in 1 .. Len(q)
        BY <1>1, <1>2, <1>4
  <2>2. ASSUME NEW i \in I
        PROVE  \E k \in 1 .. Len(q) : d[k] = i
    <3>1. PICK k \in 1 .. Len(p) : e[k] = i
          BY DEF Takes
    <3> QED BY <1>1, <1>2, <1>3, <3>1
  <2> QED BY <2>1, <2>2
<1>6. \A j, k \in 1 .. Len(q) : j < k => d[j] < d[k]
      BY <1>1, <1>2, <1>3, <1>4 DEF Takes
<1>7. \A k \in 1 .. Len(q) : q[k] = s[d[k]]
  <2> TAKE k \in 1 .. Len(q)
  <2>1. CASE k = Len(p) + 1
        BY <1>2, <1>4, <2>1
  <2>2. CASE k \in 1 .. Len(p)
    <3>1. q[k] = p[k] /\ d[k] = e[k] /\ p[k] = s[e[k]]
          BY <1>2, <1>3, <2>2 DEF Takes
    <3> QED BY <3>1
  <2> QED BY <1>1, <1>2, <2>1, <2>2
<1>8. Takes(q, s, I \cup {n}, d)
      BY <1>2, <1>4, <1>5, <1>6, <1>7 DEF Takes
<1> QED BY <1>8 DEF q

\* Picked takes what a sequence has at those of its places.
LEMMA PickedTakes ==
  ASSUME NEW T, NEW s \in Seq(T), NEW I
  PROVE  /\ Picked(s, I) \in Seq(T)
         /\ \E e : Takes(Picked(s, I), s, I \cap 1 .. Len(s), e)
<1> DEFINE N == Len(s)
           V == Seq(T)
           h == [r \in V \X Nat |-> IF r[2] \in I \cap 1 .. N THEN Append(r[1], s[r[2]]) ELSE r[1]]
           Is(f) == f = [n \in 0 .. N |->
                           IF n = 0 THEN <<>>
                           ELSE IF n \in I THEN Append(f[n - 1], s[n]) ELSE f[n - 1]]
<1>1. N \in Nat /\ DOMAIN s = 1 .. N /\ \A n \in 1 .. N : s[n] \in T
      BY LenProperties, ElementOfSeq
<1>2. <<>> \in V /\ h \in [V \X Nat -> V]
  <2>1. ASSUME NEW r \in V \X Nat
        PROVE  h[r] \in V
        BY <1>1, AppendProperties
  <2> QED BY <2>1
<1>3. PICK f \in [0 .. N -> V] : Recurs(f, <<>>, h, N)
  <2> HIDE DEF V, h, N
  <2> QED BY <1>1, <1>2, Recursion
<1>4. /\ f[0] = <<>>
      /\ \A n \in 1 .. N : f[n] = IF n \in I THEN Append(f[n - 1], s[n]) ELSE f[n - 1]
  <2>1. ASSUME NEW n \in 1 .. N
        PROVE  f[n] = IF n \in I THEN Append(f[n - 1], s[n]) ELSE f[n - 1]
    <3>1. n \in Nat /\ n - 1 \in 0 .. N
          BY <1>1
    <3> HIDE DEF V, h, N
    <3>2. f[n] = h[<<f[n - 1], n>>] /\ <<f[n - 1], n>> \in V \X Nat
          BY <1>3, <3>1 DEF Recurs
    <3> QED BY <3>2 DEF h
  <2> QED BY <1>3, <2>1 DEF Recurs
<1>5. Is(f)
  <2>1. N \in Nat
        BY <1>1
  <2> HIDE DEF V, h, N
  <2>2. \A n \in 0 .. N : f[n] = IF n = 0 THEN <<>>
                                 ELSE IF n \in I THEN Append(f[n - 1], s[n]) ELSE f[n - 1]
    <3> TAKE n \in 0 .. N
    <3>1. CASE n = 0
          BY <1>4, <3>1
    <3>2. CASE n # 0
      <4>1. n \in 1 .. N
            BY <2>1, <3>2
      <4> QED BY <1>4, <3>2, <4>1
    <3> QED BY <3>1, <3>2
  <2> QED BY <1>3, <2>2
<1> DEFINE w == CHOOSE g : Is(g)
<1>6. Picked(s, I) = w[N]
      BY DEF Picked
<1>7. Is(w)
  <2> HIDE DEF Is
  <2> QED BY <1>5
<1> HIDE DEF w
<1>8. /\ w[0] = <<>>
      /\ \A n \in 1 .. N : w[n] = IF n \in I THEN Append(w[n - 1], s[n]) ELSE w[n - 1]
  <2>1. N \in Nat
        BY <1>1
  <2> HIDE DEF N
  <2>2. \A n \in 0 .. N : w[n] = IF n = 0 THEN <<>>
                                 ELSE IF n \in I THEN Append(w[n - 1], s[n]) ELSE w[n - 1]
        BY <1>7, Zenon
  <2>3. w[0] = <<>>
        BY <2>1, <2>2
  <2>4. ASSUME NEW n \in 1 .. N
        PROVE  w[n] = IF n \in I THEN Append(w[n - 1], s[n]) ELSE w[n - 1]
    <3>1. n \in 0 .. N /\ n # 0
          BY <2>1
    <3> QED BY <2>2, <3>1
  <2> QED BY <2>3, <2>4
<1> HIDE DEF Is, h
<1> DEFINE S == {n \in Nat : w[n] \in V /\ \E e : Takes(w[n], s, I \cap 1 .. n, e)}
<1>9. 0 \in S
  <2> DEFINE e == [k \in 1 .. 0 |-> k]
  <2>1. Takes(<<>>, s, I \cap 1 .. 0, e)
        BY DEF Takes
  <2> HIDE DEF e
  <2> QED BY <1>8, <2>1
<1>10. ASSUME NEW n \in 0 .. N - 1, n \in S
       PROVE  n + 1 \in S
  <2>1. n + 1 \in 1 .. N /\ (n + 1) - 1 = n /\ n + 1 \in Nat
        BY <1>1
  <2>2. w[n] \in V /\ \E e : Takes(w[n], s, I \cap 1 .. n, e)
        BY <1>10
  <2>3. CASE n + 1 \in I
    <3>1. w[n + 1] = Append(w[n], s[n + 1]) /\ I \cap 1 .. n + 1 = (I \cap 1 .. n) \cup {n + 1}
      <4>1. w[n + 1] = Append(w[n], s[n + 1])
            BY <1>8, <2>1, <2>3
      <4>2. \A i : i \in 1 .. n + 1 <=> i \in 1 .. n \/ i = n + 1
            BY <2>1
      <4> QED BY <2>3, <4>1, <4>2
    <3>2. PICK e : Takes(w[n], s, I \cap 1 .. n, e)
          BY <2>2
    <3>3. \E d : Takes(Append(w[n], s[n + 1]), s, (I \cap 1 .. n) \cup {n + 1}, d)
      <4>1. I \cap 1 .. n \in SUBSET (1 .. (n + 1) - 1)
            BY <2>1
      <4> QED BY <2>1, <2>2, <3>2, <4>1, TakesOneMore
    <3>4. w[n + 1] \in V
          BY <1>1, <2>1, <2>2, <3>1, AppendProperties
    <3> QED BY <2>1, <3>1, <3>3, <3>4
  <2>4. CASE n + 1 \notin I
    <3>1. w[n + 1] = w[n] /\ I \cap 1 .. n + 1 = I \cap 1 .. n
          BY <1>8, <2>1, <2>4
    <3> QED BY <2>1, <2>2, <3>1
  <2> QED BY <2>3, <2>4
<1>11. N \in S
  <2>1. N \in Nat
        BY <1>1
  <2> HIDE DEF S, N
  <2>2. 0 .. N \subseteq S
        BY <1>9, <1>10, <2>1, InductionUpTo
  <2> QED BY <2>1, <2>2
<1> QED BY <1>6, <1>11

-----------------------------------------------------------------------------
\* Division.

\* What a division leaves.
LEMMA Division ==
  ASSUME NEW e \in Nat, NEW t \in Nat, t > 0
  PROVE  /\ e \div t \in Nat /\ e % t \in 0 .. t - 1
         /\ e = t * (e \div t) + (e % t)
<1>1. e % t \in 0 .. t - 1
      BY SMT
<1>2. e \div t \in Int
      BY SMT
<1>3. e = (e \div t) * t + (e % t)
      BY SMT
<1> DEFINE q == e \div t
           r == e % t
<1>4. q \in Int /\ r \in 0 .. t - 1 /\ e = q * t + r
      BY <1>1, <1>2, <1>3
<1> HIDE DEF q, r
<1>5. q \in Nat
  <2>1. CASE q <= -1
    <3>1. q * t <= (-1) * t
          BY <1>4, <2>1, SMT
    <3> QED BY <1>4, <3>1, SMT
  <2> QED BY <1>4, <2>1
<1>6. q * t = t * q
      BY <1>4, SMT
<1> QED BY <1>4, <1>5, <1>6 DEF q, r

\* One sequence after another.
LEMMA Concatenated ==
  ASSUME NEW T, NEW s \in Seq(T), NEW t \in Seq(T)
  PROVE  /\ s \o t \in Seq(T) /\ Len(s \o t) = Len(s) + Len(t) /\ Len(s) \in Nat /\ Len(t) \in Nat
         /\ \A i \in 1 .. Len(s) : (s \o t)[i] = s[i]
         /\ \A i \in 1 .. Len(t) : (s \o t)[Len(s) + i] = t[i]
         /\ \A i \in 1 .. Len(s) + Len(t) : i \in 1 .. Len(s) \/ (i - Len(s) \in 1 .. Len(t) /\ i = Len(s) + (i - Len(s)))
<1>1. Len(s) \in Nat /\ Len(t) \in Nat
      BY LenProperties
<1>2. /\ s \o t \in Seq(T) /\ Len(s \o t) = Len(s) + Len(t)
      /\ \A i \in 1 .. Len(s) + Len(t) : (s \o t)[i] = IF i <= Len(s) THEN s[i] ELSE t[i - Len(s)]
      BY ConcatProperties
<1>3. \A i \in 1 .. Len(s) : i \in 1 .. Len(s) + Len(t) /\ i <= Len(s)
      BY <1>1
<1>4. ASSUME NEW i \in 1 .. Len(t)
      PROVE  (s \o t)[Len(s) + i] = t[i]
  <2>1. /\ Len(s) + i \in 1 .. Len(s) + Len(t) /\ ~(Len(s) + i <= Len(s))
        /\ (Len(s) + i) - Len(s) = i
        BY <1>1
  <2> QED BY <1>2, <2>1
<1> QED BY <1>1, <1>2, <1>3, <1>4

-----------------------------------------------------------------------------
\* Sets in an order.

\* A set in an order is a sequence that has each element once, each after those before it.
LEMMA InOrderLists ==
  ASSUME NEW S, IsFiniteSet(S), NEW R, Orders(R, S)
  PROVE  LET s == InOrder(S, R)
         IN /\ s \in Seq(S) /\ Len(s) = Cardinality(S)
            /\ \A a \in S : \E n \in 1 .. Len(s) : s[n] = a
            /\ \A m, n \in 1 .. Len(s) : m < n => <<s[m], s[n]>> \in R
            /\ \A m, n \in 1 .. Len(s) : s[m] = s[n] => m = n
<1> DEFINE N == Cardinality(S)
           s == InOrder(S, R)
           place == [a \in S |-> Cardinality(Ahead(R, S, a))]
<1>1. N \in Nat
      BY FS_CardinalityType
<1>2. place \in Bijection(S, 0 .. N - 1)
      BY PlacesAreTaken
<1>3. /\ \A a \in S : place[a] \in 0 .. N - 1
      /\ \A a, b \in S : place[a] = place[b] => a = b
      /\ \A k \in 0 .. N - 1 : \E a \in S : place[a] = k
  <2> HIDE DEF place, N
  <2> QED BY <1>2 DEF Bijection, Injection, IsInjective, Surjection
<1>4. \A a \in S : place[a] = Cardinality({b \in S : <<b, a>> \in R})
      BY DEF Ahead
<1>5. s = [n \in 1 .. N |-> CHOOSE a \in S : Cardinality({b \in S : <<b, a>> \in R}) = n - 1]
      BY DEF InOrder
<1> HIDE DEF place, s, N
<1>6. ASSUME NEW n \in 1 .. N
      PROVE  s[n] \in S /\ place[s[n]] = n - 1
  <2>1. n - 1 \in 0 .. N - 1
        BY <1>1
  <2>2. \E a \in S : Cardinality({b \in S : <<b, a>> \in R}) = n - 1
        BY <1>3, <1>4, <2>1
  <2>3. s[n] = CHOOSE a \in S : Cardinality({b \in S : <<b, a>> \in R}) = n - 1
        BY <1>5
  <2>4. s[n] \in S /\ Cardinality({b \in S : <<b, s[n]>> \in R}) = n - 1
        BY <2>2, <2>3, Zenon
  <2> QED BY <1>4, <2>4
<1>7. s \in Seq(S) /\ Len(s) = N
  <2> DEFINE pick(n) == CHOOSE a \in S : Cardinality({b \in S : <<b, a>> \in R}) = n - 1
  <2>0. s = [n \in 1 .. N |-> pick(n)]
        BY <1>5
  <2> HIDE DEF pick
  <2>1. s = [n \in 1 .. N |-> s[n]]
        BY <2>0
  <2>2. \A n \in 1 .. N : s[n] \in S
        BY <1>6
  <2> HIDE DEF s
  <2> QED BY <1>1, <2>1, <2>2, SeqDef, LenProperties
<1>8. ASSUME NEW a \in S
      PROVE  \E n \in 1 .. N : s[n] = a
  <2>1. place[a] \in 0 .. N - 1
        BY <1>3
  <2>2. place[a] + 1 \in 1 .. N /\ (place[a] + 1) - 1 = place[a]
        BY <1>1, <2>1
  <2>3. s[place[a] + 1] \in S /\ place[s[place[a] + 1]] = place[a]
        BY <1>6, <2>2
  <2> QED BY <1>3, <2>2, <2>3
<1>9. ASSUME NEW m \in 1 .. N, NEW n \in 1 .. N, s[m] = s[n]
      PROVE  m = n
      BY <1>1, <1>6, <1>9
<1>10. ASSUME NEW m \in 1 .. N, NEW n \in 1 .. N, m < n
       PROVE  <<s[m], s[n]>> \in R
  <2>1. s[m] \in S /\ s[n] \in S /\ s[m] # s[n]
        BY <1>1, <1>6, <1>9, <1>10
  <2>2. SUFFICES ASSUME <<s[n], s[m]>> \in R
                 PROVE  FALSE
        BY <2>1 DEF Orders
  <2>3. Cardinality(Ahead(R, S, s[n])) < Cardinality(Ahead(R, S, s[m]))
    <3>1. Ahead(R, S, s[n]) \in SUBSET Ahead(R, S, s[m]) /\ s[n] \in Ahead(R, S, s[m])
          /\ s[n] \notin Ahead(R, S, s[n])
          BY <2>1, <2>2 DEF Ahead, Orders
    <3>2. IsFiniteSet(Ahead(R, S, s[m]))
          BY FS_Subset DEF Ahead
    <3>3. IsFiniteSet(Ahead(R, S, s[n]))
          BY FS_Subset DEF Ahead
    <3> QED BY <3>1, <3>2, <3>3, FS_Subset, FS_CardinalityType
  <2>4. place[s[n]] < place[s[m]]
        BY <2>1, <2>3 DEF place
  <2> QED BY <1>1, <1>6, <1>10, <2>4
<1> QED BY <1>7, <1>8, <1>9, <1>10 DEF s, N

-----------------------------------------------------------------------------
\* Documents: links and chunks.

\* A sequence is what the first N of some sequences have, in order, at places that p tells.
Spans(f, ss, N, p) ==
  /\ \A k \in 1 .. Len(f) : /\ p[k][1] \in 1 .. N /\ p[k][2] \in 1 .. Len(ss[p[k][1]])
                            /\ f[k] = ss[p[k][1]][p[k][2]]
  /\ \A k, l \in 1 .. Len(f) :
        k < l => (p[k][1] < p[l][1] \/ (p[k][1] = p[l][1] /\ p[k][2] < p[l][2]))
  /\ \A n \in 1 .. N : \A i \in 1 .. Len(ss[n]) : \E k \in 1 .. Len(f) : p[k][1] = n /\ p[k][2] = i

\* One more sequence, after the others.
LEMMA OneMoreSpan ==
  ASSUME NEW T, NEW ss \in Seq(Seq(T)), NEW N \in Nat, N + 1 \in 1 .. Len(ss),
         NEW f \in Seq(T), NEW p, Spans(f, ss, N, p)
  PROVE  \E q : Spans(f \o ss[N + 1], ss, N + 1, q)
<1> DEFINE s == ss[N + 1]
           g == f \o s
           q == [k \in 1 .. Len(f) + Len(s) |-> IF k <= Len(f) THEN p[k] ELSE <<N + 1, k - Len(f)>>]
<1>1. s \in Seq(T)
      BY ElementOfSeq
<1>2. /\ g \in Seq(T) /\ Len(g) = Len(f) + Len(s) /\ Len(f) \in Nat /\ Len(s) \in Nat
      /\ \A i \in 1 .. Len(f) : g[i] = f[i]
      /\ \A i \in 1 .. Len(s) : g[Len(f) + i] = s[i]
      BY <1>1, Concatenated
<1>3. \A k \in 1 .. Len(f) : q[k] = p[k]
      BY <1>2
<1>4. \A i \in 1 .. Len(s) : q[Len(f) + i][1] = N + 1 /\ q[Len(f) + i][2] = i
      BY <1>2
<1> HIDE DEF g, q
<1>5. \A k \in 1 .. Len(g) : k \in 1 .. Len(f) \/ \E i \in 1 .. Len(s) : k = Len(f) + i
  <2> TAKE k \in 1 .. Len(g)
  <2>1. k \in 1 .. Len(f) \/ (k - Len(f) \in 1 .. Len(s) /\ k = Len(f) + (k - Len(f)))
        BY <1>2
  <2> QED BY <2>1
<1>6. \A k \in 1 .. Len(f) : /\ p[k][1] \in 1 .. N /\ p[k][2] \in 1 .. Len(ss[p[k][1]])
                             /\ f[k] = ss[p[k][1]][p[k][2]]
      BY DEF Spans
<1>11. \A k, l \in 1 .. Len(f) :
          k < l => (p[k][1] < p[l][1] \/ (p[k][1] = p[l][1] /\ p[k][2] < p[l][2]))
       BY DEF Spans
<1>12. \A n \in 1 .. N : \A i \in 1 .. Len(ss[n]) : \E k \in 1 .. Len(f) : p[k][1] = n /\ p[k][2] = i
       BY Zenon DEF Spans
<1>13. \A n : n \in 1 .. N => n \in 1 .. N + 1 /\ n \in Nat /\ n < N + 1
       OBVIOUS
<1>14. N + 1 \in 1 .. N + 1
       OBVIOUS
<1> DEFINE M == N + 1
<1>7. ASSUME NEW k \in 1 .. Len(g)
      PROVE  /\ q[k][1] \in 1 .. M /\ q[k][2] \in 1 .. Len(ss[q[k][1]])
             /\ g[k] = ss[q[k][1]][q[k][2]]
  <2>1. CASE k \in 1 .. Len(f)
    <3>1. q[k] = p[k] /\ g[k] = f[k]
          BY <1>2, <1>3, <2>1
    <3>2. /\ p[k][1] \in 1 .. M /\ p[k][2] \in 1 .. Len(ss[p[k][1]])
          /\ f[k] = ss[p[k][1]][p[k][2]]
          BY <1>6, <1>13, <2>1
    <3> HIDE DEF M
    <3> QED BY <3>1, <3>2
  <2>2. ASSUME NEW i \in 1 .. Len(s), k = Len(f) + i
        PROVE  /\ q[k][1] \in 1 .. M /\ q[k][2] \in 1 .. Len(ss[q[k][1]])
               /\ g[k] = ss[q[k][1]][q[k][2]]
    <3>1. q[k][1] = M /\ q[k][2] = i /\ g[k] = s[i]
          BY <1>2, <1>4, <2>2
    <3>2. M \in 1 .. M /\ s = ss[M]
          BY <1>14
    <3> HIDE DEF M, s
    <3> QED BY <3>1, <3>2
  <2> HIDE DEF M, s
  <2> QED BY <1>5, <2>1, <2>2
<1>8. ASSUME NEW k \in 1 .. Len(g), NEW l \in 1 .. Len(g), k < l
      PROVE  q[k][1] < q[l][1] \/ (q[k][1] = q[l][1] /\ q[k][2] < q[l][2])
  <2>1. CASE k \in 1 .. Len(f) /\ l \in 1 .. Len(f)
    <3>1. q[k] = p[k] /\ q[l] = p[l]
          BY <1>3, <2>1
    <3>2. p[k][1] < p[l][1] \/ (p[k][1] = p[l][1] /\ p[k][2] < p[l][2])
          BY <1>8, <1>11, <2>1
    <3> QED BY <3>1, <3>2
  <2>2. CASE k \in 1 .. Len(f) /\ l \notin 1 .. Len(f)
    <3>1. PICK j \in 1 .. Len(s) : l = Len(f) + j
          BY <1>5, <2>2
    <3>2. q[l][1] = N + 1
          BY <1>4, <3>1
    <3>3. q[k][1] \in 1 .. N
          BY <1>3, <1>6, <2>2
    <3> QED BY <3>2, <3>3
  <2>3. CASE k \notin 1 .. Len(f)
    <3>1. PICK i \in 1 .. Len(s) : k = Len(f) + i
          BY <1>5, <2>3
    <3>2. l \notin 1 .. Len(f)
          BY <1>2, <1>8, <2>3
    <3>3. PICK j \in 1 .. Len(s) : l = Len(f) + j
          BY <1>5, <3>2
    <3>4. i < j
          BY <1>2, <1>8, <3>1, <3>3
    <3>5. q[k][1] = q[l][1] /\ q[k][2] = i /\ q[l][2] = j
          BY <1>4, <3>1, <3>3
    <3> QED BY <3>4, <3>5
  <2> QED BY <2>1, <2>2, <2>3
<1>9. ASSUME NEW n \in 1 .. M, NEW i \in 1 .. Len(ss[n])
      PROVE  \E k \in 1 .. Len(g) : q[k][1] = n /\ q[k][2] = i
  <2>1. CASE n = N + 1
    <3>1. i \in 1 .. Len(s) /\ Len(f) + i \in 1 .. Len(g)
          BY <1>2, <2>1
    <3> QED BY <1>4, <2>1, <3>1
  <2>2. CASE n # N + 1
    <3>1. n \in 1 .. N
          BY <2>2
    <3>2. PICK k \in 1 .. Len(f) : p[k][1] = n /\ p[k][2] = i
          BY <1>12, <3>1
    <3>3. k \in 1 .. Len(g) /\ q[k] = p[k]
          BY <1>2, <1>3
    <3> QED BY <3>2, <3>3
  <2> QED BY <2>1, <2>2
<1> HIDE DEF M
<1>10. Spans(g, ss, M, q)
       BY <1>7, <1>8, <1>9 DEF Spans
<1> QED BY <1>10 DEF g, M

\* Sequences one after the other.
LEMMA Flattened ==
  ASSUME NEW T, NEW ss \in Seq(Seq(T))
  PROVE  /\ Chunks!FlattenSeq(ss) \in Seq(T)
         /\ \E p : Spans(Chunks!FlattenSeq(ss), ss, Len(ss), p)
<1> DEFINE N == Len(ss)
           V == Seq(T)
           h == [r \in V \X Nat |-> IF r[2] \in 1 .. N THEN r[1] \o ss[r[2]] ELSE r[1]]
           e == << >>
           Is(f) == f = [i \in 1 .. N |-> IF i = 1 THEN ss[i] ELSE f[i - 1] \o ss[i]]
<1>1. N \in Nat /\ \A n \in 1 .. N : ss[n] \in V
      BY LenProperties, ElementOfSeq
<1>2. e \in V /\ Len(e) = 0 /\ \A s \in V : e \o s = s
      BY EmptySeq, ConcatEmptySeq
<1>3. h \in [V \X Nat -> V]
  <2>1. ASSUME NEW r \in V \X Nat
        PROVE  h[r] \in V
    <3>1. r[1] \in V /\ (r[2] \in 1 .. N => ss[r[2]] \in V)
          BY <1>1
    <3> QED BY <3>1, ConcatProperties
  <2> QED BY <2>1
<1>4. CASE N = 0
  <2>1. ss = e /\ Chunks!FlattenSeq(ss) = ss
        BY <1>4, EmptySeq DEF Chunks!FlattenSeq
  <2>2. Chunks!FlattenSeq(ss) \in V /\ Len(Chunks!FlattenSeq(ss)) = 0
        BY <1>2, <2>1
  <2> DEFINE F == Chunks!FlattenSeq(ss)
  <2> HIDE DEF F, e
  <2>3. Spans(F, ss, 0, ss)
        BY <2>2 DEF F, Spans
  <2> QED BY <1>4, <2>2, <2>3 DEF F
<1>5. CASE N # 0
  <2> HIDE DEF e
  <2>1. PICK f \in [0 .. N -> V] : Recurs(f, e, h, N)
    <3> HIDE DEF V, h, N
    <3> QED BY <1>1, <1>2, <1>3, Recursion
  <2>2. f[0] = e /\ \A n \in 1 .. N : f[n] = f[n - 1] \o ss[n] /\ f[n - 1] \in V
    <3>1. ASSUME NEW n \in 1 .. N
          PROVE  f[n] = f[n - 1] \o ss[n] /\ f[n - 1] \in V
      <4>1. n \in Nat /\ n - 1 \in 0 .. N
            BY <1>1
      <4>2. f[n] = h[<<f[n - 1], n>>] /\ f[n - 1] \in V
            BY <2>1, <4>1 DEF Recurs
      <4> QED BY <4>1, <4>2
    <3> QED BY <2>1, <3>1 DEF Recurs
  <2> DEFINE g == [n \in 1 .. N |-> f[n]]
  <2>3. Is(g)
    <3>1. ASSUME NEW n \in 1 .. N
          PROVE  g[n] = IF n = 1 THEN ss[n] ELSE g[n - 1] \o ss[n]
      <4>1. CASE n = 1
        <5>0. 1 \in 1 .. N /\ 1 - 1 = 0
              BY <1>1, <1>5
        <5>1. f[1] = e \o ss[1] /\ ss[1] \in V
          <6> HIDE DEF V, N
          <6> QED BY <1>1, <2>2, <5>0
        <5>2. f[1] = ss[1]
              BY <1>2, <5>1
        <5> QED BY <1>1, <4>1, <5>2
      <4>2. CASE n # 1
        <5>1. n - 1 \in 1 .. N
              BY <1>1, <4>2
        <5> HIDE DEF V, N
        <5> QED BY <2>2, <4>2, <5>1
      <4> QED BY <4>1, <4>2
    <3> HIDE DEF N
    <3> QED BY <3>1
  <2> DEFINE w == CHOOSE v : Is(v)
  <2>4. Chunks!FlattenSeq(ss) = w[N]
        BY <1>5 DEF Chunks!FlattenSeq
  <2>5. Is(w)
    <3> HIDE DEF Is, g
    <3> QED BY <2>3
  <2> HIDE DEF w
  <2>6. \A n \in 1 .. N : w[n] = IF n = 1 THEN ss[n] ELSE w[n - 1] \o ss[n]
    <3> HIDE DEF N
    <3> QED BY <2>5, Zenon
  <2> DEFINE u == [n \in 0 .. N |-> IF n = 0 THEN e ELSE w[n]]
             S == {n \in Nat : u[n] \in V /\ \E p : Spans(u[n], ss, n, p)}
  <2>7. u[0] = e /\ \A n \in 1 .. N : u[n] = w[n]
        BY <1>1
  <2>8. \A n \in 0 .. N - 1 : u[n + 1] = u[n] \o ss[n + 1] \/ (n = 0 /\ u[n + 1] = ss[n + 1])
    <3> HIDE DEF u
    <3> TAKE n \in 0 .. N - 1
    <3>1. n + 1 \in 1 .. N /\ (n + 1) - 1 = n
          BY <1>1
    <3>2. CASE n = 0
      <4>1. 1 \in 1 .. N /\ n + 1 = 1
            BY <3>1, <3>2
      <4>2. w[1] = ss[1] /\ u[1] = w[1]
            BY <2>6, <2>7, <4>1
      <4> QED BY <3>2, <4>1, <4>2
    <3>3. CASE n # 0
      <4>1. n \in 1 .. N /\ n + 1 # 1
            BY <1>1, <3>3
      <4>2. w[n + 1] = w[n] \o ss[n + 1]
            BY <2>6, <3>1, <4>1
      <4> QED BY <2>7, <3>1, <4>1, <4>2
    <3> QED BY <3>2, <3>3
  <2> HIDE DEF u, Is, g, h
  <2>9. \A n \in 0 .. N - 1 : u[n + 1] = u[n] \o ss[n + 1]
    <3> TAKE n \in 0 .. N - 1
    <3>1. n + 1 \in 1 .. N /\ ss[n + 1] \in V
          BY <1>1
    <3>2. n = 0 => u[n] \o ss[n + 1] = ss[n + 1]
          BY <1>2, <2>7, <3>1
    <3> QED BY <2>8, <3>2
  <2>10. 0 \in S
    <3>1. Spans(e, ss, 0, e)
          BY <1>2 DEF Spans
    <3> QED BY <1>2, <2>7, <3>1
  <2>11. ASSUME NEW n \in 0 .. N - 1, n \in S
         PROVE  n + 1 \in S
    <3>1. u[n] \in V /\ \E p : Spans(u[n], ss, n, p)
          BY <2>11
    <3>2. PICK p : Spans(u[n], ss, n, p)
          BY <3>1
    <3>3. n \in Nat /\ n + 1 \in 1 .. N /\ ss[n + 1] \in V
          BY <1>1
    <3>4. \E q : Spans(u[n] \o ss[n + 1], ss, n + 1, q)
          BY <3>1, <3>2, <3>3, OneMoreSpan
    <3>5. u[n] \o ss[n + 1] \in V
          BY <3>1, <3>3, ConcatProperties
    <3> HIDE DEF V, N
    <3>6. u[n + 1] = u[n] \o ss[n + 1]
          BY <2>9
    <3>7. n + 1 \in Nat
          BY <3>3
    <3> QED BY <3>4, <3>5, <3>6, <3>7
  <2>12. N \in S
    <3> HIDE DEF S, N
    <3>1. 0 .. N \subseteq S
          BY <1>1, <2>10, <2>11, InductionUpTo
    <3> QED BY <1>1, <3>1
  <2>13. u[N] = w[N]
    <3>1. N \in 1 .. N
          BY <1>1, <1>5
    <3> QED BY <2>7, <3>1
  <2> QED BY <2>4, <2>12, <2>13
<1> QED BY <1>4, <1>5

\* A recursive function, and how its values follow.
Follows(f, V, e, h, N) ==
  /\ f = [n \in 0 .. N |-> IF n = 0 THEN e ELSE h[<<f[n - 1], n>>]]
  /\ \A n \in 1 .. N : n \in Nat /\ f[n - 1] \in V /\ f[n] = h[<<f[n - 1], n>>]

\* A recursive function exists.
LEMMA Recursive ==
  ASSUME NEW V, NEW e \in V, NEW h \in [V \X Nat -> V], NEW N \in Nat
  PROVE  \E f \in [0 .. N -> V] : Follows(f, V, e, h, N)
<1>1. PICK f \in [0 .. N -> V] : Recurs(f, e, h, N)
      BY Recursion
<1>2. \A n \in 1 .. N : n \in Nat /\ n - 1 \in 0 .. N /\ n \in 0 .. N /\ n # 0
      OBVIOUS
<1>3. \A n \in 1 .. N : n \in Nat /\ f[n - 1] \in V /\ f[n] = h[<<f[n - 1], n>>]
      BY <1>1, <1>2 DEF Recurs
<1>4. \A n \in 0 .. N : f[n] = IF n = 0 THEN e ELSE h[<<f[n - 1], n>>]
  <2> TAKE n \in 0 .. N
  <2>1. n = 0 \/ n \in 1 .. N
        OBVIOUS
  <2>2. f[0] = e
        BY <1>1 DEF Recurs
  <2> QED BY <1>2, <1>3, <2>1, <2>2
<1>5. f = [n \in 0 .. N |-> IF n = 0 THEN e ELSE h[<<f[n - 1], n>>]]
      BY <1>4
<1> QED BY <1>3, <1>5 DEF Follows

\* The modules count and select alike.
LEMMA ChunksSelects ==
  /\ \A S : Chunks!Ascending(S) = Ascending(S)
  /\ \A s, I : Chunks!Picked(s, I) = Picked(s, I)
  /\ \A S : Chunks!Cardinality(S) = Cardinality(S)
<1>1. \A S : Chunks!Cardinality(S) = Cardinality(S)
      BY Zenon DEF Chunks!Cardinality, Cardinality
<1>2. \A S, R : Chunks!InOrder(S, R) = InOrder(S, R)
      BY Zenon DEF Chunks!InOrder, InOrder, Chunks!Cardinality, Cardinality
<1>3. \A s, I : Chunks!Picked(s, I) = Picked(s, I)
      BY DEF Chunks!Picked, Picked
<1>4. \A S : Chunks!Ascending(S) = Ascending(S)
      BY <1>2 DEF Chunks!Ascending, Ascending
<1> QED BY <1>1, <1>3, <1>4

\* All of a sequence but its last.
LEMMA FrontKeeps ==
  ASSUME NEW T, NEW s \in Seq(T), s # << >>
  PROVE  /\ Chunks!Front(s) \in Seq(T) /\ Len(Chunks!Front(s)) = Len(s) - 1
         /\ Len(s) \in Nat \ {0} /\ Chunks!Last(s) = s[Len(s)] /\ s[Len(s)] \in T
         /\ \A i \in 1 .. Len(s) - 1 : i \in 1 .. Len(s) /\ Chunks!Front(s)[i] = s[i]
<1>1. Len(s) \in Nat \ {0}
      BY EmptySeq
<1>2. \A i \in 1 .. Len(s) : s[i] \in T
      BY ElementOfSeq
<1> DEFINE L == Len(s) - 1
           f == SubSeq(s, 1, L)
<1>3. L \in Nat /\ Len(s) = L + 1 /\ \A i \in 1 .. L : s[i] \in T /\ i \in 1 .. Len(s)
      BY <1>1, <1>2
<1>4. /\ f \in Seq(T) /\ Len(f) = (IF 1 <= L THEN (L - 1) + 1 ELSE 0)
      /\ \A i \in 1 .. (L - 1) + 1 : f[i] = s[(1 + i) - 1]
  <2> HIDE DEF L
  <2> QED BY <1>3, SubSeqProperties
<1>5. Len(f) = L /\ \A i \in 1 .. L : f[i] = s[i]
  <2>1. (L - 1) + 1 = L /\ \A i \in 1 .. L : (1 + i) - 1 = i
        BY <1>3
  <2> HIDE DEF L, f
  <2> QED BY <1>3, <1>4, <2>1
<1>6. Chunks!Front(s) = f /\ Chunks!Last(s) = s[Len(s)]
      BY DEF Chunks!Front, Chunks!Last
<1>7. s[Len(s)] \in T
      BY <1>1, <1>2
<1> HIDE DEF f
<1> QED BY <1>1, <1>3, <1>4, <1>5, <1>6, <1>7

-----------------------------------------------------------------------------
\* Links.

Up == ".."

Ups(s, n) == {m \in 1 .. n : s[m] = Up}

Downs(s, n) == {m \in 1 .. n : s[m] # Up}

DepthOf(s, n) == Cardinality(Downs(s, n)) - Cardinality(Ups(s, n))

\* A step goes one level down or up.
LEMMA DepthsFollow ==
  ASSUME NEW s, NEW n \in Nat
  PROVE  /\ DepthOf(s, n) \in Int /\ DepthOf(s, 0) = 0
         /\ s[n + 1] # Up => DepthOf(s, n + 1) = DepthOf(s, n) + 1
         /\ s[n + 1] = Up => DepthOf(s, n + 1) = DepthOf(s, n) - 1
<1>1. \A k \in Nat : IsFiniteSet(Ups(s, k)) /\ IsFiniteSet(Downs(s, k))
  <2> TAKE k \in Nat
  <2>1. IsFiniteSet(1 .. k)
        BY FS_Interval
  <2> QED BY <2>1, FS_Subset DEF Ups, Downs
<1>2. n + 1 \notin Ups(s, n) \cup Downs(s, n)
      BY DEF Ups, Downs
<1>3. \A m : m \in 1 .. n + 1 <=> m \in 1 .. n \/ m = n + 1
      OBVIOUS
<1>4. \A k \in Nat : Cardinality(Ups(s, k)) \in Nat /\ Cardinality(Downs(s, k)) \in Nat
      BY <1>1, FS_CardinalityType
<1>5. ASSUME s[n + 1] # Up
      PROVE  DepthOf(s, n + 1) = DepthOf(s, n) + 1
  <2>1. Downs(s, n + 1) = Downs(s, n) \cup {n + 1} /\ Ups(s, n + 1) = Ups(s, n)
        BY <1>3, <1>5 DEF Ups, Downs
  <2>2. Cardinality(Downs(s, n + 1)) = Cardinality(Downs(s, n)) + 1
        BY <1>1, <1>2, <2>1, FS_AddElement
  <2> QED BY <1>4, <2>1, <2>2 DEF DepthOf
<1>6. ASSUME s[n + 1] = Up
      PROVE  DepthOf(s, n + 1) = DepthOf(s, n) - 1
  <2>1. Ups(s, n + 1) = Ups(s, n) \cup {n + 1} /\ Downs(s, n + 1) = Downs(s, n)
        BY <1>3, <1>6 DEF Ups, Downs
  <2>2. Cardinality(Ups(s, n + 1)) = Cardinality(Ups(s, n)) + 1
        BY <1>1, <1>2, <2>1, FS_AddElement
  <2> QED BY <1>4, <2>1, <2>2 DEF DepthOf
<1>7. DepthOf(s, 0) = 0
  <2>1. Ups(s, 0) = {} /\ Downs(s, 0) = {}
        BY DEF Ups, Downs
  <2> QED BY <2>1, FS_EmptySet DEF DepthOf
<1> QED BY <1>4, <1>5, <1>6, <1>7 DEF DepthOf

\* What is left of a path's first n steps: where they lead, or that they leave the root.
CleanOf(u, s, n) ==
  \/ /\ \A m \in 1 .. n : DepthOf(s, m) >= 0
     /\ Len(u) = DepthOf(s, n) /\ \A i \in 1 .. Len(u) : u[i] # Up
  \/ (\E m \in 1 .. n : DepthOf(s, m) < 0) /\ Len(u) # 0 /\ u[1] = Up

\* One more step.
LEMMA EnteredFollows ==
  ASSUME NEW T, Up \in T, NEW s \in Seq(T), NEW n \in Nat, n + 1 \in 1 .. Len(s),
         NEW u \in Seq(T), CleanOf(u, s, n)
  PROVE  /\ Chunks!Entered(u, s[n + 1]) \in Seq(T)
         /\ CleanOf(Chunks!Entered(u, s[n + 1]), s, n + 1)
<1> DEFINE x == s[n + 1]
           v == Chunks!Entered(u, x)
           e == << >>
<1>1. x \in T /\ Up \in T /\ Len(u) \in Nat /\ n + 1 \in 1 .. n + 1
  <2>1. s[n + 1] \in T
        BY ElementOfSeq
  <2>2. Len(u) \in Nat
        BY LenProperties
  <2> QED BY <2>1, <2>2
<1>2. v = IF x # Up THEN Append(u, x)
          ELSE IF u = e \/ Chunks!Last(u) = Up THEN Append(u, Up) ELSE Chunks!Front(u)
      BY DEF Chunks!Entered, Up
<1>3. /\ DepthOf(s, n) \in Int /\ DepthOf(s, n + 1) \in Int
      /\ x # Up => DepthOf(s, n + 1) = DepthOf(s, n) + 1
      /\ x = Up => DepthOf(s, n + 1) = DepthOf(s, n) - 1
      BY DepthsFollow
<1>4. \A m : m \in 1 .. n + 1 <=> m \in 1 .. n \/ m = n + 1
      OBVIOUS
<1>5. Len(e) = 0 /\ e \in Seq(T) /\ (u # e => Len(u) # 0)
      BY EmptySeq
<1> HIDE DEF x, v, e
<1>6. \A y \in T : /\ Append(u, y) \in Seq(T) /\ Len(Append(u, y)) = Len(u) + 1
                        /\ Append(u, y)[Len(u) + 1] = y
                        /\ \A i \in 1 .. Len(u) : Append(u, y)[i] = u[i]
  <2> TAKE y \in T
  <2> DEFINE w == Append(u, y)
  <2>1. w \in Seq(T) /\ Len(w) = Len(u) + 1 /\ w[Len(u) + 1] = y
        BY AppendProperties
  <2>2. \A i \in 1 .. Len(u) : w[i] = u[i]
        BY AppendProperties
  <2> QED BY <2>1, <2>2
<1>7. u # e => /\ Chunks!Front(u) \in Seq(T) /\ Len(Chunks!Front(u)) = Len(u) - 1
               /\ Chunks!Last(u) = u[Len(u)]
               /\ \A i \in 1 .. Len(u) - 1 : Chunks!Front(u)[i] = u[i]
      BY FrontKeeps DEF e
<1>8. v \in Seq(T) /\ Len(v) \in Nat
      BY <1>1, <1>2, <1>6, <1>7, LenProperties
<1>9. ASSUME \A m \in 1 .. n : DepthOf(s, m) >= 0,
             Len(u) = DepthOf(s, n), \A i \in 1 .. Len(u) : u[i] # Up
      PROVE  CleanOf(v, s, n + 1)
  <2>1. CASE x # Up
    <3>1. v = Append(u, x)
          BY <1>2, <2>1
    <3>2. Len(v) = Len(u) + 1 /\ v[Len(u) + 1] = x /\ \A i \in 1 .. Len(u) : v[i] = u[i]
          BY <1>1, <1>6, <3>1
    <3>3. Len(v) = DepthOf(s, n + 1)
          BY <1>3, <1>9, <2>1, <3>2
    <3>4. \A i \in 1 .. Len(v) : v[i] # Up
      <4> TAKE i \in 1 .. Len(v)
      <4>1. i \in 1 .. Len(u) \/ i = Len(u) + 1
            BY <1>1, <3>2
      <4> QED BY <1>9, <2>1, <3>2, <4>1
    <3>5. \A m \in 1 .. n + 1 : DepthOf(s, m) >= 0
          BY <1>1, <1>3, <1>4, <1>9, <2>1
    <3> QED BY <3>3, <3>4, <3>5 DEF CleanOf
  <2>2. CASE x = Up /\ u = e
    <3>1. v = Append(u, Up) /\ Len(u) = 0
          BY <1>2, <1>5, <2>2
    <3>2. Len(v) = 1 /\ v[1] = Up
          BY <1>1, <1>6, <3>1
    <3>3. DepthOf(s, n + 1) < 0
          BY <1>3, <1>9, <2>2, <3>1
    <3> QED BY <1>1, <3>2, <3>3 DEF CleanOf
  <2>3. CASE x = Up /\ u # e
    <3>1. Chunks!Last(u) # Up
          BY <1>1, <1>5, <1>7, <1>9, <2>3
    <3>2. v = Chunks!Front(u)
          BY <1>2, <2>3, <3>1
    <3>3. Len(v) = Len(u) - 1 /\ \A i \in 1 .. Len(u) - 1 : v[i] = u[i]
          BY <1>7, <2>3, <3>2
    <3>4. Len(v) = DepthOf(s, n + 1) /\ DepthOf(s, n + 1) >= 0
          BY <1>3, <1>8, <1>9, <2>3, <3>3
    <3>5. \A i \in 1 .. Len(v) : v[i] # Up
          BY <1>1, <1>9, <3>3
    <3>6. \A m \in 1 .. n + 1 : DepthOf(s, m) >= 0
          BY <1>4, <1>9, <3>4
    <3> QED BY <3>4, <3>5, <3>6 DEF CleanOf
  <2> QED BY <2>1, <2>2, <2>3
<1>10. ASSUME \E m \in 1 .. n : DepthOf(s, m) < 0, Len(u) # 0, u[1] = Up
       PROVE  CleanOf(v, s, n + 1)
  <2>1. \E m \in 1 .. n + 1 : DepthOf(s, m) < 0
        BY <1>4, <1>10
  <2>2. Len(v) # 0 /\ v[1] = Up
    <3>1. CASE v = Append(u, x) \/ v = Append(u, Up)
      <4>1. PICK y \in T : v = Append(u, y)
            BY <1>1, <3>1
      <4>2. 1 \in 1 .. Len(u)
            BY <1>1, <1>10
      <4>3. Len(v) = Len(u) + 1 /\ v[1] = u[1]
            BY <1>6, <4>1, <4>2
      <4> QED BY <1>1, <1>10, <4>3
    <3>2. CASE ~(v = Append(u, x) \/ v = Append(u, Up))
      <4>1. v = Chunks!Front(u) /\ u # e /\ Chunks!Last(u) # Up
            BY <1>2, <3>2
      <4>2. Len(u) # 1
            BY <1>7, <1>10, <4>1
      <4>0. Len(u) \in Nat /\ Len(u) # 0
            BY <1>1, <1>10
      <4>3. 1 \in 1 .. Len(u) - 1 /\ Len(u) - 1 # 0
        <5> DEFINE N == Len(u)
        <5>1. N \in Nat /\ N # 0 /\ N # 1
              BY <4>0, <4>2
        <5> HIDE DEF N
        <5>2. 1 \in 1 .. N - 1 /\ N - 1 # 0
              BY <5>1
        <5> QED BY <5>2 DEF N
      <4> QED BY <1>7, <1>10, <4>1, <4>3
    <3> QED BY <3>1, <3>2
  <2> QED BY <2>1, <2>2 DEF CleanOf
<1>11. CleanOf(v, s, n + 1)
       BY <1>9, <1>10 DEF CleanOf
<1> QED BY <1>8, <1>11 DEF v, x

\* Clean tells whether a path leaves the root on its way.
LEMMA CleanTells ==
  ASSUME NEW T, Up \in T, NEW s \in Seq(T)
  PROVE  Chunks!Clean(s) \in Seq(T) /\ CleanOf(Chunks!Clean(s), s, Len(s))
<1> DEFINE V == Seq(T)
           N == Len(s)
           e == << >>
           h == [r \in V \X Nat |-> IF r[2] \in 1 .. N THEN Chunks!Entered(r[1], s[r[2]]) ELSE r[1]]
           Is(f) == f = [n \in 0 .. N |-> IF n = 0 THEN e ELSE Chunks!Entered(f[n - 1], s[n])]
<1>1. N \in Nat /\ \A n \in 1 .. N : s[n] \in T
      BY LenProperties, ElementOfSeq
<1>2. e \in V /\ Len(e) = 0
      BY EmptySeq
<1> HIDE DEF e
<1>3. ASSUME NEW u \in V, NEW x \in T
      PROVE  Chunks!Entered(u, x) \in V
  <2>1. /\ Append(u, x) \in V /\ Append(u, Up) \in V
        BY AppendProperties
  <2>2. u # e => Chunks!Front(u) \in V
        BY FrontKeeps DEF e
  <2>3. Chunks!Entered(u, x) = IF x # Up THEN Append(u, x)
                               ELSE IF u = e \/ Chunks!Last(u) = Up THEN Append(u, Up) ELSE Chunks!Front(u)
        BY DEF Chunks!Entered, Up, e
  <2> QED BY <2>1, <2>2, <2>3
<1>4. h \in [V \X Nat -> V]
  <2>1. ASSUME NEW r \in V \X Nat
        PROVE  h[r] \in V
    <3>1. r[1] \in V /\ (r[2] \in 1 .. N => s[r[2]] \in T)
          BY <1>1
    <3> HIDE DEF V, N
    <3>2. r[2] \in 1 .. N => Chunks!Entered(r[1], s[r[2]]) \in V
          BY <1>3, <3>1
    <3> QED BY <3>1, <3>2
  <2> QED BY <2>1
<1>5. PICK f \in [0 .. N -> V] : Follows(f, V, e, h, N)
  <2> HIDE DEF V, N, h
  <2> QED BY <1>1, <1>2, <1>4, Recursive
<1>6. Is(f)
  <2>1. \A n \in 1 .. N : h[<<f[n - 1], n>>] = Chunks!Entered(f[n - 1], s[n])
    <3> TAKE n \in 1 .. N
    <3>1. <<f[n - 1], n>> \in V \X Nat
          BY <1>5 DEF Follows
    <3> HIDE DEF V, N
    <3> QED BY <3>1
  <2>2. \A n \in 0 .. N : n = 0 \/ n \in 1 .. N
        BY <1>1
  <2> HIDE DEF V, N, h
  <2> QED BY <1>5, <2>1, <2>2 DEF Follows
<1> DEFINE w == CHOOSE g : Is(g)
<1>7. Chunks!Clean(s) = w[N]
      BY DEF Chunks!Clean, e
<1>8. Is(w)
  <2> HIDE DEF Is
  <2> QED BY <1>6
<1> HIDE DEF w, h
<1>9. w[0] = e /\ \A n \in 1 .. N : w[n] = Chunks!Entered(w[n - 1], s[n])
  <2>1. \A n \in 1 .. N : n \in 0 .. N /\ n # 0
        BY <1>1
  <2>2. 0 \in 0 .. N
        BY <1>1
  <2> HIDE DEF N
  <2> QED BY <1>8, <2>1, <2>2
<1> HIDE DEF Is
<1> DEFINE S == {n \in Nat : w[n] \in V /\ CleanOf(w[n], s, n)}
<1>10. 0 \in S
  <2>1. DepthOf(s, 0) = 0
        BY DepthsFollow
  <2>2. CleanOf(e, s, 0)
        BY <1>2, <2>1 DEF CleanOf
  <2> QED BY <1>2, <1>9, <2>2
<1>11. ASSUME NEW n \in 0 .. N - 1, n \in S
       PROVE  n + 1 \in S
  <2>1. n \in Nat /\ n + 1 \in 1 .. N /\ n + 1 \in Nat /\ (n + 1) - 1 = n
        BY <1>1
  <2>2. w[n] \in V /\ CleanOf(w[n], s, n)
        BY <1>11
  <2>3. w[n + 1] = Chunks!Entered(w[n], s[n + 1])
    <3> HIDE DEF N
    <3> QED BY <1>9, <2>1
  <2>4. /\ Chunks!Entered(w[n], s[n + 1]) \in V
        /\ CleanOf(Chunks!Entered(w[n], s[n + 1]), s, n + 1)
        BY <2>1, <2>2, EnteredFollows
  <2> HIDE DEF V
  <2> QED BY <2>1, <2>3, <2>4
<1>12. N \in S
  <2> HIDE DEF S, N
  <2>1. 0 .. N \subseteq S
        BY <1>1, <1>10, <1>11, InductionUpTo
  <2> QED BY <1>1, <2>1
<1> QED BY <1>7, <1>12

\* A target, from where a document is, and the files that may be led to.
Steps == STRING \cup {Up}

Full(path, k) == Chunks!Front(path) \o k.path

Stays(path, k) == \A n \in DOMAIN Full(path, k) : DepthOf(Full(path, k), n) >= 0

\* A link refers to a file when its path never leaves the package.
LEMMA RefersIsToStay ==
  ASSUME NEW path \in Seq(STRING) \ {<< >>}, NEW k \in Chunks!Targets
  PROVE  /\ Chunks!Resolved(path, k) \in Seq(Steps)
         /\ Chunks!Refers(path, k) <=>
              /\ ~k.scheme /\ k.path # << >> /\ Stays(path, k)
              /\ Chunks!Resolved(path, k) \notin {<< >>, path}
<1> DEFINE s == Full(path, k)
           r == Chunks!Resolved(path, k)
           e == << >>
<1>1. path \in Seq(STRING) /\ path # << >> /\ k.path \in Seq(STRING)
      BY DEF Chunks!Targets
<1>2. Chunks!Front(path) \in Seq(STRING)
      BY <1>1, FrontKeeps
<1>3. s \in Seq(STRING)
      BY <1>1, <1>2, ConcatProperties DEF Full
<1>4. Up \in Steps /\ STRING \subseteq Steps
      BY DEF Steps
<1>5. s \in Seq(Steps)
      BY <1>3, <1>4, SeqMonotonic
<1>6. r = Chunks!Clean(s)
      BY DEF Chunks!Resolved, Full
<1>7. r \in Seq(Steps) /\ CleanOf(r, s, Len(s))
      BY <1>4, <1>5, <1>6, CleanTells
<1>8. Stays(path, k) <=> \A n \in 1 .. Len(s) : DepthOf(s, n) >= 0
      BY <1>5, LenProperties DEF Stays
<1>9. ASSUME r # e
      PROVE  Head(r) # Up <=> Stays(path, k)
  <2>1. Len(r) \in Nat /\ Len(r) # 0 /\ Head(r) = r[1] /\ 1 \in 1 .. Len(r)
        BY <1>7, <1>9, EmptySeq
  <2> HIDE DEF r, s
  <2>2. \A n \in 1 .. Len(s) : n \in Nat /\ DepthOf(s, n) \in Int
    <3> TAKE n \in 1 .. Len(s)
    <3>1. n \in Nat
          BY <1>5, LenProperties
    <3> QED BY <3>1, DepthsFollow
  <2>3. CASE \A n \in 1 .. Len(s) : DepthOf(s, n) >= 0
    <3>1. ~ \E n \in 1 .. Len(s) : DepthOf(s, n) < 0
          BY <2>2, <2>3
    <3>2. \A i \in 1 .. Len(r) : r[i] # Up
          BY <1>7, <3>1 DEF CleanOf
    <3> QED BY <1>8, <2>1, <2>3, <3>2
  <2>4. CASE ~ \A n \in 1 .. Len(s) : DepthOf(s, n) >= 0
    <3>1. r[1] = Up
          BY <1>7, <2>4 DEF CleanOf
    <3> QED BY <1>8, <2>1, <2>4, <3>1
  <2> QED BY <2>3, <2>4
<1>10. Chunks!Refers(path, k) <=>
         /\ ~k.scheme /\ k.path # e /\ r \notin {e, path} /\ Head(r) # Up
  <2> HIDE DEF r
  <2> QED BY DEF Chunks!Refers, r, Up
<1> HIDE DEF r, s
<1>11. Chunks!Refers(path, k) <=>
         /\ ~k.scheme /\ k.path # e /\ Stays(path, k) /\ r \notin {e, path}
  <2> DEFINE A == ~k.scheme
             B == k.path # e
             C == Stays(path, k)
             D == Head(r) # Up
             E == Chunks!Refers(path, k)
  <2>1. E <=> A /\ B /\ r \notin {e, path} /\ D
        BY <1>10
  <2>2. r # e => (D <=> C)
        BY <1>9
  <2> HIDE DEF A, B, C, D, E, e
  <2>3. E <=> A /\ B /\ C /\ r \notin {e, path}
        BY <2>1, <2>2
  <2> QED BY <2>3 DEF A, B, C, E
<1> QED BY <1>7, <1>11 DEF r

\* The lines that may name something.
Outside(doc, i) == Chunks!Fences(doc)[i] = "none" /\ doc[i].is # "fence"

\* What the lines of a document name.
NamesOf(doc, links) ==
  /\ links \in Seq(Chunks!Targets)
  /\ \A k : (\E m \in 1 .. Len(links) : links[m] = k) <=>
            \E i \in DOMAIN doc : /\ Outside(doc, i)
                                  /\ \E j \in 1 .. Len(doc[i].links) : doc[i].links[j] = k

\* It is put together in order.
LEMMA NamesAreThere ==
  ASSUME NEW doc \in Chunks!Documents, NEW links,
         links = Chunks!FlattenSeq([i \in DOMAIN doc |-> Chunks!Named(doc, i)])
  PROVE  NamesOf(doc, links)
<1> DEFINE T == Chunks!Targets
           N == Len(doc)
           ss == [i \in DOMAIN doc |-> Chunks!Named(doc, i)]
           e == << >>
<1>1. doc \in Seq(Chunks!Lines) /\ N \in Nat /\ DOMAIN doc = 1 .. N
  <2>1. doc \in Seq(Chunks!Lines)
        BY DEF Chunks!Documents
  <2> QED BY <2>1, LenProperties
<1>2. \A i \in 1 .. N : doc[i].links \in Seq(T)
  <2> TAKE i \in 1 .. N
  <2>1. doc[i] \in Chunks!Lines
        BY <1>1, ElementOfSeq
  <2> QED BY <2>1 DEF Chunks!Lines
<1>3. e \in Seq(T) /\ Len(e) = 0
      BY EmptySeq
<1> HIDE DEF e, T
<1>4. \A i \in 1 .. N : ss[i] = IF Outside(doc, i) THEN doc[i].links ELSE e
      BY <1>1 DEF Chunks!Named, Outside, e
<1>5. ss \in Seq(Seq(T)) /\ Len(ss) = N
  <2>1. ss = [i \in 1 .. N |-> Chunks!Named(doc, i)] /\ \A i \in 1 .. N : ss[i] \in Seq(T)
        BY <1>1, <1>2, <1>3, <1>4
  <2>2. ss \in [1 .. N -> Seq(T)]
    <3> DEFINE q == [i \in 1 .. N |-> Chunks!Named(doc, i)]
    <3>1. \A i \in 1 .. N : q[i] \in Seq(T)
          BY <2>1
    <3>2. q \in [1 .. N -> Seq(T)]
          BY <3>1
    <3> QED BY <2>1, <3>2
  <2> HIDE DEF ss, N
  <2> QED BY <1>1, <2>2
<1>6. links = Chunks!FlattenSeq(ss)
      OBVIOUS
<1> HIDE DEF ss
<1>7. links \in Seq(T) /\ \E p : Spans(links, ss, N, p)
      BY <1>5, <1>6, Flattened
<1>8. PICK p : Spans(links, ss, N, p)
      BY <1>7
<1>9. ASSUME NEW m \in 1 .. Len(links)
      PROVE  \E i \in DOMAIN doc : /\ Outside(doc, i)
                                   /\ \E j \in 1 .. Len(doc[i].links) : doc[i].links[j] = links[m]
  <2>1. /\ p[m][1] \in 1 .. N /\ p[m][2] \in 1 .. Len(ss[p[m][1]])
        /\ links[m] = ss[p[m][1]][p[m][2]]
        BY <1>8 DEF Spans
  <2> DEFINE i == p[m][1]
             j == p[m][2]
  <2>2. i \in 1 .. N /\ j \in 1 .. Len(ss[i]) /\ links[m] = ss[i][j]
        BY <2>1
  <2> HIDE DEF i, j
  <2>3. Outside(doc, i)
    <3> SUFFICES ASSUME ~Outside(doc, i) PROVE FALSE
        OBVIOUS
    <3>1. ss[i] = e
          BY <1>4, <2>2
    <3> QED BY <1>3, <2>2, <3>1
  <2>4. ss[i] = doc[i].links
        BY <1>4, <2>2, <2>3
  <2> QED BY <1>1, <2>2, <2>3, <2>4
<1>10. ASSUME NEW i \in DOMAIN doc, Outside(doc, i), NEW j \in 1 .. Len(doc[i].links)
       PROVE  \E m \in 1 .. Len(links) : links[m] = doc[i].links[j]
  <2>1. i \in 1 .. N /\ ss[i] = doc[i].links
        BY <1>1, <1>4, <1>10
  <2>2. \A n \in 1 .. N : \A l \in 1 .. Len(ss[n]) :
          \E k \in 1 .. Len(links) : p[k][1] = n /\ p[k][2] = l
        BY <1>8, Zenon DEF Spans
  <2>3. PICK m \in 1 .. Len(links) : p[m][1] = i /\ p[m][2] = j
        BY <2>1, <2>2
  <2>4. links[m] = ss[p[m][1]][p[m][2]]
        BY <1>8 DEF Spans
  <2> QED BY <2>1, <2>3, <2>4
<1>11. ASSUME NEW k
       PROVE  (\E m \in 1 .. Len(links) : links[m] = k) <=>
                \E i \in DOMAIN doc : /\ Outside(doc, i)
                                      /\ \E j \in 1 .. Len(doc[i].links) : doc[i].links[j] = k
  <2>1. ASSUME NEW m \in 1 .. Len(links), links[m] = k
        PROVE  \E i \in DOMAIN doc : /\ Outside(doc, i)
                                     /\ \E j \in 1 .. Len(doc[i].links) : doc[i].links[j] = k
        BY <1>9, <2>1
  <2>2. ASSUME NEW i \in DOMAIN doc, Outside(doc, i), NEW j \in 1 .. Len(doc[i].links),
               doc[i].links[j] = k
        PROVE  \E m \in 1 .. Len(links) : links[m] = k
        BY <1>10, <2>2
  <2> QED BY <2>1, <2>2
<1> QED BY <1>7, <1>11 DEF T, NamesOf

\* What the first n links of a document lead to: each file once, and all while there is room.
LinksOf(u, path, links, n) ==
  /\ Len(u) <= MaxLinks
  /\ \A i, j \in 1 .. Len(u) : u[i] = u[j] => i = j
  /\ \A i \in 1 .. Len(u) : \E m \in 1 .. n :
       Chunks!Refers(path, links[m]) /\ u[i] = Chunks!Resolved(path, links[m])
  /\ Len(u) < MaxLinks => \A m \in 1 .. n : Chunks!Refers(path, links[m]) =>
       \E i \in 1 .. Len(u) : u[i] = Chunks!Resolved(path, links[m])

\* One more link.
LEMMA SeenFollows ==
  ASSUME NEW path, NEW links, NEW n \in Nat, NEW u \in Seq(Seq(Steps)),
         Chunks!Resolved(path, links[n + 1]) \in Seq(Steps), LinksOf(u, path, links, n)
  PROVE  /\ Chunks!Seen(u, path, links[n + 1]) \in Seq(Seq(Steps))
         /\ LinksOf(Chunks!Seen(u, path, links[n + 1]), path, links, n + 1)
<1> DEFINE k == links[n + 1]
           r == Chunks!Resolved(path, k)
           v == Chunks!Seen(u, path, k)
           V == Seq(Steps)
<1>1. Len(u) \in Nat /\ DOMAIN u = 1 .. Len(u) /\ r \in V
      BY LenProperties
<1>2. \A m : m \in 1 .. n + 1 <=> m \in 1 .. n \/ m = n + 1
      OBVIOUS
<1>3. MaxLinks \in Nat
      BY ChunksAssumption
<1>4. v = IF ~Chunks!Refers(path, k) \/ (\E i \in 1 .. Len(u) : u[i] = r) \/ Len(u) >= MaxLinks
          THEN u ELSE Append(u, r)
      BY <1>1 DEF Chunks!Seen, Chunks!ToSet
<1>5. /\ Len(u) <= MaxLinks
      /\ \A i, j \in 1 .. Len(u) : u[i] = u[j] => i = j
      /\ \A i \in 1 .. Len(u) : \E m \in 1 .. n :
           Chunks!Refers(path, links[m]) /\ u[i] = Chunks!Resolved(path, links[m])
      /\ Len(u) < MaxLinks => \A m \in 1 .. n : Chunks!Refers(path, links[m]) =>
           \E i \in 1 .. Len(u) : u[i] = Chunks!Resolved(path, links[m])
      BY DEF LinksOf
<1>6. links[n + 1] = k /\ Chunks!Resolved(path, k) = r
      OBVIOUS
<1> HIDE DEF k, r, v, V
<1>7. CASE v = u /\ (~Chunks!Refers(path, k) \/ (\E i \in 1 .. Len(u) : u[i] = r) \/ Len(u) >= MaxLinks)
  <2>1. \A i \in 1 .. Len(u) : \E m \in 1 .. n + 1 :
          Chunks!Refers(path, links[m]) /\ u[i] = Chunks!Resolved(path, links[m])
        BY <1>2, <1>5
  <2>2. ASSUME Len(u) < MaxLinks, NEW m \in 1 .. n + 1, Chunks!Refers(path, links[m])
        PROVE  \E i \in 1 .. Len(u) : u[i] = Chunks!Resolved(path, links[m])
    <3>1. CASE m \in 1 .. n
          BY <1>5, <2>2, <3>1
    <3>2. CASE m = n + 1
      <4>1. ~(Len(u) >= MaxLinks)
            BY <1>1, <1>3, <2>2
      <4> QED BY <1>6, <1>7, <2>2, <3>2, <4>1
    <3> QED BY <1>2, <3>1, <3>2
  <2>3. LinksOf(u, path, links, n + 1)
        BY <1>5, <2>1, <2>2 DEF LinksOf
  <2> QED BY <1>7, <2>3 DEF k, v
<1>8. CASE /\ v = Append(u, r) /\ Chunks!Refers(path, k)
           /\ ~(\E i \in 1 .. Len(u) : u[i] = r) /\ ~(Len(u) >= MaxLinks)
  <2>1. /\ v \in Seq(V) /\ Len(v) = Len(u) + 1 /\ v[Len(u) + 1] = r
        /\ \A i \in 1 .. Len(u) : v[i] = u[i]
    <3>1. u \in Seq(V)
          BY DEF V
    <3> QED BY <1>1, <1>8, <3>1, AppendProperties
  <2>2. \A i : i \in 1 .. Len(v) <=> i \in 1 .. Len(u) \/ i = Len(u) + 1
        BY <1>1, <2>1
  <2>3. Len(v) <= MaxLinks
        BY <1>1, <1>3, <1>8, <2>1
  <2>4. \A i, j \in 1 .. Len(v) : v[i] = v[j] => i = j
        BY <1>5, <1>8, <2>1, <2>2
  <2>5. ASSUME NEW i \in 1 .. Len(v)
        PROVE  \E m \in 1 .. n + 1 :
                 Chunks!Refers(path, links[m]) /\ v[i] = Chunks!Resolved(path, links[m])
    <3>1. CASE i \in 1 .. Len(u)
      <4>1. v[i] = u[i]
            BY <2>1, <3>1
      <4>2. PICK m \in 1 .. n : Chunks!Refers(path, links[m]) /\ u[i] = Chunks!Resolved(path, links[m])
            BY <1>5, <3>1
      <4> QED BY <1>2, <4>1, <4>2
    <3>2. CASE i = Len(u) + 1
          BY <1>2, <1>6, <1>8, <2>1, <3>2
    <3> QED BY <2>2, <3>1, <3>2
  <2>6. ASSUME NEW m \in 1 .. n + 1, Chunks!Refers(path, links[m])
        PROVE  \E i \in 1 .. Len(v) : v[i] = Chunks!Resolved(path, links[m])
    <3>1. CASE m \in 1 .. n
      <4>1. Len(u) < MaxLinks
            BY <1>1, <1>3, <1>8
      <4>2. PICK i \in 1 .. Len(u) : u[i] = Chunks!Resolved(path, links[m])
            BY <1>5, <2>6, <3>1, <4>1
      <4> QED BY <2>1, <2>2, <4>2
    <3>2. CASE m = n + 1
          BY <1>6, <2>1, <2>2, <3>2
    <3> QED BY <1>2, <3>1, <3>2
  <2>7. LinksOf(v, path, links, n + 1)
        BY <2>3, <2>4, <2>5, <2>6 DEF LinksOf
  <2> QED BY <2>1, <2>7 DEF k, v, V
<1> QED BY <1>4, <1>7, <1>8

\* What a document's links lead to.
LEMMA LinksAreFound ==
  ASSUME NEW path \in Seq(STRING) \ {<< >>}, NEW doc \in Chunks!Documents, NEW links,
         links = Chunks!FlattenSeq([i \in DOMAIN doc |-> Chunks!Named(doc, i)])
  PROVE  /\ Chunks!ExtractMarkdownLinks(path, doc) \in Seq(Seq(Steps))
         /\ LinksOf(Chunks!ExtractMarkdownLinks(path, doc), path, links, Len(links))
<1> DEFINE V == Seq(Seq(Steps))
           T == Chunks!Targets
           N == Len(links)
           e == << >>
           h == [r \in V \X Nat |-> IF r[2] \in 1 .. N THEN Chunks!Seen(r[1], path, links[r[2]]) ELSE r[1]]
           Is(f) == f = [n \in 0 .. N |-> IF n = 0 THEN e ELSE Chunks!Seen(f[n - 1], path, links[n])]
<1>1. N \in Nat /\ \A n \in 1 .. N : links[n] \in T
  <2>1. links \in Seq(T)
        BY NamesAreThere DEF NamesOf
  <2> QED BY <2>1, LenProperties, ElementOfSeq
<1>2. e \in V /\ Len(e) = 0
      BY EmptySeq
<1> HIDE DEF e
<1>3. ASSUME NEW u \in V, NEW k \in T
      PROVE  Chunks!Seen(u, path, k) \in V
  <2>1. Chunks!Resolved(path, k) \in Seq(Steps)
        BY RefersIsToStay
  <2>2. Append(u, Chunks!Resolved(path, k)) \in V
        BY <2>1, AppendProperties
  <2> QED BY <2>2 DEF Chunks!Seen
<1>4. h \in [V \X Nat -> V]
  <2>1. ASSUME NEW r \in V \X Nat
        PROVE  h[r] \in V
    <3>1. r[1] \in V /\ (r[2] \in 1 .. N => links[r[2]] \in T)
          BY <1>1
    <3> HIDE DEF V, N, T
    <3>2. r[2] \in 1 .. N => Chunks!Seen(r[1], path, links[r[2]]) \in V
          BY <1>3, <3>1
    <3> QED BY <3>1, <3>2
  <2> QED BY <2>1
<1>5. PICK f \in [0 .. N -> V] : Follows(f, V, e, h, N)
  <2> HIDE DEF V, N, h
  <2> QED BY <1>1, <1>2, <1>4, Recursive
<1>6. Is(f)
  <2>1. \A n \in 1 .. N : h[<<f[n - 1], n>>] = Chunks!Seen(f[n - 1], path, links[n])
    <3> TAKE n \in 1 .. N
    <3>1. <<f[n - 1], n>> \in V \X Nat
          BY <1>5 DEF Follows
    <3> HIDE DEF V, N
    <3> QED BY <3>1
  <2>2. \A n \in 0 .. N : n = 0 \/ n \in 1 .. N
        BY <1>1
  <2> HIDE DEF V, N, h
  <2> QED BY <1>5, <2>1, <2>2 DEF Follows
<1> DEFINE w == CHOOSE g : Is(g)
<1>7. Chunks!ExtractMarkdownLinks(path, doc) = w[N]
      BY DEF Chunks!ExtractMarkdownLinks, e
<1>8. Is(w)
  <2> HIDE DEF Is
  <2> QED BY <1>6
<1> HIDE DEF w, h
<1>9. w[0] = e /\ \A n \in 1 .. N : w[n] = Chunks!Seen(w[n - 1], path, links[n])
  <2>1. \A n \in 1 .. N : n \in 0 .. N /\ n # 0
        BY <1>1
  <2>2. 0 \in 0 .. N
        BY <1>1
  <2> HIDE DEF N
  <2> QED BY <1>8, <2>1, <2>2
<1> HIDE DEF Is
<1> DEFINE S == {n \in Nat : w[n] \in V /\ LinksOf(w[n], path, links, n)}
<1>10. 0 \in S
  <2>1. LinksOf(e, path, links, 0)
        BY <1>2, ChunksAssumption DEF LinksOf
  <2> QED BY <1>2, <1>9, <2>1
<1>11. ASSUME NEW n \in 0 .. N - 1, n \in S
       PROVE  n + 1 \in S
  <2>1. n \in Nat /\ n + 1 \in 1 .. N /\ n + 1 \in Nat /\ (n + 1) - 1 = n
        BY <1>1
  <2>2. w[n] \in V /\ LinksOf(w[n], path, links, n)
        BY <1>11
  <2>3. w[n + 1] = Chunks!Seen(w[n], path, links[n + 1])
    <3> HIDE DEF N
    <3> QED BY <1>9, <2>1
  <2>4. Chunks!Resolved(path, links[n + 1]) \in Seq(Steps)
    <3>1. links[n + 1] \in T
          BY <1>1, <2>1
    <3> QED BY <3>1, RefersIsToStay
  <2>5. /\ Chunks!Seen(w[n], path, links[n + 1]) \in V
        /\ LinksOf(Chunks!Seen(w[n], path, links[n + 1]), path, links, n + 1)
        BY <2>1, <2>2, <2>4, SeenFollows
  <2> HIDE DEF V
  <2> QED BY <2>1, <2>3, <2>5
<1>12. N \in S
  <2> HIDE DEF S, N
  <2>1. 0 .. N \subseteq S
        BY <1>1, <1>10, <1>11, InductionUpTo
  <2> QED BY <1>1, <2>1
<1> QED BY <1>7, <1>12

\* A sequence without repetition has as many elements as places.
LEMMA PlacesAreElements ==
  ASSUME NEW T, NEW u \in Seq(T), \A i, j \in 1 .. Len(u) : u[i] = u[j] => i = j
  PROVE  Cardinality({u[i] : i \in 1 .. Len(u)}) = Len(u)
<1> DEFINE S == {u[i] : i \in 1 .. Len(u)}
           N == Len(u)
<1>1. N \in Nat /\ u \in [1 .. N -> T]
      BY LenProperties
<1>2. IsFiniteSet(1 .. N) /\ Cardinality(1 .. N) = N
      BY <1>1, FS_Interval
<1>3. u \in Bijection(1 .. N, S)
  <2>1. u \in [1 .. N -> S]
        BY <1>1
  <2> QED BY <2>1 DEF Bijection, Injection, Surjection, IsInjective
<1>4. ExistsBijection(1 .. N, S)
      BY <1>3 DEF ExistsBijection
<1> HIDE DEF S, N
<1>5. Cardinality(S) = N
      BY <1>2, <1>4, FS_Bijection
<1> QED BY <1>5 DEF S, N

\* The links of a document stay inside its package.
LEMMA LinksAreKept ==
  ASSUME NEW path \in Seq(STRING) \ {<< >>}, NEW doc \in Chunks!Documents
  PROVE  Chunks!LinksStayInside(path, doc)
<1> DEFINE u == Chunks!ExtractMarkdownLinks(path, doc)
           links == Chunks!FlattenSeq([i \in DOMAIN doc |-> Chunks!Named(doc, i)])
           T == Chunks!Targets
           r(k) == Chunks!Resolved(path, k)
           set == {u[i] : i \in 1 .. Len(u)}
           texts == UNION {Chunks!ToSet(doc[i].links) : i \in {j \in DOMAIN doc : Outside(doc, j)}}
           named == {k \in texts : /\ ~k.scheme /\ k.path # << >> /\ Stays(path, k)
                                   /\ Chunks!Resolved(path, k) \notin {<< >>, path}}
<1>1. /\ links \in Seq(T)
      /\ \A k : (\E m \in 1 .. Len(links) : links[m] = k) <=>
                \E i \in DOMAIN doc : /\ Outside(doc, i)
                                      /\ \E j \in 1 .. Len(doc[i].links) : doc[i].links[j] = k
  <2>1. links = Chunks!FlattenSeq([i \in DOMAIN doc |-> Chunks!Named(doc, i)])
        OBVIOUS
  <2> HIDE DEF links
  <2>2. NamesOf(doc, links)
        BY <2>1, NamesAreThere
  <2> QED BY <2>2, Zenon DEF NamesOf
<1>2. u \in Seq(Seq(Steps)) /\ LinksOf(u, path, links, Len(links))
      BY LinksAreFound
<1> HIDE DEF u, links
<1>3. Len(u) \in Nat /\ Chunks!ToSet(u) = set
      BY <1>2, LenProperties DEF Chunks!ToSet
<1>4. Cardinality(set) = Len(u)
  <2>1. \A i, j \in 1 .. Len(u) : u[i] = u[j] => i = j
        BY <1>2 DEF LinksOf
  <2> QED BY <1>2, <2>1, PlacesAreElements
<1>5. \A k : k \in texts <=> \E m \in 1 .. Len(links) : links[m] = k
  <2>1. \A i \in DOMAIN doc : doc[i].links \in Seq(T)
    <3> TAKE i \in DOMAIN doc
    <3>1. doc \in Seq(Chunks!Lines)
          BY DEF Chunks!Documents
    <3>2. doc[i] \in Chunks!Lines
          BY <3>1, ElementOfSeq, LenProperties
    <3> QED BY <3>2 DEF Chunks!Lines
  <2>2. ASSUME NEW i \in DOMAIN doc, NEW k
        PROVE  k \in Chunks!ToSet(doc[i].links) <=> \E j \in 1 .. Len(doc[i].links) : doc[i].links[j] = k
    <3>1. DOMAIN doc[i].links = 1 .. Len(doc[i].links)
          BY <2>1, LenProperties
    <3> QED BY <3>1 DEF Chunks!ToSet
  <2> TAKE k
  <2>3. k \in texts <=> \E i \in DOMAIN doc : Outside(doc, i) /\ k \in Chunks!ToSet(doc[i].links)
        OBVIOUS
  <2> HIDE DEF texts
  <2>4. k \in texts <=> \E i \in DOMAIN doc : /\ Outside(doc, i)
                                             /\ \E j \in 1 .. Len(doc[i].links) : doc[i].links[j] = k
        BY <2>2, <2>3
  <2> QED BY <1>1, <2>4
<1> HIDE DEF texts
<1>6. ASSUME NEW m \in 1 .. Len(links)
      PROVE  Chunks!Refers(path, links[m]) <=> links[m] \in named
  <2> DEFINE k == links[m]
  <2>1. k \in T /\ k \in texts
        BY <1>1, <1>5, ElementOfSeq
  <2> HIDE DEF k
  <2>2. Chunks!Refers(path, k) <=> /\ ~k.scheme /\ k.path # << >> /\ Stays(path, k)
                                   /\ Chunks!Resolved(path, k) \notin {<< >>, path}
        BY <2>1, RefersIsToStay
  <2>3. Chunks!Refers(path, k) <=> k \in named
        BY <2>1, <2>2, Zenon
  <2> QED BY <2>3 DEF k
<1>7. \A k \in named : k \in texts
      OBVIOUS
<1> HIDE DEF named, set
<1>8. set \subseteq {r(k) : k \in named}
  <2>1. ASSUME NEW i \in 1 .. Len(u)
        PROVE  u[i] \in {r(k) : k \in named}
    <3>1. PICK m \in 1 .. Len(links) :
            Chunks!Refers(path, links[m]) /\ u[i] = Chunks!Resolved(path, links[m])
          BY <1>2 DEF LinksOf
    <3>2. links[m] \in named
          BY <1>6, <3>1
    <3> QED BY <3>1, <3>2
  <2> QED BY <2>1 DEF set
<1>9. ASSUME Len(u) < MaxLinks
      PROVE  {r(k) : k \in named} \subseteq set
  <2>1. ASSUME NEW k \in named
        PROVE  r(k) \in set
    <3>1. PICK m \in 1 .. Len(links) : links[m] = k
          BY <1>5, <1>7
    <3>2. Chunks!Refers(path, links[m])
          BY <1>6, <3>1
    <3>3. \E i \in 1 .. Len(u) : u[i] = Chunks!Resolved(path, links[m])
          BY <1>2, <1>9, <3>2 DEF LinksOf
    <3> QED BY <3>1, <3>3 DEF set
  <2> QED BY <2>1
<1>10. Len(u) <= MaxLinks
       BY <1>2 DEF LinksOf
<1>11. /\ Chunks!Cardinality(Chunks!ToSet(u)) = Len(u) /\ Len(u) <= MaxLinks
       /\ Chunks!ToSet(u) \subseteq {r(k) : k \in named}
       /\ Len(u) < MaxLinks => Chunks!ToSet(u) = {r(k) : k \in named}
       BY <1>3, <1>4, <1>8, <1>9, <1>10, ChunksSelects
<1>12. \A s, n : DepthOf(s, n) = Chunks!Cardinality({m \in 1 .. n : s[m] # ".."})
                                - Chunks!Cardinality({m \in 1 .. n : s[m] = ".."})
       BY ChunksSelects DEF DepthOf, Ups, Downs, Up
<1>13. named = {k \in UNION {Chunks!ToSet(doc[i].links) : i \in {j \in DOMAIN doc :
                               Chunks!Fences(doc)[j] = "none" /\ doc[j].is # "fence"}} :
                  /\ ~k.scheme /\ k.path # << >>
                  /\ \A n \in DOMAIN (Chunks!Front(path) \o k.path) :
                       Chunks!Cardinality({m \in 1 .. n : (Chunks!Front(path) \o k.path)[m] # ".."})
                         - Chunks!Cardinality({m \in 1 .. n : (Chunks!Front(path) \o k.path)[m] = ".."}) >= 0
                  /\ Chunks!Resolved(path, k) \notin {<< >>, path}}
       BY <1>12, Zenon DEF named, texts, Outside, Stays, Full
<1> HIDE DEF r
<1> QED BY <1>11, <1>13 DEF Chunks!LinksStayInside, u, r

-----------------------------------------------------------------------------
\* Chunks.

\* The runes of a document and the ends of its lines, in their order; a text is sorted
\* when its runes are, and it holds those.
Spots == Nat \X Nat

Earlier(a, b) == a[1] < b[1] \/ (a[1] = b[1] /\ a[2] < b[2])

Precedes(A, B) == \A a \in A, b \in B : Earlier(a, b)

Held(t) == {t[k] : k \in 1 .. Len(t)} \ {Chunks!NewLine}

Sorted(t) == \A j, k \in 1 .. Len(t) :
  j < k /\ t[j] # Chunks!NewLine /\ t[k] # Chunks!NewLine => Earlier(t[j], t[k])

\* It is an order.
LEMMA EarlierOrders ==
  /\ \A a \in Spots : ~Earlier(a, a)
  /\ \A a, b, c \in Spots : Earlier(a, b) /\ Earlier(b, c) => Earlier(a, c)
  /\ \A a, b \in Spots : a # b => Earlier(a, b) \/ Earlier(b, a)
  /\ \A a, b \in Spots : Earlier(a, b) => a # b /\ ~Earlier(b, a)
<1>1. \A a \in Spots : a[1] \in Nat /\ a[2] \in Nat /\ a = <<a[1], a[2]>>
      BY DEF Spots
<1>2. \A a, b, c \in Spots : Earlier(a, b) /\ Earlier(b, c) => Earlier(a, c)
      BY <1>1 DEF Earlier
<1>3. \A a \in Spots : ~Earlier(a, a)
      BY <1>1 DEF Earlier
<1>4. \A a, b \in Spots : a # b => Earlier(a, b) \/ Earlier(b, a)
      BY <1>1 DEF Earlier
<1>5. \A a, b \in Spots : Earlier(a, b) => a # b /\ ~Earlier(b, a)
      BY <1>2, <1>3
<1> QED BY <1>2, <1>3, <1>4, <1>5

\* One text after another.
LEMMA HeldJoin ==
  ASSUME NEW s \in Seq(Spots), NEW t \in Seq(Spots)
  PROVE  /\ s \o t \in Seq(Spots) /\ Held(s \o t) = Held(s) \cup Held(t)
         /\ Sorted(s) /\ Sorted(t) /\ Precedes(Held(s), Held(t)) => Sorted(s \o t)
<1> DEFINE f == s \o t
           L == Len(s)
           K == Chunks!NewLine
<1>1. /\ f \in Seq(Spots) /\ Len(f) = L + Len(t) /\ L \in Nat /\ Len(t) \in Nat
      /\ \A i \in 1 .. L : f[i] = s[i]
      /\ \A i \in 1 .. Len(t) : f[L + i] = t[i]
      /\ \A i \in 1 .. L + Len(t) : i \in 1 .. L \/ (i - L \in 1 .. Len(t) /\ i = L + (i - L))
      BY Concatenated
<1> HIDE DEF f, K
<1>2. \A i \in 1 .. L : i \in 1 .. Len(f)
      BY <1>1
<1>3. \A i \in 1 .. Len(t) : L + i \in 1 .. Len(f)
      BY <1>1
<1>4. \A i \in 1 .. Len(f) : i \in 1 .. L \/ \E j \in 1 .. Len(t) : i = L + j
      BY <1>1
<1> HIDE DEF L
<1>5. Held(f) = Held(s) \cup Held(t)
  <2>1. ASSUME NEW a \in Held(f)
        PROVE  a \in Held(s) \cup Held(t)
    <3>1. PICK i \in 1 .. Len(f) : a = f[i] /\ a # K
          BY DEF Held, K
    <3>2. CASE i \in 1 .. L
          BY <1>1, <3>1, <3>2 DEF Held, K, L
    <3>3. CASE \E j \in 1 .. Len(t) : i = L + j
          BY <1>1, <3>1, <3>3 DEF Held, K
    <3> QED BY <1>4, <3>2, <3>3
  <2>2. ASSUME NEW a \in Held(s)
        PROVE  a \in Held(f)
    <3>1. PICK i \in 1 .. L : a = s[i] /\ a # K
          BY DEF Held, K, L
    <3>2. f[i] = a /\ i \in 1 .. Len(f)
          BY <1>1, <1>2, <3>1
    <3> QED BY <3>1, <3>2 DEF Held, K
  <2>3. ASSUME NEW a \in Held(t)
        PROVE  a \in Held(f)
    <3>1. PICK i \in 1 .. Len(t) : a = t[i] /\ a # K
          BY DEF Held, K
    <3>2. f[L + i] = a /\ L + i \in 1 .. Len(f)
          BY <1>1, <1>3, <3>1
    <3> QED BY <3>1, <3>2 DEF Held, K
  <2> QED BY <2>1, <2>2, <2>3
<1>6. ASSUME Sorted(s), Sorted(t), Precedes(Held(s), Held(t))
      PROVE  Sorted(f)
  <2>1. ASSUME NEW j \in 1 .. Len(f), NEW k \in 1 .. Len(f), j < k, f[j] # K, f[k] # K
        PROVE  Earlier(f[j], f[k])
    <3>1. CASE j \in 1 .. L /\ k \in 1 .. L
          BY <1>1, <1>6, <2>1, <3>1 DEF Sorted, K, L
    <3>2. ASSUME j \in 1 .. L, NEW i \in 1 .. Len(t), k = L + i
          PROVE  Earlier(f[j], f[k])
      <4>1. f[j] \in Held(s)
            BY <1>1, <2>1, <3>2 DEF Held, K, L
      <4>2. f[k] \in Held(t)
            BY <1>1, <2>1, <3>2 DEF Held, K
      <4> QED BY <1>6, <4>1, <4>2 DEF Precedes
    <3>3. ASSUME NEW h \in 1 .. Len(t), j = L + h, NEW i \in 1 .. Len(t), k = L + i
          PROVE  Earlier(f[j], f[k])
      <4>1. h < i /\ f[j] = t[h] /\ f[k] = t[i]
            BY <1>1, <2>1, <3>3
      <4> QED BY <1>6, <2>1, <4>1 DEF Sorted, K
    <3>4. j \in 1 .. L \/ k \notin 1 .. L
          BY <1>1, <2>1
    <3> QED BY <1>4, <3>1, <3>2, <3>3, <3>4
  <2> QED BY <2>1 DEF Sorted, K
<1> QED BY <1>1, <1>5, <1>6 DEF f

\* A part of a text.
LEMMA HeldPart ==
  ASSUME NEW t \in Seq(Spots), NEW m \in Nat, NEW n \in Nat, 1 <= m, n <= Len(t), m <= n + 1
  PROVE  LET u == SubSeq(t, m, n)
         IN /\ u \in Seq(Spots) /\ Len(u) = (n + 1) - m
            /\ \A i \in 1 .. Len(u) : u[i] = t[(m + i) - 1] /\ (m + i) - 1 \in m .. n
            /\ Held(u) = {t[k] : k \in m .. n} \ {Chunks!NewLine}
            /\ Sorted(t) => Sorted(u)
<1> DEFINE u == SubSeq(t, m, n)
           L == (n + 1) - m
           K == Chunks!NewLine
<1>1. Len(t) \in Nat /\ m \in Int /\ n \in Int /\ \A i \in m .. n : i \in 1 .. Len(t) /\ t[i] \in Spots
      BY LenProperties, ElementOfSeq
<1>2. /\ u \in Seq(Spots) /\ Len(u) = (IF m <= n THEN (n - m) + 1 ELSE 0)
      /\ \A i \in 1 .. (n - m) + 1 : u[i] = t[(m + i) - 1]
      BY <1>1, SubSeqProperties
<1>3. Len(u) = L /\ L = (n - m) + 1
      BY <1>2
<1> HIDE DEF u, K
<1>4. \A i \in 1 .. L : u[i] = t[(m + i) - 1] /\ (m + i) - 1 \in m .. n /\ (m + i) - 1 \in 1 .. Len(t)
      BY <1>1, <1>2, <1>3
<1>5. \A k \in m .. n : (k + 1) - m \in 1 .. L /\ (m + ((k + 1) - m)) - 1 = k
      BY <1>1
<1>6. \A k \in m .. n : u[(k + 1) - m] = t[k]
      BY <1>4, <1>5
<1> HIDE DEF L
<1>7. Held(u) = {t[k] : k \in m .. n} \ {K}
  <2>1. ASSUME NEW i \in 1 .. L
        PROVE  u[i] \in {t[k] : k \in m .. n}
        BY <1>4
  <2>2. ASSUME NEW k \in m .. n
        PROVE  t[k] \in {u[i] : i \in 1 .. L}
        BY <1>5, <1>6
  <2> QED BY <1>3, <2>1, <2>2 DEF Held, K
<1>8. ASSUME Sorted(t)
      PROVE  Sorted(u)
  <2>1. ASSUME NEW j \in 1 .. Len(u), NEW k \in 1 .. Len(u), j < k, u[j] # K, u[k] # K
        PROVE  Earlier(u[j], u[k])
    <3> DEFINE a == (m + j) - 1
               b == (m + k) - 1
    <3>1. a \in 1 .. Len(t) /\ b \in 1 .. Len(t) /\ u[j] = t[a] /\ u[k] = t[b]
          BY <1>3, <1>4, <2>1
    <3>2. a < b
          BY <2>1
    <3> HIDE DEF a, b
    <3> QED BY <1>8, <2>1, <3>1, <3>2 DEF Sorted, K
  <2> QED BY <2>1 DEF Sorted, K
<1>9. /\ u \in Seq(Spots) /\ Len(u) = (n + 1) - m
      /\ \A i \in 1 .. Len(u) : u[i] = t[(m + i) - 1] /\ (m + i) - 1 \in m .. n
      /\ Held(u) = {t[k] : k \in m .. n} \ {K} /\ (Sorted(t) => Sorted(u))
      BY <1>2, <1>3, <1>4, <1>7, <1>8 DEF L
<1> QED BY <1>9 DEF u, K

\* Texts one after the other.
HeldBy(ps) == UNION {Held(ps[n]) : n \in 1 .. Len(ps)}

Series(ps) ==
  /\ \A n \in 1 .. Len(ps) : Sorted(ps[n])
  /\ \A m, n \in 1 .. Len(ps) : m < n => Precedes(Held(ps[m]), Held(ps[n]))

\* A text holds places.
LEMMA HeldAreSpots ==
  /\ \A t \in Seq(Spots) : Held(t) \subseteq Spots \ {Chunks!NewLine}
  /\ \A ps \in Seq(Seq(Spots)) : HeldBy(ps) \subseteq Spots \ {Chunks!NewLine}
<1>1. ASSUME NEW t \in Seq(Spots)
      PROVE  Held(t) \subseteq Spots \ {Chunks!NewLine}
  <2>1. \A k \in 1 .. Len(t) : t[k] \in Spots
        BY ElementOfSeq
  <2> QED BY <2>1 DEF Held
<1>2. ASSUME NEW ps \in Seq(Seq(Spots))
      PROVE  HeldBy(ps) \subseteq Spots \ {Chunks!NewLine}
  <2>1. \A k \in 1 .. Len(ps) : ps[k] \in Seq(Spots)
        BY ElementOfSeq
  <2> QED BY <1>1, <2>1 DEF HeldBy
<1> QED BY <1>1, <1>2

\* Texts after texts.
LEMMA SeriesJoin ==
  ASSUME NEW ps \in Seq(Seq(Spots)), NEW qs \in Seq(Seq(Spots))
  PROVE  /\ ps \o qs \in Seq(Seq(Spots)) /\ HeldBy(ps \o qs) = HeldBy(ps) \cup HeldBy(qs)
         /\ Series(ps) /\ Series(qs) /\ Precedes(HeldBy(ps), HeldBy(qs)) => Series(ps \o qs)
<1> DEFINE f == ps \o qs
           L == Len(ps)
<1>1. /\ f \in Seq(Seq(Spots)) /\ Len(f) = L + Len(qs) /\ L \in Nat /\ Len(qs) \in Nat
      /\ \A i \in 1 .. L : f[i] = ps[i]
      /\ \A i \in 1 .. Len(qs) : f[L + i] = qs[i]
      /\ \A i \in 1 .. L + Len(qs) : i \in 1 .. L \/ (i - L \in 1 .. Len(qs) /\ i = L + (i - L))
      BY Concatenated
<1> HIDE DEF f
<1>2. \A i \in 1 .. L : i \in 1 .. Len(f)
      BY <1>1
<1>3. \A i \in 1 .. Len(qs) : L + i \in 1 .. Len(f)
      BY <1>1
<1>4. \A i \in 1 .. Len(f) : i \in 1 .. L \/ \E j \in 1 .. Len(qs) : i = L + j
      BY <1>1
<1> HIDE DEF L
<1>5. HeldBy(f) = HeldBy(ps) \cup HeldBy(qs)
  <2>1. ASSUME NEW i \in 1 .. Len(f)
        PROVE  Held(f[i]) \subseteq HeldBy(ps) \cup HeldBy(qs)
        BY <1>1, <1>4 DEF HeldBy, L
  <2>2. ASSUME NEW i \in 1 .. L
        PROVE  Held(ps[i]) \subseteq HeldBy(f)
    <3>1. f[i] = ps[i] /\ i \in 1 .. Len(f)
          BY <1>1, <1>2
    <3> QED BY <3>1 DEF HeldBy
  <2>3. ASSUME NEW i \in 1 .. Len(qs)
        PROVE  Held(qs[i]) \subseteq HeldBy(f)
    <3>1. f[L + i] = qs[i] /\ L + i \in 1 .. Len(f)
          BY <1>1, <1>3
    <3> QED BY <3>1 DEF HeldBy
  <2>4. HeldBy(f) \subseteq HeldBy(ps) \cup HeldBy(qs)
        BY <2>1 DEF HeldBy
  <2>5. HeldBy(ps) \subseteq HeldBy(f)
        BY <2>2 DEF HeldBy, L
  <2>6. HeldBy(qs) \subseteq HeldBy(f)
        BY <2>3 DEF HeldBy
  <2> QED BY <2>4, <2>5, <2>6
<1>6. ASSUME Series(ps), Series(qs), Precedes(HeldBy(ps), HeldBy(qs))
      PROVE  Series(f)
  <2>1. \A n \in 1 .. Len(f) : Sorted(f[n])
        BY <1>1, <1>4, <1>6 DEF Series, L
  <2>2. ASSUME NEW m \in 1 .. Len(f), NEW n \in 1 .. Len(f), m < n
        PROVE  Precedes(Held(f[m]), Held(f[n]))
    <3>1. CASE m \in 1 .. L /\ n \in 1 .. L
          BY <1>1, <1>6, <2>2, <3>1 DEF Series, L
    <3>2. ASSUME m \in 1 .. L, NEW i \in 1 .. Len(qs), n = L + i
          PROVE  Precedes(Held(f[m]), Held(f[n]))
      <4>1. f[m] = ps[m] /\ f[n] = qs[i]
            BY <1>1, <3>2
      <4>2. Held(f[m]) \subseteq HeldBy(ps) /\ Held(f[n]) \subseteq HeldBy(qs)
            BY <3>2, <4>1 DEF HeldBy, L
      <4> QED BY <1>6, <4>2 DEF Precedes
    <3>3. ASSUME NEW h \in 1 .. Len(qs), m = L + h, NEW i \in 1 .. Len(qs), n = L + i
          PROVE  Precedes(Held(f[m]), Held(f[n]))
      <4>1. h < i /\ f[m] = qs[h] /\ f[n] = qs[i]
            BY <1>1, <2>2, <3>3
      <4> QED BY <1>6, <4>1 DEF Series
    <3>4. m \in 1 .. L \/ n \notin 1 .. L
          BY <1>1, <2>2
    <3> QED BY <1>4, <3>1, <3>2, <3>3, <3>4
  <2> QED BY <2>1, <2>2 DEF Series
<1> QED BY <1>1, <1>5, <1>6 DEF f

\* One more text.
LEMMA SeriesGrows ==
  ASSUME NEW ps \in Seq(Seq(Spots)), NEW t \in Seq(Spots)
  PROVE  /\ Append(ps, t) \in Seq(Seq(Spots)) /\ HeldBy(Append(ps, t)) = HeldBy(ps) \cup Held(t)
         /\ Series(ps) /\ Sorted(t) /\ Precedes(HeldBy(ps), Held(t)) => Series(Append(ps, t))
<1> DEFINE qs == <<t>>
<1>1. qs \in Seq(Seq(Spots)) /\ Len(qs) = 1 /\ qs[1] = t
      OBVIOUS
<1>2. Append(ps, t) = ps \o qs
      BY AppendIsConcat
<1> HIDE DEF qs
<1>3. \A n : n \in 1 .. Len(qs) <=> n = 1
      BY <1>1
<1>4. HeldBy(qs) = Held(t)
      BY <1>1, <1>3 DEF HeldBy
<1>5. Sorted(t) => Series(qs)
      BY <1>1, <1>3 DEF Series
<1> QED BY <1>1, <1>2, <1>4, <1>5, SeriesJoin

\* Texts put together to one.
LEMMA FlattenHolds ==
  ASSUME NEW ps \in Seq(Seq(Spots))
  PROVE  /\ Chunks!FlattenSeq(ps) \in Seq(Spots) /\ Held(Chunks!FlattenSeq(ps)) = HeldBy(ps)
         /\ Series(ps) => Sorted(Chunks!FlattenSeq(ps))
<1> DEFINE f == Chunks!FlattenSeq(ps)
           N == Len(ps)
           K == Chunks!NewLine
<1>1. f \in Seq(Spots) /\ \E p : Spans(f, ps, N, p)
      BY Flattened
<1> HIDE DEF f, K, N
<1>2. PICK p : Spans(f, ps, N, p)
      BY <1>1
<1>3. \A k \in 1 .. Len(f) : /\ p[k][1] \in 1 .. N /\ p[k][2] \in 1 .. Len(ps[p[k][1]])
                             /\ f[k] = ps[p[k][1]][p[k][2]]
      BY <1>2 DEF Spans
<1>4. \A k, l \in 1 .. Len(f) :
        k < l => (p[k][1] < p[l][1] \/ (p[k][1] = p[l][1] /\ p[k][2] < p[l][2]))
      BY <1>2 DEF Spans
<1>5. \A n \in 1 .. N : \A i \in 1 .. Len(ps[n]) : \E k \in 1 .. Len(f) : p[k][1] = n /\ p[k][2] = i
      BY <1>2, Zenon DEF Spans
<1>6. Held(f) = HeldBy(ps)
  <2>1. ASSUME NEW a \in Held(f)
        PROVE  a \in HeldBy(ps)
    <3>1. PICK k \in 1 .. Len(f) : a = f[k] /\ a # K
          BY DEF Held, K
    <3>2. a \in Held(ps[p[k][1]])
          BY <1>3, <3>1 DEF Held, K
    <3> QED BY <1>3, <3>2 DEF HeldBy, N
  <2>2. ASSUME NEW a \in HeldBy(ps)
        PROVE  a \in Held(f)
    <3>1. PICK n \in 1 .. N : a \in Held(ps[n])
          BY DEF HeldBy, N
    <3>2. PICK i \in 1 .. Len(ps[n]) : a = ps[n][i] /\ a # K
          BY <3>1 DEF Held, K
    <3>3. PICK k \in 1 .. Len(f) : p[k][1] = n /\ p[k][2] = i
          BY <1>5
    <3>4. f[k] = a
          BY <1>3, <3>2, <3>3
    <3> QED BY <3>2, <3>4 DEF Held, K
  <2> QED BY <2>1, <2>2
<1>7. ASSUME Series(ps)
      PROVE  Sorted(f)
  <2>1. ASSUME NEW j \in 1 .. Len(f), NEW k \in 1 .. Len(f), j < k, f[j] # K, f[k] # K
        PROVE  Earlier(f[j], f[k])
    <3> DEFINE m == p[j][1]
               n == p[k][1]
               g == p[j][2]
               h == p[k][2]
    <3>1. /\ m \in 1 .. N /\ g \in 1 .. Len(ps[m]) /\ f[j] = ps[m][g]
          /\ n \in 1 .. N /\ h \in 1 .. Len(ps[n]) /\ f[k] = ps[n][h]
          BY <1>3
    <3>2. m < n \/ (m = n /\ g < h)
          BY <1>4, <2>1
    <3> HIDE DEF m, n, g, h
    <3>3. CASE m < n
      <4>1. f[j] \in Held(ps[m]) /\ f[k] \in Held(ps[n])
            BY <2>1, <3>1 DEF Held, K
      <4>2. Precedes(Held(ps[m]), Held(ps[n]))
            BY <1>7, <3>1, <3>3 DEF Series, N
      <4> QED BY <4>1, <4>2 DEF Precedes
    <3>4. CASE m = n /\ g < h
      <4>1. Sorted(ps[m])
            BY <1>7, <3>1 DEF Series, N
      <4> QED BY <2>1, <3>1, <3>4, <4>1 DEF Sorted, K
    <3> QED BY <3>2, <3>3, <3>4
  <2> QED BY <2>1 DEF Sorted, K
<1> QED BY <1>1, <1>6, <1>7 DEF f

\* The runes of a text, without the ends of its lines.
Rises(x) == \A j, k \in 1 .. Len(x) : j < k => Earlier(x[j], x[k])

Elements(x) == {x[i] : i \in 1 .. Len(x)}

\* The marks of a sorted text rise, and are what it holds.
LEMMA MarksRise ==
  ASSUME NEW t \in Seq(Spots)
  PROVE  /\ Chunks!Marks(t) \in Seq(Spots) /\ Elements(Chunks!Marks(t)) = Held(t)
         /\ Sorted(t) => Rises(Chunks!Marks(t))
<1> DEFINE K == Chunks!NewLine
           N == Len(t)
           I == {k \in DOMAIN t : t[k] # K}
           x == Chunks!Marks(t)
<1>1. DOMAIN t = 1 .. N
      BY LenProperties
<1>2. x = Picked(t, I)
      BY ChunksSelects DEF Chunks!Marks
<1>3. I \cap 1 .. N = I /\ \A k : k \in I <=> k \in 1 .. N /\ t[k] # K
      BY <1>1
<1> HIDE DEF x, I, K, N
<1>4. x \in Seq(Spots) /\ \E e : Takes(x, t, I \cap 1 .. N, e)
      BY <1>2, PickedTakes DEF N
<1>5. PICK e : Takes(x, t, I, e)
      BY <1>3, <1>4
<1>6. /\ \A k \in 1 .. Len(x) : e[k] \in I /\ x[k] = t[e[k]]
      /\ \A i \in I : \E k \in 1 .. Len(x) : e[k] = i
      /\ \A j, k \in 1 .. Len(x) : j < k => e[j] < e[k]
      BY <1>5 DEF Takes
<1>7. Elements(x) = Held(t)
  <2>1. \A k \in 1 .. Len(x) : x[k] \in Held(t)
        BY <1>3, <1>6 DEF Held, K, N
  <2>2. ASSUME NEW a \in Held(t)
        PROVE  \E k \in 1 .. Len(x) : x[k] = a
    <3>1. PICK i \in 1 .. N : t[i] = a /\ a # K
          BY DEF Held, K, N
    <3>2. i \in I
          BY <1>3, <3>1
    <3> QED BY <1>6, <3>1, <3>2
  <2> QED BY <2>1, <2>2 DEF Elements
<1>8. ASSUME Sorted(t), NEW j \in 1 .. Len(x), NEW k \in 1 .. Len(x), j < k
      PROVE  Earlier(x[j], x[k])
  <2>1. e[j] < e[k] /\ e[j] \in 1 .. N /\ e[k] \in 1 .. N /\ t[e[j]] # K /\ t[e[k]] # K
        BY <1>3, <1>6, <1>8
  <2>2. Earlier(t[e[j]], t[e[k]])
        BY <1>8, <2>1 DEF Sorted, K, N
  <2> QED BY <1>6, <2>2
<1>9. Sorted(t) => Rises(x)
      BY <1>8 DEF Rises
<1> QED BY <1>4, <1>7, <1>9 DEF x

\* A rising sequence is told by its elements: of two the one that has the first of the
\* other's is its beginning.
LEMMA RisingBegins ==
  ASSUME NEW x \in Seq(Spots), NEW y \in Seq(Spots), Rises(x), Rises(y),
         Elements(x) \subseteq Elements(y),
         \A a \in Elements(x), b \in Elements(y) : Earlier(b, a) => b \in Elements(x)
  PROVE  Len(x) <= Len(y) /\ \A i \in 1 .. Len(x) : i \in 1 .. Len(y) /\ x[i] = y[i]
<1> DEFINE M == Len(x)
           N == Len(y)
           S == {n \in Nat : \A i \in 1 .. M : i <= n => i \in 1 .. N /\ x[i] = y[i]}
<1>1. /\ M \in Nat /\ N \in Nat /\ \A i \in 1 .. M : x[i] \in Spots
      /\ \A i \in 1 .. N : y[i] \in Spots
      BY LenProperties, ElementOfSeq
<1>2. /\ \A j, k \in 1 .. M : j < k => Earlier(x[j], x[k])
      /\ \A j, k \in 1 .. N : j < k => Earlier(y[j], y[k])
      BY DEF Rises
<1>3. /\ \A i \in 1 .. M : \E k \in 1 .. N : y[k] = x[i]
      /\ \A i \in 1 .. M, k \in 1 .. N : Earlier(y[k], x[i]) => \E l \in 1 .. M : x[l] = y[k]
      BY DEF Elements
<1> HIDE DEF M, N
<1>4. 0 \in S
      BY <1>1
<1>5. ASSUME NEW n \in Nat, n \in S
      PROVE  n + 1 \in S
  <2>1. \A i \in 1 .. M : i <= n => i \in 1 .. N /\ x[i] = y[i]
        BY <1>5
  <2>2. ASSUME n + 1 \in 1 .. M
        PROVE  n + 1 \in 1 .. N /\ x[n + 1] = y[n + 1]
    <3> DEFINE c == n + 1
    <3>0. c \in 1 .. M /\ \A i \in 1 .. M : i < c <=> i <= n
          BY <1>1, <2>2
    <3>1. PICK k \in 1 .. N : y[k] = x[c]
          BY <1>3, <3>0
    <3> HIDE DEF c
    <3>2. ~(k < c)
      <4> SUFFICES ASSUME k < c PROVE FALSE
          OBVIOUS
      <4>1. k \in 1 .. M
            BY <1>1, <3>0
      <4>2. x[k] = y[k] /\ Earlier(x[k], x[c])
            BY <1>2, <2>1, <3>0, <4>1
      <4> QED BY <1>1, <3>0, <3>1, <4>2, EarlierOrders
    <3>3. c \in 1 .. N
          BY <1>1, <3>0, <3>2
    <3>4. ~(c < k)
      <4> SUFFICES ASSUME c < k PROVE FALSE
          OBVIOUS
      <4>1. Earlier(y[c], x[c])
            BY <1>2, <3>1, <3>3
      <4>2. PICK l \in 1 .. M : x[l] = y[c]
            BY <1>3, <3>0, <3>3, <4>1
      <4>3. ~(c < l) /\ l # c
        <5>1. c < l => Earlier(x[c], x[l])
              BY <1>2, <3>0
        <5> QED BY <1>1, <3>0, <4>1, <4>2, <5>1, EarlierOrders
      <4>4. l < c
            BY <1>1, <3>0, <4>3
      <4>5. l \in 1 .. N /\ x[l] = y[l] /\ Earlier(y[l], y[c])
            BY <1>2, <2>1, <3>0, <3>3, <4>4
      <4> QED BY <1>1, <3>3, <4>2, <4>5, EarlierOrders
    <3>5. k = c
          BY <1>1, <3>2, <3>3, <3>4
    <3> QED BY <3>1, <3>3, <3>5 DEF c
  <2>3. ASSUME NEW i \in 1 .. M, i <= n + 1
        PROVE  i \in 1 .. N /\ x[i] = y[i]
    <3>1. i <= n \/ i = n + 1
          BY <1>1, <2>3
    <3> QED BY <2>1, <2>2, <3>1
  <2> QED BY <2>3
<1>6. M \in S
  <2> HIDE DEF S
  <2>1. Nat \subseteq S
        BY <1>4, <1>5, InductionOnNat
  <2> QED BY <1>1, <2>1
<1>7. \A i \in 1 .. M : i \in 1 .. N /\ x[i] = y[i]
      BY <1>1, <1>6
<1>8. M <= N
  <2>1. M = 0 \/ M \in 1 .. M
        BY <1>1
  <2>2. M \in 1 .. M => M \in 1 .. N
        BY <1>7
  <2> QED BY <1>1, <2>1, <2>2
<1> QED BY <1>7, <1>8 DEF M, N

\* What two texts have of one document: the same when they hold the same, and the one the
\* beginning of the other when it has the first of it.
LEMMA MarksAgree ==
  ASSUME NEW s \in Seq(Spots), NEW t \in Seq(Spots), Sorted(s), Sorted(t)
  PROVE  /\ Held(s) = Held(t) <=> Chunks!Marks(s) = Chunks!Marks(t)
         /\ Held(s) \subseteq Held(t) /\ (\A a \in Held(s), b \in Held(t) : Earlier(b, a) => b \in Held(s))
              => Chunks!IsPrefix(Chunks!Marks(s), Chunks!Marks(t))
<1> DEFINE x == Chunks!Marks(s)
           y == Chunks!Marks(t)
<1>1. /\ x \in Seq(Spots) /\ Elements(x) = Held(s) /\ Rises(x)
      /\ y \in Seq(Spots) /\ Elements(y) = Held(t) /\ Rises(y)
      BY MarksRise
<1> HIDE DEF x, y
<1>2. Len(x) \in Nat /\ Len(y) \in Nat
      BY <1>1, LenProperties
<1>3. ASSUME Held(s) = Held(t)
      PROVE  x = y
  <2>1. Len(x) <= Len(y) /\ \A i \in 1 .. Len(x) : i \in 1 .. Len(y) /\ x[i] = y[i]
        BY <1>1, <1>3, RisingBegins
  <2>2. Len(y) <= Len(x) /\ \A i \in 1 .. Len(y) : i \in 1 .. Len(x) /\ y[i] = x[i]
        BY <1>1, <1>3, RisingBegins
  <2>3. Len(x) = Len(y)
        BY <1>2, <2>1, <2>2
  <2> QED BY <1>1, <2>1, <2>3, SeqEqual
<1>4. x = y => Held(s) = Held(t)
      BY <1>1
<1>5. ASSUME Held(s) \subseteq Held(t), \A a \in Held(s), b \in Held(t) : Earlier(b, a) => b \in Held(s)
      PROVE  Chunks!IsPrefix(x, y)
  <2>1. Len(x) <= Len(y) /\ \A i \in 1 .. Len(x) : i \in 1 .. Len(y) /\ x[i] = y[i]
        BY <1>1, <1>5, RisingBegins
  <2> DEFINE u == SubSeq(x, 1, Len(x))
             v == SubSeq(y, 1, Len(x))
             M == Len(x)
  <2>2. \A i \in 1 .. M : x[i] \in Spots /\ y[i] \in Spots
    <3>1. \A i \in 1 .. M : x[i] \in Spots
          BY <1>1, ElementOfSeq
    <3> QED BY <2>1, <3>1
  <2>3. \A i \in 1 .. M : (1 + i) - 1 = i /\ (M - 1) + 1 = M
        BY <1>2
  <2>4. (IF 1 <= M THEN (M - 1) + 1 ELSE 0) = M /\ (M - 1) + 1 = M /\ 1 \in Int /\ M \in Int
        BY <1>2
  <2> HIDE DEF M
  <2>5. /\ SubSeq(x, 1, M) \in Seq(Spots) /\ Len(SubSeq(x, 1, M)) = M
        /\ \A i \in 1 .. M : SubSeq(x, 1, M)[i] = x[(1 + i) - 1]
        BY <2>2, <2>4, SubSeqProperties
  <2>6. /\ SubSeq(y, 1, M) \in Seq(Spots) /\ Len(SubSeq(y, 1, M)) = M
        /\ \A i \in 1 .. M : SubSeq(y, 1, M)[i] = y[(1 + i) - 1]
        BY <2>2, <2>4, SubSeqProperties
  <2>7. \A i \in 1 .. M : SubSeq(x, 1, M)[i] = SubSeq(y, 1, M)[i]
        BY <2>1, <2>3, <2>5, <2>6 DEF M
  <2>8. SubSeq(x, 1, M) = SubSeq(y, 1, M)
        BY <2>5, <2>6, <2>7, SeqEqual
  <2> QED BY <2>1, <2>8 DEF Chunks!IsPrefix, M
<1> QED BY <1>3, <1>4, <1>5 DEF x, y

\* The runes of a document, and those of some of its lines.
All(doc) == {a \in Spots : /\ a[1] \in 1 .. Len(doc) /\ doc[a[1]].is # "blank"
                           /\ 1 <= a[2] /\ a[2] <= doc[a[1]].size}

RunesOf(doc, m, n) == {a \in All(doc) : m <= a[1] /\ a[1] <= n}

\* The lines of a document.
LEMMA LinesAre ==
  ASSUME NEW doc \in Chunks!Documents
  PROVE  /\ doc \in Seq(Chunks!Lines) /\ Len(doc) \in Nat /\ Len(doc) # 0 /\ DOMAIN doc = 1 .. Len(doc)
         /\ \A i \in 1 .. Len(doc) : doc[i].size \in Nat /\ 1 <= doc[i].size /\ doc[i].level \in Nat
<1>1. doc \in Seq(Chunks!Lines) /\ doc # << >>
      BY DEF Chunks!Documents
<1>2. Len(doc) \in Nat /\ Len(doc) # 0 /\ DOMAIN doc = 1 .. Len(doc)
      BY <1>1, EmptySeq, LenProperties
<1>3. ASSUME NEW i \in 1 .. Len(doc)
      PROVE  doc[i].size \in Nat /\ 1 <= doc[i].size /\ doc[i].level \in Nat
  <2>1. doc[i] \in Chunks!Lines
        BY <1>1, ElementOfSeq
  <2>2. doc[i].size \in Nat \ {0} /\ doc[i].level \in 1 .. 6
        BY <2>1 DEF Chunks!Lines
  <2> QED BY <2>2
<1> QED BY <1>1, <1>2, <1>3

\* The end of a line is no rune.
LEMMA EndIsNone == Chunks!NewLine \in Spots /\ \A i \in Nat, k \in Nat : i # 0 => <<i, k>> # Chunks!NewLine
<1> QED BY DEF Chunks!NewLine, Spots

\* The runes of a line are in order, and so they are with its end.
LEMMA LineHolds ==
  ASSUME NEW doc \in Chunks!Documents, NEW i \in 1 .. Len(doc)
  PROVE  LET t == Append(Chunks!Runes(doc, i), Chunks!NewLine)
         IN /\ t \in Seq(Spots) /\ Sorted(t) /\ Held(t) = RunesOf(doc, i, i)
            /\ Len(t) \in Nat /\ 1 <= Len(t) /\ (doc[i].is # "blank" => 2 <= Len(t))
            /\ \A k \in 1 .. Len(t) : t[k] = Chunks!NewLine <=> k = Len(t)
<1> DEFINE r == Chunks!Runes(doc, i)
           K == Chunks!NewLine
           t == Append(r, K)
           L == IF doc[i].is = "blank" THEN 0 ELSE doc[i].size
<1>1. /\ doc[i].size \in Nat /\ 1 <= doc[i].size /\ i \in Nat /\ i # 0
      BY LinesAre
<1>2. L \in Nat /\ (doc[i].is # "blank" => 1 <= L)
      BY <1>1
<1>3. r \in Seq(Spots) /\ Len(r) = L /\ \A k \in 1 .. L : r[k] = <<i, k>>
  <2>1. CASE doc[i].is = "blank"
    <3>1. r = << >> /\ L = 0
          BY <2>1 DEF Chunks!Runes
    <3>2. r \in Seq(Spots) /\ Len(r) = 0
          BY <3>1, EmptySeq
    <3> QED BY <3>1, <3>2
  <2>2. CASE doc[i].is # "blank"
    <3>1. r = [k \in 1 .. L |-> <<i, k>>]
          BY <2>2 DEF Chunks!Runes
    <3>2. \A k \in 1 .. L : <<i, k>> \in Spots
          BY <1>1, <1>2 DEF Spots
    <3> HIDE DEF L, r
    <3>3. r \in [1 .. L -> Spots]
          BY <3>1, <3>2
    <3> QED BY <1>2, <3>1, <3>3
  <2> QED BY <2>1, <2>2
<1>4. K \in Spots /\ \A k \in Nat : <<i, k>> # K
      BY <1>1, EndIsNone
<1> HIDE DEF r, K
<1>5. /\ t \in Seq(Spots) /\ Len(t) = L + 1 /\ t[L + 1] = K
      /\ \A k \in 1 .. L : t[k] = <<i, k>>
  <2>1. /\ Append(r, K) \in Seq(Spots) /\ Len(Append(r, K)) = Len(r) + 1 /\ Append(r, K)[Len(r) + 1] = K
        /\ \A k \in 1 .. Len(r) : Append(r, K)[k] = r[k]
        BY <1>3, <1>4, AppendProperties
  <2> HIDE DEF L
  <2> QED BY <1>3, <2>1
<1> HIDE DEF t
<1>6. \A k \in 1 .. Len(t) : k \in 1 .. L \/ k = Len(t)
      BY <1>2, <1>5
<1>7. \A k \in 1 .. L : k \in Nat /\ t[k] # K /\ k # Len(t) /\ k \in 1 .. Len(t)
  <2> TAKE k \in 1 .. L
  <2>1. k \in Nat /\ k # Len(t) /\ k \in 1 .. Len(t)
        BY <1>2, <1>5
  <2>2. t[k] = <<i, k>>
        BY <1>5
  <2>3. <<i, k>> # K
        BY <1>4, <2>1
  <2> QED BY <2>1, <2>2, <2>3
<1>8. \A k \in 1 .. Len(t) : t[k] = K <=> k = Len(t)
      BY <1>5, <1>6, <1>7
<1>9. Sorted(t)
  <2>1. ASSUME NEW j \in 1 .. Len(t), NEW k \in 1 .. Len(t), j < k, t[j] # K, t[k] # K
        PROVE  Earlier(t[j], t[k])
    <3>1. t[j] = <<i, j>> /\ t[k] = <<i, k>>
          BY <1>5, <1>6, <1>8, <2>1
    <3> QED BY <2>1, <3>1 DEF Earlier
  <2> QED BY <2>1 DEF Sorted, K
<1>10. Held(t) = RunesOf(doc, i, i)
  <2>1. ASSUME NEW a \in Held(t)
        PROVE  a \in RunesOf(doc, i, i)
    <3>1. PICK k \in 1 .. Len(t) : a = t[k] /\ a # K
          BY DEF Held, K
    <3>2. k \in 1 .. L /\ a = <<i, k>>
          BY <1>5, <1>6, <1>8, <3>1
    <3>3. doc[i].is # "blank" /\ L = doc[i].size /\ k \in Nat /\ 1 <= k /\ k <= L
          BY <1>1, <3>2
    <3>4. a \in Spots /\ a[1] = i /\ a[2] = k
          BY <1>1, <3>2, <3>3 DEF Spots
    <3> QED BY <1>1, <3>3, <3>4 DEF RunesOf, All
  <2>2. ASSUME NEW a \in RunesOf(doc, i, i)
        PROVE  a \in Held(t)
    <3>1. /\ a \in Spots /\ a[1] = i /\ doc[i].is # "blank" /\ 1 <= a[2] /\ a[2] <= doc[i].size
          BY <1>1 DEF RunesOf, All, Spots
    <3>2. a = <<i, a[2]>> /\ a[2] \in 1 .. L
          BY <1>1, <3>1 DEF Spots
    <3>3. t[a[2]] = a /\ a # K /\ a[2] \in 1 .. Len(t)
          BY <1>5, <1>7, <3>2
    <3> QED BY <3>3 DEF Held, K
  <2> QED BY <2>1, <2>2
<1>11. Len(t) \in Nat /\ 1 <= Len(t) /\ (doc[i].is # "blank" => 2 <= Len(t))
       BY <1>2, <1>5
<1>12. /\ t \in Seq(Spots) /\ Sorted(t) /\ Held(t) = RunesOf(doc, i, i)
       /\ Len(t) \in Nat /\ 1 <= Len(t) /\ (doc[i].is # "blank" => 2 <= Len(t))
       /\ \A k \in 1 .. Len(t) : t[k] = K <=> k = Len(t)
       BY <1>5, <1>8, <1>9, <1>10, <1>11
<1> QED BY <1>12 DEF t, r, K

\* A line that has its end, and a text without blank lines.
Ended(t) == 1 <= Len(t) /\ \A k \in 1 .. Len(t) : t[k] = Chunks!NewLine <=> k = Len(t)

NoBlanks(t) == \A j, k \in 1 .. Len(t) : t[j] = Chunks!NewLine /\ t[k] = Chunks!NewLine => k # j + 1

\* Lines put together end with an end, and with two only where a line is blank.
LEMMA FlattenEnds ==
  ASSUME NEW ss \in Seq(Seq(Spots)), Len(ss) # 0, \A n \in 1 .. Len(ss) : Ended(ss[n])
  PROVE  LET f == Chunks!FlattenSeq(ss)
         IN /\ f \in Seq(Spots) /\ Len(f) \in Nat /\ 1 <= Len(f) /\ f[Len(f)] = Chunks!NewLine
            /\ (\A n \in 1 .. Len(ss) : 2 <= Len(ss[n])) => NoBlanks(f) /\ 2 <= Len(f)
<1> DEFINE f == Chunks!FlattenSeq(ss)
           N == Len(ss)
           K == Chunks!NewLine
<1>1. f \in Seq(Spots) /\ \E p : Spans(f, ss, N, p)
      BY Flattened
<1>2. /\ N \in Nat /\ N # 0 /\ N \in 1 .. N
      /\ \A n \in 1 .. N : /\ Len(ss[n]) \in Nat /\ 1 <= Len(ss[n])
                           /\ \A k \in 1 .. Len(ss[n]) : ss[n][k] = K <=> k = Len(ss[n])
  <2>1. N \in Nat /\ \A n \in 1 .. N : ss[n] \in Seq(Spots)
        BY LenProperties, ElementOfSeq
  <2> QED BY <2>1, LenProperties DEF Ended
<1> HIDE DEF f, K, N
<1>3. PICK p : Spans(f, ss, N, p)
      BY <1>1
<1>4. \A k \in 1 .. Len(f) : /\ p[k][1] \in 1 .. N /\ p[k][2] \in 1 .. Len(ss[p[k][1]])
                             /\ f[k] = ss[p[k][1]][p[k][2]]
      BY <1>3 DEF Spans
<1>5. \A k, l \in 1 .. Len(f) :
        k < l => (p[k][1] < p[l][1] \/ (p[k][1] = p[l][1] /\ p[k][2] < p[l][2]))
      BY <1>3 DEF Spans
<1>6. \A n \in 1 .. N : \A i \in 1 .. Len(ss[n]) : \E k \in 1 .. Len(f) : p[k][1] = n /\ p[k][2] = i
      BY <1>3, Zenon DEF Spans
<1>7. Len(f) \in Nat
      BY <1>1, LenProperties
<1>8. 1 <= Len(f) /\ f[Len(f)] = K
  <2> DEFINE M == Len(ss[N])
  <2>1. M \in Nat /\ M \in 1 .. M /\ N \in 1 .. N
        BY <1>2
  <2>2. PICK k \in 1 .. Len(f) : p[k][1] = N /\ p[k][2] = M
        BY <1>6, <2>1
  <2> HIDE DEF M
  <2>3. Len(f) \in 1 .. Len(f)
        BY <1>7, <2>2
  <2>4. ~(k < Len(f))
    <3> DEFINE l == Len(f)
               a == p[l][1]
               b == p[l][2]
    <3>1. a \in 1 .. N /\ b \in 1 .. Len(ss[a])
          BY <1>4, <2>3
    <3>2. k < l => (N < a \/ (N = a /\ M < b))
          BY <1>5, <2>2, <2>3
    <3> HIDE DEF a, b, l
    <3>3. ~(N < a) /\ (N = a => ~(M < b))
          BY <1>2, <3>1 DEF M
    <3> QED BY <3>2, <3>3 DEF l
  <2>5. k = Len(f)
        BY <1>7, <2>2, <2>4
  <2>6. f[k] = ss[N][M]
        BY <1>4, <2>2
  <2>7. ss[N][M] = K
        BY <1>2, <2>1 DEF M
  <2> QED BY <1>7, <2>2, <2>5, <2>6, <2>7
<1>9. ASSUME \A n \in 1 .. N : 2 <= Len(ss[n]), NEW j \in 1 .. Len(f), NEW k \in 1 .. Len(f),
             f[j] = K, f[k] = K, k = j + 1
      PROVE  FALSE
  <2> DEFINE m == p[j][1]
             n == p[k][1]
             g == p[j][2]
             h == p[k][2]
  <2>1. /\ m \in 1 .. N /\ g \in 1 .. Len(ss[m]) /\ f[j] = ss[m][g]
        /\ n \in 1 .. N /\ h \in 1 .. Len(ss[n]) /\ f[k] = ss[n][h]
        BY <1>4
  <2>2. m < n \/ (m = n /\ g < h)
    <3>1. j < k
          BY <1>7, <1>9
    <3> QED BY <1>5, <3>1
  <2>3. PICK l \in 1 .. Len(f) : p[l][1] = n /\ p[l][2] = 1
    <3>1. 1 \in 1 .. Len(ss[n])
          BY <1>2, <2>1
    <3> QED BY <1>6, <2>1, <3>1
  <2>4. l < k => (n < m \/ (n = m /\ 1 < g) \/ l = j)
    <3>1. j < l => (m < n \/ (m = n /\ g < 1))
          BY <1>5, <2>3
    <3>2. l < k => l = j \/ l < j
          BY <1>7, <1>9
    <3>3. l < j => (n < m \/ (n = m /\ 1 < g))
          BY <1>5, <2>3
    <3> QED BY <3>2, <3>3
  <2>5. k < l => (n < n \/ h < 1)
        BY <1>5, <2>3
  <2>6. l = j => m = n /\ g = 1
        BY <2>3
  <2>7. l = k => h = 1
        BY <2>3
  <2> HIDE DEF m, n, g, h
  <2>8. g = Len(ss[m]) /\ h = Len(ss[n])
        BY <1>2, <1>9, <2>1
  <2>9. /\ Len(ss[m]) \in Nat /\ Len(ss[n]) \in Nat /\ 2 <= Len(ss[m]) /\ 2 <= Len(ss[n])
        BY <1>2, <1>9, <2>1
  <2>10. m < n
         BY <2>1, <2>2, <2>8
  <2>11. ~(l < k) /\ l # k /\ ~(k < l)
    <3>1. m \in Nat /\ n \in Nat
          BY <1>2, <2>1
    <3>2. ~(n < m) /\ n # m /\ ~(n < n)
          BY <2>10, <3>1
    <3>3. ~(l < k)
          BY <2>4, <2>6, <3>2
    <3>4. h # 1 /\ ~(h < 1)
      <4>1. h \in Nat /\ 2 <= h
            BY <2>8, <2>9, Zenon
      <4> QED BY <4>1
    <3> QED BY <2>5, <2>7, <3>2, <3>3, <3>4
  <2> QED BY <1>7, <2>11
<1>10. ASSUME \A n \in 1 .. N : 2 <= Len(ss[n])
       PROVE  NoBlanks(f) /\ 2 <= Len(f)
  <2>1. NoBlanks(f)
        BY <1>9, <1>10 DEF NoBlanks, K
  <2>2. Len(f) # 1
    <3> SUFFICES ASSUME Len(f) = 1 PROVE FALSE
        OBVIOUS
    <3>1. 1 \in 1 .. Len(ss[N]) /\ 2 \in 1 .. Len(ss[N]) /\ N \in 1 .. N
          BY <1>2, <1>10
    <3>2. PICK j \in 1 .. Len(f) : p[j][2] = 1
          BY <1>6, <3>1
    <3>3. PICK k \in 1 .. Len(f) : p[k][2] = 2
          BY <1>6, <3>1
    <3>4. j = 1 /\ k = 1
          BY <3>2, <3>3
    <3> QED BY <3>2, <3>3, <3>4
  <2> DEFINE M == Len(f)
  <2>3. M \in Nat /\ 1 <= M /\ M # 1
        BY <1>7, <1>8, <2>2
  <2> HIDE DEF M
  <2>4. 2 <= M
        BY <2>3
  <2> QED BY <2>1, <2>4 DEF M
<1> QED BY <1>1, <1>7, <1>8, <1>10 DEF f, K, N

\* The runes of some lines.
LEMMA RunesAre ==
  ASSUME NEW doc \in Chunks!Documents
  PROVE  /\ \A m, n : RunesOf(doc, m, n) \subseteq Spots \ {Chunks!NewLine}
         /\ \A m, n : \A a \in RunesOf(doc, m, n) :
              a[1] \in 1 .. Len(doc) /\ doc[a[1]].is # "blank" /\ m <= a[1] /\ a[1] <= n
         /\ \A i \in 1 .. Len(doc) : doc[i].is # "blank" => <<i, 1>> \in RunesOf(doc, i, i)
         /\ \A m, n, k, l \in Int : n < k => Precedes(RunesOf(doc, m, n), RunesOf(doc, k, l))
<1>1. \A a \in All(doc) : a \in Spots /\ a[1] \in 1 .. Len(doc) /\ a[1] # 0 /\ doc[a[1]].is # "blank"
  <2>1. Len(doc) \in Nat
        BY LinesAre
  <2> QED BY <2>1 DEF All
<1>2. \A a \in All(doc) : a # Chunks!NewLine
      BY <1>1 DEF Chunks!NewLine
<1>3. ASSUME NEW i \in 1 .. Len(doc), doc[i].is # "blank"
      PROVE  <<i, 1>> \in RunesOf(doc, i, i)
  <2>1. Len(doc) \in Nat /\ doc[i].size \in Nat /\ 1 <= doc[i].size
        BY LinesAre
  <2>2. <<i, 1>> \in Spots /\ i \in Nat
        BY <2>1 DEF Spots
  <2> QED BY <1>3, <2>1, <2>2 DEF RunesOf, All
<1>4. ASSUME NEW m \in Int, NEW n \in Int, NEW k \in Int, NEW l \in Int, n < k
      PROVE  Precedes(RunesOf(doc, m, n), RunesOf(doc, k, l))
  <2>1. ASSUME NEW a \in RunesOf(doc, m, n), NEW b \in RunesOf(doc, k, l)
        PROVE  Earlier(a, b)
    <3>1. a[1] <= n /\ k <= b[1] /\ a[1] \in Nat /\ b[1] \in Nat
          BY <1>1 DEF RunesOf, Spots
    <3> QED BY <1>4, <3>1 DEF Earlier
  <2> QED BY <2>1 DEF Precedes
<1> QED BY <1>1, <1>2, <1>3, <1>4 DEF RunesOf

\* Lines m to n hold their runes in order.
LEMMA BodyHolds ==
  ASSUME NEW doc \in Chunks!Documents, NEW m \in Nat, NEW n \in Nat, 1 <= m, m <= n, n <= Len(doc)
  PROVE  LET t == Chunks!Body(doc, m, n)
         IN /\ t \in Seq(Spots) /\ Sorted(t) /\ Held(t) = RunesOf(doc, m, n)
            /\ Len(t) \in Nat /\ 1 <= Len(t) /\ t[Len(t)] = Chunks!NewLine
            /\ (\A i \in m .. n : doc[i].is # "blank") => NoBlanks(t) /\ 2 <= Len(t)
<1> DEFINE N == n - m + 1
           ss == [i \in 1 .. N |-> Append(Chunks!Runes(doc, m + i - 1), Chunks!NewLine)]
           at(i) == m + i - 1
<1>1. N \in Nat /\ N # 0 /\ Len(doc) \in Nat
      BY LinesAre
<1>2. \A i \in 1 .. N : at(i) \in 1 .. Len(doc) /\ m <= at(i) /\ at(i) <= n
      BY <1>1
<1>3. \A i, j \in 1 .. N : i < j => at(i) < at(j)
      BY <1>1
<1>4. \A l \in m .. n : \E i \in 1 .. N : at(i) = l
  <2> TAKE l \in m .. n
  <2>1. (l - m) + 1 \in 1 .. N /\ at((l - m) + 1) = l
        BY <1>1
  <2> QED BY <2>1
<1>5. \A i \in 1 .. N : ss[i] = Append(Chunks!Runes(doc, at(i)), Chunks!NewLine)
      OBVIOUS
<1>6. ss = [i \in 1 .. N |-> ss[i]]
      OBVIOUS
<1>7. Chunks!Body(doc, m, n) = Chunks!FlattenSeq(ss)
      BY DEF Chunks!Body
<1> HIDE DEF N, ss, at
<1>8. ASSUME NEW i \in 1 .. N
      PROVE  /\ ss[i] \in Seq(Spots) /\ Sorted(ss[i]) /\ Held(ss[i]) = RunesOf(doc, at(i), at(i))
             /\ Ended(ss[i]) /\ (doc[at(i)].is # "blank" => 2 <= Len(ss[i]))
  <2> DEFINE l == at(i)
  <2>1. l \in 1 .. Len(doc)
        BY <1>2
  <2> HIDE DEF l
  <2> DEFINE t == Append(Chunks!Runes(doc, l), Chunks!NewLine)
  <2>2. /\ t \in Seq(Spots) /\ Sorted(t) /\ Held(t) = RunesOf(doc, l, l)
        /\ Len(t) \in Nat /\ 1 <= Len(t) /\ (doc[l].is # "blank" => 2 <= Len(t))
        /\ \A k \in 1 .. Len(t) : t[k] = Chunks!NewLine <=> k = Len(t)
        BY <2>1, LineHolds
  <2> HIDE DEF t
  <2>3. Ended(t)
        BY <2>2 DEF Ended
  <2>4. ss[i] = t
        BY <1>5 DEF l, t
  <2> QED BY <2>2, <2>3, <2>4 DEF l
<1>9. ss \in Seq(Seq(Spots)) /\ Len(ss) = N
  <2>1. ss \in [1 .. N -> Seq(Spots)]
        BY <1>6, <1>8
  <2> QED BY <1>1, <2>1
<1>10. Series(ss)
  <2>1. ASSUME NEW i \in 1 .. N, NEW j \in 1 .. N, i < j
        PROVE  Precedes(Held(ss[i]), Held(ss[j]))
    <3>1. at(i) < at(j) /\ at(i) \in Int /\ at(j) \in Int
          BY <1>2, <1>3, <2>1
    <3>2. Precedes(RunesOf(doc, at(i), at(i)), RunesOf(doc, at(j), at(j)))
          BY <3>1, RunesAre
    <3> QED BY <1>8, <3>2
  <2> QED BY <1>8, <1>9, <2>1 DEF Series
<1>11. HeldBy(ss) = RunesOf(doc, m, n)
  <2>1. ASSUME NEW i \in 1 .. N
        PROVE  Held(ss[i]) \subseteq RunesOf(doc, m, n)
    <3>1. Held(ss[i]) = RunesOf(doc, at(i), at(i)) /\ m <= at(i) /\ at(i) <= n /\ at(i) \in Nat
          BY <1>1, <1>2, <1>8
    <3>2. \A a \in All(doc) : a[1] \in Nat
          BY DEF All, Spots
    <3> QED BY <3>1, <3>2 DEF RunesOf
  <2>2. ASSUME NEW a \in RunesOf(doc, m, n)
        PROVE  \E i \in 1 .. N : a \in Held(ss[i])
    <3>1. a[1] \in m .. n
          BY <1>1, RunesAre
    <3>2. PICK i \in 1 .. N : at(i) = a[1]
          BY <1>4, <3>1
    <3>3. a \in RunesOf(doc, a[1], a[1])
          BY <3>1 DEF RunesOf
    <3> QED BY <1>8, <3>2, <3>3
  <2> QED BY <1>9, <2>1, <2>2 DEF HeldBy
<1> DEFINE t == Chunks!FlattenSeq(ss)
<1>12. t \in Seq(Spots) /\ Held(t) = RunesOf(doc, m, n) /\ Sorted(t)
       BY <1>9, <1>10, <1>11, FlattenHolds
<1>13. /\ Len(t) \in Nat /\ 1 <= Len(t) /\ t[Len(t)] = Chunks!NewLine
       /\ (\A i \in 1 .. Len(ss) : 2 <= Len(ss[i])) => NoBlanks(t) /\ 2 <= Len(t)
  <2>1. Len(ss) # 0 /\ \A i \in 1 .. Len(ss) : Ended(ss[i])
        BY <1>1, <1>8, <1>9
  <2> QED BY <1>9, <2>1, FlattenEnds
<1>14. ASSUME \A i \in m .. n : doc[i].is # "blank"
       PROVE  \A i \in 1 .. Len(ss) : 2 <= Len(ss[i])
  <2> TAKE i \in 1 .. Len(ss)
  <2>1. at(i) \in m .. n
        BY <1>1, <1>2, <1>9
  <2> QED BY <1>8, <1>9, <1>14, <2>1
<1> HIDE DEF t
<1>15. Chunks!Body(doc, m, n) = t
       BY <1>7 DEF t
<1> QED BY <1>12, <1>13, <1>14, <1>15

\* So they do without the last end.
LEMMA TextHolds ==
  ASSUME NEW doc \in Chunks!Documents, NEW m \in Nat, NEW n \in Nat, 1 <= m, m <= n, n <= Len(doc)
  PROVE  LET t == Chunks!Text(doc, m, n)
         IN /\ t \in Seq(Spots) /\ Sorted(t) /\ Held(t) = RunesOf(doc, m, n) /\ Len(t) \in Nat
            /\ (\A i \in m .. n : doc[i].is # "blank")
                 => NoBlanks(t) /\ 1 <= Len(t) /\ t[Len(t)] # Chunks!NewLine
<1> DEFINE b == Chunks!Body(doc, m, n)
           t == Chunks!Text(doc, m, n)
           K == Chunks!NewLine
           L == Len(b) - 1
<1>1. /\ b \in Seq(Spots) /\ Sorted(b) /\ Held(b) = RunesOf(doc, m, n)
      /\ Len(b) \in Nat /\ 1 <= Len(b) /\ b[Len(b)] = K
      /\ (\A i \in m .. n : doc[i].is # "blank") => NoBlanks(b) /\ 2 <= Len(b)
      BY BodyHolds
<1>2. t = SubSeq(b, 1, L)
      BY DEF Chunks!Text, Chunks!Front
<1> HIDE DEF b, t, K
<1>3. L \in Nat /\ Len(b) = L + 1 /\ 1 <= L + 1 /\ L <= Len(b) /\ (L + 1) - 1 = L
      BY <1>1
<1>4. \A i : i \in 1 .. Len(b) <=> i \in 1 .. L \/ i = Len(b)
      BY <1>3
<1> HIDE DEF L
<1>5. /\ t \in Seq(Spots) /\ Len(t) = (L + 1) - 1
      /\ \A i \in 1 .. Len(t) : t[i] = b[(1 + i) - 1] /\ (1 + i) - 1 \in 1 .. L
      /\ Held(t) = {b[k] : k \in 1 .. L} \ {K} /\ Sorted(t)
  <2>1. 1 \in Nat /\ 1 <= 1
        OBVIOUS
  <2> QED BY <1>1, <1>2, <1>3, <2>1, HeldPart DEF K
<1>6. Len(t) = L /\ \A i \in 1 .. L : t[i] = b[i]
  <2>1. \A i \in 1 .. L : (1 + i) - 1 = i
        BY <1>3
  <2> QED BY <1>3, <1>5, <2>1
<1>7. Held(t) = Held(b)
      BY <1>1, <1>4, <1>5 DEF Held, K
<1>8. ASSUME \A i \in m .. n : doc[i].is # "blank"
      PROVE  NoBlanks(t) /\ 1 <= Len(t) /\ t[Len(t)] # K
  <2>1. NoBlanks(b) /\ 1 <= L
        BY <1>1, <1>3, <1>8
  <2>2. L \in 1 .. L /\ L \in 1 .. Len(b) /\ Len(b) \in 1 .. Len(b) /\ Len(b) = L + 1
        BY <1>3, <2>1
  <2>3. b[L] # K
        BY <1>1, <2>1, <2>2 DEF NoBlanks, K
  <2>4. NoBlanks(t)
        BY <1>4, <1>6, <2>1 DEF NoBlanks
  <2> QED BY <1>6, <2>1, <2>2, <2>3, <2>4
<1> QED BY <1>1, <1>3, <1>5, <1>6, <1>7, <1>8 DEF t, K

\* Numbers in their order.
LEMMA AscendingLists ==
  ASSUME NEW S \in SUBSET Nat, IsFiniteSet(S)
  PROVE  LET s == Chunks!Ascending(S)
         IN /\ s \in Seq(S) /\ Len(s) = Cardinality(S) /\ Len(s) \in Nat /\ DOMAIN s = 1 .. Len(s)
            /\ \A n \in 1 .. Len(s) : s[n] \in S
            /\ \A a \in S : \E n \in 1 .. Len(s) : s[n] = a
            /\ \A m, n \in 1 .. Len(s) : m < n => s[m] < s[n]
<1> DEFINE R == {p \in S \X S : p[1] < p[2]}
           s == InOrder(S, R)
<1>1. Orders(R, S)
  <2>1. \A a, b \in S : <<a, b>> \in R <=> a < b
        OBVIOUS
  <2>2. R \subseteq S \X S
        OBVIOUS
  <2> HIDE DEF R
  <2> QED BY <2>1, <2>2 DEF Orders
<1>2. Chunks!Ascending(S) = s
      BY ChunksSelects DEF Ascending
<1>3. \A a, b \in S : <<a, b>> \in R => a < b
      OBVIOUS
<1> HIDE DEF R
<1>4. /\ s \in Seq(S) /\ Len(s) = Cardinality(S)
      /\ \A a \in S : \E n \in 1 .. Len(s) : s[n] = a
      /\ \A m, n \in 1 .. Len(s) : m < n => <<s[m], s[n]>> \in R
      BY <1>1, InOrderLists
<1> HIDE DEF s
<1>5. \A n \in 1 .. Len(s) : s[n] \in S
      BY <1>4, ElementOfSeq
<1>6. Len(s) \in Nat /\ DOMAIN s = 1 .. Len(s)
      BY <1>4, LenProperties
<1>7. \A m, n \in 1 .. Len(s) : m < n => s[m] < s[n]
      BY <1>3, <1>4, <1>5
<1> QED BY <1>2, <1>4, <1>5, <1>6, <1>7

\* A line of a section that is not blank, and the first of such lines.
Filled(doc, s, i) == i \in s.first .. s.last /\ doc[i].is # "blank"

Starts(doc, s) == {i \in s.first .. s.last : Filled(doc, s, i) /\ ~Filled(doc, s, i - 1)}

EndOf(doc, s, i) == CHOOSE j \in i .. s.last : /\ ~Filled(doc, s, j + 1)
                                               /\ \A k \in i .. j : Filled(doc, s, k)

\* A section is some of a document's lines.
SectionOf(doc, s) == /\ s.first \in Nat /\ s.last \in Nat
                     /\ 1 <= s.first /\ s.first <= s.last /\ s.last <= Len(doc)

\* Lines that are not blank end somewhere.
LEMMA RunsEnd ==
  ASSUME NEW doc, NEW s, SectionOf(doc, s), NEW i, Filled(doc, s, i)
  PROVE  /\ EndOf(doc, s, i) \in i .. s.last /\ ~Filled(doc, s, EndOf(doc, s, i) + 1)
         /\ \A k \in i .. EndOf(doc, s, i) : Filled(doc, s, k)
<1> DEFINE M == {j \in i .. s.last : \A k \in i .. j : Filled(doc, s, k)}
<1>1. s.last \in Nat /\ s.first \in Nat /\ i \in s.first .. s.last
      BY DEF SectionOf, Filled
<1>2. i \in Nat /\ i \in M
      BY <1>1
<1>3. M \in SUBSET (0 .. s.last) /\ M # {} /\ M \subseteq Nat
      BY <1>1, <1>2
<1>4. PICK j \in M : \A k \in M : k <= j
  <2> HIDE DEF M
  <2> QED BY <1>1, <1>3, Greatest
<1>5. ~Filled(doc, s, j + 1)
  <2> SUFFICES ASSUME Filled(doc, s, j + 1) PROVE FALSE
      OBVIOUS
  <2>1. j + 1 \in i .. s.last
        BY <1>1, <1>2, <1>4 DEF Filled
  <2>2. \A k \in i .. j + 1 : k \in i .. j \/ k = j + 1
        BY <1>1, <1>2, <1>4
  <2>3. \A k \in i .. j + 1 : Filled(doc, s, k)
        BY <1>4, <2>2
  <2>4. j + 1 \in M
        BY <2>1, <2>3
  <2>5. j \in Nat
        BY <1>3, <1>4
  <2> HIDE DEF M
  <2> QED BY <1>4, <2>4, <2>5
<1>6. \E l \in i .. s.last : /\ ~Filled(doc, s, l + 1)
                             /\ \A k \in i .. l : Filled(doc, s, k)
      BY <1>4, <1>5
<1> QED BY <1>6 DEF EndOf

\* A line that is not blank is of those that follow one of the starts.
LEMMA RunsStart ==
  ASSUME NEW doc, NEW s, SectionOf(doc, s), NEW l, Filled(doc, s, l)
  PROVE  \E i \in Starts(doc, s) : i <= l /\ l <= EndOf(doc, s, i)
<1> DEFINE M == {j \in s.first .. l : \A k \in j .. l : Filled(doc, s, k)}
<1>1. s.last \in Nat /\ s.first \in Nat /\ l \in s.first .. s.last /\ l \in Nat
      BY DEF SectionOf, Filled
<1>2. l \in M /\ M \in SUBSET Nat
      BY <1>1
<1>3. PICK i \in M : \A k \in M : i <= k
  <2> HIDE DEF M
  <2> QED BY <1>2, Least
<1>4. i \in Nat /\ i <= l /\ i \in s.first .. s.last /\ Filled(doc, s, i)
      BY <1>1, <1>2, <1>3
<1>5. ~Filled(doc, s, i - 1)
  <2> SUFFICES ASSUME Filled(doc, s, i - 1) PROVE FALSE
      OBVIOUS
  <2>1. i - 1 \in s.first .. l
        BY <1>1, <1>4 DEF Filled
  <2>2. \A k \in i - 1 .. l : k \in i .. l \/ k = i - 1
        BY <1>1, <1>4
  <2>3. \A k \in i - 1 .. l : Filled(doc, s, k)
        BY <1>3, <2>2
  <2>4. i - 1 \in M
        BY <2>1, <2>3
  <2> HIDE DEF M
  <2> QED BY <1>3, <1>4, <2>4
<1>6. i \in Starts(doc, s)
      BY <1>4, <1>5 DEF Starts
<1>7. /\ EndOf(doc, s, i) \in i .. s.last /\ ~Filled(doc, s, EndOf(doc, s, i) + 1)
      BY <1>4, RunsEnd
<1>8. l <= EndOf(doc, s, i)
  <2> DEFINE e == EndOf(doc, s, i)
  <2>1. e \in i .. s.last /\ ~Filled(doc, s, e + 1)
        BY <1>7
  <2> HIDE DEF e
  <2>2. \A k \in i .. l : Filled(doc, s, k)
        BY <1>3
  <2>3. ~(e < l)
    <3> SUFFICES ASSUME e < l PROVE FALSE
        OBVIOUS
    <3>1. e + 1 \in i .. l
          BY <1>1, <1>4, <2>1
    <3> QED BY <2>1, <2>2, <3>1
  <2>4. l <= e
        BY <1>1, <1>4, <2>1, <2>3
  <2> QED BY <2>4 DEF e
<1> QED BY <1>4, <1>6, <1>8

\* A paragraph's text: it has a rune, ends with one, and has no two ends in a row.
Dense(t) == NoBlanks(t) /\ 1 <= Len(t) /\ t[Len(t)] # Chunks!NewLine

\* The paragraphs of a section hold its runes in order.
LEMMA ParagraphsHold ==
  ASSUME NEW doc \in Chunks!Documents, NEW s, SectionOf(doc, s)
  PROVE  LET ts == Chunks!Paragraphs(doc, s)
         IN /\ ts \in Seq(Seq(Spots)) /\ Series(ts) /\ HeldBy(ts) = RunesOf(doc, s.first, s.last)
            /\ \A n \in 1 .. Len(ts) : Dense(ts[n])
<1> DEFINE S == Starts(doc, s)
           at == Chunks!Ascending(S)
           end(i) == EndOf(doc, s, i)
           ts == Chunks!Paragraphs(doc, s)
<1>1. s.first \in Nat /\ s.last \in Nat /\ 1 <= s.first /\ s.first <= s.last /\ s.last <= Len(doc)
      BY DEF SectionOf
<1>2. S \in SUBSET Nat /\ IsFiniteSet(S) /\ S \subseteq s.first .. s.last
  <2>1. S \subseteq s.first .. s.last
        BY DEF Starts
  <2>2. IsFiniteSet(s.first .. s.last)
    <3>1. \A m, n \in Nat : IsFiniteSet(m .. n)
      <4> TAKE m, n \in Nat
      <4>1. m \in Int /\ n \in Int
            OBVIOUS
      <4> QED BY <4>1, FS_Interval
    <3> QED BY <1>1, <3>1
  <2> QED BY <1>1, <2>1, <2>2, FS_Subset
<1>3. ts = [n \in DOMAIN at |-> Chunks!Text(doc, at[n], end(at[n]))]
      BY DEF Chunks!Paragraphs, Starts, EndOf, Filled
<1> HIDE DEF S, ts
<1>4. /\ Len(at) \in Nat /\ DOMAIN at = 1 .. Len(at)
      /\ \A n \in 1 .. Len(at) : at[n] \in S
      /\ \A a \in S : \E n \in 1 .. Len(at) : at[n] = a
      /\ \A m, n \in 1 .. Len(at) : m < n => at[m] < at[n]
      BY <1>2, AscendingLists
<1> HIDE DEF at
<1>5. ASSUME NEW n \in 1 .. Len(at)
      PROVE  /\ at[n] \in Nat /\ end(at[n]) \in Nat /\ at[n] <= end(at[n])
             /\ s.first <= at[n] /\ end(at[n]) <= s.last
             /\ Filled(doc, s, at[n]) /\ ~Filled(doc, s, at[n] - 1)
             /\ \A k \in at[n] .. end(at[n]) : Filled(doc, s, k)
  <2> DEFINE i == at[n]
  <2>1. i \in S
        BY <1>4
  <2> HIDE DEF i
  <2>2. i \in s.first .. s.last /\ Filled(doc, s, i) /\ ~Filled(doc, s, i - 1)
        BY <2>1 DEF S, Starts
  <2>3. end(i) \in i .. s.last /\ \A k \in i .. end(i) : Filled(doc, s, k)
        BY <2>2, RunsEnd
  <2> HIDE DEF end
  <2>4. i \in Nat /\ end(i) \in Nat /\ i <= end(i) /\ s.first <= i /\ end(i) <= s.last
        BY <1>1, <2>2, <2>3
  <2> QED BY <2>2, <2>3, <2>4 DEF i
<1> HIDE DEF end
<1>6. ASSUME NEW n \in 1 .. Len(at)
      PROVE  /\ ts[n] \in Seq(Spots) /\ Sorted(ts[n]) /\ Dense(ts[n])
             /\ Held(ts[n]) = RunesOf(doc, at[n], end(at[n]))
  <2> DEFINE i == at[n]
             j == end(i)
  <2>1. /\ i \in Nat /\ j \in Nat /\ i <= j /\ 1 <= i /\ j <= Len(doc)
        /\ \A k \in i .. j : doc[k].is # "blank"
    <3>1. Len(doc) \in Nat
          BY LinesAre
    <3> QED BY <1>1, <1>5, <3>1 DEF Filled
  <2>2. ts[n] = Chunks!Text(doc, i, j)
        BY <1>3, <1>4
  <2> HIDE DEF i, j
  <2> DEFINE t == Chunks!Text(doc, i, j)
  <2>3. /\ t \in Seq(Spots) /\ Sorted(t) /\ Held(t) = RunesOf(doc, i, j) /\ Len(t) \in Nat
        /\ (\A k \in i .. j : doc[k].is # "blank")
             => NoBlanks(t) /\ 1 <= Len(t) /\ t[Len(t)] # Chunks!NewLine
        BY <2>1, TextHolds
  <2> HIDE DEF t
  <2>4. Dense(t)
        BY <2>1, <2>3 DEF Dense
  <2>5. ts[n] \in Seq(Spots) /\ Sorted(ts[n]) /\ Dense(ts[n]) /\ Held(ts[n]) = RunesOf(doc, i, j)
        BY <2>2, <2>3, <2>4 DEF t
  <2> QED BY <2>5 DEF i, j
<1>7. ts \in Seq(Seq(Spots)) /\ Len(ts) = Len(at)
  <2>1. ts = [n \in 1 .. Len(at) |-> Chunks!Text(doc, at[n], end(at[n]))]
        BY <1>3, <1>4
  <2> DEFINE N == Len(at)
             g == [n \in 1 .. N |-> Chunks!Text(doc, at[n], end(at[n]))]
  <2>2. g \in [1 .. N -> Seq(Spots)]
    <3>1. \A n \in 1 .. N : g[n] \in Seq(Spots)
          BY <1>6, <2>1
    <3> QED BY <3>1
  <2>3. N \in Nat /\ ts = g
        BY <1>4, <2>1
  <2> HIDE DEF N, g
  <2>4. ts \in Seq(Seq(Spots)) /\ Len(ts) = N
        BY <2>2, <2>3
  <2> QED BY <2>4 DEF N
<1>8. Series(ts)
  <2>1. ASSUME NEW m \in 1 .. Len(at), NEW n \in 1 .. Len(at), m < n
        PROVE  Precedes(Held(ts[m]), Held(ts[n]))
    <3> DEFINE i == at[m]
               j == end(i)
               k == at[n]
    <3>1. /\ i \in Nat /\ j \in Nat /\ k \in Nat /\ i < k /\ end(k) \in Nat
          /\ \A l \in i .. j : Filled(doc, s, l)
          /\ Filled(doc, s, k) /\ ~Filled(doc, s, k - 1)
          BY <1>4, <1>5, <2>1
    <3>2. Held(ts[m]) = RunesOf(doc, i, j) /\ Held(ts[n]) = RunesOf(doc, k, end(k))
          BY <1>6
    <3> HIDE DEF i, j, k
    <3>3. j < k
      <4> SUFFICES ASSUME ~(j < k) PROVE FALSE
          OBVIOUS
      <4>1. k - 1 \in i .. j
            BY <3>1
      <4> QED BY <3>1, <4>1
    <3>4. Precedes(RunesOf(doc, i, j), RunesOf(doc, k, end(k)))
      <4>1. i \in Int /\ j \in Int /\ k \in Int /\ end(k) \in Int
            BY <3>1
      <4> QED BY <3>3, <4>1, RunesAre
    <3> QED BY <3>2, <3>4
  <2> QED BY <1>6, <1>7, <2>1 DEF Series
<1>9. HeldBy(ts) = RunesOf(doc, s.first, s.last)
  <2>1. ASSUME NEW n \in 1 .. Len(at)
        PROVE  Held(ts[n]) \subseteq RunesOf(doc, s.first, s.last)
    <3>1. Held(ts[n]) = RunesOf(doc, at[n], end(at[n]))
          BY <1>6
    <3>2. /\ at[n] \in Nat /\ end(at[n]) \in Nat /\ s.first <= at[n] /\ end(at[n]) <= s.last
          BY <1>5
    <3>3. \A a \in All(doc) : a[1] \in Nat
          BY DEF All, Spots
    <3> QED BY <1>1, <3>1, <3>2, <3>3 DEF RunesOf
  <2>2. ASSUME NEW a \in RunesOf(doc, s.first, s.last)
        PROVE  \E n \in 1 .. Len(at) : a \in Held(ts[n])
    <3> DEFINE l == a[1]
    <3>1. l \in 1 .. Len(doc) /\ doc[l].is # "blank" /\ s.first <= l /\ l <= s.last /\ a \in All(doc)
          BY RunesAre DEF RunesOf
    <3>2. Filled(doc, s, l) /\ l \in Nat
      <4>1. Len(doc) \in Nat
            BY LinesAre
      <4> QED BY <1>1, <3>1, <4>1 DEF Filled
    <3> HIDE DEF l
    <3>3. PICK i \in S : i <= l /\ l <= end(i)
          BY <3>2, RunsStart DEF S, end
    <3>4. PICK n \in 1 .. Len(at) : at[n] = i
          BY <1>4
    <3>5. a \in RunesOf(doc, at[n], end(at[n]))
          BY <3>1, <3>3, <3>4 DEF RunesOf, l
    <3> QED BY <1>6, <3>5
  <2> QED BY <1>7, <2>1, <2>2 DEF HeldBy
<1> QED BY <1>6, <1>7, <1>8, <1>9 DEF ts

\* Windows of a size.
Low(k) == (k - 1) * MaxRunes + 1

Until(k, L) == IF k * MaxRunes < L THEN k * MaxRunes ELSE L

Windows(L) == (L + MaxRunes - 1) \div MaxRunes

\* The windows of a text cover it, one after the other.
LEMMA WindowsMeet ==
  ASSUME NEW L \in Nat, 1 <= L
  PROVE  /\ Windows(L) \in Nat
         /\ \A k \in 1 .. Windows(L) : /\ Low(k) \in Nat /\ 1 <= Low(k) /\ Low(k) <= Until(k, L)
                                       /\ Until(k, L) \in Nat /\ Until(k, L) <= L
                                       /\ (Until(k, L) + 1) - Low(k) <= MaxRunes
                                       /\ Until(k, L) = L \/ Low(k) + 1 <= Until(k, L)
         /\ \A j, k \in 1 .. Windows(L) : j < k => Until(j, L) < Low(k)
         /\ \A i \in 1 .. L : \E k \in 1 .. Windows(L) : Low(k) <= i /\ i <= Until(k, L)
<1> DEFINE M == MaxRunes
           N == Windows(L)
<1>1. M \in Nat /\ 2 <= M
      BY ChunksAssumption
<1>2. N = (L + (M - 1)) \div M
      BY <1>1 DEF Windows
<1>3. N \in Nat /\ N * M <= L + (M - 1) /\ L + (M - 1) < N * M + M /\ N * M \in Nat
  <2> DEFINE a == L + (M - 1)
  <2>1. a \in Nat
        BY <1>1
  <2> HIDE DEF a, N, M
  <2>2. N = a \div M
        BY <1>2 DEF a
  <2>3. N \in Nat /\ N * M <= a /\ a < N * M + M /\ N * M \in Nat
        BY <1>1, <2>1, <2>2, Division
  <2> QED BY <2>3 DEF a
<1> HIDE DEF N, M
<1>4. \A k \in Nat : k * M \in Nat /\ (k + 1) * M = k * M + M
      BY <1>1
<1>5. \A j, k \in Nat : j <= k => j * M <= k * M
      BY <1>1
<1>6. ASSUME NEW k \in 1 .. N
      PROVE  \E b \in Nat : Low(k) = b + 1 /\ k * M = b + M /\ b < L /\ b = (k - 1) * M
  <2>1. k - 1 \in Nat /\ (k - 1) + 1 = k /\ k \in Nat /\ k <= N
        BY <1>3
  <2>2. (k - 1) * M \in Nat /\ k * M = (k - 1) * M + M
        BY <1>4, <2>1
  <2>3. k * M <= N * M
        BY <1>3, <1>5, <2>1
  <2> DEFINE b == (k - 1) * M
  <2>4. Low(k) = b + 1
        BY DEF Low, M
  <2> HIDE DEF b
  <2>5. b \in Nat /\ k * M = b + M
        BY <2>2 DEF b
  <2>6. b < L
        BY <1>1, <1>3, <2>3, <2>5
  <2> QED BY <2>4, <2>5, <2>6 DEF b
<1>7. ASSUME NEW k \in 1 .. N
      PROVE  /\ Low(k) \in Nat /\ 1 <= Low(k) /\ Low(k) <= Until(k, L)
             /\ Until(k, L) \in Nat /\ Until(k, L) <= L
             /\ (Until(k, L) + 1) - Low(k) <= M
             /\ Until(k, L) = L \/ Low(k) + 1 <= Until(k, L)
  <2>1. PICK b \in Nat : Low(k) = b + 1 /\ k * M = b + M /\ b < L
        BY <1>6
  <2>2. Until(k, L) = IF b + M < L THEN b + M ELSE L
        BY <2>1 DEF Until, M
  <2> QED BY <1>1, <2>1, <2>2
<1>8. ASSUME NEW j \in 1 .. N, NEW k \in 1 .. N, j < k
      PROVE  Until(j, L) < Low(k)
  <2>1. PICK b \in Nat : Low(k) = b + 1 /\ b = (k - 1) * M /\ b < L
        BY <1>6
  <2>2. j * M <= (k - 1) * M /\ j * M \in Nat
    <3>1. j \in Nat /\ k - 1 \in Nat /\ j <= k - 1
          BY <1>3, <1>8
    <3> QED BY <1>4, <1>5, <3>1
  <2>3. j * M <= b
        BY <2>1, <2>2
  <2>4. Until(j, L) = IF j * M < L THEN j * M ELSE L
        BY DEF Until, M
  <2> DEFINE c == j * M
  <2>5. c \in Nat /\ c <= b /\ Until(j, L) = IF c < L THEN c ELSE L
        BY <2>2, <2>3, <2>4
  <2> HIDE DEF c
  <2> QED BY <2>1, <2>5
<1>9. ASSUME NEW i \in 1 .. L
      PROVE  \E k \in 1 .. N : Low(k) <= i /\ i <= Until(k, L)
  <2> DEFINE a == i - 1
             q == a \div M
  <2>1. a \in Nat /\ a < L /\ i = a + 1
        OBVIOUS
  <2> HIDE DEF a
  <2>2. q \in Nat /\ q * M <= a /\ a < q * M + M /\ q * M \in Nat
        BY <1>1, <2>1, Division
  <2> HIDE DEF q
  <2>3. q < N
    <3> SUFFICES ASSUME ~(q < N) PROVE FALSE
        OBVIOUS
    <3>1. N * M <= q * M
          BY <1>3, <1>5, <2>2
    <3> QED BY <1>1, <1>3, <2>1, <2>2, <3>1
  <2> DEFINE k == q + 1
  <2>4. k \in 1 .. N /\ k * M = q * M + M /\ Low(k) = q * M + 1
    <3>1. k \in 1 .. N /\ k - 1 = q
          BY <1>3, <2>2, <2>3
    <3>2. k * M = q * M + M
          BY <1>4, <2>2
    <3> HIDE DEF k
    <3>3. Low(k) = q * M + 1
          BY <3>1 DEF Low, M
    <3> QED BY <3>1, <3>2, <3>3
  <2> HIDE DEF k
  <2> DEFINE b == q * M
  <2>5. b \in Nat /\ k * M = b + M /\ Low(k) = b + 1 /\ b <= a /\ a < b + M
        BY <2>2, <2>4
  <2> HIDE DEF b
  <2>6. Until(k, L) = IF b + M < L THEN b + M ELSE L
        BY <2>5 DEF Until, M
  <2>7. Low(k) <= i /\ i <= Until(k, L)
        BY <1>1, <2>1, <2>5, <2>6
  <2> QED BY <2>4, <2>7
<1> QED BY <1>3, <1>7, <1>8, <1>9 DEF N, M

\* The windows of a paragraph hold its runes in order, each of them some.
LEMMA WindowsHold ==
  ASSUME NEW t \in Seq(Spots), Sorted(t), Dense(t)
  PROVE  LET ws == Chunks!SplitRuneWindows(t)
         IN /\ ws \in Seq(Seq(Spots)) /\ Series(ws) /\ HeldBy(ws) = Held(t)
            /\ \A k \in 1 .. Len(ws) : Len(ws[k]) <= MaxRunes /\ Held(ws[k]) # {}
<1> DEFINE L == Len(t)
           N == Windows(L)
           K == Chunks!NewLine
           ws == Chunks!SplitRuneWindows(t)
<1>1. L \in Nat /\ 1 <= L /\ L \in 1 .. L /\ t[L] # K
  <2>1. L \in Nat
        BY LenProperties
  <2> QED BY <2>1 DEF Dense
<1>2. /\ N \in Nat
      /\ \A k \in 1 .. N : /\ Low(k) \in Nat /\ 1 <= Low(k) /\ Low(k) <= Until(k, L)
                           /\ Until(k, L) \in Nat /\ Until(k, L) <= L
                           /\ (Until(k, L) + 1) - Low(k) <= MaxRunes
                           /\ Until(k, L) = L \/ Low(k) + 1 <= Until(k, L)
      /\ \A j, k \in 1 .. N : j < k => Until(j, L) < Low(k)
      /\ \A i \in 1 .. L : \E k \in 1 .. N : Low(k) <= i /\ i <= Until(k, L)
      BY <1>1, WindowsMeet
<1>3. ws = [k \in 1 .. N |-> SubSeq(t, Low(k), Until(k, L))]
      BY DEF Chunks!SplitRuneWindows, Windows, Low, Until
<1> HIDE DEF ws, N, K
<1>4. ASSUME NEW k \in 1 .. N
      PROVE  /\ ws[k] \in Seq(Spots) /\ Sorted(ws[k]) /\ Len(ws[k]) <= MaxRunes
             /\ Held(ws[k]) = {t[i] : i \in Low(k) .. Until(k, L)} \ {K}
  <2> DEFINE a == Low(k)
             b == Until(k, L)
  <2>1. a \in Nat /\ b \in Nat /\ 1 <= a /\ b <= L /\ a <= b + 1 /\ (b + 1) - a <= MaxRunes
        BY <1>2
  <2>2. ws[k] = SubSeq(t, a, b)
        BY <1>3
  <2> HIDE DEF a, b
  <2> DEFINE u == SubSeq(t, a, b)
  <2>3. /\ u \in Seq(Spots) /\ Len(u) = (b + 1) - a
        /\ Held(u) = {t[i] : i \in a .. b} \ {K} /\ (Sorted(t) => Sorted(u))
    <3> HIDE DEF L
    <3>1. b <= Len(t)
          BY <2>1 DEF L
    <3> QED BY <2>1, <3>1, HeldPart DEF K
  <2> HIDE DEF u
  <2>4. /\ ws[k] \in Seq(Spots) /\ Sorted(ws[k]) /\ Len(ws[k]) <= MaxRunes
        /\ Held(ws[k]) = {t[i] : i \in a .. b} \ {K}
        BY <2>1, <2>2, <2>3 DEF u
  <2> QED BY <2>4 DEF a, b
<1>5. ws \in Seq(Seq(Spots)) /\ Len(ws) = N
  <2> DEFINE g == [k \in 1 .. N |-> SubSeq(t, Low(k), Until(k, L))]
  <2>1. \A k \in 1 .. N : g[k] \in Seq(Spots)
        BY <1>3, <1>4
  <2>2. g \in [1 .. N -> Seq(Spots)]
        BY <2>1
  <2>3. ws = g
        BY <1>3
  <2> HIDE DEF g
  <2> QED BY <1>2, <2>2, <2>3
<1>6. Series(ws)
  <2>1. ASSUME NEW j \in 1 .. N, NEW k \in 1 .. N, j < k
        PROVE  Precedes(Held(ws[j]), Held(ws[k]))
    <3>1. ASSUME NEW a \in Held(ws[j]), NEW b \in Held(ws[k])
          PROVE  Earlier(a, b)
      <4>1. PICK m \in Low(j) .. Until(j, L) : a = t[m] /\ a # K
            BY <1>4
      <4>2. PICK n \in Low(k) .. Until(k, L) : b = t[n] /\ b # K
            BY <1>4
      <4>3. Until(j, L) < Low(k) /\ Low(j) \in Nat /\ Low(k) \in Nat /\ Until(j, L) \in Nat
            /\ Until(k, L) \in Nat /\ Until(j, L) <= L /\ Until(k, L) <= L /\ 1 <= Low(j) /\ 1 <= Low(k)
            BY <1>2, <2>1
      <4>4. m \in 1 .. L /\ n \in 1 .. L /\ m < n
            BY <1>1, <4>1, <4>2, <4>3
      <4> QED BY <4>1, <4>2, <4>4 DEF Sorted, K
    <3> QED BY <3>1 DEF Precedes
  <2> QED BY <1>4, <1>5, <2>1 DEF Series
<1>7. HeldBy(ws) = Held(t)
  <2>1. ASSUME NEW k \in 1 .. N
        PROVE  Held(ws[k]) \subseteq Held(t)
    <3>1. \A i \in Low(k) .. Until(k, L) : i \in 1 .. L
      <4>1. Low(k) \in Nat /\ Until(k, L) \in Nat /\ 1 <= Low(k) /\ Until(k, L) <= L
            BY <1>2
      <4> QED BY <1>1, <4>1
    <3>2. \A a \in Held(ws[k]) : \E i \in Low(k) .. Until(k, L) : a = t[i] /\ a # K
          BY <1>4
    <3>3. \A a \in Held(ws[k]) : \E i \in 1 .. Len(t) : a = t[i] /\ a # K
          BY <3>1, <3>2
    <3> QED BY <3>3 DEF Held, K
  <2>2. ASSUME NEW a \in Held(t)
        PROVE  \E k \in 1 .. N : a \in Held(ws[k])
    <3>1. PICK i \in 1 .. L : a = t[i] /\ a # K
          BY DEF Held, K
    <3>2. PICK k \in 1 .. N : Low(k) <= i /\ i <= Until(k, L)
          BY <1>2
    <3>3. i \in Low(k) .. Until(k, L)
      <4>1. Low(k) \in Nat /\ Until(k, L) \in Nat
            BY <1>2
      <4>2. i \in Nat
            BY <1>1
      <4> QED BY <3>2, <4>1, <4>2
    <3> QED BY <1>4, <3>1, <3>3
  <2> QED BY <1>5, <2>1, <2>2 DEF HeldBy
<1>8. ASSUME NEW k \in 1 .. N
      PROVE  Held(ws[k]) # {}
  <2> DEFINE a == Low(k)
             b == Until(k, L)
  <2>1. /\ a \in Nat /\ b \in Nat /\ 1 <= a /\ a <= b /\ b <= L /\ (b = L \/ a + 1 <= b)
        /\ Held(ws[k]) = {t[i] : i \in a .. b} \ {K}
        BY <1>2, <1>4
  <2> HIDE DEF a, b
  <2>2. CASE b = L
    <3>1. L \in a .. b
          BY <1>1, <2>1, <2>2
    <3> QED BY <1>1, <2>1, <3>1
  <2>3. CASE a + 1 <= b
    <3>1. a \in a .. b /\ a + 1 \in a .. b /\ a \in 1 .. L /\ a + 1 \in 1 .. L
          BY <1>1, <2>1, <2>3
    <3>2. t[a] # K \/ t[a + 1] # K
          BY <3>1 DEF Dense, NoBlanks, K
    <3> QED BY <2>1, <3>1, <3>2
  <2> QED BY <2>1, <2>2, <2>3
<1> QED BY <1>4, <1>5, <1>6, <1>7, <1>8 DEF ws

\* Pieces within the limit on their size, each with a rune, and what packing has of H.
Fits(ps) == \A n \in 1 .. Len(ps) : Len(ps[n]) <= MaxRunes /\ Held(ps[n]) # {}

Packings == [pieces : Seq(Seq(Spots)), window : Seq(Spots)]

Packs(w, H) ==
  /\ Series(w.pieces) /\ Fits(w.pieces) /\ Sorted(w.window)
  /\ Precedes(HeldBy(w.pieces), Held(w.window)) /\ HeldBy(w.pieces) \cup Held(w.window) = H
  /\ Len(w.window) <= MaxRunes /\ (w.window = << >> \/ Held(w.window) # {})

\* Pieces after pieces.
LEMMA FitsJoin ==
  ASSUME NEW ps \in Seq(Seq(Spots)), NEW qs \in Seq(Seq(Spots)), Fits(ps), Fits(qs)
  PROVE  Fits(ps \o qs)
<1> DEFINE f == ps \o qs
           L == Len(ps)
<1>1. /\ Len(f) = L + Len(qs) /\ L \in Nat /\ Len(qs) \in Nat
      /\ \A i \in 1 .. L : f[i] = ps[i]
      /\ \A i \in 1 .. Len(qs) : f[L + i] = qs[i]
      /\ \A i \in 1 .. L + Len(qs) : i \in 1 .. L \/ (i - L \in 1 .. Len(qs) /\ i = L + (i - L))
      BY Concatenated
<1> HIDE DEF f
<1>2. \A i \in 1 .. Len(f) : i \in 1 .. L \/ \E j \in 1 .. Len(qs) : i = L + j
      BY <1>1
<1>3. \A i \in 1 .. Len(f) : (i \in 1 .. L /\ f[i] = ps[i]) \/ \E j \in 1 .. Len(qs) : f[i] = qs[j]
      BY <1>1, <1>2
<1>4. Fits(f)
      BY <1>3 DEF Fits
<1> QED BY <1>4 DEF f

\* One more piece.
LEMMA FitsGrows ==
  ASSUME NEW ps \in Seq(Seq(Spots)), Fits(ps), NEW t \in Seq(Spots), Len(t) <= MaxRunes, Held(t) # {}
  PROVE  Fits(Append(ps, t))
<1>1. /\ Len(Append(ps, t)) = Len(ps) + 1 /\ Len(ps) \in Nat /\ Append(ps, t)[Len(ps) + 1] = t
      /\ \A i \in 1 .. Len(ps) : Append(ps, t)[i] = ps[i]
      BY AppendProperties, LenProperties
<1> DEFINE f == Append(ps, t)
<1> HIDE DEF f
<1>2. \A i \in 1 .. Len(f) : (i \in 1 .. Len(ps) /\ f[i] = ps[i]) \/ f[i] = t
      BY <1>1 DEF f
<1>3. Fits(f)
      BY <1>2 DEF Fits
<1> QED BY <1>3 DEF f

\* Nothing holds nothing.
LEMMA NothingHeld ==
  /\ \A t \in Seq(Spots) : Len(t) = 0 => Held(t) = {} /\ Sorted(t)
  /\ \A ps \in Seq(Seq(Spots)) : Len(ps) = 0 => HeldBy(ps) = {} /\ Series(ps) /\ Fits(ps)
  /\ \A A : Precedes({}, A) /\ Precedes(A, {})
<1>1. \A n : n \in 1 .. 0 => FALSE
      OBVIOUS
<1>2. \A t \in Seq(Spots) : Len(t) = 0 => Held(t) = {} /\ Sorted(t)
      BY <1>1 DEF Held, Sorted
<1>3. \A ps \in Seq(Seq(Spots)) : Len(ps) = 0 => HeldBy(ps) = {} /\ Series(ps) /\ Fits(ps)
      BY <1>1 DEF HeldBy, Series, Fits
<1>4. \A A : Precedes({}, A) /\ Precedes(A, {})
      BY DEF Precedes
<1> QED BY <1>2, <1>3, <1>4

\* A paragraph has a rune.
LEMMA DenseHolds ==
  ASSUME NEW t \in Seq(Spots), Dense(t)
  PROVE  Held(t) # {}
<1>1. Len(t) \in Nat
      BY LenProperties
<1>2. Len(t) \in 1 .. Len(t)
      BY <1>1 DEF Dense
<1> QED BY <1>2 DEF Dense, Held

\* What a flush leaves.
LEMMA FlushedHolds ==
  ASSUME NEW w \in Packings, NEW H, Packs(w, H)
  PROVE  /\ Chunks!Flushed(w) \in Seq(Seq(Spots)) /\ Series(Chunks!Flushed(w))
         /\ Fits(Chunks!Flushed(w)) /\ HeldBy(Chunks!Flushed(w)) = H
<1> DEFINE ps == w.pieces
           t == w.window
           e == << >>
<1>1. ps \in Seq(Seq(Spots)) /\ t \in Seq(Spots) /\ Len(e) = 0 /\ e \in Seq(Spots)
      BY EmptySeq DEF Packings
<1>2. Chunks!Flushed(w) = IF t = e THEN ps ELSE Append(ps, t)
      BY DEF Chunks!Flushed
<1>3. /\ Series(ps) /\ Fits(ps) /\ Sorted(t) /\ Precedes(HeldBy(ps), Held(t))
      /\ HeldBy(ps) \cup Held(t) = H /\ Len(t) <= MaxRunes /\ (t = e \/ Held(t) # {})
      BY DEF Packs
<1> HIDE DEF ps, t, e
<1>4. CASE t = e
  <2>1. Held(t) = {}
        BY <1>1, <1>4, NothingHeld
  <2> QED BY <1>1, <1>2, <1>3, <1>4, <2>1
<1>5. CASE t # e
  <2>1. Append(ps, t) \in Seq(Seq(Spots)) /\ HeldBy(Append(ps, t)) = H /\ Series(Append(ps, t))
        BY <1>1, <1>3, SeriesGrows
  <2>2. Fits(Append(ps, t))
        BY <1>1, <1>3, <1>5, FitsGrows
  <2> QED BY <1>2, <1>5, <2>1, <2>2
<1> QED BY <1>4, <1>5

\* One more paragraph.
LEMMA PackedFollows ==
  ASSUME NEW w \in Packings, NEW H, Packs(w, H),
         NEW t \in Seq(Spots), Sorted(t), Dense(t), Precedes(H, Held(t))
  PROVE  Chunks!Packed(w, t) \in Packings /\ Packs(Chunks!Packed(w, t), H \cup Held(t))
<1> DEFINE ps == w.pieces
           u == w.window
           e == << >>
           fl == Chunks!Flushed(w)
           M == MaxRunes
           r == Chunks!Packed(w, t)
<1>1. /\ ps \in Seq(Seq(Spots)) /\ u \in Seq(Spots) /\ Len(e) = 0 /\ e \in Seq(Spots)
      /\ Len(t) \in Nat /\ Len(u) \in Nat /\ M \in Nat
      BY EmptySeq, LenProperties, ChunksAssumption DEF Packings
<1>2. /\ Series(ps) /\ Fits(ps) /\ Sorted(u) /\ Precedes(HeldBy(ps), Held(u))
      /\ HeldBy(ps) \cup Held(u) = H /\ Len(u) <= M /\ (u = e \/ Held(u) # {})
      BY DEF Packs
<1>3. fl \in Seq(Seq(Spots)) /\ Series(fl) /\ Fits(fl) /\ HeldBy(fl) = H
      BY FlushedHolds
<1>4. Held(e) = {} /\ Sorted(e) /\ Held(t) # {} /\ \A A : Precedes(A, {})
      BY <1>1, NothingHeld, DenseHolds
<1>5. w = [pieces |-> ps, window |-> u]
      BY DEF Packings
<1>6. \A q, v : [pieces |-> q, window |-> v].pieces = q /\ [pieces |-> q, window |-> v].window = v
      OBVIOUS
<1>7. \A q \in Seq(Seq(Spots)), v \in Seq(Spots) : [pieces |-> q, window |-> v] \in Packings
      BY DEF Packings
<1>8. ASSUME NEW q \in Seq(Seq(Spots)), NEW v \in Seq(Spots), r = [pieces |-> q, window |-> v],
             Series(q), Fits(q), Sorted(v), Precedes(HeldBy(q), Held(v)),
             HeldBy(q) \cup Held(v) = H \cup Held(t), Len(v) <= M, v = e \/ Held(v) # {}
      PROVE  r \in Packings /\ Packs(r, H \cup Held(t))
  <2> HIDE DEF r, e, M
  <2>1. r.pieces = q /\ r.window = v /\ r \in Packings
        BY <1>6, <1>7, <1>8
  <2> QED BY <1>8, <2>1 DEF Packs, e, M
<1>9. r = IF Len(t) > M THEN [pieces |-> fl \o Chunks!SplitRuneWindows(t), window |-> e]
          ELSE IF u = e THEN [w EXCEPT !.window = t]
          ELSE IF (Len(u) + 2) + Len(t) > M THEN [pieces |-> fl, window |-> t]
          ELSE [w EXCEPT !.window = @ \o <<Chunks!NewLine, Chunks!NewLine>> \o t]
      BY DEF Chunks!Packed
<1>10. /\ [w EXCEPT !.window = t] = [pieces |-> ps, window |-> t]
       /\ [w EXCEPT !.window = @ \o <<Chunks!NewLine, Chunks!NewLine>> \o t]
            = [pieces |-> ps, window |-> (u \o <<Chunks!NewLine, Chunks!NewLine>>) \o t]
  <2>1. \A v : [w EXCEPT !.window = v] = [pieces |-> w.pieces, window |-> v]
        BY DEF Packings
  <2> QED BY <2>1
<1> DEFINE nn == <<Chunks!NewLine, Chunks!NewLine>>
<1>11. nn \in Seq(Spots) /\ Len(nn) = 2 /\ Held(nn) = {} /\ Sorted(nn)
  <2>1. nn \in Seq(Spots) /\ Len(nn) = 2 /\ nn[1] = Chunks!NewLine /\ nn[2] = Chunks!NewLine
        BY EndIsNone
  <2>2. \A k \in 1 .. 2 : k = 1 \/ k = 2
        OBVIOUS
  <2> HIDE DEF nn
  <2> QED BY <2>1, <2>2 DEF Held, Sorted
<1> HIDE DEF ps, u, e, fl, M, r, nn
<1>12. ASSUME Len(t) > M
       PROVE  r \in Packings /\ Packs(r, H \cup Held(t))
  <2> DEFINE ws == Chunks!SplitRuneWindows(t)
  <2>1. /\ ws \in Seq(Seq(Spots)) /\ Series(ws) /\ HeldBy(ws) = Held(t)
        /\ \A k \in 1 .. Len(ws) : Len(ws[k]) <= MaxRunes /\ Held(ws[k]) # {}
        BY WindowsHold
  <2>2. r = [pieces |-> fl \o ws, window |-> e]
        BY <1>9, <1>12
  <2> HIDE DEF ws
  <2>3. Fits(ws)
        BY <2>1 DEF Fits
  <2>4. fl \o ws \in Seq(Seq(Spots)) /\ HeldBy(fl \o ws) = H \cup Held(t) /\ Series(fl \o ws)
        BY <1>3, <2>1, SeriesJoin
  <2>5. Fits(fl \o ws)
        BY <1>3, <2>1, <2>3, FitsJoin
  <2>6. Precedes(HeldBy(fl \o ws), Held(e)) /\ HeldBy(fl \o ws) \cup Held(e) = H \cup Held(t) /\ Len(e) <= M
        BY <1>1, <1>4, <2>4
  <2> QED BY <1>1, <1>4, <1>8, <2>2, <2>4, <2>5, <2>6
<1>13. ASSUME ~(Len(t) > M) /\ u = e
       PROVE  r \in Packings /\ Packs(r, H \cup Held(t))
  <2>1. r = [pieces |-> ps, window |-> t]
        BY <1>9, <1>10, <1>13
  <2>2. HeldBy(ps) = H
    <3>1. Held(u) = {}
          BY <1>4, <1>13
    <3> QED BY <1>2, <3>1
  <2>3. Len(t) <= M
        BY <1>1, <1>13
  <2>4. HeldBy(ps) \cup Held(t) = H \cup Held(t) /\ Precedes(HeldBy(ps), Held(t))
        BY <2>2
  <2> QED BY <1>1, <1>2, <1>4, <1>8, <2>1, <2>3, <2>4
<1>14. ASSUME ~(Len(t) > M) /\ u # e /\ (Len(u) + 2) + Len(t) > M
       PROVE  r \in Packings /\ Packs(r, H \cup Held(t))
  <2>1. r = [pieces |-> fl, window |-> t]
        BY <1>9, <1>14
  <2>2. Len(t) <= M
        BY <1>1, <1>14
  <2> QED BY <1>3, <1>4, <1>8, <2>1, <2>2
<1>15. ASSUME ~(Len(t) > M) /\ u # e /\ ~((Len(u) + 2) + Len(t) > M)
       PROVE  r \in Packings /\ Packs(r, H \cup Held(t))
  <2> DEFINE x == u \o nn
             v == x \o t
  <2>1. r = [pieces |-> ps, window |-> v]
        BY <1>9, <1>10, <1>15 DEF nn
  <2>2. x \in Seq(Spots) /\ Held(x) = Held(u) /\ Sorted(x) /\ Len(x) = Len(u) + 2
    <3>1. Precedes(Held(u), Held(nn)) /\ Held(u) \cup Held(nn) = Held(u)
          BY <1>4, <1>11
    <3>2. x \in Seq(Spots) /\ Held(x) = Held(u) \cup Held(nn) /\ Sorted(x)
          BY <1>1, <1>2, <1>11, <3>1, HeldJoin
    <3>3. Len(x) = Len(u) + Len(nn)
          BY <1>1, <1>11, ConcatProperties
    <3>4. Len(x) = Len(u) + 2
          BY <1>11, <3>3
    <3> QED BY <3>1, <3>2, <3>4
  <2> HIDE DEF x
  <2>3. Precedes(Held(u), Held(t))
        BY <1>2 DEF Precedes
  <2>4. v \in Seq(Spots) /\ Held(v) = Held(u) \cup Held(t) /\ Sorted(v)
        BY <2>2, <2>3, HeldJoin
  <2>5. Len(v) = (Len(u) + 2) + Len(t)
        BY <2>2, ConcatProperties
  <2> HIDE DEF v
  <2>6. Len(v) <= M
        BY <1>1, <1>15, <2>5
  <2>7. Precedes(HeldBy(ps), Held(v))
    <3>1. Precedes(HeldBy(ps), Held(t))
          BY <1>2 DEF Precedes
    <3> QED BY <1>2, <2>4, <3>1 DEF Precedes
  <2>8. HeldBy(ps) \cup Held(v) = H \cup Held(t) /\ Held(v) # {}
        BY <1>2, <1>4, <2>4
  <2> QED BY <1>1, <1>2, <1>8, <2>1, <2>4, <2>6, <2>7, <2>8
<1>16. r \in Packings /\ Packs(r, H \cup Held(t))
       BY <1>12, <1>13, <1>14, <1>15
<1> QED BY <1>16 DEF r

\* What packing gives is pieces and a window, whatever it is given.
LEMMA PackedIsPacking ==
  ASSUME NEW w \in Packings, NEW t \in Seq(Spots)
  PROVE  Chunks!Packed(w, t) \in Packings
<1> DEFINE ps == w.pieces
           u == w.window
           e == << >>
           fl == Chunks!Flushed(w)
           ws == Chunks!SplitRuneWindows(t)
           nn == <<Chunks!NewLine, Chunks!NewLine>>
           M == MaxRunes
           L == Len(t)
           N == Windows(L)
<1>1. /\ ps \in Seq(Seq(Spots)) /\ u \in Seq(Spots) /\ e \in Seq(Spots) /\ nn \in Seq(Spots)
      /\ L \in Nat /\ Len(u) \in Nat /\ M \in Nat /\ 2 <= M
      BY EmptySeq, LenProperties, ChunksAssumption, EndIsNone DEF Packings
<1>2. Append(ps, u) \in Seq(Seq(Spots)) /\ (u \o nn) \o t \in Seq(Spots)
  <2>1. u \o nn \in Seq(Spots)
        BY <1>1, ConcatProperties
  <2> HIDE DEF nn, u, ps
  <2> QED BY <1>1, <2>1, AppendProperties, ConcatProperties
<1>3. fl \in Seq(Seq(Spots))
      BY <1>1, <1>2 DEF Chunks!Flushed
<1>4. L > M => ws \in Seq(Seq(Spots))
  <2> SUFFICES ASSUME L > M PROVE ws \in Seq(Seq(Spots))
      OBVIOUS
  <2>1. 1 <= L
        BY <1>1
  <2>2. /\ N \in Nat
        /\ \A k \in 1 .. N : /\ Low(k) \in Nat /\ 1 <= Low(k) /\ Low(k) <= Until(k, L)
                             /\ Until(k, L) \in Nat /\ Until(k, L) <= L
        BY <1>1, <2>1, WindowsMeet
  <2> DEFINE g == [k \in 1 .. N |-> SubSeq(t, Low(k), Until(k, L))]
  <2>3. ws = g
        BY DEF Chunks!SplitRuneWindows, Windows, Low, Until
  <2> HIDE DEF ws, N
  <2>4. ASSUME NEW k \in 1 .. N
        PROVE  g[k] \in Seq(Spots)
    <3> DEFINE a == Low(k)
               b == Until(k, L)
    <3>1. a \in Nat /\ b \in Nat /\ 1 <= a /\ a <= b /\ b <= L
          BY <2>2
    <3>2. g[k] = SubSeq(t, a, b)
          OBVIOUS
    <3> HIDE DEF a, b, g
    <3>3. a <= b + 1
          BY <3>1
    <3> QED BY <3>1, <3>2, <3>3, HeldPart
  <2>5. g \in [1 .. N -> Seq(Spots)]
        BY <2>4
  <2> HIDE DEF g
  <2> QED BY <2>2, <2>3, <2>5
<1>5. \A q \in Seq(Seq(Spots)), v \in Seq(Spots) : [pieces |-> q, window |-> v] \in Packings
      BY DEF Packings
<1>6. \A v : [w EXCEPT !.window = v] = [pieces |-> w.pieces, window |-> v]
      BY DEF Packings
<1>7. Chunks!Packed(w, t) = IF L > M THEN [pieces |-> fl \o ws, window |-> e]
          ELSE IF u = e THEN [w EXCEPT !.window = t]
          ELSE IF (Len(u) + 2) + L > M THEN [pieces |-> fl, window |-> t]
          ELSE [w EXCEPT !.window = (u \o nn) \o t]
      BY DEF Chunks!Packed
<1> HIDE DEF fl, ws, nn, M, L, e, N
<1>8. L > M => fl \o ws \in Seq(Seq(Spots))
      BY <1>3, <1>4, ConcatProperties
<1>9. [w EXCEPT !.window = t] \in Packings /\ [w EXCEPT !.window = (u \o nn) \o t] \in Packings
      BY <1>1, <1>2, <1>5, <1>6
<1>10. [pieces |-> fl, window |-> t] \in Packings /\ (L > M => [pieces |-> fl \o ws, window |-> e] \in Packings)
       BY <1>1, <1>3, <1>5, <1>8
<1> QED BY <1>7, <1>9, <1>10

\* What the first paragraphs hold.
HeldTo(ts, n) == UNION {Held(ts[m]) : m \in 1 .. n}

\* The pieces of a section's body hold its runes in order.
LEMMA SplitHolds ==
  ASSUME NEW doc \in Chunks!Documents, NEW s, SectionOf(doc, s),
         s.body \in Seq(Spots), Sorted(s.body), Held(s.body) = RunesOf(doc, s.first, s.last),
         RunesOf(doc, s.first, s.last) # {}
  PROVE  /\ Chunks!SplitOversized(doc, s) \in Seq(Seq(Spots))
         /\ Series(Chunks!SplitOversized(doc, s)) /\ Fits(Chunks!SplitOversized(doc, s))
         /\ HeldBy(Chunks!SplitOversized(doc, s)) = RunesOf(doc, s.first, s.last)
<1> DEFINE ts == Chunks!Paragraphs(doc, s)
           H == RunesOf(doc, s.first, s.last)
           r == Chunks!SplitOversized(doc, s)
           T == Seq(Spots)
           V == Packings
           N == Len(ts)
           e == [pieces |-> << >>, window |-> << >>]
           h == [p \in V \X Nat |-> IF p[2] \in 1 .. N THEN Chunks!Packed(p[1], ts[p[2]]) ELSE p[1]]
           Is(f) == f = [n \in 0 .. N |-> IF n = 0 THEN e ELSE Chunks!Packed(f[n - 1], ts[n])]
           w == CHOOSE g : Is(g)
<1>1. /\ ts \in Seq(T) /\ Series(ts) /\ HeldBy(ts) = H /\ N \in Nat
      /\ \A n \in 1 .. N : ts[n] \in T /\ Sorted(ts[n]) /\ Dense(ts[n])
      /\ \A m, n \in 1 .. N : m < n => Precedes(Held(ts[m]), Held(ts[n]))
  <2>1. ts \in Seq(T) /\ Series(ts) /\ HeldBy(ts) = H /\ \A n \in 1 .. N : Dense(ts[n])
        BY ParagraphsHold
  <2> HIDE DEF ts
  <2>2. N \in Nat /\ \A n \in 1 .. N : ts[n] \in T
        BY <2>1, LenProperties, ElementOfSeq
  <2> QED BY <2>1, <2>2 DEF Series
<1>2. r = IF Len(s.body) <= MaxRunes THEN <<s.body>> ELSE Chunks!Flushed(w[N])
      BY DEF Chunks!SplitOversized
<1>3. e \in V /\ e.pieces \in Seq(Seq(Spots)) /\ Len(e.pieces) = 0 /\ e.window \in Seq(Spots)
      /\ Len(e.window) = 0 /\ e.window = << >>
      BY EmptySeq DEF Packings
<1> HIDE DEF ts, e
<1>4. h \in [V \X Nat -> V]
  <2>1. ASSUME NEW p \in V \X Nat
        PROVE  h[p] \in V
    <3>1. p[1] \in V /\ (p[2] \in 1 .. N => ts[p[2]] \in T)
          BY <1>1
    <3>2. p[2] \in 1 .. N => Chunks!Packed(p[1], ts[p[2]]) \in V
          BY <3>1, PackedIsPacking
    <3> HIDE DEF V, N
    <3> QED BY <3>1, <3>2
  <2> QED BY <2>1
<1>5. PICK f \in [0 .. N -> V] : Follows(f, V, e, h, N)
  <2> HIDE DEF V, N, h
  <2> QED BY <1>1, <1>3, <1>4, Recursive
<1>6. Is(f)
  <2>1. \A n \in 1 .. N : h[<<f[n - 1], n>>] = Chunks!Packed(f[n - 1], ts[n])
    <3> TAKE n \in 1 .. N
    <3>1. <<f[n - 1], n>> \in V \X Nat
          BY <1>5 DEF Follows
    <3> HIDE DEF V, N
    <3> QED BY <3>1
  <2>2. \A n \in 0 .. N : n = 0 \/ n \in 1 .. N
        BY <1>1
  <2> HIDE DEF V, N, h
  <2> QED BY <1>5, <2>1, <2>2 DEF Follows
<1>8. Is(w)
  <2> HIDE DEF Is
  <2> QED BY <1>6
<1> HIDE DEF w, h
<1>9. w[0] = e /\ \A n \in 1 .. N : w[n] = Chunks!Packed(w[n - 1], ts[n])
  <2>1. \A n \in 1 .. N : n \in 0 .. N /\ n # 0
        BY <1>1
  <2>2. 0 \in 0 .. N
        BY <1>1
  <2> HIDE DEF N
  <2> QED BY <1>8, <2>1, <2>2
<1> HIDE DEF Is
<1> DEFINE S == {n \in Nat : w[n] \in V /\ Packs(w[n], HeldTo(ts, n))}
<1>10. 0 \in S
  <2>1. HeldTo(ts, 0) = {}
        BY DEF HeldTo
  <2>2. /\ Held(e.window) = {} /\ Sorted(e.window) /\ HeldBy(e.pieces) = {}
        /\ Series(e.pieces) /\ Fits(e.pieces)
        BY <1>3, NothingHeld
  <2>3. Len(e.window) <= MaxRunes
        BY <1>3, ChunksAssumption
  <2>4. Precedes(HeldBy(e.pieces), Held(e.window))
        BY <2>2, NothingHeld
  <2>5. HeldBy(e.pieces) \cup Held(e.window) = {}
        BY <2>2
  <2>6. Packs(e, HeldTo(ts, 0))
        BY <1>3, <2>1, <2>2, <2>3, <2>4, <2>5 DEF Packs
  <2> QED BY <1>3, <1>9, <2>6
<1>11. ASSUME NEW n \in 0 .. N - 1, n \in S
       PROVE  n + 1 \in S
  <2>1. n \in Nat /\ n + 1 \in 1 .. N /\ n + 1 \in Nat /\ (n + 1) - 1 = n
        BY <1>1
  <2>2. w[n] \in V /\ Packs(w[n], HeldTo(ts, n))
        BY <1>11
  <2>3. w[n + 1] = Chunks!Packed(w[n], ts[n + 1])
    <3> HIDE DEF N
    <3> QED BY <1>9, <2>1
  <2> DEFINE t == ts[n + 1]
  <2>4. t \in Seq(Spots) /\ Sorted(t) /\ Dense(t)
        BY <1>1, <2>1
  <2>5. Precedes(HeldTo(ts, n), Held(t))
    <3>1. \A m \in 1 .. n : Precedes(Held(ts[m]), Held(t))
      <4> TAKE m \in 1 .. n
      <4>1. m \in 1 .. N /\ m < n + 1
            BY <1>1, <2>1
      <4> QED BY <1>1, <2>1, <4>1
    <3> QED BY <3>1 DEF HeldTo, Precedes
  <2>6. HeldTo(ts, n + 1) = HeldTo(ts, n) \cup Held(t)
    <3>1. \A m : m \in 1 .. n + 1 <=> m \in 1 .. n \/ m = n + 1
          BY <2>1
    <3> QED BY <3>1 DEF HeldTo
  <2> HIDE DEF t
  <2>7. Chunks!Packed(w[n], t) \in V /\ Packs(Chunks!Packed(w[n], t), HeldTo(ts, n) \cup Held(t))
        BY <2>2, <2>4, <2>5, PackedFollows
  <2> HIDE DEF V
  <2>8. w[n + 1] \in V /\ Packs(w[n + 1], HeldTo(ts, n + 1))
        BY <2>3, <2>6, <2>7 DEF t
  <2> QED BY <2>1, <2>8
<1>12. N \in S
  <2> HIDE DEF S, N
  <2>1. 0 .. N \subseteq S
        BY <1>1, <1>10, <1>11, InductionUpTo
  <2> QED BY <1>1, <2>1
<1>13. w[N] \in V /\ Packs(w[N], H)
  <2>1. HeldTo(ts, N) = HeldBy(ts)
        BY DEF HeldTo, HeldBy
  <2> QED BY <1>1, <1>12, <2>1
<1> DEFINE fl == Chunks!Flushed(w[N])
<1>14. fl \in Seq(Seq(Spots)) /\ Series(fl) /\ Fits(fl) /\ HeldBy(fl) = H
       BY <1>13, FlushedHolds
<1> DEFINE b == s.body
           o == <<b>>
<1>15. ASSUME Len(b) <= MaxRunes
       PROVE  o \in Seq(Seq(Spots)) /\ Series(o) /\ Fits(o) /\ HeldBy(o) = H
  <2>1. /\ b \in Seq(Spots) /\ Sorted(b) /\ Held(b) = H /\ H # {}
        OBVIOUS
  <2>2. o \in Seq(Seq(Spots)) /\ Len(o) = 1 /\ o[1] = b
        BY <2>1
  <2>3. \A n \in 1 .. 1 : n = 1
        OBVIOUS
  <2>4. 1 \in 1 .. 1
        OBVIOUS
  <2> HIDE DEF o, b, H
  <2>5. HeldBy(o) = H
        BY <2>1, <2>2, <2>3, <2>4 DEF HeldBy
  <2>6. \A m, n \in 1 .. 1 : ~(m < n)
        OBVIOUS
  <2>7. Series(o)
        BY <2>1, <2>2, <2>3, <2>6 DEF Series
  <2>8. Fits(o)
        BY <1>15, <2>1, <2>2, <2>3 DEF Fits
  <2> QED BY <2>2, <2>5, <2>7, <2>8
<1> HIDE DEF fl, o, H, r
<1>16. r = o \/ r = fl
       BY <1>2 DEF o, fl
<1>17. r = o => Len(b) <= MaxRunes \/ r = fl
       BY <1>2 DEF o, fl
<1>18. r \in Seq(Seq(Spots)) /\ Series(r) /\ Fits(r) /\ HeldBy(r) = H
       BY <1>14, <1>15, <1>16, <1>17
<1> QED BY <1>18 DEF r, H

\* A fence is open where a line has opened one, and at all the lines between.
OpenSince(w, doc, i, j, no) == doc[j].is = "fence" /\ \A m \in j .. i : w[m] # no

Within(doc, i, j) == doc[j].is = "fence" /\ \A m \in j + 1 .. i : Chunks!Fences(doc)[m] # "none"

FenceBefore(doc, i) == \E j \in 1 .. i - 1 : Within(doc, i, j)

\* Before a line where a fence is open is the one that opened it.
LEMMA FencesAreOpened ==
  ASSUME NEW doc \in Chunks!Documents
  PROVE  \A i \in 1 .. Len(doc) : Chunks!Fences(doc)[i] # "none" => FenceBefore(doc, i)
<1> DEFINE N == Len(doc)
           V == {"none", "ticks", "tildes"}
           no == "none"
           Go(x, l) == IF l.is # "fence" THEN x
                       ELSE IF x = no THEN l.mark ELSE IF x = l.mark THEN no ELSE x
           h == [p \in V \X Nat |-> IF p[2] \in 1 .. N THEN Go(p[1], doc[p[2]]) ELSE p[1]]
           Is(f) == f = [i \in 0 .. N |->
                          IF i = 0 THEN no
                          ELSE IF doc[i].is # "fence" THEN f[i - 1]
                          ELSE IF f[i - 1] = no THEN doc[i].mark
                          ELSE IF f[i - 1] = doc[i].mark THEN no ELSE f[i - 1]]
           w == CHOOSE g : Is(g)
<1>1. N \in Nat /\ DOMAIN doc = 1 .. N
      BY LinesAre
<1>2. \A i \in 1 .. N : doc[i].mark \in V
  <2> TAKE i \in 1 .. N
  <2>1. doc[i] \in Chunks!Lines
        BY LinesAre, ElementOfSeq
  <2>2. doc[i].mark \in {"ticks", "tildes"}
        BY <2>1 DEF Chunks!Lines
  <2> QED BY <2>2
<1>3. Chunks!Fences(doc) = [i \in DOMAIN doc |-> w[i - 1]]
      BY DEF Chunks!Fences
<1>4. no \in V
      OBVIOUS
<1> HIDE DEF no
<1>5. h \in [V \X Nat -> V]
  <2>1. ASSUME NEW p \in V \X Nat
        PROVE  h[p] \in V
    <3>1. p[1] \in V /\ (p[2] \in 1 .. N => doc[p[2]].mark \in V)
          BY <1>2
    <3> HIDE DEF V, N
    <3> QED BY <1>4, <3>1
  <2> QED BY <2>1
<1>6. PICK f \in [0 .. N -> V] : Follows(f, V, no, h, N)
  <2> HIDE DEF V, N, h
  <2> QED BY <1>1, <1>4, <1>5, Recursive
<1>7. Is(f)
  <2>1. \A n \in 1 .. N : h[<<f[n - 1], n>>] = Go(f[n - 1], doc[n])
    <3> TAKE n \in 1 .. N
    <3>1. <<f[n - 1], n>> \in V \X Nat
          BY <1>6 DEF Follows
    <3> HIDE DEF V, N
    <3> QED BY <3>1
  <2>2. \A n \in 0 .. N : n = 0 \/ n \in 1 .. N
        BY <1>1
  <2> HIDE DEF V, N, h
  <2>3. \A n \in 1 .. N : f[n] = Go(f[n - 1], doc[n])
        BY <1>6, <2>1 DEF Follows
  <2>4. f = [n \in 0 .. N |-> IF n = 0 THEN no ELSE h[<<f[n - 1], n>>]]
        BY <1>6 DEF Follows
  <2> QED BY <2>1, <2>2, <2>4
<1>8. Is(w)
  <2> HIDE DEF Is
  <2> QED BY <1>7
<1> HIDE DEF w, h
<1>9. w[0] = no /\ \A n \in 1 .. N : w[n] = Go(w[n - 1], doc[n])
  <2>1. \A n \in 1 .. N : n \in 0 .. N /\ n # 0
        BY <1>1
  <2>2. 0 \in 0 .. N
        BY <1>1
  <2> HIDE DEF N
  <2> QED BY <1>8, <2>1, <2>2
<1> HIDE DEF Is
<1> DEFINE S == {n \in Nat : w[n] # no => \E j \in 1 .. n : OpenSince(w, doc, n, j, no)}
<1>10. 0 \in S
       BY <1>9
<1>11. ASSUME NEW n \in 0 .. N - 1, n \in S
       PROVE  n + 1 \in S
  <2>1. n \in Nat /\ n + 1 \in 1 .. N /\ n + 1 \in Nat /\ (n + 1) - 1 = n
        BY <1>1
  <2>2. w[n + 1] = Go(w[n], doc[n + 1])
    <3> HIDE DEF N, Go
    <3> QED BY <1>9, <2>1
  <2> SUFFICES ASSUME w[n + 1] # no
               PROVE  \E j \in 1 .. n + 1 : OpenSince(w, doc, n + 1, j, no)
      BY <2>1
  <2>3. CASE w[n] # no
    <3>1. PICK j \in 1 .. n : OpenSince(w, doc, n, j, no)
          BY <1>11, <2>3
    <3>2. \A m \in j .. n + 1 : m \in j .. n \/ m = n + 1
          BY <2>1
    <3>3. OpenSince(w, doc, n + 1, j, no)
          BY <3>1, <3>2 DEF OpenSince
    <3>4. j \in 1 .. n + 1
          BY <2>1
    <3> QED BY <3>3, <3>4
  <2>4. CASE w[n] = no
    <3>1. doc[n + 1].is = "fence"
          BY <2>2, <2>4
    <3>2. \A m \in n + 1 .. n + 1 : m = n + 1
          BY <2>1
    <3>3. OpenSince(w, doc, n + 1, n + 1, no)
          BY <3>1, <3>2 DEF OpenSince
    <3>4. n + 1 \in 1 .. n + 1
          BY <2>1
    <3> QED BY <3>3, <3>4
  <2> QED BY <2>3, <2>4
<1>12. 0 .. N \subseteq S
  <2> HIDE DEF S, N
  <2> QED BY <1>1, <1>10, <1>11, InductionUpTo
<1>13. ASSUME NEW i \in 1 .. N, Chunks!Fences(doc)[i] # no
       PROVE  FenceBefore(doc, i)
  <2>1. i - 1 \in 0 .. N /\ i \in Nat
        BY <1>1
  <2>2. Chunks!Fences(doc)[i] = w[i - 1] /\ \A m \in 1 .. N : Chunks!Fences(doc)[m] = w[m - 1]
        BY <1>1, <1>3
  <2>3. i - 1 \in S
        BY <1>12, <2>1
  <2>4. PICK j \in 1 .. i - 1 : OpenSince(w, doc, i - 1, j, no)
        BY <1>13, <2>2, <2>3
  <2>5. \A m \in j + 1 .. i : m \in 1 .. N /\ m - 1 \in j .. i - 1
        BY <1>1, <2>1
  <2>6. \A m \in j + 1 .. i : Chunks!Fences(doc)[m] # no
        BY <2>2, <2>4, <2>5 DEF OpenSince
  <2>7. Within(doc, i, j)
        BY <2>4, <2>6 DEF Within, OpenSince, no
  <2> QED BY <2>7 DEF FenceBefore
<1> QED BY <1>13 DEF no

\* The headings that enclose a line, outermost first.
Stacked(doc, st, a) ==
  /\ \A j, k \in 1 .. Len(st) : j < k => doc[st[j]].level < doc[st[k]].level
  /\ \A h : Chunks!Encloses(doc, h, a) <=> \E k \in 1 .. Len(st) : st[k] = h

\* A heading leaves the first of the stack, those of a level above its own.
PushedOn(doc, st, i, top, r) ==
  /\ top \in 0 .. Len(st) /\ (top = 0 \/ doc[st[top]].level < doc[i].level)
  /\ \A m \in 1 .. Len(st) : doc[st[m]].level < doc[i].level => m <= top
  /\ r \in Seq(Chunks!Headings(doc)) /\ Len(r) = top + 1 /\ r[top + 1] = i
  /\ \A k \in 1 .. top : r[k] = st[k]

\* A heading closes those of its level and below, which are the last.
LEMMA PushedKeeps ==
  ASSUME NEW doc \in Chunks!Documents, NEW st \in Seq(Chunks!Headings(doc)), NEW i \in Chunks!Headings(doc)
  PROVE  \E top : PushedOn(doc, st, i, top, Chunks!Pushed(st, doc, i))
<1> DEFINE T == Chunks!Headings(doc)
           kept == {n \in 0 .. Len(st) : n = 0 \/ doc[st[n]].level < doc[i].level}
           top == CHOOSE n \in kept : \A m \in kept : m <= n
           u == SubSeq(st, 1, top)
           r == Append(u, i)
<1>1. Len(st) \in Nat /\ \A k \in 1 .. Len(st) : st[k] \in T
      BY LenProperties, ElementOfSeq
<1>2. kept \in SUBSET (0 .. Len(st)) /\ 0 \in kept
      BY <1>1
<1>3. \E n \in kept : \A m \in kept : m <= n
  <2> HIDE DEF kept
  <2> QED BY <1>1, <1>2, Greatest
<1>4. top \in kept /\ \A m \in kept : m <= top
  <2> HIDE DEF kept
  <2> QED BY <1>3
<1>5. Chunks!Pushed(st, doc, i) = r
      BY DEF Chunks!Pushed
<1> HIDE DEF top
<1>6. /\ top \in 0 .. Len(st) /\ (top = 0 \/ doc[st[top]].level < doc[i].level)
      /\ top \in Nat
      BY <1>1, <1>4
<1>7. \A m \in 1 .. Len(st) : doc[st[m]].level < doc[i].level => m <= top
  <2> TAKE m \in 1 .. Len(st)
  <2>1. m \in 0 .. Len(st)
        BY <1>1
  <2> QED BY <1>4, <2>1
<1> HIDE DEF kept
<1>8. u \in Seq(T) /\ Len(u) = top /\ \A k \in 1 .. top : u[k] = st[k]
  <2>1. \A k \in 1 .. top : st[k] \in T
        BY <1>1, <1>6
  <2>2. /\ u \in Seq(T) /\ Len(u) = (IF 1 <= top THEN (top - 1) + 1 ELSE 0)
        /\ \A k \in 1 .. (top - 1) + 1 : u[k] = st[(1 + k) - 1]
        BY <1>6, <2>1, SubSeqProperties
  <2>3. (top - 1) + 1 = top /\ \A k \in 1 .. top : (1 + k) - 1 = k
        BY <1>6
  <2> HIDE DEF u
  <2> QED BY <1>6, <2>2, <2>3
<1> HIDE DEF u
<1>9. r \in Seq(T) /\ Len(r) = top + 1 /\ r[top + 1] = i /\ \A k \in 1 .. top : r[k] = st[k]
      BY <1>8, AppendProperties
<1> HIDE DEF r
<1>10. PushedOn(doc, st, i, top, r)
       BY <1>6, <1>7, <1>9 DEF PushedOn
<1> QED BY <1>5, <1>10

\* After a heading the stack has those that enclose it.
LEMMA PushedFollows ==
  ASSUME NEW doc \in Chunks!Documents, NEW st \in Seq(Chunks!Headings(doc)), NEW i \in Chunks!Headings(doc),
         NEW a \in Nat, a < i, \A h \in Chunks!Headings(doc) : h <= i <=> h <= a \/ h = i,
         Stacked(doc, st, a)
  PROVE  Chunks!Pushed(st, doc, i) \in Seq(Chunks!Headings(doc)) /\ Stacked(doc, Chunks!Pushed(st, doc, i), i)
<1> DEFINE T == Chunks!Headings(doc)
           lv(h) == doc[h].level
<1> DEFINE r == Chunks!Pushed(st, doc, i)
<1>0. PICK top : PushedOn(doc, st, i, top, r)
      BY PushedKeeps
<1> HIDE DEF r
<1>1. /\ top \in 0 .. Len(st) /\ (top = 0 \/ lv(st[top]) < lv(i))
      /\ \A m \in 1 .. Len(st) : lv(st[m]) < lv(i) => m <= top
      /\ r \in Seq(T) /\ Len(r) = top + 1 /\ r[top + 1] = i
      /\ \A k \in 1 .. top : r[k] = st[k]
      BY <1>0 DEF PushedOn
<1>2. /\ Len(st) \in Nat /\ top \in Nat /\ top <= Len(st)
      /\ \A k \in 1 .. Len(st) : st[k] \in T
  <2>1. Len(st) \in Nat /\ \A k \in 1 .. Len(st) : st[k] \in T
        BY LenProperties, ElementOfSeq
  <2> QED BY <1>1, <2>1
<1>3. \A h \in T : h \in Nat /\ lv(h) \in Nat /\ h \in 1 .. Len(doc)
      BY LinesAre DEF Chunks!Headings
<1>4. /\ \A j, k \in 1 .. Len(st) : j < k => lv(st[j]) < lv(st[k])
      /\ \A h : Chunks!Encloses(doc, h, a) <=> \E k \in 1 .. Len(st) : st[k] = h
      BY DEF Stacked
<1>5. \A k \in 1 .. Len(st) : k <= top <=> lv(st[k]) < lv(i)
  <2> TAKE k \in 1 .. Len(st)
  <2>1. ASSUME k <= top
        PROVE  lv(st[k]) < lv(i)
    <3>1. top \in 1 .. Len(st) /\ top # 0 /\ (k = top \/ k < top)
          BY <1>2, <2>1
    <3>2. lv(st[top]) < lv(i) /\ lv(st[k]) \in Nat /\ lv(st[top]) \in Nat /\ lv(i) \in Nat
          BY <1>1, <1>2, <1>3, <3>1
    <3>3. k < top => lv(st[k]) < lv(st[top])
          BY <1>4, <3>1
    <3> HIDE DEF lv
    <3> QED BY <3>1, <3>2, <3>3
  <2> QED BY <1>1, <2>1
<1>6. \A k \in 1 .. top + 1 : k \in 1 .. top \/ k = top + 1
      BY <1>2
<1>7. \A k \in 1 .. top : k \in 1 .. Len(st) /\ k \in 1 .. top + 1 /\ r[k] = st[k] /\ lv(r[k]) < lv(i)
      BY <1>1, <1>2, <1>5
<1>8. top + 1 \in 1 .. top + 1
      BY <1>2
<1>9. ASSUME NEW j \in 1 .. Len(r), NEW k \in 1 .. Len(r), j < k
      PROVE  lv(r[j]) < lv(r[k])
  <2>1. j \in 1 .. top
        BY <1>1, <1>2, <1>9
  <2>2. CASE k = top + 1
    <3>1. r[k] = i /\ lv(r[j]) < lv(i)
          BY <1>1, <1>7, <2>1, <2>2
    <3> QED BY <3>1
  <2>3. CASE k \in 1 .. top
        BY <1>4, <1>7, <1>9, <2>1, <2>3
  <2> QED BY <1>1, <1>6, <2>2, <2>3
<1>10. \A h : Chunks!Encloses(doc, h, i) <=> h = i \/ (Chunks!Encloses(doc, h, a) /\ lv(h) < lv(i))
  <2> TAKE h
  <2>1. ASSUME Chunks!Encloses(doc, h, i), h # i
        PROVE  Chunks!Encloses(doc, h, a) /\ lv(h) < lv(i)
    <3>1. h \in T /\ h <= a /\ h < i /\ i <= i
      <4>1. h \in T /\ h <= i
            BY <2>1 DEF Chunks!Encloses
      <4> QED BY <1>3, <2>1, <4>1
    <3>2. lv(i) > lv(h)
          BY <2>1, <3>1 DEF Chunks!Encloses
    <3>3. \A k \in T : h < k /\ k <= a => lv(k) > lv(h)
      <4> TAKE k \in T
      <4>1. k <= a => k <= i
            OBVIOUS
      <4> QED BY <2>1, <4>1 DEF Chunks!Encloses
    <3> QED BY <1>3, <3>1, <3>2, <3>3 DEF Chunks!Encloses
  <2>2. ASSUME h = i
        PROVE  Chunks!Encloses(doc, h, i)
    <3>1. \A k \in T : ~(i < k /\ k <= i)
          BY <1>3
    <3>2. i <= i
          BY <1>3
    <3> QED BY <2>2, <3>1, <3>2 DEF Chunks!Encloses
  <2>3. ASSUME Chunks!Encloses(doc, h, a), lv(h) < lv(i)
        PROVE  Chunks!Encloses(doc, h, i)
    <3>1. h \in T /\ h <= a /\ \A k \in T : h < k /\ k <= a => lv(k) > lv(h)
          BY <2>3 DEF Chunks!Encloses
    <3>2. h <= i /\ lv(i) > lv(h)
          BY <1>3, <2>3, <3>1
    <3>3. \A k \in T : k <= i => k <= a \/ k = i
          OBVIOUS
    <3>4. \A k \in T : h < k /\ k <= i => lv(k) > lv(h)
          BY <3>1, <3>2, <3>3
    <3> QED BY <3>1, <3>2, <3>4 DEF Chunks!Encloses
  <2> QED BY <2>1, <2>2, <2>3
<1>11. ASSUME NEW h
       PROVE  Chunks!Encloses(doc, h, i) <=> \E k \in 1 .. Len(r) : r[k] = h
  <2>1. ASSUME Chunks!Encloses(doc, h, a), lv(h) < lv(i)
        PROVE  \E k \in 1 .. Len(r) : r[k] = h
    <3>1. PICK k \in 1 .. Len(st) : st[k] = h
          BY <1>4, <2>1
    <3>2. k \in 1 .. top
          BY <1>2, <1>5, <2>1, <3>1
    <3> QED BY <1>1, <1>7, <3>1, <3>2
  <2>2. h = i => \E k \in 1 .. Len(r) : r[k] = h
        BY <1>1, <1>8
  <2>3. ASSUME NEW k \in 1 .. Len(r), r[k] = h
        PROVE  h = i \/ (Chunks!Encloses(doc, h, a) /\ lv(h) < lv(i))
    <3>1. k = top + 1 => h = i
          BY <1>1, <2>3
    <3>2. k \in 1 .. top => Chunks!Encloses(doc, h, a) /\ lv(h) < lv(i)
          BY <1>4, <1>7, <2>3
    <3> QED BY <1>1, <1>6, <3>1, <3>2
  <2> QED BY <1>10, <2>1, <2>2, <2>3
<1>12. Stacked(doc, r, i)
       BY <1>9, <1>11 DEF Stacked
<1> QED BY <1>1, <1>12 DEF r

\* The lines where sections begin, and the one after the last.
LEMMA CutsAre ==
  ASSUME NEW doc \in Chunks!Documents, NEW at, at = Chunks!Cuts(doc)
  PROVE  /\ Len(at) \in Nat /\ 2 <= Len(at)
         /\ \A n \in 1 .. Len(at) : at[n] \in Nat /\ 1 <= at[n] /\ at[n] <= Len(doc) + 1
         /\ \A m, n \in 1 .. Len(at) : m < n => at[m] < at[n]
         /\ \A n \in 1 .. Len(at) - 1 : at[n] < at[n + 1] /\ (at[n] \in Chunks!Headings(doc) \/ at[n] = 1)
         /\ \A h \in Chunks!Headings(doc) : \E n \in 1 .. Len(at) : at[n] = h
         /\ \A l \in 1 .. Len(doc) : \E n \in 1 .. Len(at) - 1 : at[n] <= l /\ l <= at[n + 1] - 1
<1> DEFINE L == Len(doc)
           H == Chunks!Headings(doc)
           C == H \cup {1, L + 1}
           K == Len(at)
<1>1. L \in Nat /\ L # 0 /\ H \subseteq 1 .. L
      BY LinesAre DEF Chunks!Headings
<1>2. C \in SUBSET Nat /\ IsFiniteSet(C)
  <2>1. C \subseteq 1 .. L + 1 /\ C \in SUBSET Nat
        BY <1>1
  <2>2. L + 1 \in Int /\ 1 \in Int
        BY <1>1
  <2>3. IsFiniteSet(1 .. L + 1)
        BY <2>2, FS_Interval
  <2> HIDE DEF C
  <2> QED BY <2>1, <2>3, FS_Subset
<1>3. at = Chunks!Ascending(C)
      BY DEF Chunks!Cuts
<1>4. \A a \in C : a \in Nat /\ 1 <= a /\ a <= L + 1 /\ (a \in H \/ a = 1 \/ a = L + 1)
      BY <1>1
<1>5. 1 \in C /\ L + 1 \in C /\ \A h \in H : h \in C
      OBVIOUS
<1> HIDE DEF C, H, L
<1>6. /\ K \in Nat /\ \A n \in 1 .. K : at[n] \in C
      /\ \A a \in C : \E n \in 1 .. K : at[n] = a
      /\ \A m, n \in 1 .. K : m < n => at[m] < at[n]
      BY <1>2, <1>3, AscendingLists
<1> HIDE DEF K
<1>7. \A n \in 1 .. K : at[n] \in Nat /\ 1 <= at[n] /\ at[n] <= L + 1
      BY <1>4, <1>6
<1>8. PICK z \in 1 .. K : at[z] = L + 1
      BY <1>5, <1>6
<1>9. z = K
  <2>1. ASSUME z < K
        PROVE  FALSE
    <3>1. K \in 1 .. K
          BY <1>6, <2>1
    <3>2. at[z] < at[K] /\ at[K] <= L + 1 /\ at[K] \in Nat
          BY <1>6, <1>7, <2>1, <3>1
    <3> QED BY <1>1, <1>8, <3>2
  <2>2. ~(z < K)
        BY <2>1
  <2> QED BY <1>6, <2>2
<1>10. \A n \in 1 .. K - 1 : n \in 1 .. K /\ n + 1 \in 1 .. K /\ n < n + 1 /\ n < K
       BY <1>6
<1>11. \A n \in 1 .. K - 1 : at[n] < at[n + 1] /\ at[n] < L + 1
       BY <1>6, <1>8, <1>9, <1>10
<1>12. \A n \in 1 .. K - 1 : at[n] \in H \/ at[n] = 1
  <2> TAKE n \in 1 .. K - 1
  <2>1. at[n] # L + 1
        BY <1>1, <1>7, <1>10, <1>11
  <2> QED BY <1>4, <1>6, <1>10, <2>1
<1>13. PICK o \in 1 .. K : at[o] = 1
       BY <1>5, <1>6
<1>14. 2 <= K
  <2>1. o # K
        BY <1>1, <1>8, <1>9, <1>13
  <2> QED BY <1>6, <2>1
<1>15. ASSUME NEW l \in 1 .. L
       PROVE  \E n \in 1 .. K - 1 : at[n] <= l /\ l <= at[n + 1] - 1
  <2> DEFINE M == {n \in 0 .. K : n # 0 /\ at[n] <= l}
  <2>1. l \in Nat /\ 1 <= l /\ l <= L
        BY <1>1
  <2>2. M \in SUBSET (0 .. K) /\ o \in M
        BY <1>6, <1>13, <2>1
  <2>3. PICK n \in M : \A k \in M : k <= n
    <3> HIDE DEF M
    <3> QED BY <1>6, <2>2, Greatest
  <2>4. n \in 1 .. K /\ at[n] <= l
        BY <1>6, <2>3
  <2>5. n # K
        BY <1>1, <1>8, <1>9, <2>1, <2>4
  <2>6. n \in 1 .. K - 1
        BY <1>6, <2>4, <2>5
  <2>7. ~(at[n + 1] <= l)
    <3>1. n + 1 \in 0 .. K /\ n + 1 # 0 /\ ~(n + 1 <= n)
          BY <1>6, <2>6
    <3> QED BY <2>3, <3>1
  <2>8. l <= at[n + 1] - 1
        BY <1>7, <1>10, <2>1, <2>6, <2>7
  <2> QED BY <2>4, <2>6, <2>8
<1>16. \A h \in H : \E n \in 1 .. K : at[n] = h
       BY <1>5, <1>6
<1> QED BY <1>6, <1>7, <1>11, <1>12, <1>14, <1>15, <1>16 DEF K, H, L

\* No heading is between two that follow each other.
LEMMA HeadingsBetween ==
  ASSUME NEW doc \in Chunks!Documents, NEW at, at = Chunks!Cuts(doc),
         NEW n \in 1 .. Len(at), NEW h \in Chunks!Headings(doc), h <= at[n]
  PROVE  h = at[n] \/ (n # 1 /\ h <= at[n - 1])
<1>1. /\ Len(at) \in Nat
      /\ \A m \in 1 .. Len(at) : at[m] \in Nat
      /\ \A m, k \in 1 .. Len(at) : m < k => at[m] < at[k]
  <2>1. Len(at) \in Nat
        BY CutsAre
  <2>2. \A m \in 1 .. Len(at) : at[m] \in Nat
        BY CutsAre
  <2>3. \A m, k \in 1 .. Len(at) : m < k => at[m] < at[k]
        BY CutsAre
  <2> QED BY <2>1, <2>2, <2>3
<1>0. \A i \in Chunks!Headings(doc) : \E m \in 1 .. Len(at) : at[m] = i
      BY CutsAre
<1>2. PICK m \in 1 .. Len(at) : at[m] = h
      BY <1>0
<1>3. ~(n < m)
  <2>1. n < m => at[n] < at[m]
        BY <1>1
  <2>2. at[n] \in Nat /\ at[m] \in Nat
        BY <1>1
  <2> QED BY <1>2, <2>1, <2>2
<1>4. m = n \/ m < n
      BY <1>1, <1>3
<1>5. CASE m < n
  <2>1. n # 1 /\ n - 1 \in 1 .. Len(at) /\ (m = n - 1 \/ m < n - 1)
        BY <1>1, <1>5
  <2>2. m < n - 1 => at[m] < at[n - 1]
        BY <1>1, <2>1
  <2>3. at[m] \in Nat /\ at[n - 1] \in Nat
        BY <1>1, <2>1
  <2>4. h <= at[n - 1]
        BY <1>2, <2>1, <2>2, <2>3
  <2> QED BY <2>1, <2>4
<1> QED BY <1>2, <1>4, <1>5

\* At every section the stack has the headings that enclose its first line.
LEMMA StacksFollow ==
  ASSUME NEW doc \in Chunks!Documents, NEW at, at = Chunks!Cuts(doc), NEW w, NEW e, e = << >>, w[0] = e,
         \A n \in 1 .. Len(at) - 1 :
           w[n] = IF at[n] \in Chunks!Headings(doc) THEN Chunks!Pushed(w[n - 1], doc, at[n]) ELSE e
  PROVE  \A n \in 1 .. Len(at) - 1 : w[n] \in Seq(Chunks!Headings(doc)) /\ Stacked(doc, w[n], at[n])
<1> DEFINE H == Chunks!Headings(doc)
           N == Len(at) - 1
           a(n) == IF n = 0 THEN 0 ELSE at[n]
           S == {n \in Nat : w[n] \in Seq(H) /\ Stacked(doc, w[n], a(n))}
<1>1. /\ N \in Nat /\ Len(at) = N + 1
      /\ \A m \in 1 .. N + 1 : at[m] \in Nat /\ 1 <= at[m]
      /\ \A m, k \in 1 .. N + 1 : m < k => at[m] < at[k]
      /\ \A m \in 1 .. N : at[m] \in H \/ at[m] = 1
  <2>1. /\ Len(at) \in Nat /\ 2 <= Len(at)
        /\ \A m \in 1 .. Len(at) : at[m] \in Nat /\ 1 <= at[m]
        /\ \A m, k \in 1 .. Len(at) : m < k => at[m] < at[k]
        /\ \A m \in 1 .. Len(at) - 1 : at[m] \in H \/ at[m] = 1
        BY CutsAre
  <2>2. N \in Nat /\ Len(at) = N + 1
        BY <2>1
  <2> QED BY <2>1, <2>2
<1>2. \A h \in H : h \in Nat /\ 1 <= h
      BY LinesAre DEF Chunks!Headings
<1>3. \A n \in 1 .. N : w[n] = IF at[n] \in H THEN Chunks!Pushed(w[n - 1], doc, at[n]) ELSE e
      OBVIOUS
<1>4. e \in Seq(H) /\ Len(e) = 0
      BY EmptySeq
<1>5. ASSUME NEW i \in Nat, \A h \in H : ~(h <= i)
      PROVE  Stacked(doc, e, i)
  <2>1. \A k : k \in 1 .. 0 => FALSE
        OBVIOUS
  <2>2. \A h : ~Chunks!Encloses(doc, h, i)
        BY <1>5 DEF Chunks!Encloses
  <2> QED BY <1>4, <2>1, <2>2 DEF Stacked
<1> HIDE DEF N
<1>6. 0 \in S
  <2>1. Stacked(doc, e, 0)
    <3>1. \A h \in H : ~(h <= 0)
          BY <1>2
    <3> QED BY <1>5, <3>1
  <2>2. a(0) = 0 /\ w[0] = e
        OBVIOUS
  <2> HIDE DEF a
  <2> QED BY <1>4, <2>1, <2>2
<1>7. ASSUME NEW n \in 0 .. N - 1, n \in S
      PROVE  n + 1 \in S
  <2>1. n \in Nat /\ n + 1 \in 1 .. N /\ n + 1 \in 1 .. N + 1 /\ n + 1 \in Nat /\ (n + 1) - 1 = n /\ n + 1 # 0
        BY <1>1
  <2> DEFINE i == at[n + 1]
  <2>2. w[n] \in Seq(H) /\ Stacked(doc, w[n], a(n))
        BY <1>7
  <2>3. w[n + 1] = IF i \in H THEN Chunks!Pushed(w[n], doc, i) ELSE e
        BY <1>3, <2>1
  <2>4. CASE i \in H
    <3>1. a(n) \in Nat /\ a(n) < i
      <4>1. CASE n = 0
            BY <1>1, <2>1, <4>1
      <4>2. CASE n # 0
        <5>1. n \in 1 .. N + 1 /\ n < n + 1
              BY <1>1, <2>1, <4>2
        <5>2. at[n] < at[n + 1] /\ at[n] \in Nat
              BY <1>1, <2>1, <5>1
        <5> QED BY <4>2, <5>2
      <4> QED BY <4>1, <4>2
    <3>2. ASSUME NEW h \in H
          PROVE  h <= i <=> h <= a(n) \/ h = i
      <4>1. h <= i => h = i \/ (n + 1 # 1 /\ h <= at[n])
            BY <1>1, <2>1, HeadingsBetween
      <4>2. h \in Nat /\ i \in Nat
            BY <1>1, <1>2, <2>1
      <4>3. n + 1 # 1 /\ h <= at[n] => h <= a(n)
            BY <2>1
      <4> HIDE DEF i, a
      <4> QED BY <3>1, <4>1, <4>2, <4>3
    <3> HIDE DEF i, a
    <3>3. Chunks!Pushed(w[n], doc, i) \in Seq(H) /\ Stacked(doc, Chunks!Pushed(w[n], doc, i), i)
          BY <2>2, <2>4, <3>1, <3>2, PushedFollows
    <3>4. a(n + 1) = i
          BY <2>1 DEF a, i
    <3> QED BY <2>1, <2>3, <2>4, <3>3, <3>4
  <2>5. CASE i \notin H
    <3>1. i = 1
          BY <1>1, <2>1, <2>5
    <3>2. \A h \in H : ~(h <= 1)
          BY <1>2, <2>5, <3>1
    <3>3. Stacked(doc, e, 1)
          BY <1>5, <3>2
    <3>4. a(n + 1) = 1
          BY <2>1, <3>1
    <3>5. w[n + 1] = e
          BY <2>3, <2>5
    <3> HIDE DEF a, i
    <3> QED BY <1>4, <2>1, <3>3, <3>4, <3>5
  <2> QED BY <2>4, <2>5
<1>8. 0 .. N \subseteq S
  <2> HIDE DEF S
  <2> QED BY <1>1, <1>6, <1>7, InductionUpTo
<1>9. \A n \in 1 .. N : n \in 0 .. N /\ n # 0
      BY <1>1
<1>10. \A n \in 1 .. N : w[n] \in Seq(H) /\ Stacked(doc, w[n], at[n])
       BY <1>8, <1>9
<1> QED BY <1>10 DEF N

\* The headings a chunk with line i is to be under, and the lines the last chunk goes up to.
WantOf(doc, markdown, i) == IF markdown THEN {h \in DOMAIN doc : Chunks!Encloses(doc, h, i)} ELSE {}

LastOf(doc, markdown) == {i \in DOMAIN doc : \/ i \in Chunks!Prose(doc)
                                             \/ ~markdown /\ doc[i].is = "heading"}

\* A section holds its lines, is under the headings of its prose, and has no other
\* line but a first one.
Sectional(doc, markdown, s) ==
  /\ SectionOf(doc, s)
  /\ s.body \in Seq(Spots) /\ Sorted(s.body) /\ Held(s.body) = RunesOf(doc, s.first, s.last)
  /\ \A i \in Chunks!Prose(doc) : s.first <= i /\ i <= s.last =>
       Chunks!HasProse(doc, s) /\ Chunks!ToSet(s.path) = WantOf(doc, markdown, i)
  /\ \A i \in 1 .. Len(doc) : s.first <= i /\ i <= s.last /\ doc[i].is # "blank" =>
       i \in LastOf(doc, markdown) \/ i = s.first

\* The kinds of a line.
LEMMA KindsAre ==
  ASSUME NEW doc \in Chunks!Documents
  PROVE  /\ \A i \in 1 .. Len(doc) : doc[i].is \in {"heading", "fence", "text", "blank"}
         /\ Chunks!Prose(doc) \subseteq 1 .. Len(doc) /\ Chunks!Headings(doc) \subseteq 1 .. Len(doc)
         /\ \A i \in 1 .. Len(doc) : i \in Chunks!Prose(doc) <=>
              doc[i].is \in {"fence", "text"} \/ (doc[i].is = "heading" /\ i \notin Chunks!Headings(doc))
         /\ \A i \in Chunks!Prose(doc) : doc[i].is \in {"fence", "text"} \/ FenceBefore(doc, i)
<1>1. /\ Len(doc) \in Nat /\ DOMAIN doc = 1 .. Len(doc)
      /\ \A i \in 1 .. Len(doc) : doc[i].is \in {"heading", "fence", "text", "blank"}
  <2>1. Len(doc) \in Nat /\ DOMAIN doc = 1 .. Len(doc) /\ \A i \in 1 .. Len(doc) : doc[i] \in Chunks!Lines
        BY LinesAre, ElementOfSeq
  <2> QED BY <2>1 DEF Chunks!Lines
<1>2. /\ Chunks!Prose(doc) \subseteq 1 .. Len(doc) /\ Chunks!Headings(doc) \subseteq 1 .. Len(doc)
      /\ \A i \in 1 .. Len(doc) : i \in Chunks!Prose(doc) <=>
           doc[i].is \in {"fence", "text"} \/ (doc[i].is = "heading" /\ i \notin Chunks!Headings(doc))
      BY <1>1 DEF Chunks!Prose, Chunks!Headings
<1>3. ASSUME NEW i \in Chunks!Prose(doc), ~(doc[i].is \in {"fence", "text"})
      PROVE  FenceBefore(doc, i)
  <2>1. i \in 1 .. Len(doc) /\ doc[i].is = "heading" /\ i \notin Chunks!Headings(doc)
        BY <1>2, <1>3
  <2>2. Chunks!Fences(doc)[i] # "none"
        BY <1>1, <2>1 DEF Chunks!Headings
  <2> QED BY <2>1, <2>2, FencesAreOpened
<1> QED BY <1>1, <1>2, <1>3

\* The part of a document between two headings is a section.
LEMMA PartsAreSections ==
  ASSUME NEW doc \in Chunks!Documents, NEW at, at = Chunks!Cuts(doc), NEW n \in 1 .. Len(at) - 1,
         NEW st \in Seq(Chunks!Headings(doc)), Stacked(doc, st, at[n]), NEW s,
         s.first = at[n], s.last = at[n + 1] - 1, s.path = st, s.body = Chunks!Body(doc, at[n], at[n + 1] - 1)
  PROVE  Sectional(doc, TRUE, s)
<1> DEFINE a == at[n]
           b == at[n + 1] - 1
           H == Chunks!Headings(doc)
<1>1. /\ Len(at) \in Nat /\ n \in 1 .. Len(at) /\ n + 1 \in 1 .. Len(at) /\ n \in Nat /\ (n + 1) - 1 = n
      /\ at[n] \in Nat /\ 1 <= at[n] /\ at[n + 1] \in Nat /\ at[n + 1] <= Len(doc) + 1
      /\ at[n] < at[n + 1] /\ (at[n] \in H \/ at[n] = 1)
  <2>1. /\ Len(at) \in Nat
        /\ \A m \in 1 .. Len(at) : at[m] \in Nat /\ 1 <= at[m] /\ at[m] <= Len(doc) + 1
        /\ \A m \in 1 .. Len(at) - 1 : at[m] < at[m + 1] /\ (at[m] \in H \/ at[m] = 1)
        BY CutsAre
  <2>2. n \in 1 .. Len(at) /\ n + 1 \in 1 .. Len(at) /\ n \in Nat /\ (n + 1) - 1 = n
        BY <2>1
  <2> QED BY <2>1, <2>2
<1>2. Len(doc) \in Nat
      BY LinesAre
<1>3. a \in Nat /\ b \in Nat /\ 1 <= a /\ a <= b /\ b <= Len(doc)
      BY <1>1, <1>2
<1>4. \A h \in H : h <= b => h <= a
  <2> TAKE h \in H
  <2>1. h \in Nat
        BY <1>2, KindsAre
  <2>2. h <= b => h <= at[n + 1] /\ h # at[n + 1]
        BY <1>1, <2>1
  <2>3. h <= at[n + 1] => h = at[n + 1] \/ h <= at[n]
        BY <1>1, HeadingsBetween
  <2> QED BY <2>2, <2>3
<1>5. s.first = a /\ s.last = b /\ s.path = st /\ s.body = Chunks!Body(doc, a, b)
      OBVIOUS
<1>6. Stacked(doc, st, a) /\ (a \in H \/ a = 1)
      BY <1>1
<1> HIDE DEF a, b, H
<1>7. SectionOf(doc, s)
      BY <1>3, <1>5 DEF SectionOf
<1>8. s.body \in Seq(Spots) /\ Sorted(s.body) /\ Held(s.body) = RunesOf(doc, s.first, s.last)
      BY <1>3, <1>5, BodyHolds
<1>9. ASSUME NEW i \in Chunks!Prose(doc), a <= i, i <= b
      PROVE  Chunks!HasProse(doc, s)
  <2>1. i \in Nat /\ i \in 1 .. Len(doc)
        BY <1>2, KindsAre
  <2>2. CASE doc[i].is \in {"fence", "text"}
    <3>1. i \in s.first .. s.last
          BY <1>3, <1>5, <1>9, <2>1
    <3> QED BY <2>2, <3>1 DEF Chunks!HasProse
  <2>3. CASE FenceBefore(doc, i)
    <3>1. PICK j \in 1 .. i - 1 : Within(doc, i, j)
          BY <2>3 DEF FenceBefore
    <3>2. ~(j < a)
      <4> SUFFICES ASSUME j < a PROVE FALSE
          OBVIOUS
      <4>1. a \in j + 1 .. i
            BY <1>3, <1>9, <2>1
      <4>2. Chunks!Fences(doc)[a] # "none"
            BY <3>1, <4>1 DEF Within
      <4>3. a \notin H
            BY <4>2 DEF Chunks!Headings, H
      <4>4. a # 1
            BY <1>3, <2>1
      <4> QED BY <1>6, <4>3, <4>4
    <3>3. j \in s.first .. s.last
          BY <1>3, <1>5, <1>9, <2>1, <3>2
    <3>4. doc[j].is \in {"fence", "text"}
          BY <3>1 DEF Within
    <3> QED BY <3>3, <3>4 DEF Chunks!HasProse
  <2> QED BY <2>2, <2>3, KindsAre
<1>10. ASSUME NEW i \in Nat, a <= i, i <= b
       PROVE  Chunks!ToSet(s.path) = WantOf(doc, TRUE, i)
  <2>1. \A h \in H : h \in Nat /\ h \in DOMAIN doc
        BY <1>2, KindsAre, LinesAre DEF H
  <2>2. \A h \in H : h <= i <=> h <= a
        BY <1>3, <1>4, <1>10, <2>1
  <2>3. \A h : Chunks!Encloses(doc, h, i) <=> Chunks!Encloses(doc, h, a)
        BY <2>2 DEF Chunks!Encloses, H
  <2>4. \A h : Chunks!Encloses(doc, h, a) <=> \E k \in 1 .. Len(st) : st[k] = h
        BY <1>6 DEF Stacked
  <2>5. \A h : Chunks!Encloses(doc, h, a) => h \in DOMAIN doc
        BY <2>1 DEF Chunks!Encloses, H
  <2>6. WantOf(doc, TRUE, i) = {h \in DOMAIN doc : Chunks!Encloses(doc, h, i)}
        BY DEF WantOf
  <2>7. \A h : h \in Chunks!ToSet(st) <=> \E k \in 1 .. Len(st) : st[k] = h
        BY LenProperties DEF Chunks!ToSet
  <2>8. \A h : h \in Chunks!ToSet(st) <=> h \in WantOf(doc, TRUE, i)
        BY <2>3, <2>4, <2>5, <2>6, <2>7
  <2> QED BY <1>5, <2>8
<1>11. ASSUME NEW i \in Chunks!Prose(doc), s.first <= i, i <= s.last
       PROVE  Chunks!HasProse(doc, s) /\ Chunks!ToSet(s.path) = WantOf(doc, TRUE, i)
  <2>1. i \in Nat /\ a <= i /\ i <= b
        BY <1>2, <1>5, <1>11, KindsAre
  <2> QED BY <1>9, <1>10, <2>1
<1>12. ASSUME NEW i \in 1 .. Len(doc), s.first <= i, i <= s.last, doc[i].is # "blank"
       PROVE  i \in LastOf(doc, TRUE) \/ i = s.first
  <2>1. i \in Nat /\ i \in DOMAIN doc /\ a <= i /\ i <= b
        BY <1>2, <1>5, <1>12, LinesAre
  <2>2. i \in H => i = a
        BY <1>3, <1>4, <2>1
  <2>3. i \in Chunks!Prose(doc) \/ i \in H
        BY <1>12, KindsAre DEF H
  <2> QED BY <1>5, <2>1, <2>2, <2>3 DEF LastOf
<1> QED BY <1>7, <1>8, <1>11, <1>12 DEF Sectional

\* The sections of a document: one after the other, and with all but blank lines.
Sectioned(doc, markdown, ss) ==
  /\ Len(ss) \in Nat
  /\ \A n \in 1 .. Len(ss) : Sectional(doc, markdown, ss[n])
  /\ \A m, n \in 1 .. Len(ss) : m < n => ss[m].last < ss[n].first
  /\ \A i \in 1 .. Len(doc) : doc[i].is # "blank" =>
       \E n \in 1 .. Len(ss) : ss[n].first <= i /\ i <= ss[n].last
  /\ markdown \/ Len(ss) = 1

\* What is between two headings, and what is left when the blank parts are not taken.
LEMMA PartsAreSectioned ==
  ASSUME NEW doc \in Chunks!Documents, NEW at, at = Chunks!Cuts(doc), NEW w, NEW T, NEW all \in Seq(T), NEW I,
         \A n \in 1 .. Len(at) - 1 : w[n] \in Seq(Chunks!Headings(doc)) /\ Stacked(doc, w[n], at[n]),
         Len(all) = Len(at) - 1,
         \A n \in 1 .. Len(at) - 1 :
           /\ all[n].first = at[n] /\ all[n].last = at[n + 1] - 1 /\ all[n].path = w[n]
           /\ all[n].body = Chunks!Body(doc, at[n], at[n + 1] - 1),
         I \subseteq 1 .. Len(all),
         \A n \in 1 .. Len(at) - 1 : n \in I <=> \E i \in at[n] .. at[n + 1] - 1 : doc[i].is # "blank"
  PROVE  Sectioned(doc, TRUE, Picked(all, I))
<1> DEFINE N == Len(at) - 1
           ss == Picked(all, I)
<1>1. /\ N \in Nat /\ Len(at) \in Nat /\ Len(at) = N + 1
      /\ \A n \in 1 .. Len(at) : at[n] \in Nat
      /\ \A m, n \in 1 .. Len(at) : m < n => at[m] < at[n]
  <2>1. Len(at) \in Nat /\ 2 <= Len(at)
        BY CutsAre
  <2>2. \A n \in 1 .. Len(at) : at[n] \in Nat
        BY CutsAre
  <2>3. \A m, n \in 1 .. Len(at) : m < n => at[m] < at[n]
        BY CutsAre
  <2>4. N \in Nat /\ Len(at) = N + 1
        BY <2>1
  <2> QED BY <2>1, <2>2, <2>3, <2>4
<1>2. \A l \in 1 .. Len(doc) : \E n \in 1 .. N : at[n] <= l /\ l <= at[n + 1] - 1
      BY CutsAre
<1>3. \A n \in 1 .. N : n \in 1 .. Len(at) /\ n + 1 \in 1 .. Len(at)
      BY <1>1
<1>4. \A n \in 1 .. N : all[n].first = at[n] /\ all[n].last = at[n + 1] - 1
      OBVIOUS
<1>5. \A n \in 1 .. N : Sectional(doc, TRUE, all[n])
  <2> TAKE n \in 1 .. N
  <2> DEFINE s == all[n]
  <2>1. /\ s.first = at[n] /\ s.last = at[n + 1] - 1 /\ s.path = w[n]
        /\ s.body = Chunks!Body(doc, at[n], at[n + 1] - 1)
        OBVIOUS
  <2>2. w[n] \in Seq(Chunks!Headings(doc)) /\ Stacked(doc, w[n], at[n])
        OBVIOUS
  <2> HIDE DEF s
  <2>3. Sectional(doc, TRUE, s)
        BY <2>1, <2>2, PartsAreSections
  <2> QED BY <2>3 DEF s
<1>6. ss \in Seq(T) /\ \E e : Takes(ss, all, I \cap 1 .. Len(all), e)
      BY PickedTakes
<1>7. I \subseteq 1 .. N /\ I \cap 1 .. Len(all) = I
      OBVIOUS
<1>8. PICK e : Takes(ss, all, I, e)
      BY <1>6, <1>7
<1>9. Len(ss) \in Nat
      BY <1>6, LenProperties
<1>10. /\ e \in [1 .. Len(ss) -> I]
       /\ \A i \in I : \E k \in 1 .. Len(ss) : e[k] = i
       /\ \A j, k \in 1 .. Len(ss) : j < k => e[j] < e[k]
       /\ \A k \in 1 .. Len(ss) : ss[k] = all[e[k]]
       BY <1>8 DEF Takes
<1> HIDE DEF N, ss
<1>11. \A k \in 1 .. Len(ss) : e[k] \in I /\ e[k] \in 1 .. N /\ ss[k] = all[e[k]]
       BY <1>7, <1>10
<1>12. \A k \in 1 .. Len(ss) : Sectional(doc, TRUE, ss[k])
       BY <1>5, <1>11
<1>13. ASSUME NEW m \in 1 .. Len(ss), NEW n \in 1 .. Len(ss), m < n
       PROVE  ss[m].last < ss[n].first
  <2> DEFINE j == e[m]
             k == e[n]
  <2>1. j \in 1 .. N /\ k \in 1 .. N /\ j < k /\ ss[m] = all[j] /\ ss[n] = all[k]
        BY <1>10, <1>11, <1>13
  <2> HIDE DEF j, k
  <2>2. j + 1 \in 1 .. Len(at) /\ k \in 1 .. Len(at) /\ (j + 1 < k \/ j + 1 = k)
    <3>1. j + 1 \in 1 .. Len(at) /\ k \in 1 .. Len(at)
          BY <1>3, <2>1
    <3>2. j \in Nat /\ k \in Nat
          BY <1>1, <2>1
    <3> QED BY <2>1, <3>1, <3>2
  <2>3. at[j + 1] \in Nat /\ at[k] \in Nat /\ at[j + 1] <= at[k]
    <3>1. at[j + 1] \in Nat /\ at[k] \in Nat
          BY <1>1, <2>2
    <3>2. j + 1 < k => at[j + 1] < at[k]
          BY <1>1, <2>2
    <3> QED BY <2>2, <3>1, <3>2
  <2>4. at[j + 1] - 1 < at[k]
        BY <2>3
  <2>5. all[j].last = at[j + 1] - 1 /\ all[k].first = at[k]
        BY <1>4, <2>1
  <2> QED BY <2>1, <2>4, <2>5
<1>14. ASSUME NEW i \in 1 .. Len(doc), doc[i].is # "blank"
       PROVE  \E n \in 1 .. Len(ss) : ss[n].first <= i /\ i <= ss[n].last
  <2>1. PICK m \in 1 .. N : at[m] <= i /\ i <= at[m + 1] - 1
        BY <1>2
  <2>2. i \in at[m] .. at[m + 1] - 1
    <3>1. at[m] \in Nat /\ at[m + 1] \in Nat
          BY <1>1, <1>3
    <3>2. Len(doc) \in Nat
          BY LinesAre
    <3> QED BY <2>1, <3>1, <3>2
  <2>3. m \in I
        BY <1>14, <2>2 DEF N
  <2>4. PICK n \in 1 .. Len(ss) : e[n] = m
        BY <1>10, <2>3
  <2>5. ss[n] = all[m]
        BY <1>11, <2>4
  <2> QED BY <1>4, <2>1, <2>5
<1>15. Sectioned(doc, TRUE, ss)
       BY <1>9, <1>12, <1>13, <1>14 DEF Sectioned
<1> QED BY <1>15 DEF ss

\* All of a document is a section of it.
LEMMA WholeIsSection ==
  ASSUME NEW doc \in Chunks!Documents, NEW s, s.first = 1, s.last = Len(doc), Chunks!ToSet(s.path) = {},
         s.body = Chunks!Text(doc, 1, Len(doc))
  PROVE  Sectional(doc, FALSE, s)
<1> DEFINE L == Len(doc)
<1>1. L \in Nat /\ 1 <= L /\ DOMAIN doc = 1 .. L
  <2>1. L \in Nat /\ L # 0 /\ DOMAIN doc = 1 .. L
        BY LinesAre
  <2> QED BY <2>1
<1>3. s.first = 1 /\ s.last = L /\ s.body = Chunks!Text(doc, 1, L)
      OBVIOUS
<1>5. SectionOf(doc, s)
      BY <1>1, <1>3 DEF SectionOf
<1>6. s.body \in Seq(Spots) /\ Sorted(s.body) /\ Held(s.body) = RunesOf(doc, s.first, s.last)
  <2> HIDE DEF L
  <2>1. L <= Len(doc) /\ 1 \in Nat /\ 1 <= 1
        BY <1>1 DEF L
  <2> QED BY <1>1, <1>3, <2>1, TextHolds
<1>7. ASSUME NEW i \in Chunks!Prose(doc)
      PROVE  Chunks!HasProse(doc, s) /\ Chunks!ToSet(s.path) = WantOf(doc, FALSE, i)
  <2>1. i \in 1 .. L /\ i \in Nat
        BY <1>1, KindsAre
  <2>2. CASE doc[i].is \in {"fence", "text"}
    <3>1. i \in s.first .. s.last
          BY <1>3, <2>1
    <3> QED BY <2>2, <3>1 DEF Chunks!HasProse, WantOf
  <2>3. CASE FenceBefore(doc, i)
    <3>1. PICK j \in 1 .. i - 1 : Within(doc, i, j)
          BY <2>3 DEF FenceBefore
    <3>2. j \in 1 .. L
          BY <1>1, <2>1
    <3>3. j \in s.first .. s.last
          BY <1>3, <3>2
    <3>4. doc[j].is \in {"fence", "text"}
          BY <3>1 DEF Within
    <3> QED BY <3>3, <3>4 DEF Chunks!HasProse, WantOf
  <2> QED BY <2>2, <2>3, KindsAre
<1>8. ASSUME NEW i \in 1 .. L, doc[i].is # "blank"
      PROVE  i \in LastOf(doc, FALSE)
  <2>1. i \in Chunks!Prose(doc) \/ doc[i].is = "heading"
        BY <1>8, KindsAre
  <2> QED BY <1>1, <2>1 DEF LastOf
<1> QED BY <1>5, <1>6, <1>7, <1>8 DEF Sectional

\* A document that is no markdown is one section.
LEMMA TextIsSectioned ==
  ASSUME NEW doc \in Chunks!Documents
  PROVE  Sectioned(doc, FALSE, Chunks!SectionsOf(doc, FALSE))
<1> DEFINE L == Len(doc)
           s == [first |-> 1, last |-> L, path |-> << >>, body |-> Chunks!Text(doc, 1, L)]
           ss == <<s>>
<1>1. L \in Nat
      BY LinesAre
<1>2. Chunks!SectionsOf(doc, FALSE) = ss
      BY DEF Chunks!SectionsOf
<1>3. s.first = 1 /\ s.last = L /\ s.path = << >> /\ s.body = Chunks!Text(doc, 1, L)
      OBVIOUS
<1>4. Len(ss) = 1 /\ Len(ss) \in Nat /\ ss[1] = s
      OBVIOUS
<1> HIDE DEF s, ss
<1>5. Chunks!ToSet(s.path) = {}
  <2> DEFINE e == << >>
  <2>1. Chunks!ToSet(e) = {e[k] : k \in 1 .. 0}
        BY DEF Chunks!ToSet
  <2>2. \A k : k \in 1 .. 0 => FALSE
        OBVIOUS
  <2> HIDE DEF e
  <2>3. Chunks!ToSet(e) = {}
        BY <2>1, <2>2
  <2> QED BY <1>3, <2>3 DEF e
<1>9. Sectional(doc, FALSE, s)
      BY <1>3, <1>5, WholeIsSection
<1>10. \A n \in 1 .. 1 : n = 1
       OBVIOUS
<1>11. 1 \in 1 .. 1
       OBVIOUS
<1>12. \A m, n \in 1 .. 1 : ~(m < n)
       OBVIOUS
<1>13. \A i \in 1 .. Len(doc) : s.first <= i /\ i <= s.last
       BY <1>1, <1>3
<1>14. Sectioned(doc, FALSE, ss)
  <2>1. \A n \in 1 .. Len(ss) : Sectional(doc, FALSE, ss[n])
        BY <1>4, <1>9, <1>10
  <2>2. \A m, n \in 1 .. Len(ss) : m < n => ss[m].last < ss[n].first
        BY <1>4, <1>12
  <2>3. \A i \in 1 .. Len(doc) : \E n \in 1 .. Len(ss) : ss[n].first <= i /\ i <= ss[n].last
        BY <1>4, <1>11, <1>13
  <2>4. \A i \in 1 .. Len(doc) : doc[i].is # "blank" =>
          \E n \in 1 .. Len(ss) : ss[n].first <= i /\ i <= ss[n].last
        BY <2>3
  <2> QED BY <1>4, <2>1, <2>2, <2>4 DEF Sectioned
<1> QED BY <1>2, <1>14

\* The sections of a markdown document.
LEMMA MarkdownIsSectioned ==
  ASSUME NEW doc \in Chunks!Documents
  PROVE  Sectioned(doc, TRUE, Chunks!SectionsOf(doc, TRUE))
<1> DEFINE at == Chunks!Cuts(doc)
           H == Chunks!Headings(doc)
           V == Seq(H)
           N == Len(at) - 1
           e == << >>
           h == [p \in V \X Nat |-> IF p[2] \in 1 .. N /\ at[p[2]] \in H
                                    THEN Chunks!Pushed(p[1], doc, at[p[2]]) ELSE e]
           Is(f) == f = [n \in 0 .. N |->
                          IF n = 0 THEN e
                          ELSE IF at[n] \in H THEN Chunks!Pushed(f[n - 1], doc, at[n]) ELSE e]
           w == CHOOSE g : Is(g)
           all == [n \in 1 .. N |->
                     [first |-> at[n], last |-> at[n + 1] - 1, path |-> w[n],
                      body |-> Chunks!Body(doc, at[n], at[n + 1] - 1)]]
           I == {n \in DOMAIN all : \E i \in at[n] .. at[n + 1] - 1 : doc[i].is # "blank"}
           T == {all[n] : n \in 1 .. N}
<1>1. Chunks!SectionsOf(doc, TRUE) = Picked(all, I)
  <2>1. Chunks!SectionsOf(doc, TRUE) = Chunks!Picked(all, I)
        BY DEF Chunks!SectionsOf, Chunks!SplitMarkdownSections
  <2> HIDE DEF all, I
  <2> QED BY <2>1, ChunksSelects
<1>2. N \in Nat
  <2>1. Len(at) \in Nat /\ 2 <= Len(at)
        BY CutsAre
  <2> QED BY <2>1
<1>3. e \in V
      BY EmptySeq
<1> HIDE DEF e, at, H
<1>4. h \in [V \X Nat -> V]
  <2>1. ASSUME NEW p \in V \X Nat
        PROVE  h[p] \in V
    <3>1. p[1] \in V
          OBVIOUS
    <3>2. ASSUME p[2] \in 1 .. N, at[p[2]] \in H
          PROVE  Chunks!Pushed(p[1], doc, at[p[2]]) \in V
      <4> DEFINE i == at[p[2]]
                 u == p[1]
      <4>1. i \in Chunks!Headings(doc) /\ u \in Seq(Chunks!Headings(doc))
            BY <3>1, <3>2 DEF H
      <4> HIDE DEF i, u
      <4>2. PICK top : PushedOn(doc, u, i, top, Chunks!Pushed(u, doc, i))
            BY <4>1, PushedKeeps
      <4>3. Chunks!Pushed(u, doc, i) \in Seq(Chunks!Headings(doc))
            BY <4>2 DEF PushedOn
      <4> QED BY <4>3 DEF i, u, H
    <3> HIDE DEF V, N
    <3> QED BY <1>3, <3>2
  <2> QED BY <2>1
<1>5. PICK f \in [0 .. N -> V] : Follows(f, V, e, h, N)
  <2> HIDE DEF V, N, h
  <2> QED BY <1>2, <1>3, <1>4, Recursive
<1>6. Is(f)
  <2>1. \A n \in 1 .. N : h[<<f[n - 1], n>>] =
          IF at[n] \in H THEN Chunks!Pushed(f[n - 1], doc, at[n]) ELSE e
    <3> TAKE n \in 1 .. N
    <3>1. <<f[n - 1], n>> \in V \X Nat
          BY <1>5 DEF Follows
    <3> HIDE DEF V, N
    <3> QED BY <3>1
  <2>2. \A n \in 0 .. N : n = 0 \/ n \in 1 .. N
        BY <1>2
  <2> HIDE DEF V, N, h
  <2> QED BY <1>5, <2>1, <2>2 DEF Follows
<1>7. Is(w)
  <2> HIDE DEF Is
  <2> QED BY <1>6
<1> HIDE DEF w, h
<1>8. w[0] = e /\ \A n \in 1 .. N : w[n] = IF at[n] \in H THEN Chunks!Pushed(w[n - 1], doc, at[n]) ELSE e
  <2>1. \A n \in 1 .. N : n \in 0 .. N /\ n # 0
        BY <1>2
  <2>2. 0 \in 0 .. N
        BY <1>2
  <2> HIDE DEF N
  <2> QED BY <1>7, <2>1, <2>2
<1> HIDE DEF Is
<1>9. \A n \in 1 .. Len(at) - 1 : w[n] \in Seq(Chunks!Headings(doc)) /\ Stacked(doc, w[n], at[n])
      BY <1>8, StacksFollow DEF at, H, e
<1>10. \A n \in 1 .. N : /\ all[n].first = at[n] /\ all[n].last = at[n + 1] - 1 /\ all[n].path = w[n]
                         /\ all[n].body = Chunks!Body(doc, at[n], at[n + 1] - 1)
       OBVIOUS
<1>11. all \in [1 .. N -> T]
       OBVIOUS
<1>12. DOMAIN all = 1 .. N /\ I \subseteq 1 .. N
       OBVIOUS
<1>13. \A n \in 1 .. N : n \in I <=> \E i \in at[n] .. at[n + 1] - 1 : doc[i].is # "blank"
       OBVIOUS
<1> HIDE DEF all, T, I
<1>14. all \in Seq(T) /\ Len(all) = N
  <2> HIDE DEF N
  <2> QED BY <1>2, <1>11, <1>12
<1>15. Sectioned(doc, TRUE, Picked(all, I))
  <2>1. I \subseteq 1 .. Len(all) /\ Len(all) = Len(at) - 1
        BY <1>12, <1>14
  <2> QED BY <1>9, <1>10, <1>13, <1>14, <2>1, PartsAreSectioned DEF at
<1> QED BY <1>1, <1>15

\* A text without any rune or end.
Blank == << >>

Added(p, n) == IF n = 1 THEN p ELSE Blank

\* Texts with one put before the first.
LEMMA FirstIsAdded ==
  ASSUME NEW ps \in Seq(Seq(Spots)), Series(ps), NEW p \in Seq(Spots), Sorted(p),
         Precedes(Held(p), HeldBy(ps)), Len(ps) # 0,
         NEW qs \in Seq(Seq(Spots)), Len(qs) = Len(ps),
         \A n \in 1 .. Len(ps) : qs[n] = Added(p, n) \o ps[n]
  PROVE  /\ Series(qs) /\ HeldBy(qs) = Held(p) \cup HeldBy(ps)
         /\ \A n \in 1 .. Len(ps) : Held(qs[n]) \subseteq Held(p) \cup Held(ps[n])
         /\ \A n \in 1 .. Len(ps) : Held(ps[n]) \subseteq Held(qs[n])
<1> DEFINE N == Len(ps)
           e == Blank
<1>0. e \in Seq(Spots) /\ Len(e) = 0
      BY EmptySeq DEF Blank
<1>1. /\ N \in Nat /\ 1 \in 1 .. N
      /\ \A n \in 1 .. N : ps[n] \in Seq(Spots) /\ Sorted(ps[n]) /\ Held(ps[n]) \subseteq HeldBy(ps)
      /\ \A m, n \in 1 .. N : m < n => Precedes(Held(ps[m]), Held(ps[n]))
  <2>1. N \in Nat /\ \A n \in 1 .. N : ps[n] \in Seq(Spots)
        BY LenProperties, ElementOfSeq
  <2>2. 1 \in 1 .. N
        BY <2>1
  <2>3. \A n \in 1 .. N : Held(ps[n]) \subseteq HeldBy(ps)
        BY DEF HeldBy
  <2> QED BY <2>1, <2>2, <2>3 DEF Series
<1>2. Held(e) = {} /\ Sorted(e) /\ (\A A : Precedes({}, A))
      BY <1>0, NothingHeld
<1>3. ASSUME NEW n \in 1 .. N
      PROVE  Held(qs[n]) = (IF n = 1 THEN Held(p) ELSE {}) \cup Held(ps[n]) /\ Sorted(qs[n])
  <2> DEFINE t == IF n = 1 THEN p ELSE e
  <2>1. t \in Seq(Spots) /\ Sorted(t) /\ Held(t) = (IF n = 1 THEN Held(p) ELSE {})
        BY <1>0, <1>2
  <2>2. Precedes(Held(t), Held(ps[n]))
    <3>1. Precedes(Held(p), Held(ps[n]))
          BY <1>1 DEF Precedes
    <3> QED BY <1>2, <2>1, <3>1
  <2>3. qs[n] = t \o ps[n]
        BY DEF Added
  <2> HIDE DEF t
  <2>4. Held(t \o ps[n]) = Held(t) \cup Held(ps[n]) /\ Sorted(t \o ps[n])
        BY <1>1, <2>1, <2>2, HeldJoin
  <2> QED BY <2>1, <2>3, <2>4
<1>4. ASSUME NEW m \in 1 .. N, NEW n \in 1 .. N, m < n
      PROVE  Precedes(Held(qs[m]), Held(qs[n]))
  <2>1. n # 1
        BY <1>1, <1>4
  <2>2. Held(qs[n]) = Held(ps[n])
        BY <1>3, <2>1
  <2>3. Held(qs[m]) \subseteq Held(p) \cup Held(ps[m])
        BY <1>3
  <2>4. Precedes(Held(ps[m]), Held(ps[n])) /\ Precedes(Held(p), Held(ps[n]))
        BY <1>1, <1>4 DEF Precedes
  <2> QED BY <2>2, <2>3, <2>4 DEF Precedes
<1>5. HeldBy(qs) = Held(p) \cup HeldBy(ps)
  <2>1. \A n \in 1 .. N : Held(qs[n]) \subseteq Held(p) \cup HeldBy(ps)
        BY <1>1, <1>3
  <2>2. \A n \in 1 .. N : Held(ps[n]) \subseteq Held(qs[n])
        BY <1>3
  <2>3. Held(p) \subseteq Held(qs[1])
        BY <1>1, <1>3
  <2>4. HeldBy(qs) \subseteq Held(p) \cup HeldBy(ps)
        BY <2>1 DEF HeldBy
  <2>5. \A n \in 1 .. N : Held(qs[n]) \subseteq HeldBy(qs)
        BY DEF HeldBy
  <2>6. Held(p) \subseteq HeldBy(qs)
        BY <1>1, <2>3, <2>5
  <2>7. HeldBy(ps) \subseteq HeldBy(qs)
    <3>1. \A a \in HeldBy(ps) : \E n \in 1 .. N : a \in Held(ps[n])
          BY DEF HeldBy
    <3> QED BY <2>2, <2>5, <3>1
  <2> QED BY <2>4, <2>6, <2>7
<1>6. Series(qs)
      BY <1>3, <1>4 DEF Series
<1> QED BY <1>3, <1>5, <1>6

\* The pieces of a section with prose.
LEMMA ProseIsSplit ==
  ASSUME NEW doc \in Chunks!Documents, NEW markdown, NEW s, Sectional(doc, markdown, s), Chunks!HasProse(doc, s)
  PROVE  /\ Chunks!SplitOversized(doc, s) \in Seq(Seq(Spots))
         /\ Series(Chunks!SplitOversized(doc, s)) /\ Fits(Chunks!SplitOversized(doc, s))
         /\ HeldBy(Chunks!SplitOversized(doc, s)) = RunesOf(doc, s.first, s.last)
         /\ Len(Chunks!SplitOversized(doc, s)) # 0
<1>1. /\ SectionOf(doc, s)
      /\ s.body \in Seq(Spots) /\ Sorted(s.body) /\ Held(s.body) = RunesOf(doc, s.first, s.last)
      BY DEF Sectional
<1>2. PICK i \in s.first .. s.last : doc[i].is \in {"fence", "text"}
      BY DEF Chunks!HasProse
<1>3. /\ s.first \in Nat /\ s.last \in Nat /\ 1 <= s.first /\ s.last <= Len(doc) /\ Len(doc) \in Nat
      BY <1>1, LinesAre DEF SectionOf
<1>4. i \in 1 .. Len(doc) /\ i \in Nat /\ s.first <= i /\ i <= s.last
      BY <1>3
<1>5. doc[i].is # "blank"
      BY <1>2
<1>6. <<i, 1>> \in RunesOf(doc, i, i)
      BY <1>4, <1>5, RunesAre
<1> DEFINE a == <<i, 1>>
<1>7. a[1] = i /\ a \in All(doc)
      BY <1>6 DEF RunesOf
<1> HIDE DEF a
<1>8. a \in RunesOf(doc, s.first, s.last)
      BY <1>4, <1>7 DEF RunesOf
<1> DEFINE r == Chunks!SplitOversized(doc, s)
           H == RunesOf(doc, s.first, s.last)
<1>9. r \in Seq(Seq(Spots)) /\ Series(r) /\ Fits(r) /\ HeldBy(r) = H
      BY <1>1, <1>8, SplitHolds
<1> HIDE DEF r
<1>10. Len(r) # 0
  <2>1. Len(r) = 0 => HeldBy(r) = {}
        BY <1>9, NothingHeld
  <2> QED BY <1>8, <1>9, <2>1
<1> QED BY <1>9, <1>10 DEF r

\* Chunks of sections, and what is made of a document so far.
ChunksOf(ss) == [path : {ss[k].path : k \in 1 .. Len(ss)}, added : Seq(Spots), content : Seq(Spots)]

Chunkings(ss) == [chunks : Seq(ChunksOf(ss)), pending : Seq(Spots)]

ContentsOf(r) == [n \in DOMAIN r |-> r[n].content]

\* The chunks of a section.
Fresh(s, p, ps) == [n \in DOMAIN ps |-> Chunks!Chunk(s.path, Added(p, n), ps[n])]

FreshOf(r, s, p, ps) ==
  \A n \in 1 .. Len(ps) :
    /\ r[n].path = s.path /\ r[n].added = Added(p, n) /\ r[n].content = Added(p, n) \o ps[n]
    /\ r[n].added \in Seq(Spots) /\ r[n].content \in Seq(Spots)
    /\ Len(r[n].content) = Len(r[n].added) + Len(ps[n])

\* A chunk of a piece is of what was put before it and of the piece.
LEMMA FreshAre ==
  ASSUME NEW ss, NEW m \in 1 .. Len(ss), NEW p \in Seq(Spots), NEW ps \in Seq(Seq(Spots))
  PROVE  /\ Fresh(ss[m], p, ps) \in Seq(ChunksOf(ss)) /\ Len(Fresh(ss[m], p, ps)) = Len(ps)
         /\ FreshOf(Fresh(ss[m], p, ps), ss[m], p, ps)
<1> DEFINE T == ChunksOf(ss)
           N == Len(ps)
           r == Fresh(ss[m], p, ps)
           e == Blank
           a(n) == Added(p, n)
<1>1. N \in Nat /\ DOMAIN ps = 1 .. N /\ \A n \in 1 .. N : ps[n] \in Seq(Spots)
      BY LenProperties, ElementOfSeq
<1>2. e \in Seq(Spots)
      BY EmptySeq DEF Blank
<1>3. r = [n \in 1 .. N |-> [path |-> ss[m].path, added |-> a(n), content |-> a(n) \o ps[n]]]
      BY <1>1 DEF Fresh, Chunks!Chunk
<1>4. \A n \in 1 .. N : a(n) \in Seq(Spots) /\ a(n) \o ps[n] \in Seq(Spots)
                        /\ Len(a(n) \o ps[n]) = Len(a(n)) + Len(ps[n])
  <2> TAKE n \in 1 .. N
  <2> DEFINE x == a(n)
             y == ps[n]
  <2>1. x \in Seq(Spots) /\ y \in Seq(Spots)
        BY <1>1, <1>2 DEF Added
  <2> HIDE DEF x, y
  <2>2. x \o y \in Seq(Spots) /\ Len(x \o y) = Len(x) + Len(y)
        BY <2>1, ConcatProperties
  <2> QED BY <2>1, <2>2 DEF x, y
<1> HIDE DEF r
<1>5. \A n \in 1 .. N : r[n] = [path |-> ss[m].path, added |-> a(n), content |-> a(n) \o ps[n]]
      BY <1>3
<1>6. \A n \in 1 .. N : r[n].path = ss[m].path /\ r[n].added = a(n) /\ r[n].content = a(n) \o ps[n]
  <2> TAKE n \in 1 .. N
  <2>1. \A x, y, z : /\ [path |-> x, added |-> y, content |-> z].path = x
                     /\ [path |-> x, added |-> y, content |-> z].added = y
                     /\ [path |-> x, added |-> y, content |-> z].content = z
        OBVIOUS
  <2> DEFINE y == a(n)
             z == a(n) \o ps[n]
  <2>2. r[n] = [path |-> ss[m].path, added |-> y, content |-> z]
        BY <1>5
  <2> HIDE DEF y, z
  <2>3. r[n].path = ss[m].path /\ r[n].added = y /\ r[n].content = z
        BY <2>1, <2>2
  <2> QED BY <2>3 DEF y, z
<1>7. ss[m].path \in {ss[k].path : k \in 1 .. Len(ss)}
      OBVIOUS
<1>8. \A n \in 1 .. N : r[n] \in T
  <2> TAKE n \in 1 .. N
  <2>1. \A y \in Seq(Spots), z \in Seq(Spots) : [path |-> ss[m].path, added |-> y, content |-> z] \in T
        BY <1>7 DEF ChunksOf
  <2> DEFINE y == a(n)
             z == a(n) \o ps[n]
  <2>2. y \in Seq(Spots) /\ z \in Seq(Spots) /\ r[n] = [path |-> ss[m].path, added |-> y, content |-> z]
        BY <1>4, <1>5
  <2> HIDE DEF y, z, T
  <2> QED BY <2>1, <2>2
<1>9. r \in [1 .. N -> T] /\ DOMAIN r = 1 .. N
      BY <1>3, <1>8
<1> HIDE DEF T, N
<1>10. r \in Seq(T) /\ Len(r) = N
       BY <1>1, <1>9
<1>11. \A n \in 1 .. N : /\ r[n].added \in Seq(Spots) /\ r[n].content \in Seq(Spots)
                         /\ Len(r[n].content) = Len(r[n].added) + Len(ps[n])
  <2> HIDE DEF a
  <2> QED BY <1>4, <1>6
<1>12. FreshOf(r, ss[m], p, ps)
       BY <1>6, <1>11 DEF FreshOf, N
<1> QED BY <1>10, <1>12 DEF r, T, N

\* What one more section makes is such chunks and what waits.
LEMMA ChunkedIsChunking ==
  ASSUME NEW doc \in Chunks!Documents, NEW markdown, NEW ss, NEW m \in 1 .. Len(ss),
         Sectional(doc, markdown, ss[m]), NEW c \in Chunkings(ss)
  PROVE  Chunks!Chunked(c, doc, ss[m]) \in Chunkings(ss)
<1> DEFINE s == ss[m]
           ps == Chunks!SplitOversized(doc, s)
           T == ChunksOf(ss)
<1>1. c.chunks \in Seq(T) /\ c.pending \in Seq(Spots) /\ s.body \in Seq(Spots)
      BY DEF Chunkings, Sectional
<1>2. Blank \in Seq(Spots)
      BY EmptySeq DEF Blank
<1>3. \A x \in Seq(T), y \in Seq(Spots) : [chunks |-> x, pending |-> y] \in Chunkings(ss)
      BY DEF Chunkings
<1>4. CASE ~Chunks!HasProse(doc, s)
  <2>1. c.pending \o s.body \in Seq(Spots)
        BY <1>1, ConcatProperties
  <2>2. Chunks!Chunked(c, doc, s) = [c EXCEPT !.pending = c.pending \o s.body]
        BY <1>4 DEF Chunks!Chunked
  <2>3. \A y : [c EXCEPT !.pending = y] = [chunks |-> c.chunks, pending |-> y]
        BY DEF Chunkings
  <2> DEFINE y == c.pending \o s.body
  <2> HIDE DEF y
  <2>4. [chunks |-> c.chunks, pending |-> y] \in Chunkings(ss)
        BY <1>1, <1>3, <2>1 DEF y
  <2> QED BY <2>2, <2>3, <2>4 DEF y
<1>5. CASE Chunks!HasProse(doc, s)
  <2>1. ps \in Seq(Seq(Spots))
        BY <1>5, ProseIsSplit
  <2>2. Chunks!Chunked(c, doc, s) = [chunks |-> c.chunks \o Fresh(s, c.pending, ps), pending |-> Blank]
        BY <1>5 DEF Chunks!Chunked, Fresh, Added, Blank
  <2> HIDE DEF ps
  <2>3. Fresh(s, c.pending, ps) \in Seq(T)
        BY <1>1, <2>1, FreshAre
  <2>4. c.chunks \o Fresh(s, c.pending, ps) \in Seq(T)
        BY <1>1, <2>3, ConcatProperties
  <2> QED BY <1>2, <1>3, <2>2, <2>4
<1> QED BY <1>4, <1>5

\* The contents of chunks after chunks.
LEMMA ContentsJoin ==
  ASSUME NEW ss, NEW r \in Seq(ChunksOf(ss)), NEW q \in Seq(ChunksOf(ss))
  PROVE  /\ ContentsOf(r) \in Seq(Seq(Spots)) /\ Len(ContentsOf(r)) = Len(r)
         /\ \A n \in 1 .. Len(r) : ContentsOf(r)[n] = r[n].content
         /\ ContentsOf(r \o q) = ContentsOf(r) \o ContentsOf(q)
<1> DEFINE T == ChunksOf(ss)
<1>1. ASSUME NEW x \in Seq(T)
      PROVE  /\ ContentsOf(x) \in Seq(Seq(Spots)) /\ Len(ContentsOf(x)) = Len(x) /\ Len(x) \in Nat
             /\ \A n \in 1 .. Len(x) : ContentsOf(x)[n] = x[n].content
  <2>1. Len(x) \in Nat /\ DOMAIN x = 1 .. Len(x) /\ \A n \in 1 .. Len(x) : x[n] \in T
        BY LenProperties, ElementOfSeq
  <2> DEFINE f == [n \in 1 .. Len(x) |-> x[n].content]
             N == Len(x)
  <2>2. ContentsOf(x) = f
        BY <2>1 DEF ContentsOf
  <2>3. \A n \in 1 .. Len(x) : x[n].content \in Seq(Spots)
        BY <2>1 DEF ChunksOf
  <2>4. f \in [1 .. N -> Seq(Spots)] /\ DOMAIN f = 1 .. N /\ \A n \in 1 .. N : f[n] = x[n].content
        BY <2>3
  <2> HIDE DEF f
  <2>5. f \in Seq(Seq(Spots)) /\ Len(f) = N
    <3> HIDE DEF N
    <3>1. N \in Nat
          BY <2>1 DEF N
    <3> QED BY <2>4, <3>1
  <2> QED BY <2>1, <2>2, <2>4, <2>5
<1> DEFINE L == Len(r)
           M == Len(q)
           z == r \o q
<1>2. /\ z \in Seq(T) /\ Len(z) = L + M /\ L \in Nat /\ M \in Nat
      /\ \A i \in 1 .. L : z[i] = r[i]
      /\ \A i \in 1 .. M : z[L + i] = q[i]
  <2>1. z \in Seq(T)
        BY ConcatProperties
  <2> QED BY <2>1, Concatenated
<1> DEFINE x == ContentsOf(r)
           y == ContentsOf(q)
           f == x \o y
           g == ContentsOf(z)
<1>3. /\ x \in Seq(Seq(Spots)) /\ Len(x) = L /\ \A n \in 1 .. L : x[n] = r[n].content
      /\ y \in Seq(Seq(Spots)) /\ Len(y) = M /\ \A n \in 1 .. M : y[n] = q[n].content
      BY <1>1
<1> HIDE DEF z
<1>4. /\ g \in Seq(Seq(Spots)) /\ Len(g) = L + M /\ \A n \in 1 .. L + M : g[n] = z[n].content
      BY <1>1, <1>2
<1> HIDE DEF x, y, g
<1>5. /\ f \in Seq(Seq(Spots)) /\ Len(f) = L + M
      /\ \A i \in 1 .. L : f[i] = x[i]
      /\ \A i \in 1 .. M : f[L + i] = y[i]
      /\ \A i \in 1 .. L + M : i \in 1 .. L \/ (i - L \in 1 .. M /\ i = L + (i - L))
  <2>1. f \in Seq(Seq(Spots))
        BY <1>3, ConcatProperties
  <2>2. /\ Len(f) = Len(x) + Len(y)
        /\ \A i \in 1 .. Len(x) : f[i] = x[i]
        /\ \A i \in 1 .. Len(y) : f[Len(x) + i] = y[i]
        /\ \A i \in 1 .. Len(x) + Len(y) : i \in 1 .. Len(x) \/ (i - Len(x) \in 1 .. Len(y) /\ i = Len(x) + (i - Len(x)))
    <3> DEFINE U == Seq(Spots)
    <3>1. x \in Seq(U) /\ y \in Seq(U)
          BY <1>3
    <3> HIDE DEF U
    <3> QED BY <3>1, Concatenated
  <2> QED BY <1>3, <2>1, <2>2
<1> HIDE DEF f
<1>6. \A i \in 1 .. L + M : g[i] = f[i]
  <2> TAKE i \in 1 .. L + M
  <2>1. CASE i \in 1 .. L
        BY <1>2, <1>3, <1>4, <1>5, <2>1
  <2>2. ASSUME NEW j \in 1 .. M, i = L + j
        PROVE  g[i] = f[i]
        BY <1>2, <1>3, <1>4, <1>5, <2>2
  <2> QED BY <1>5, <2>1, <2>2
<1>7. g = f
  <2> DEFINE N == L + M
  <2>1. N \in Nat /\ Len(f) = N /\ Len(g) = N /\ \A i \in 1 .. N : g[i] = f[i]
        BY <1>2, <1>4, <1>5, <1>6
  <2> HIDE DEF N
  <2> QED BY <1>4, <1>5, <2>1, SeqEqual
<1> QED BY <1>3, <1>7 DEF f, g, x, y, z

\* A chunk within its limit, with a rune, and under the headings of its prose.
ChunkIs(doc, markdown, ch) ==
  /\ Len(ch.content) - Len(ch.added) <= MaxRunes /\ Held(ch.content) # {}
  /\ \A a \in Held(ch.content) : a[1] \in Chunks!Prose(doc) =>
       Chunks!ToSet(ch.path) = WantOf(doc, markdown, a[1])

\* The runes of the sections from m to n.
RunesIn(doc, ss, m, n) == UNION {RunesOf(doc, ss[k].first, ss[k].last) : k \in m .. n}

\* What is made of the first n sections: chunks up to q, the last of them with prose.
Through(doc, markdown, ss, c, q, n) ==
  /\ q \in 0 .. n /\ (q = 0 \/ Chunks!HasProse(doc, ss[q]))
  /\ \A k \in q + 1 .. n : ~Chunks!HasProse(doc, ss[k])
  /\ \A k \in 1 .. Len(c.chunks) : ChunkIs(doc, markdown, c.chunks[k])
  /\ Series(ContentsOf(c.chunks)) /\ HeldBy(ContentsOf(c.chunks)) = RunesIn(doc, ss, 1, q)
  /\ Sorted(c.pending) /\ Held(c.pending) = RunesIn(doc, ss, q + 1, n)

\* The runes of the sections before one are before those of it.
LEMMA SectionsPrecede ==
  ASSUME NEW doc \in Chunks!Documents, NEW markdown, NEW ss, Sectioned(doc, markdown, ss),
         NEW n \in 0 .. Len(ss) - 1, NEW q \in 0 .. n
  PROVE  /\ Precedes(RunesIn(doc, ss, 1, q), RunesOf(doc, ss[n + 1].first, ss[n + 1].last))
         /\ Precedes(RunesIn(doc, ss, q + 1, n), RunesOf(doc, ss[n + 1].first, ss[n + 1].last))
         /\ Precedes(RunesIn(doc, ss, 1, q), RunesIn(doc, ss, q + 1, n))
<1> DEFINE R(k) == RunesOf(doc, ss[k].first, ss[k].last)
<1>1. /\ Len(ss) \in Nat
      /\ \A m, k \in 1 .. Len(ss) : m < k => ss[m].last < ss[k].first
      /\ \A k \in 1 .. Len(ss) : ss[k].first \in Int /\ ss[k].last \in Int
  <2>1. /\ Len(ss) \in Nat
        /\ \A m, k \in 1 .. Len(ss) : m < k => ss[m].last < ss[k].first
        /\ \A k \in 1 .. Len(ss) : SectionOf(doc, ss[k])
        BY DEF Sectioned, Sectional
  <2> QED BY <2>1 DEF SectionOf
<1>2. ASSUME NEW j \in 1 .. Len(ss), NEW k \in 1 .. Len(ss), j < k
      PROVE  Precedes(R(j), R(k))
  <2>1. ss[j].last < ss[k].first
        BY <1>1, <1>2
  <2> QED BY <1>1, <2>1, RunesAre
<1>3. /\ n \in Nat /\ n + 1 \in 1 .. Len(ss) /\ q \in Nat
      /\ \A j \in 1 .. q : j \in 1 .. Len(ss) /\ j < n + 1 /\ \A k \in q + 1 .. n : j < k
      /\ \A k \in q + 1 .. n : k \in 1 .. Len(ss) /\ k < n + 1
      BY <1>1
<1> HIDE DEF R
<1>4. /\ \A j \in 1 .. q : Precedes(R(j), R(n + 1))
      /\ \A k \in q + 1 .. n : Precedes(R(k), R(n + 1))
      /\ \A j \in 1 .. q : \A k \in q + 1 .. n : Precedes(R(j), R(k))
      BY <1>2, <1>3
<1>5. Precedes(UNION {R(j) : j \in 1 .. q}, R(n + 1))
      BY <1>4 DEF Precedes
<1>6. Precedes(UNION {R(k) : k \in q + 1 .. n}, R(n + 1))
      BY <1>4 DEF Precedes
<1>7. Precedes(UNION {R(j) : j \in 1 .. q}, UNION {R(k) : k \in q + 1 .. n})
      BY <1>4 DEF Precedes
<1> QED BY <1>5, <1>6, <1>7 DEF RunesIn, R

\* One more section without prose waits.
LEMMA WaitingFollows ==
  ASSUME NEW doc \in Chunks!Documents, NEW markdown, NEW ss, Sectioned(doc, markdown, ss),
         NEW n \in 0 .. Len(ss) - 1, NEW c \in Chunkings(ss), NEW q, Through(doc, markdown, ss, c, q, n),
         ~Chunks!HasProse(doc, ss[n + 1])
  PROVE  Through(doc, markdown, ss, Chunks!Chunked(c, doc, ss[n + 1]), q, n + 1)
<1> DEFINE s == ss[n + 1]
           b == s.body
           p == c.pending
           d == Chunks!Chunked(c, doc, s)
           H == RunesOf(doc, s.first, s.last)
<1>1. Len(ss) \in Nat /\ n \in Nat /\ n + 1 \in 1 .. Len(ss)
      BY DEF Sectioned
<1>2. b \in Seq(Spots) /\ Sorted(b) /\ Held(b) = H
      BY <1>1 DEF Sectioned, Sectional
<1>3. p \in Seq(Spots) /\ \A y : [c EXCEPT !.pending = y] = [chunks |-> c.chunks, pending |-> y]
      BY DEF Chunkings
<1>4. d = [c EXCEPT !.pending = p \o b]
      BY DEF Chunks!Chunked
<1>5. d.chunks = c.chunks /\ d.pending = p \o b
      BY <1>3, <1>4
<1>6. /\ q \in 0 .. n /\ (q = 0 \/ Chunks!HasProse(doc, ss[q]))
      /\ \A k \in q + 1 .. n : ~Chunks!HasProse(doc, ss[k])
      /\ \A k \in 1 .. Len(c.chunks) : ChunkIs(doc, markdown, c.chunks[k])
      /\ Series(ContentsOf(c.chunks)) /\ HeldBy(ContentsOf(c.chunks)) = RunesIn(doc, ss, 1, q)
      /\ Sorted(p) /\ Held(p) = RunesIn(doc, ss, q + 1, n)
      BY DEF Through
<1>7. Precedes(Held(p), Held(b))
      BY <1>2, <1>6, SectionsPrecede
<1> HIDE DEF d, p, b
<1>8. Sorted(p \o b) /\ Held(p \o b) = RunesIn(doc, ss, q + 1, n) \cup H
      BY <1>2, <1>3, <1>6, <1>7, HeldJoin
<1>9. \A k : k \in q + 1 .. n + 1 <=> k \in q + 1 .. n \/ k = n + 1
      BY <1>1, <1>6
<1>10. RunesIn(doc, ss, q + 1, n + 1) = RunesIn(doc, ss, q + 1, n) \cup H
       BY <1>9 DEF RunesIn
<1>11. \A k \in q + 1 .. n + 1 : ~Chunks!HasProse(doc, ss[k])
       BY <1>6, <1>9
<1>12. q \in 0 .. n + 1
       BY <1>1, <1>6
<1>13. Through(doc, markdown, ss, d, q, n + 1)
       BY <1>5, <1>6, <1>8, <1>10, <1>11, <1>12 DEF Through
<1> QED BY <1>13 DEF d

ChunksAre(doc, markdown, r) == \A k \in 1 .. Len(r) : ChunkIs(doc, markdown, r[k])

FreshHold(doc, markdown, r, ss, m, p) ==
  /\ r \in Seq(ChunksOf(ss)) /\ Series(ContentsOf(r))
  /\ HeldBy(ContentsOf(r)) = Held(p) \cup RunesOf(doc, ss[m].first, ss[m].last)
  /\ ChunksAre(doc, markdown, r)

NoProse(doc, p) == \A a \in Held(p) : a[1] \notin Chunks!Prose(doc)

\* The chunks of one more section with prose.
LEMMA FreshFollow ==
  ASSUME NEW doc \in Chunks!Documents, NEW markdown, NEW ss, NEW m \in 1 .. Len(ss),
         Sectional(doc, markdown, ss[m]), Chunks!HasProse(doc, ss[m]),
         NEW p \in Seq(Spots), Sorted(p), Precedes(Held(p), RunesOf(doc, ss[m].first, ss[m].last)),
         NoProse(doc, p),
         NEW r, r = Fresh(ss[m], p, Chunks!SplitOversized(doc, ss[m]))
  PROVE  FreshHold(doc, markdown, r, ss, m, p)
<1> DEFINE s == ss[m]
           H == RunesOf(doc, s.first, s.last)
           ps == Chunks!SplitOversized(doc, s)
           N == Len(ps)
           qs == ContentsOf(r)
<1>1. /\ ps \in Seq(Seq(Spots)) /\ Series(ps) /\ Fits(ps) /\ HeldBy(ps) = H /\ N # 0
      BY ProseIsSplit
<1>3. \A i \in Chunks!Prose(doc) : s.first <= i /\ i <= s.last => Chunks!ToSet(s.path) = WantOf(doc, markdown, i)
      BY DEF Sectional
<1>0. r = Fresh(ss[m], p, ps)
      OBVIOUS
<1> HIDE DEF ps
<1>4. /\ r \in Seq(ChunksOf(ss)) /\ Len(r) = N /\ Len(r) \in Nat
      /\ \A k \in 1 .. N : /\ r[k].path = s.path /\ r[k].added = Added(p, k) /\ r[k].content = Added(p, k) \o ps[k]
                           /\ r[k].added \in Seq(Spots) /\ r[k].content \in Seq(Spots)
                           /\ Len(r[k].content) = Len(r[k].added) + Len(ps[k])
  <2>1. r \in Seq(ChunksOf(ss)) /\ Len(r) = N /\ FreshOf(r, ss[m], p, ps)
        BY <1>0, <1>1, FreshAre
  <2>2. Len(r) \in Nat
        BY <2>1, LenProperties
  <2> QED BY <2>1, <2>2 DEF FreshOf
<1>5. qs \in Seq(Seq(Spots)) /\ Len(qs) = N /\ \A k \in 1 .. N : qs[k] = r[k].content
      BY <1>4, ContentsJoin
<1> HIDE DEF qs, H, s
<1>6. /\ Series(qs) /\ HeldBy(qs) = Held(p) \cup HeldBy(ps)
      /\ \A k \in 1 .. N : Held(qs[k]) \subseteq Held(p) \cup Held(ps[k])
      /\ \A k \in 1 .. N : Held(ps[k]) \subseteq Held(qs[k])
  <2>1. Precedes(Held(p), HeldBy(ps))
        BY <1>1 DEF H, s
  <2>2. \A k \in 1 .. Len(ps) : qs[k] = Added(p, k) \o ps[k]
        BY <1>4, <1>5
  <2>3. Len(qs) = Len(ps) /\ qs \in Seq(Seq(Spots))
        BY <1>5
  <2>4. ps \in Seq(Seq(Spots)) /\ Series(ps) /\ Len(ps) # 0
        BY <1>1
  <2> QED BY <2>1, <2>2, <2>3, <2>4, FirstIsAdded
<1>7. ASSUME NEW k \in 1 .. N
      PROVE  ChunkIs(doc, markdown, r[k])
  <2> DEFINE x == r[k].content
             y == r[k].added
  <2>1. /\ Len(x) = Len(y) + Len(ps[k]) /\ x \in Seq(Spots) /\ y \in Seq(Spots) /\ r[k].path = s.path
        /\ Held(x) \subseteq Held(p) \cup Held(ps[k]) /\ Held(ps[k]) \subseteq Held(x)
        BY <1>4, <1>5, <1>6
  <2>2. Len(ps[k]) <= MaxRunes /\ Held(ps[k]) # {} /\ Held(ps[k]) \subseteq H
    <3>1. Held(ps[k]) \subseteq HeldBy(ps)
          BY DEF HeldBy
    <3> QED BY <1>1, <3>1 DEF Fits
  <2>3. Len(ps[k]) \in Nat /\ Len(y) \in Nat
        BY <1>1, <2>1, ElementOfSeq, LenProperties
  <2> HIDE DEF x, y
  <2>4. Len(x) - Len(y) <= MaxRunes
        BY <2>1, <2>2, <2>3, ChunksAssumption
  <2>5. ASSUME NEW a \in Held(x), a[1] \in Chunks!Prose(doc)
        PROVE  Chunks!ToSet(s.path) = WantOf(doc, markdown, a[1])
    <3>1. a \in Held(p) \/ a \in H
          BY <2>1, <2>2, <2>5
    <3>2. a \in H
          BY <2>5, <3>1 DEF NoProse
    <3>3. s.first <= a[1] /\ a[1] <= s.last
          BY <3>2, RunesAre DEF H
    <3> QED BY <1>3, <2>5, <3>3
  <2>6. Held(x) # {}
        BY <2>1, <2>2
  <2> QED BY <2>1, <2>4, <2>5, <2>6 DEF ChunkIs, x, y
<1>8. ChunksAre(doc, markdown, r)
      BY <1>4, <1>7 DEF ChunksAre
<1> QED BY <1>1, <1>4, <1>6, <1>8 DEF qs, H, s, FreshHold

\* One more section with prose takes what waits.
LEMMA ProseFollows ==
  ASSUME NEW doc \in Chunks!Documents, NEW markdown, NEW ss, Sectioned(doc, markdown, ss),
         NEW n \in 0 .. Len(ss) - 1, NEW c \in Chunkings(ss), NEW q, Through(doc, markdown, ss, c, q, n),
         Chunks!HasProse(doc, ss[n + 1])
  PROVE  Through(doc, markdown, ss, Chunks!Chunked(c, doc, ss[n + 1]), n + 1, n + 1)
<1> DEFINE m == n + 1
           s == ss[m]
           p == c.pending
           d == Chunks!Chunked(c, doc, s)
           H == RunesOf(doc, s.first, s.last)
           r == Fresh(s, p, Chunks!SplitOversized(doc, s))
           x == c.chunks
           e == Blank
<1>1. Len(ss) \in Nat /\ n \in Nat /\ n + 1 \in 1 .. Len(ss)
      BY DEF Sectioned
<1>2. Sectional(doc, markdown, s)
      BY <1>1 DEF Sectioned
<1>3. p \in Seq(Spots) /\ x \in Seq(ChunksOf(ss))
      BY DEF Chunkings
<1>4. d = [chunks |-> x \o r, pending |-> e]
      BY DEF Chunks!Chunked, Fresh, Added, Blank
<1>5. d.chunks = x \o r /\ d.pending = e
  <2> DEFINE y == x \o r
  <2>1. d = [chunks |-> y, pending |-> e]
        BY <1>4
  <2> HIDE DEF d, y, e
  <2>2. d.chunks = y /\ d.pending = e
        BY <2>1
  <2> QED BY <2>2 DEF y
<1>6. /\ q \in 0 .. n
      /\ \A k \in q + 1 .. n : ~Chunks!HasProse(doc, ss[k])
      /\ \A k \in 1 .. Len(x) : ChunkIs(doc, markdown, x[k])
      /\ Series(ContentsOf(x)) /\ HeldBy(ContentsOf(x)) = RunesIn(doc, ss, 1, q)
      /\ Sorted(p) /\ Held(p) = RunesIn(doc, ss, q + 1, n)
      BY DEF Through
<1>7. /\ Precedes(RunesIn(doc, ss, 1, q), H) /\ Precedes(Held(p), H)
      /\ Precedes(RunesIn(doc, ss, 1, q), Held(p))
      BY <1>6, SectionsPrecede
<1>8. \A a \in Held(p) : a[1] \notin Chunks!Prose(doc)
  <2> TAKE a \in Held(p)
  <2>1. PICK k \in q + 1 .. n : a \in RunesOf(doc, ss[k].first, ss[k].last)
        BY <1>6 DEF RunesIn
  <2>2. k \in 1 .. Len(ss)
        BY <1>1, <1>6
  <2>3. ss[k].first <= a[1] /\ a[1] <= ss[k].last
        BY <2>1, RunesAre
  <2>4. Sectional(doc, markdown, ss[k])
        BY <2>2 DEF Sectioned
  <2>5. a[1] \in Chunks!Prose(doc) => Chunks!HasProse(doc, ss[k])
        BY <2>3, <2>4 DEF Sectional
  <2> QED BY <1>6, <2>5
<1>9. Chunks!HasProse(doc, s)
      OBVIOUS
<1>10. e \in Seq(Spots) /\ Len(e) = 0
       BY EmptySeq DEF Blank
<1>0. r = Fresh(ss[m], p, Chunks!SplitOversized(doc, ss[m])) /\ m \in 1 .. Len(ss)
      BY <1>1
<1> HIDE DEF p, x, d, e, r, m
<1>11. /\ r \in Seq(ChunksOf(ss)) /\ Series(ContentsOf(r)) /\ HeldBy(ContentsOf(r)) = Held(p) \cup H
       /\ ChunksAre(doc, markdown, r)
  <2>1. NoProse(doc, p) /\ Sorted(p)
        BY <1>6, <1>8 DEF NoProse
  <2>2. Sectional(doc, markdown, ss[m]) /\ Chunks!HasProse(doc, ss[m])
        BY <1>2, <1>9
  <2>3. Precedes(Held(p), RunesOf(doc, ss[m].first, ss[m].last))
        BY <1>7
  <2>4. FreshHold(doc, markdown, r, ss, m, p)
        BY <1>0, <1>3, <2>1, <2>2, <2>3, FreshFollow, Zenon
  <2> QED BY <2>4 DEF FreshHold
<1> HIDE DEF H
<1>12. /\ ContentsOf(x) \in Seq(Seq(Spots)) /\ ContentsOf(r) \in Seq(Seq(Spots))
       /\ ContentsOf(x \o r) = ContentsOf(x) \o ContentsOf(r)
       BY <1>3, <1>11, ContentsJoin
<1>13. /\ Series(ContentsOf(x \o r))
       /\ HeldBy(ContentsOf(x \o r)) = RunesIn(doc, ss, 1, q) \cup (Held(p) \cup H)
  <2> DEFINE f == ContentsOf(x)
             g == ContentsOf(r)
  <2>1. f \in Seq(Seq(Spots)) /\ g \in Seq(Seq(Spots)) /\ Series(f) /\ Series(g)
        BY <1>6, <1>11, <1>12
  <2>2. Precedes(HeldBy(f), HeldBy(g))
        BY <1>6, <1>7, <1>11 DEF Precedes
  <2>3. HeldBy(f) \cup HeldBy(g) = RunesIn(doc, ss, 1, q) \cup (Held(p) \cup H)
        BY <1>6, <1>11
  <2> HIDE DEF f, g
  <2>4. Series(f \o g) /\ HeldBy(f \o g) = HeldBy(f) \cup HeldBy(g)
        BY <2>1, <2>2, SeriesJoin
  <2> QED BY <1>12, <2>3, <2>4 DEF f, g
<1>14. RunesIn(doc, ss, 1, n + 1) = RunesIn(doc, ss, 1, q) \cup (Held(p) \cup H)
  <2>1. \A k : k \in 1 .. n + 1 <=> k \in 1 .. q \/ k \in q + 1 .. n \/ k = n + 1
        BY <1>1, <1>6
  <2> QED BY <1>6, <2>1 DEF RunesIn, H, m
<1>15. \A k \in 1 .. Len(x \o r) : ChunkIs(doc, markdown, (x \o r)[k])
  <2> DEFINE z == x \o r
  <2>1. /\ Len(z) = Len(x) + Len(r) /\ Len(x) \in Nat /\ Len(r) \in Nat
        /\ \A i \in 1 .. Len(x) : z[i] = x[i]
        /\ \A i \in 1 .. Len(r) : z[Len(x) + i] = r[i]
        /\ \A i \in 1 .. Len(x) + Len(r) : i \in 1 .. Len(x) \/ (i - Len(x) \in 1 .. Len(r) /\ i = Len(x) + (i - Len(x)))
        BY <1>3, <1>11, Concatenated
  <2> HIDE DEF z
  <2>2. ASSUME NEW k \in 1 .. Len(z)
        PROVE  ChunkIs(doc, markdown, z[k])
    <3>1. CASE k \in 1 .. Len(x)
          BY <1>6, <2>1, <3>1
    <3>2. ASSUME NEW j \in 1 .. Len(r), k = Len(x) + j
          PROVE  ChunkIs(doc, markdown, z[k])
      <4>1. z[k] = r[j]
            BY <2>1, <3>2
      <4> QED BY <1>11, <4>1 DEF ChunksAre
    <3> QED BY <2>1, <3>1, <3>2
  <2> QED BY <2>2 DEF z
<1>16. /\ Sorted(e) /\ Held(e) = {}
       BY <1>10, NothingHeld
<1>17. RunesIn(doc, ss, (n + 1) + 1, n + 1) = {} /\ \A k \in (n + 1) + 1 .. n + 1 : FALSE
  <2>1. \A k \in (n + 1) + 1 .. n + 1 : FALSE
        BY <1>1
  <2> QED BY <2>1 DEF RunesIn
<1>18. n + 1 \in 0 .. n + 1
       BY <1>1
<1>19. Through(doc, markdown, ss, d, n + 1, n + 1)
       BY <1>5, <1>9, <1>13, <1>14, <1>15, <1>16, <1>17, <1>18 DEF Through
<1> QED BY <1>19 DEF d, m

\* What is made of all of a document's sections.
Whole(doc, markdown, ss, c) ==
  c \in Chunkings(ss) /\ \E q \in 0 .. Len(ss) : Through(doc, markdown, ss, c, q, Len(ss))

\* A document is made into the chunks of its sections, up to the limit.
LEMMA ChunksAreMade ==
  ASSUME NEW doc \in Chunks!Documents, NEW markdown \in BOOLEAN, NEW ss, ss = Chunks!SectionsOf(doc, markdown)
  PROVE  /\ Sectioned(doc, markdown, ss)
         /\ \E c : Whole(doc, markdown, ss, c) /\ Chunks!ChunkDocument(doc, markdown) = Chunks!Limited(c.chunks)
<1> DEFINE V == Chunkings(ss)
           N == Len(ss)
           e == [chunks |-> << >>, pending |-> << >>]
           h == [p \in V \X Nat |-> IF p[2] \in 1 .. N THEN Chunks!Chunked(p[1], doc, ss[p[2]]) ELSE p[1]]
           Is(f) == f = [n \in 0 .. N |-> IF n = 0 THEN e ELSE Chunks!Chunked(f[n - 1], doc, ss[n])]
           w == CHOOSE g : Is(g)
<1>1. Sectioned(doc, markdown, ss)
      BY MarkdownIsSectioned, TextIsSectioned
<1>2. N \in Nat /\ \A n \in 1 .. N : Sectional(doc, markdown, ss[n])
      BY <1>1 DEF Sectioned
<1>3. Chunks!ChunkDocument(doc, markdown) = Chunks!Limited(w[N].chunks)
      BY DEF Chunks!ChunkDocument
<1>4. e \in V /\ e.chunks \in Seq(ChunksOf(ss)) /\ Len(e.chunks) = 0 /\ e.pending \in Seq(Spots) /\ Len(e.pending) = 0
      BY EmptySeq DEF Chunkings
<1> HIDE DEF e
<1>5. h \in [V \X Nat -> V]
  <2>1. ASSUME NEW p \in V \X Nat
        PROVE  h[p] \in V
    <3>1. p[1] \in V
          OBVIOUS
    <3>2. p[2] \in 1 .. N => Chunks!Chunked(p[1], doc, ss[p[2]]) \in V
          BY <1>2, <3>1, ChunkedIsChunking
    <3> HIDE DEF V, N
    <3> QED BY <3>1, <3>2
  <2> QED BY <2>1
<1>6. PICK f \in [0 .. N -> V] : Follows(f, V, e, h, N)
  <2> HIDE DEF V, N, h
  <2> QED BY <1>2, <1>4, <1>5, Recursive
<1>7. Is(f)
  <2>1. \A n \in 1 .. N : h[<<f[n - 1], n>>] = Chunks!Chunked(f[n - 1], doc, ss[n])
    <3> TAKE n \in 1 .. N
    <3>1. <<f[n - 1], n>> \in V \X Nat
          BY <1>6 DEF Follows
    <3> HIDE DEF V, N
    <3> QED BY <3>1
  <2>2. \A n \in 0 .. N : n = 0 \/ n \in 1 .. N
        BY <1>2
  <2> HIDE DEF V, N, h
  <2> QED BY <1>6, <2>1, <2>2 DEF Follows
<1>8. Is(w)
  <2> HIDE DEF Is
  <2> QED BY <1>7
<1> HIDE DEF w, h
<1>9. w[0] = e /\ \A n \in 1 .. N : w[n] = Chunks!Chunked(w[n - 1], doc, ss[n])
  <2>1. \A n \in 1 .. N : n \in 0 .. N /\ n # 0
        BY <1>2
  <2>2. 0 \in 0 .. N
        BY <1>2
  <2> HIDE DEF N
  <2> QED BY <1>8, <2>1, <2>2
<1> HIDE DEF Is
<1> DEFINE S == {n \in Nat : w[n] \in V /\ \E q \in 0 .. n : Through(doc, markdown, ss, w[n], q, n)}
<1>10. 0 \in S
  <2> DEFINE r == e.chunks
             x == ContentsOf(r)
  <2>1. x \in Seq(Seq(Spots)) /\ Len(x) = 0
        BY <1>4, ContentsJoin
  <2>2. Series(x) /\ HeldBy(x) = {} /\ Sorted(e.pending) /\ Held(e.pending) = {}
        BY <1>4, <2>1, NothingHeld
  <2>3. \A k : k \in 1 .. 0 => FALSE
        OBVIOUS
  <2>4. \A k : k \in 0 + 1 .. 0 => FALSE
        OBVIOUS
  <2>5. RunesIn(doc, ss, 1, 0) = {} /\ RunesIn(doc, ss, 0 + 1, 0) = {}
        BY <2>3, <2>4 DEF RunesIn
  <2>6. 0 \in 0 .. 0
        OBVIOUS
  <2>7. \A k \in 1 .. Len(r) : ChunkIs(doc, markdown, r[k])
        BY <1>4, <2>3
  <2> HIDE DEF x
  <2>8. Through(doc, markdown, ss, e, 0, 0)
        BY <2>2, <2>4, <2>5, <2>6, <2>7 DEF Through, x
  <2> QED BY <1>4, <1>9, <2>6, <2>8
<1>11. ASSUME NEW n \in 0 .. N - 1, n \in S
       PROVE  n + 1 \in S
  <2>1. n \in Nat /\ n + 1 \in 1 .. N /\ n + 1 \in Nat /\ (n + 1) - 1 = n
        BY <1>2
  <2>2. w[n] \in V /\ \E q \in 0 .. n : Through(doc, markdown, ss, w[n], q, n)
        BY <1>11
  <2>3. PICK q \in 0 .. n : Through(doc, markdown, ss, w[n], q, n)
        BY <2>2
  <2>4. w[n + 1] = Chunks!Chunked(w[n], doc, ss[n + 1])
    <3> HIDE DEF N
    <3> QED BY <1>9, <2>1
  <2> DEFINE d == Chunks!Chunked(w[n], doc, ss[n + 1])
  <2>5. d \in V
        BY <1>2, <2>1, <2>2, ChunkedIsChunking
  <2>6. Through(doc, markdown, ss, d, q, n + 1) \/ Through(doc, markdown, ss, d, n + 1, n + 1)
    <3>1. CASE Chunks!HasProse(doc, ss[n + 1])
          BY <1>1, <2>2, <2>3, <3>1, ProseFollows
    <3>2. CASE ~Chunks!HasProse(doc, ss[n + 1])
          BY <1>1, <2>2, <2>3, <3>2, WaitingFollows
    <3> QED BY <3>1, <3>2
  <2> HIDE DEF d, V
  <2>7. q \in 0 .. n + 1 /\ n + 1 \in 0 .. n + 1
        BY <2>1
  <2> QED BY <2>1, <2>4, <2>5, <2>6, <2>7 DEF d
<1>12. N \in S
  <2> HIDE DEF S, N
  <2>1. 0 .. N \subseteq S
        BY <1>2, <1>10, <1>11, InductionUpTo
  <2> QED BY <1>2, <2>1
<1>13. Whole(doc, markdown, ss, w[N])
       BY <1>12 DEF Whole
<1> QED BY <1>1, <1>3, <1>13

\* The last line that chunks hold.
EndIn(doc, markdown) == CHOOSE i \in LastOf(doc, markdown) : \A j \in LastOf(doc, markdown) : j <= i

\* The last section with prose is the last with a line of the last lines.
LEMMA EndIsReached ==
  ASSUME NEW doc \in Chunks!Documents, NEW markdown \in BOOLEAN, NEW ss, Sectioned(doc, markdown, ss),
         NEW q \in 0 .. Len(ss), q = 0 \/ Chunks!HasProse(doc, ss[q]),
         \A k \in q + 1 .. Len(ss) : ~Chunks!HasProse(doc, ss[k])
  PROVE  /\ q = 0 => RunesIn(doc, ss, 1, q) = {} /\ Chunks!Prose(doc) = {} /\ (markdown => LastOf(doc, markdown) = {})
         /\ q # 0 => /\ LastOf(doc, markdown) # {} /\ EndIn(doc, markdown) \in 1 .. Len(doc)
                     /\ RunesIn(doc, ss, 1, q) = RunesOf(doc, 1, EndIn(doc, markdown))
<1> DEFINE N == Len(ss)
           L == LastOf(doc, markdown)
           P == Chunks!Prose(doc)
           D == Len(doc)
           end == EndIn(doc, markdown)
<1>1. /\ N \in Nat /\ D \in Nat /\ DOMAIN doc = 1 .. D
      /\ \A n \in 1 .. N : /\ ss[n].first \in Nat /\ ss[n].last \in Nat /\ 1 <= ss[n].first
                           /\ ss[n].first <= ss[n].last /\ ss[n].last <= D
      /\ \A m, n \in 1 .. N : m < n => ss[m].last < ss[n].first
  <2>1. \A n \in 1 .. N : SectionOf(doc, ss[n])
        BY DEF Sectioned, Sectional
  <2>2. \A m, n \in 1 .. N : m < n => ss[m].last < ss[n].first
        BY DEF Sectioned
  <2>3. N \in Nat
        BY DEF Sectioned
  <2> QED BY <2>1, <2>2, <2>3, LinesAre DEF SectionOf
<1>2. \A i \in 1 .. D : doc[i].is # "blank" => \E n \in 1 .. N : ss[n].first <= i /\ i <= ss[n].last
      BY DEF Sectioned
<1>3. /\ P \subseteq 1 .. D /\ L \subseteq 1 .. D /\ P \subseteq L
      /\ \A i \in P : doc[i].is # "blank"
      /\ \A i \in 1 .. D : doc[i].is \in {"fence", "text"} => i \in P
      /\ markdown => L = P
  <2>1. P \subseteq 1 .. D /\ (\A i \in P : doc[i].is # "blank")
        /\ \A i \in 1 .. D : doc[i].is \in {"fence", "text"} => i \in P
        BY KindsAre
  <2> QED BY <1>1, <2>1 DEF LastOf
<1>4. ASSUME NEW i \in P
      PROVE  \E n \in 1 .. N : ss[n].first <= i /\ i <= ss[n].last /\ n <= q
  <2>1. PICK n \in 1 .. N : ss[n].first <= i /\ i <= ss[n].last
        BY <1>2, <1>3
  <2>2. Chunks!HasProse(doc, ss[n])
        BY <2>1 DEF Sectioned, Sectional
  <2>3. ~(n \in q + 1 .. N)
        BY <2>2
  <2>4. n <= q
        BY <1>1, <2>3
  <2> QED BY <2>1, <2>4
<1>5. ASSUME q = 0
      PROVE  RunesIn(doc, ss, 1, q) = {} /\ P = {} /\ (markdown => L = {})
  <2>1. \A k \in 1 .. q : FALSE
        BY <1>5
  <2>2. P = {}
    <3>1. \A n \in 1 .. N : ~(n <= q)
          BY <1>1, <1>5
    <3> QED BY <1>4, <3>1
  <2> QED BY <1>3, <2>1, <2>2 DEF RunesIn
<1>6. ASSUME q # 0
      PROVE  L # {} /\ end \in 1 .. D /\ RunesIn(doc, ss, 1, q) = RunesOf(doc, 1, end)
  <2>1. q \in 1 .. N /\ Chunks!HasProse(doc, ss[q]) /\ q \in Nat
        BY <1>1, <1>6
  <2>2. PICK o \in ss[q].first .. ss[q].last : doc[o].is \in {"fence", "text"}
        BY <2>1 DEF Chunks!HasProse
  <2>3. o \in 1 .. D /\ ss[q].first <= o /\ o \in P /\ o \in L /\ o \in Nat
    <3>1. o \in 1 .. D /\ ss[q].first <= o /\ o \in Nat
          BY <1>1, <2>1
    <3> QED BY <1>3, <2>2, <3>1
  <2>4. end \in L /\ \A j \in L : j <= end
    <3>1. L \in SUBSET (0 .. D) /\ L # {}
          BY <1>1, <1>3, <2>3
    <3> HIDE DEF L, D
    <3>2. \E i \in L : \A j \in L : j <= i
          BY <1>1, <3>1, Greatest
    <3> QED BY <3>2 DEF EndIn, L
  <2> HIDE DEF end, L, P
  <2>5. end \in 1 .. D /\ end \in Nat /\ o <= end
        BY <1>1, <1>3, <2>3, <2>4
  <2>6. ASSUME NEW k \in 1 .. q, NEW a \in RunesOf(doc, ss[k].first, ss[k].last)
        PROVE  a \in RunesOf(doc, 1, end)
    <3>1. /\ a[1] \in 1 .. D /\ a[1] \in Nat /\ doc[a[1]].is # "blank"
          /\ ss[k].first <= a[1] /\ a[1] <= ss[k].last /\ a \in All(doc)
      <4>1. a[1] \in 1 .. D /\ doc[a[1]].is # "blank" /\ ss[k].first <= a[1] /\ a[1] <= ss[k].last
            BY <2>6, RunesAre
      <4> QED BY <1>1, <2>6, <4>1 DEF RunesOf
    <3>2. k \in 1 .. N /\ (k = q \/ k < q)
          BY <1>1, <2>1
    <3>3. CASE k < q
      <4>1. ss[k].last < ss[q].first
            BY <1>1, <2>1, <3>2, <3>3
      <4>2. ss[k].last \in Nat /\ ss[q].first \in Nat
            BY <1>1, <2>1, <3>2
      <4>3. a[1] <= end
            BY <2>3, <2>5, <3>1, <4>1, <4>2
      <4> QED BY <3>1, <4>3 DEF RunesOf
    <3>4. CASE k = q
      <4>1. a[1] \in L \/ a[1] = ss[q].first
            BY <2>1, <3>1, <3>4 DEF Sectioned, Sectional, L
      <4>2. ss[q].first \in Nat
            BY <1>1, <2>1
      <4>3. a[1] <= end
            BY <2>3, <2>4, <2>5, <3>1, <4>1, <4>2
      <4> QED BY <3>1, <4>3 DEF RunesOf
    <3> QED BY <3>2, <3>3, <3>4
  <2>7. ASSUME NEW a \in RunesOf(doc, 1, end)
        PROVE  \E k \in 1 .. q : a \in RunesOf(doc, ss[k].first, ss[k].last)
    <3>1. a[1] \in 1 .. D /\ a[1] \in Nat /\ doc[a[1]].is # "blank" /\ a[1] <= end /\ a \in All(doc)
      <4>1. a[1] \in 1 .. D /\ doc[a[1]].is # "blank" /\ a[1] <= end
            BY <2>7, RunesAre
      <4> QED BY <1>1, <2>7, <4>1 DEF RunesOf
    <3>2. PICK n \in 1 .. N : ss[n].first <= a[1] /\ a[1] <= ss[n].last
          BY <1>2, <3>1
    <3>3. a \in RunesOf(doc, ss[n].first, ss[n].last)
          BY <3>1, <3>2 DEF RunesOf
    <3>4. CASE markdown
      <4>1. end \in P
            BY <1>3, <2>4, <3>4
      <4>2. PICK m \in 1 .. N : ss[m].first <= end /\ end <= ss[m].last /\ m <= q
            BY <1>4, <4>1
      <4>3. ~(m < n)
        <5> SUFFICES ASSUME m < n PROVE FALSE
            OBVIOUS
        <5>1. ss[m].last < ss[n].first
              BY <1>1
        <5>2. ss[m].last \in Nat /\ ss[n].first \in Nat
              BY <1>1
        <5> QED BY <2>5, <3>1, <3>2, <4>2, <5>1, <5>2
      <4>4. n \in 1 .. q
            BY <1>1, <2>1, <4>2, <4>3
      <4> QED BY <3>3, <4>4
    <3>5. CASE ~markdown
      <4>1. N = 1
            BY <3>5 DEF Sectioned
      <4>2. n \in 1 .. q
            BY <2>1, <4>1
      <4> QED BY <3>3, <4>2
    <3> QED BY <3>4, <3>5
  <2>8. RunesIn(doc, ss, 1, q) = RunesOf(doc, 1, end)
        BY <2>6, <2>7 DEF RunesIn
  <2> QED BY <2>3, <2>5, <2>8
<1> HIDE DEF P, L, end, D
<1> QED BY <1>5, <1>6 DEF P, L, end, D

\* The first m of a list of chunks: they hold what comes first, and less than all.
Begins(ss, u, r, m) ==
  /\ u \in Seq(ChunksOf(ss)) /\ Len(u) = m /\ (\A k \in 1 .. m : k \in 1 .. Len(r) /\ u[k] = r[k])
  /\ Series(ContentsOf(u)) /\ HeldBy(ContentsOf(u)) \subseteq HeldBy(ContentsOf(r))
  /\ \A a \in HeldBy(ContentsOf(u)), b \in HeldBy(ContentsOf(r)) :
       Earlier(b, a) => b \in HeldBy(ContentsOf(u))
  /\ Held(r[m + 1].content) # {} => HeldBy(ContentsOf(u)) # HeldBy(ContentsOf(r))

\* A list that is cut is its beginning.
LEMMA CutBegins ==
  ASSUME NEW ss, NEW r \in Seq(ChunksOf(ss)), Series(ContentsOf(r)), NEW m \in Nat, m < Len(r)
  PROVE  Begins(ss, SubSeq(r, 1, m), r, m)
<1> DEFINE u == SubSeq(r, 1, m)
           x == ContentsOf(u)
           y == ContentsOf(r)
<1>1. /\ u \in Seq(ChunksOf(ss)) /\ Len(u) = m /\ Len(r) \in Nat
      /\ \A k \in 1 .. m : k \in 1 .. Len(r) /\ u[k] = r[k]
  <2>1. Len(r) \in Nat
        BY LenProperties
  <2>2. \A k \in 1 .. m : k \in 1 .. Len(r)
        BY <2>1
  <2> QED BY <2>1, <2>2
<1> HIDE DEF u
<1>2. /\ x \in Seq(Seq(Spots)) /\ Len(x) = m /\ \A k \in 1 .. m : x[k] = r[k].content
  <2>1. x \in Seq(Seq(Spots)) /\ Len(x) = Len(u) /\ \A k \in 1 .. Len(u) : x[k] = u[k].content
        BY <1>1, ContentsJoin
  <2> HIDE DEF x
  <2> QED BY <1>1, <2>1
<1>3. /\ y \in Seq(Seq(Spots)) /\ Len(y) = Len(r) /\ \A k \in 1 .. Len(r) : y[k] = r[k].content
      BY ContentsJoin
<1> HIDE DEF x, y
<1>4. \A k \in 1 .. m : k \in 1 .. Len(y) /\ x[k] = y[k]
      BY <1>1, <1>2, <1>3
<1>5. \A k \in 1 .. Len(y) : Sorted(y[k])
      BY DEF Series, y
<1>6. \A j, k \in 1 .. Len(y) : j < k => Precedes(Held(y[j]), Held(y[k]))
      BY DEF Series, y
<1>7. Series(x)
  <2>1. \A k \in 1 .. m : Sorted(x[k])
        BY <1>4, <1>5
  <2>2. ASSUME NEW j \in 1 .. m, NEW k \in 1 .. m, j < k
        PROVE  Precedes(Held(x[j]), Held(x[k]))
        BY <1>4, <1>6, <2>2
  <2> QED BY <1>2, <2>1, <2>2 DEF Series
<1>8. \A a : a \in HeldBy(x) <=> \E k \in 1 .. m : a \in Held(y[k])
  <2>1. \A a : a \in HeldBy(x) <=> \E k \in 1 .. m : a \in Held(x[k])
        BY <1>2 DEF HeldBy
  <2> QED BY <1>4, <2>1
<1>9. \A a : a \in HeldBy(y) <=> \E k \in 1 .. Len(y) : a \in Held(y[k])
      BY DEF HeldBy
<1>10. HeldBy(x) \subseteq HeldBy(y)
       BY <1>4, <1>8, <1>9
<1>11. HeldBy(y) \subseteq Spots
       BY <1>3, HeldAreSpots
<1>12. ASSUME NEW k \in 1 .. m, NEW a \in Held(y[k]), NEW j \in 1 .. Len(y), NEW b \in Held(y[j]), m < j
       PROVE  Earlier(a, b) /\ a # b /\ ~Earlier(b, a)
  <2>1. k \in 1 .. Len(y) /\ k < j
        BY <1>1, <1>3, <1>4, <1>12
  <2>2. Earlier(a, b)
        BY <1>6, <2>1 DEF Precedes
  <2>3. a \in Spots /\ b \in Spots
        BY <1>9, <1>11, <2>1
  <2> QED BY <2>2, <2>3, EarlierOrders
<1>13. ASSUME NEW a \in HeldBy(x), NEW b \in HeldBy(y), Earlier(b, a)
       PROVE  b \in HeldBy(x)
  <2>1. PICK k \in 1 .. m : a \in Held(y[k])
        BY <1>8
  <2>2. PICK j \in 1 .. Len(y) : b \in Held(y[j])
        BY <1>9
  <2>3. ~(m < j)
        BY <1>12, <1>13, <2>1, <2>2
  <2>4. j \in 1 .. m
        BY <1>1, <1>3, <2>3
  <2> QED BY <1>8, <2>2, <2>4
<1>14. ASSUME Held(r[m + 1].content) # {}
       PROVE  HeldBy(x) # HeldBy(y)
  <2>1. m + 1 \in 1 .. Len(y) /\ m < m + 1 /\ y[m + 1] = r[m + 1].content
        BY <1>1, <1>3
  <2>2. PICK b : b \in Held(y[m + 1])
        BY <1>14, <2>1
  <2>3. b \in HeldBy(y)
        BY <1>9, <2>1, <2>2
  <2>4. b \notin HeldBy(x)
    <3> SUFFICES ASSUME b \in HeldBy(x) PROVE FALSE
        OBVIOUS
    <3>1. PICK k \in 1 .. m : b \in Held(y[k])
          BY <1>8
    <3> QED BY <1>12, <2>1, <2>2, <3>1
  <2> QED BY <2>3, <2>4
<1>15. Begins(ss, u, r, m)
       BY <1>1, <1>7, <1>10, <1>13, <1>14, Zenon DEF Begins, x, y
<1> QED BY <1>15 DEF u

\* What the marks of a list of pieces are, by what the pieces hold.
LEMMA MarksOfPieces ==
  ASSUME NEW ps \in Seq(Seq(Spots)), Series(ps), NEW t \in Seq(Spots), Sorted(t)
  PROVE  /\ HeldBy(ps) = Held(t) <=> Chunks!Marks(Chunks!FlattenSeq(ps)) = Chunks!Marks(t)
         /\ HeldBy(ps) \subseteq Held(t) /\ (\A a \in HeldBy(ps), b \in Held(t) : Earlier(b, a) => b \in HeldBy(ps))
              => Chunks!IsPrefix(Chunks!Marks(Chunks!FlattenSeq(ps)), Chunks!Marks(t))
<1> DEFINE s == Chunks!FlattenSeq(ps)
<1>1. s \in Seq(Spots) /\ Held(s) = HeldBy(ps) /\ Sorted(s)
      BY FlattenHolds
<1> HIDE DEF s
<1>2. Held(s) = Held(t) <=> Chunks!Marks(s) = Chunks!Marks(t)
      BY <1>1, MarksAgree
<1>3. Held(s) \subseteq Held(t) /\ (\A a \in Held(s), b \in Held(t) : Earlier(b, a) => b \in Held(s))
        => Chunks!IsPrefix(Chunks!Marks(s), Chunks!Marks(t))
      BY <1>1, MarksAgree
<1> QED BY <1>1, <1>2, <1>3 DEF s

\* Pieces that hold nothing have no marks.
LEMMA NoMarks ==
  ASSUME NEW ps \in Seq(Seq(Spots)), HeldBy(ps) = {}
  PROVE  Chunks!Marks(Chunks!FlattenSeq(ps)) = << >>
<1> DEFINE s == Chunks!FlattenSeq(ps)
           x == Chunks!Marks(s)
<1>1. s \in Seq(Spots) /\ Held(s) = {}
      BY FlattenHolds
<1> HIDE DEF s
<1>2. x \in Seq(Spots) /\ Elements(x) = {}
      BY <1>1, MarksRise
<1> HIDE DEF x
<1>3. Len(x) \in Nat /\ ~(1 \in 1 .. Len(x))
  <2>1. Len(x) \in Nat
        BY <1>2, LenProperties
  <2>2. \A i \in 1 .. Len(x) : x[i] \in Elements(x)
        BY DEF Elements
  <2> QED BY <1>2, <2>1, <2>2
<1>4. Len(x) = 0
      BY <1>3
<1>5. x = << >>
      BY <1>2, <1>4, EmptySeq
<1> QED BY <1>5 DEF x, s

\* What is said of one chunk.
LEMMA ChunksAreRight ==
  ASSUME NEW doc \in Chunks!Documents, NEW markdown \in BOOLEAN, NEW ss, NEW u \in Seq(ChunksOf(ss)),
         ChunksAre(doc, markdown, u), NEW n \in DOMAIN u
  PROVE  /\ Len(u[n].content) - Len(u[n].added) <= MaxRunes
         /\ \A k \in DOMAIN u[n].content : u[n].content[k][1] \in Chunks!Prose(doc) =>
              Chunks!ToSet(u[n].path) = WantOf(doc, markdown, u[n].content[k][1])
<1> DEFINE t == u[n].content
           p == u[n].path
<1>1. n \in 1 .. Len(u) /\ u[n] \in ChunksOf(ss)
      BY LenProperties, ElementOfSeq
<1>2. t \in Seq(Spots)
      BY <1>1 DEF ChunksOf
<1>3. ChunkIs(doc, markdown, u[n])
      BY <1>1 DEF ChunksAre
<1>4. \A a \in Held(t) : a[1] \in Chunks!Prose(doc) => Chunks!ToSet(p) = WantOf(doc, markdown, a[1])
      BY <1>3 DEF ChunkIs
<1> HIDE DEF t, p
<1>5. ASSUME NEW k \in DOMAIN t, t[k][1] \in Chunks!Prose(doc)
      PROVE  Chunks!ToSet(p) = WantOf(doc, markdown, t[k][1])
  <2>1. k \in 1 .. Len(t)
        BY <1>2, LenProperties
  <2>2. t[k] # Chunks!NewLine
    <3>1. Chunks!NewLine[1] = 0
          BY DEF Chunks!NewLine
    <3>2. \A i \in Chunks!Prose(doc) : i # 0
      <4>1. Chunks!Prose(doc) \subseteq 1 .. Len(doc)
            BY KindsAre
      <4> QED BY <4>1, LinesAre
    <3> QED BY <1>5, <3>1, <3>2
  <2>3. t[k] \in Held(t)
        BY <2>1, <2>2 DEF Held
  <2> QED BY <1>4, <1>5, <2>3
<1>6. Len(u[n].content) - Len(u[n].added) <= MaxRunes
      BY <1>3 DEF ChunkIs
<1> QED BY <1>5, <1>6 DEF t, p

\* All of a document's marks, up to its last line of prose.
WantedOf(doc, markdown) ==
  IF LastOf(doc, markdown) = {} THEN << >> ELSE Chunks!Marks(Chunks!Text(doc, 1, EndIn(doc, markdown)))

AllOf(u) == Chunks!Marks(Chunks!FlattenSeq(ContentsOf(u)))

\* The chunks that are made hold the document.
LEMMA ChunksHoldDocument ==
  ASSUME NEW doc \in Chunks!Documents, NEW markdown \in BOOLEAN, NEW ss, Sectioned(doc, markdown, ss),
         NEW c, Whole(doc, markdown, ss, c), NEW a, a = Chunks!Limited(c.chunks)
  PROVE  /\ a.chunks \in Seq(ChunksOf(ss)) /\ ChunksAre(doc, markdown, a.chunks)
         /\ a.truncated => /\ Len(a.chunks) = MaxChunks
                           /\ Chunks!IsPrefix(AllOf(a.chunks), WantedOf(doc, markdown))
                           /\ AllOf(a.chunks) # WantedOf(doc, markdown)
         /\ ~a.truncated => \/ AllOf(a.chunks) = WantedOf(doc, markdown)
                            \/ ~markdown /\ Chunks!Prose(doc) = {} /\ AllOf(a.chunks) = << >>
<1> DEFINE r == c.chunks
           ps == ContentsOf(r)
           L == LastOf(doc, markdown)
           end == EndIn(doc, markdown)
           t == Chunks!Text(doc, 1, end)
           e == << >>
<1>1. r \in Seq(ChunksOf(ss)) /\ ps \in Seq(Seq(Spots)) /\ Len(r) \in Nat
  <2>1. r \in Seq(ChunksOf(ss))
        BY DEF Whole, Chunkings
  <2> QED BY <2>1, ContentsJoin, LenProperties
<1>2. PICK q \in 0 .. Len(ss) : Through(doc, markdown, ss, c, q, Len(ss))
      BY DEF Whole
<1>3. ChunksAre(doc, markdown, r) /\ Series(ps) /\ HeldBy(ps) = RunesIn(doc, ss, 1, q)
      BY <1>2 DEF Through, ChunksAre
<1>4. /\ q = 0 => HeldBy(ps) = {} /\ Chunks!Prose(doc) = {} /\ (markdown => L = {})
      /\ q # 0 => L # {} /\ end \in 1 .. Len(doc) /\ HeldBy(ps) = RunesOf(doc, 1, end)
  <2>1. (q = 0 \/ Chunks!HasProse(doc, ss[q])) /\ \A k \in q + 1 .. Len(ss) : ~Chunks!HasProse(doc, ss[k])
        BY <1>2 DEF Through
  <2> HIDE DEF L, end, ps
  <2>2. q = 0 => RunesIn(doc, ss, 1, q) = {} /\ Chunks!Prose(doc) = {} /\ (markdown => L = {})
        BY <2>1, EndIsReached DEF L
  <2>3. q # 0 => L # {} /\ end \in 1 .. Len(doc) /\ RunesIn(doc, ss, 1, q) = RunesOf(doc, 1, end)
        BY <2>1, EndIsReached DEF L, end
  <2> QED BY <1>3, <2>2, <2>3
<1>5. q # 0 => t \in Seq(Spots) /\ Sorted(t) /\ Held(t) = HeldBy(ps)
  <2> SUFFICES ASSUME q # 0
               PROVE  t \in Seq(Spots) /\ Sorted(t) /\ Held(t) = HeldBy(ps)
      OBVIOUS
  <2>1. end \in 1 .. Len(doc) /\ HeldBy(ps) = RunesOf(doc, 1, end) /\ Len(doc) \in Nat
        BY <1>4, LinesAre
  <2> HIDE DEF end, ps
  <2>2. end \in Nat /\ 1 <= end /\ end <= Len(doc) /\ 1 \in Nat /\ 1 <= 1
        BY <2>1
  <2> QED BY <2>1, <2>2, TextHolds
<1>6. WantedOf(doc, markdown) = IF L = {} THEN e ELSE Chunks!Marks(t)
      BY DEF WantedOf
<1>7. \A u : AllOf(u) = Chunks!Marks(Chunks!FlattenSeq(ContentsOf(u)))
      BY DEF AllOf
<1>8. MaxChunks \in Nat
      BY ChunksAssumption
<1> HIDE DEF L, end, t, e
<1>9. CASE Len(r) <= MaxChunks
  <2>1. a = [chunks |-> r, truncated |-> FALSE]
        BY <1>9 DEF Chunks!Limited
  <2>2. a.chunks = r /\ a.truncated = FALSE
    <3> HIDE DEF r
    <3> QED BY <2>1
  <2>3. q # 0 => AllOf(r) = WantedOf(doc, markdown)
    <3> SUFFICES ASSUME q # 0
                 PROVE  AllOf(r) = WantedOf(doc, markdown)
        OBVIOUS
    <3>1. Chunks!Marks(Chunks!FlattenSeq(ps)) = Chunks!Marks(t)
      <4> HIDE DEF ps
      <4> QED BY <1>1, <1>3, <1>5, MarksOfPieces
    <3> QED BY <1>4, <1>6, <1>7, <3>1
  <2>4. q = 0 => AllOf(r) = e
    <3> HIDE DEF ps
    <3>1. q = 0 => Chunks!Marks(Chunks!FlattenSeq(ps)) = e
          BY <1>1, <1>4, NoMarks DEF e
    <3> QED BY <1>7, <3>1 DEF ps
  <2>5. \/ AllOf(r) = WantedOf(doc, markdown)
        \/ ~markdown /\ Chunks!Prose(doc) = {} /\ AllOf(r) = e
        BY <1>4, <1>6, <2>3, <2>4
  <2> HIDE DEF r
  <2> QED BY <1>1, <1>3, <2>2, <2>5 DEF e
<1>10. CASE ~(Len(r) <= MaxChunks)
  <2> DEFINE u == SubSeq(r, 1, MaxChunks)
             xs == ContentsOf(u)
  <2>1. a = [chunks |-> u, truncated |-> TRUE]
        BY <1>10 DEF Chunks!Limited
  <2>2. a.chunks = u /\ a.truncated = TRUE
    <3> HIDE DEF u
    <3> QED BY <2>1
  <2>3. MaxChunks < Len(r) /\ MaxChunks + 1 \in 1 .. Len(r)
        BY <1>1, <1>8, <1>10
  <2>4. Begins(ss, u, r, MaxChunks)
        BY <1>1, <1>3, <1>8, <2>3, CutBegins
  <2> HIDE DEF u
  <2>5. ChunkIs(doc, markdown, r[MaxChunks + 1])
        BY <1>3, <2>3 DEF ChunksAre
  <2>6. Held(r[MaxChunks + 1].content) # {}
        BY <2>5 DEF ChunkIs
  <2>7. /\ u \in Seq(ChunksOf(ss)) /\ Len(u) = MaxChunks
        /\ \A k \in 1 .. MaxChunks : k \in 1 .. Len(r) /\ u[k] = r[k]
        BY <2>4 DEF Begins
  <2>8. /\ Series(xs) /\ HeldBy(xs) \subseteq HeldBy(ps) /\ HeldBy(xs) # HeldBy(ps)
        /\ \A x \in HeldBy(xs), y \in HeldBy(ps) : Earlier(y, x) => y \in HeldBy(xs)
        BY <2>4, <2>6, Zenon DEF Begins
  <2>9. ChunksAre(doc, markdown, u)
        BY <1>3, <2>7 DEF ChunksAre
  <2>10. xs \in Seq(Seq(Spots))
         BY <2>7, ContentsJoin
  <2> HIDE DEF xs, ps, r
  <2>11. q # 0
         BY <1>4, <2>8
  <2>12. Chunks!IsPrefix(Chunks!Marks(Chunks!FlattenSeq(xs)), Chunks!Marks(t))
    <3>1. t \in Seq(Spots) /\ Sorted(t) /\ HeldBy(xs) \subseteq Held(t)
          /\ \A x \in HeldBy(xs), y \in Held(t) : Earlier(y, x) => y \in HeldBy(xs)
          BY <1>5, <2>8, <2>11
    <3> QED BY <2>8, <2>10, <3>1, MarksOfPieces
  <2>13. Chunks!Marks(Chunks!FlattenSeq(xs)) # Chunks!Marks(t)
    <3>1. t \in Seq(Spots) /\ Sorted(t) /\ HeldBy(xs) # Held(t)
          BY <1>5, <2>8, <2>11
    <3> QED BY <2>8, <2>10, <3>1, MarksOfPieces
  <2>14. WantedOf(doc, markdown) = Chunks!Marks(t) /\ AllOf(u) = Chunks!Marks(Chunks!FlattenSeq(xs))
         BY <1>4, <1>6, <1>7, <2>11 DEF xs
  <2>15. Chunks!IsPrefix(AllOf(u), WantedOf(doc, markdown)) /\ AllOf(u) # WantedOf(doc, markdown)
         BY <2>12, <2>13, <2>14
  <2> QED BY <2>2, <2>7, <2>9, <2>15
<1> QED BY <1>9, <1>10

\* The chunks of a document are right.
LEMMA ChunksAreCarried ==
  ASSUME NEW doc \in Chunks!Documents, NEW markdown \in BOOLEAN
  PROVE  Chunks!ChunksCarryDocument(doc, markdown)
<1> DEFINE ss == Chunks!SectionsOf(doc, markdown)
           a == Chunks!ChunkDocument(doc, markdown)
           e == << >>
<1>1. Sectioned(doc, markdown, ss)
      BY ChunksAreMade
<1>2. PICK c : Whole(doc, markdown, ss, c) /\ a = Chunks!Limited(c.chunks)
      BY ChunksAreMade
<1> HIDE DEF ss, a, e
<1>3. /\ a.chunks \in Seq(ChunksOf(ss)) /\ ChunksAre(doc, markdown, a.chunks)
      /\ a.truncated => /\ Len(a.chunks) = MaxChunks
                        /\ Chunks!IsPrefix(AllOf(a.chunks), WantedOf(doc, markdown))
                        /\ AllOf(a.chunks) # WantedOf(doc, markdown)
      /\ ~a.truncated => \/ AllOf(a.chunks) = WantedOf(doc, markdown)
                         \/ ~markdown /\ Chunks!Prose(doc) = {} /\ AllOf(a.chunks) = e
      BY <1>1, <1>2, ChunksHoldDocument DEF e
<1>4. AllOf(a.chunks) = Chunks!Marks(Chunks!FlattenSeq([n \in DOMAIN a.chunks |-> a.chunks[n].content]))
      BY DEF AllOf, ContentsOf
<1> DEFINE last == {i \in DOMAIN doc : i \in Chunks!Prose(doc) \/ (~markdown /\ doc[i].is = "heading")}
           end == IF last = {} THEN 0 ELSE CHOOSE i \in last : \A j \in last : j <= i
           want == IF end = 0 THEN << >> ELSE Chunks!Marks(Chunks!Text(doc, 1, end))
<1>5. want = WantedOf(doc, markdown)
  <2>1. last = LastOf(doc, markdown)
        BY DEF LastOf
  <2>2. \A i \in last : i # 0
    <3>1. DOMAIN doc = 1 .. Len(doc)
          BY LinesAre
    <3> QED BY <3>1
  <2>3. last # {} => end = EndIn(doc, markdown) /\ end \in last
    <3> SUFFICES ASSUME last # {}
                 PROVE  end = EndIn(doc, markdown) /\ end \in last
        OBVIOUS
    <3>1. Len(doc) \in Nat /\ DOMAIN doc = 1 .. Len(doc)
          BY LinesAre
    <3>2. last \in SUBSET (0 .. Len(doc))
          BY <3>1
    <3> HIDE DEF last
    <3>3. \E i \in last : \A j \in last : j <= i
          BY <3>1, <3>2, Greatest
    <3> QED BY <2>1, <3>3 DEF EndIn
  <2> HIDE DEF last, end
  <2>4. CASE last = {}
    <3>1. end = 0
          BY <2>4 DEF end
    <3> QED BY <2>1, <2>4, <3>1 DEF WantedOf
  <2>5. CASE last # {}
    <3>1. end # 0
          BY <2>2, <2>3, <2>5
    <3> QED BY <2>1, <2>3, <2>5, <3>1 DEF WantedOf
  <2> QED BY <2>4, <2>5
<1>6. ASSUME NEW n \in DOMAIN a.chunks
      PROVE  /\ Len(a.chunks[n].content) - Len(a.chunks[n].added) <= MaxRunes
             /\ \A k \in DOMAIN a.chunks[n].content :
                  LET i == a.chunks[n].content[k][1]
                  IN i \in Chunks!Prose(doc) =>
                       Chunks!ToSet(a.chunks[n].path)
                         = (IF markdown THEN {h \in DOMAIN doc : Chunks!Encloses(doc, h, i)} ELSE {})
      BY <1>3, ChunksAreRight, Zenon DEF WantOf
<1> DEFINE all == Chunks!Marks(Chunks!FlattenSeq([n \in DOMAIN a.chunks |-> a.chunks[n].content]))
<1>7. IF a.truncated THEN Len(a.chunks) = MaxChunks /\ Chunks!IsPrefix(all, want) /\ all # want
      ELSE all = want \/ (~markdown /\ Chunks!Prose(doc) = {} /\ all = << >>)
  <2>1. all = AllOf(a.chunks)
        BY <1>4
  <2> HIDE DEF all, want
  <2> QED BY <1>3, <1>5, <2>1 DEF e
<1>8. Chunks!AnswerCarries(doc, markdown, a)
      BY <1>6, <1>7, Zenon DEF Chunks!AnswerCarries
<1> QED BY <1>8 DEF Chunks!ChunksCarryDocument, a

-----------------------------------------------------------------------------
\* What is searched loses nothing of a document and invents nothing, and its links are
\* the files of its package that it names: for every document and every package
\* (ChunkDocument, ExtractMarkdownLinks).
THEOREM DocumentsAreCarried ==
  ASSUME Given("chunks") => input.x.doc \in Chunks!Documents /\ input.x.markdown \in BOOLEAN,
         Given("links") => input.x.path \in Seq(STRING) \ {<< >>} /\ input.x.doc \in Chunks!Documents
  PROVE  DocumentIsCarried
<1>1. Given("chunks") => Chunks!ChunksCarryDocument(input.x.doc, input.x.markdown)
      BY ChunksAreCarried
<1>2. Given("links") => Chunks!LinksStayInside(input.x.path, input.x.doc)
      BY LinksAreKept
<1> QED BY <1>1, <1>2 DEF DocumentIsCarried
=============================================================================
