------------------------ MODULE RetrievalIndex_proof ------------------------
(***************************************************************************)
(* Proofs about RetrievalIndex, and about MemoryProjection, which uses it: *)
(* for any keys, any number of concurrent calls, and any failures.         *)
(***************************************************************************)
EXTENDS MemoryProjection, TLAPS

\* Init establishes the invariant: no rows, no calls.
LEMMA InitIInv == Init => IInv
BY DEF Init, IInv, TypeOK, Rows, Calls, NoRow, NoCall, OwnOK, IndexedHasPoint, At

\* A call that gets or gives up its slot, and touches no row, preserves the
\* invariant.
LEMMA BeginIInv ==
  ASSUME IInv, NEW i \in Indexers, NEW k \in Keys, Begin(i, k)
  PROVE  IInv'
BY DEF Begin, IInv, TypeOK, Rows, Calls, OwnOK, IndexedHasPoint, At

LEMMA ReleaseIInv ==
  ASSUME IInv, NEW i \in Indexers, Release(i), UNCHANGED docs
  PROVE  IInv'
BY DEF Release, NoCall, IInv, TypeOK, Rows, Calls, OwnOK, IndexedHasPoint, At

\* Every other step changes at most one row, and at most the pc and the
\* ownership of one call.  r is the row afterwards, pc and own the call's.
LEMMA WriteIInv ==
  ASSUME IInv, NEW i \in Indexers, call[i].key \in Keys,
         NEW r \in Rows, docs' = [docs EXCEPT ![call[i].key] = r],
         NEW c \in Calls, call' = [call EXCEPT ![i] = c], c.key = call[i].key,
         r.status = "absent" => docs[call[i].key].status = "absent" /\ ~c.own,
         docs[call[i].key].point => r.point,
         r.status = "absent" => ~r.point,
         r.status = "indexed" => r.point,
         c.own /\ c.pc = "marking" => r.point
  PROVE  IInv'
<1> DEFINE k0 == call[i].key
<1> USE DEF IInv, TypeOK
<1>1. TypeOK'
      OBVIOUS
<1>2. docs'[k0] = r /\ \A k \in Keys \ {k0} : docs'[k] = docs[k]
      OBVIOUS
<1>3. call'[i] = c /\ \A j \in Indexers \ {i} : call'[j] = call[j]
      OBVIOUS
<1>4. \A k \in Keys : (docs'[k].status = "absent" => ~docs'[k].point)
                   /\ (docs'[k].status = "indexed" => docs'[k].point)
      BY <1>2 DEF IndexedHasPoint
<1>5. OwnOK(i)'
      BY <1>2, <1>3 DEF OwnOK
<1>6. ASSUME NEW j \in Indexers \ {i} PROVE OwnOK(j)'
  <2>1. OwnOK(j) /\ call'[j] = call[j] BY <1>3
  <2>2. CASE call[j].key # k0 BY <2>1, <2>2, <1>2 DEF OwnOK
  <2>3. CASE call[j].key = k0 BY <2>1, <2>3, <1>2 DEF OwnOK
  <2> QED BY <2>2, <2>3
<1>7. \A j \in Indexers : (~At(j, "idle") => call[j].key \in Keys)'
      BY <1>3 DEF At
<1> QED BY <1>1, <1>4, <1>5, <1>6, <1>7 DEF IndexedHasPoint

\* UpsertDocument keeps a row's point and never writes "indexed".
LEMMA UpsertIInv ==
  ASSUME IInv, NEW i \in Indexers, NEW from, NEW to,
         Upsert(i, from, to), from # "idle", to \in {"embedding", "storing"}
  PROVE  IInv'
<1> DEFINE r == [docs[call[i].key] EXCEPT !.status = "pending"]
           c == [call[i] EXCEPT !.pc = to, !.own = TRUE]
<1>1. call[i].key \in Keys BY DEF IInv, Upsert, At
<1>2. r \in Rows /\ r.point = docs[call[i].key].point /\ r.status = "pending"
      BY <1>1 DEF IInv, TypeOK, Rows
<1>3. docs' = [docs EXCEPT ![call[i].key] = r]
      BY DEF Upsert, Upserted
<1>4. c \in Calls /\ c.key = call[i].key /\ c.pc # "marking"
      BY DEF IInv, TypeOK, Calls
<1>5. call' = [call EXCEPT ![i] = c]
      BY DEF Upsert
<1> HIDE DEF r, c
<1> QED BY <1>1, <1>2, <1>3, <1>4, <1>5, WriteIInv

\* A call that goes on without touching its row.
LEMMA QuietIInv ==
  ASSUME IInv, NEW i \in Indexers, ~At(i, "idle"), UNCHANGED docs,
         NEW to \in {"rewriting", "reading", "failing", "done", "failed"}, To(i, to)
  PROVE  IInv'
<1> DEFINE r == docs[call[i].key]
           c == [call[i] EXCEPT !.pc = to]
<1>1. call[i].key \in Keys BY DEF IInv, At
<1>2. docs' = [docs EXCEPT ![call[i].key] = r] /\ r \in Rows
      BY <1>1 DEF IInv, TypeOK
<1>3. /\ c \in Calls /\ c.key = call[i].key /\ c.own = call[i].own
      /\ c.pc # "marking"
      BY DEF IInv, TypeOK, Calls
<1>4. call' = [call EXCEPT ![i] = c]
      BY DEF To
<1>5. r.status = "absent" => ~call[i].own /\ ~r.point
      BY <1>1 DEF IInv, OwnOK
<1>6. r.status = "indexed" => r.point
      BY <1>1 DEF IInv, IndexedHasPoint
<1> HIDE DEF c
<1> QED BY <1>1, <1>2, <1>3, <1>4, <1>5, <1>6, WriteIInv

LEMMA UpsertFailsIInv ==
  ASSUME IInv, NEW i \in Indexers, NEW from, UpsertFails(i, from), from # "idle"
  PROVE  IInv'
<1> DEFINE r == [docs[call[i].key] EXCEPT !.status = "pending"]
           c == [call[i] EXCEPT !.pc = "failed"]
<1>1. CASE UNCHANGED docs
      BY <1>1, QuietIInv DEF UpsertFails, At
<1>2. CASE Upserted(call[i].key)
  <2>1. call[i].key \in Keys BY DEF IInv, UpsertFails, At
  <2>2. r \in Rows /\ r.point = docs[call[i].key].point /\ r.status = "pending"
        BY <2>1 DEF IInv, TypeOK, Rows
  <2>3. docs' = [docs EXCEPT ![call[i].key] = r]
        BY <1>2 DEF Upserted
  <2>4. c \in Calls /\ c.key = call[i].key /\ c.pc # "marking"
        BY DEF IInv, TypeOK, Calls
  <2>5. call' = [call EXCEPT ![i] = c]
        BY DEF UpsertFails, To
  <2> HIDE DEF r, c
  <2> QED BY <2>1, <2>2, <2>3, <2>4, <2>5, WriteIInv
<1> QED BY <1>1, <1>2 DEF UpsertFails

\* A write by id meets the row the call owns, or none.
LEMMA OwnRowIInv ==
  ASSUME IInv, NEW i \in Indexers, ~At(i, "idle"), call[i].own, NEW r \in Rows,
         docs' = [docs EXCEPT ![call[i].key] = r],
         r.status # "absent", docs[call[i].key].point => r.point,
         r.status = "indexed" => r.point,
         NEW to \in {"marking", "reading", "failing", "failed"},
         To(i, to), to = "marking" => r.point
  PROVE  IInv'
<1> DEFINE c == [call[i] EXCEPT !.pc = to]
<1>1. call[i].key \in Keys BY DEF IInv, At
<1>2. c \in Calls /\ c.key = call[i].key /\ c.pc = to
      BY DEF IInv, TypeOK, Calls
<1>3. call' = [call EXCEPT ![i] = c]
      BY DEF To
<1> HIDE DEF c
<1> QED BY <1>1, <1>2, <1>3, WriteIInv

LEMMA StoreIInv ==
  ASSUME IInv, NEW i \in Indexers, Store(i) \/ StoreFails(i)
  PROVE  IInv'
<1> DEFINE r == [docs[call[i].key] EXCEPT !.point = TRUE]
<1>1. PICK to \in {"marking", "failing"} :
        To(i, to) /\ At(i, "storing") /\ (Stored(i) \/ (to = "failing" /\ UNCHANGED docs))
      BY DEF Store, StoreFails
<1> DEFINE c == [call[i] EXCEPT !.pc = to]
<1>2. CASE ~call[i].own /\ UNCHANGED docs
  <2>1. call[i].key \in Keys BY <1>1 DEF IInv, At
  <2>2. docs' = [docs EXCEPT ![call[i].key] = docs[call[i].key]]
        BY <1>2 DEF IInv, TypeOK
  <2>3. c \in Calls /\ c.key = call[i].key /\ c.own = call[i].own
        BY <1>1 DEF IInv, TypeOK, Calls
  <2>4. call' = [call EXCEPT ![i] = c] BY <1>1 DEF To
  <2>5. docs[call[i].key] \in Rows BY <2>1 DEF IInv, TypeOK
  <2> HIDE DEF c
  <2> QED BY <1>2, <2>1, <2>2, <2>3, <2>4, <2>5, WriteIInv DEF IInv, IndexedHasPoint
<1>3. CASE to = "failing" /\ UNCHANGED docs
      BY <1>1, <1>3, QuietIInv DEF At
<1>4. CASE call[i].own /\ Stored(i)
  <2>1. call[i].key \in Keys /\ docs[call[i].key].status # "absent"
        BY <1>4 DEF IInv, OwnOK
  <2>2. r \in Rows /\ r.point /\ r.status = docs[call[i].key].status
        BY <2>1 DEF IInv, TypeOK, Rows
  <2>3. docs' = [docs EXCEPT ![call[i].key] = r]
        BY <1>4 DEF Stored
  <2>4. ~At(i, "idle") BY <1>1 DEF At
  <2> QED BY <1>1, <1>4, <2>1, <2>2, <2>3, <2>4, OwnRowIInv
<1> QED BY <1>1, <1>2, <1>3, <1>4 DEF Stored

LEMMA MarkIInv ==
  ASSUME IInv, NEW i \in Indexers,
         MarkIndexed(i) \/ MarkIndexedFails(i) \/ MarkFailed(i)
  PROVE  IInv'
<1>1. PICK to \in {"reading", "failed"}, status \in {"indexed", "failed"} :
        /\ To(i, to) /\ ~At(i, "idle") /\ (Mark(i, status) \/ UNCHANGED docs)
        /\ status = "indexed" => At(i, "marking")
      BY DEF MarkIndexed, MarkIndexedFails, MarkFailed, At
<1> DEFINE r == [docs[call[i].key] EXCEPT !.status = status]
<1>2. CASE UNCHANGED docs
      BY <1>1, <1>2, QuietIInv
<1>3. CASE call[i].own /\ Mark(i, status)
  <2>1. call[i].key \in Keys /\ (At(i, "marking") => docs[call[i].key].point)
        BY <1>3 DEF IInv, OwnOK, At
  <2>2. r \in Rows /\ r.point = docs[call[i].key].point /\ r.status = status
        BY <2>1 DEF IInv, TypeOK, Rows
  <2>3. docs' = [docs EXCEPT ![call[i].key] = r]
        BY <1>3 DEF Mark
  <2> QED BY <1>1, <1>3, <2>1, <2>2, <2>3, OwnRowIInv
<1> QED BY <1>1, <1>2, <1>3 DEF Mark

\* A delete takes the rows from the calls that owned them.
LEMMA DeleteIInv ==
  ASSUME IInv, NEW S, Delete(S)
  PROVE  IInv'
<1>1. /\ \A k \in Keys : docs'[k] = IF k \in S THEN NoRow ELSE docs[k]
      /\ \A i \in Indexers : call'[i] = IF call[i].key \in S
                                       THEN [call[i] EXCEPT !.own = FALSE] ELSE call[i]
      BY DEF Delete
<1>2. TypeOK'
  <2>1. NoRow \in Rows BY DEF NoRow, Rows
  <2>2. \A i \in Indexers : [call[i] EXCEPT !.own = FALSE] \in Calls
        BY DEF IInv, TypeOK, Calls
  <2> QED BY <2>1, <2>2 DEF Delete, IInv, TypeOK
<1>3. \A k \in Keys : (docs'[k].status = "absent" => ~docs'[k].point)
                   /\ (docs'[k].status = "indexed" => docs'[k].point)
      BY <1>1 DEF NoRow, IInv, IndexedHasPoint
<1>4. ASSUME NEW i \in Indexers PROVE OwnOK(i)' /\ (~At(i, "idle") => call[i].key \in Keys)'
  <2>1. CASE call[i].key \in S
    <3>1. call'[i].own = FALSE /\ call'[i].key = call[i].key /\ call'[i].pc = call[i].pc
          BY <1>1, <2>1 DEF IInv, TypeOK, Calls
    <3> QED BY <3>1 DEF IInv, OwnOK, At
  <2>2. CASE call[i].key \notin S
    <3>1. call'[i] = call[i] BY <1>1, <2>2
    <3>2. call[i].key \in Keys => docs'[call[i].key] = docs[call[i].key]
          BY <1>1, <2>2
    <3> QED BY <3>1, <3>2 DEF IInv, OwnOK, At
  <2> QED BY <2>1, <2>2
<1> QED BY <1>2, <1>3, <1>4 DEF IInv, IndexedHasPoint

LEMMA StepIInv ==
  ASSUME IInv, [Next]_vars
  PROVE  IInv'
<1>1. ASSUME NEW i \in Indexers, CallStep(i) PROVE IInv'
  <2>1. CASE Register(i) \/ Rewrite(i)
        BY <2>1, UpsertIInv DEF Register, Rewrite
  <2>2. CASE RegisterFails(i) \/ RewriteFails(i)
        BY <2>2, UpsertFailsIInv DEF RegisterFails, RewriteFails
  <2>3. CASE Store(i) \/ StoreFails(i)
        BY <2>3, StoreIInv
  <2>4. CASE MarkIndexed(i) \/ MarkIndexedFails(i) \/ MarkFailed(i)
        BY <2>4, MarkIInv
  <2>5. CASE Embed(i) \/ EmbedFails(i) \/ Read(i) \/ ReadFails(i)
    <3>1. PICK to \in {"rewriting", "failing", "done", "failed"} :
            ~At(i, "idle") /\ UNCHANGED docs /\ To(i, to)
          BY <2>5 DEF Embed, EmbedFails, Read, ReadFails, At
    <3> QED BY <3>1, QuietIInv
  <2> QED BY <1>1, <2>1, <2>2, <2>3, <2>4, <2>5 DEF CallStep
<1>2. ASSUME NEW i \in Indexers, Return(i) \/ Abandon(i) PROVE IInv'
      BY <1>2, ReleaseIInv DEF Return, Abandon
<1>3. ASSUME NEW i \in Indexers, NEW k \in Keys, Begin(i, k) PROVE IInv'
      BY <1>3, BeginIInv
<1>4. ASSUME NEW S \in SUBSET Keys, Delete(S) PROVE IInv'
      BY <1>4, DeleteIInv
<1>5. CASE UNCHANGED vars
      BY <1>5 DEF vars, IInv, TypeOK, OwnOK, IndexedHasPoint, At
<1> QED BY <1>1, <1>2, <1>3, <1>4, <1>5 DEF Next

\* The invariant of Service.IndexDocument and the two deletes holds in every
\* reachable state, for any keys and any number of concurrent calls.
THEOREM Invariance == Spec => []IInv
<1>1. Init => IInv BY InitIInv
<1>2. IInv /\ [Next]_vars => IInv' BY StepIInv
<1> QED BY <1>1, <1>2, PTL DEF Spec

\* A row that says "indexed" has its own vector (Service.IndexDocument).
THEOREM IndexedAlwaysHasPoint == Spec => []IndexedHasPoint
<1>1. IInv => IndexedHasPoint BY DEF IInv
<1> QED BY <1>1, Invariance, PTL
-----------------------------------------------------------------------------
\* A step inside a call keeps its key and touches no other call and no other row.
LEMMA CallKeeps ==
  ASSUME TypeOK, NEW i \in Indexers, CallStep(i)
  PROVE  /\ call[i].pc \notin {"idle", "done", "failed"} /\ call'[i].pc # "idle"
         /\ call'[i].key = call[i].key
         /\ \A j \in Indexers \ {i} : call'[j] = call[j]
         /\ \A k \in Keys \ {call[i].key} : docs'[k] = docs[k]
<1>1. call \in [Indexers -> Calls] /\ docs \in [Keys -> Rows] BY DEF TypeOK
<1>2. ASSUME NEW to, To(i, to)
      PROVE  /\ call'[i].pc = to /\ call'[i].key = call[i].key
             /\ \A j \in Indexers \ {i} : call'[j] = call[j]
      BY <1>1, <1>2 DEF To, Calls
<1>3. ASSUME NEW to, call' = [call EXCEPT ![i].pc = to, ![i].own = TRUE]
      PROVE  /\ call'[i].pc = to /\ call'[i].key = call[i].key
             /\ \A j \in Indexers \ {i} : call'[j] = call[j]
      BY <1>1, <1>3 DEF Calls
<1>4. ASSUME Upserted(call[i].key) \/ Stored(i) \/ (\E s \in {"indexed", "failed"} : Mark(i, s))
      PROVE  \A k \in Keys \ {call[i].key} : docs'[k] = docs[k]
      BY <1>1, <1>4 DEF Upserted, Stored, Mark
<1>5. CASE Register(i) \/ Rewrite(i)
      BY <1>3, <1>4, <1>5 DEF Register, Rewrite, Upsert, At
<1>6. CASE RegisterFails(i) \/ RewriteFails(i)
      BY <1>2, <1>4, <1>6 DEF RegisterFails, RewriteFails, UpsertFails, At
<1>7. CASE Embed(i) \/ EmbedFails(i) \/ Store(i) \/ StoreFails(i)
      BY <1>2, <1>4, <1>7 DEF Embed, EmbedFails, Store, StoreFails, At
<1>8. CASE MarkIndexed(i) \/ MarkIndexedFails(i) \/ MarkFailed(i)
      BY <1>2, <1>4, <1>8 DEF MarkIndexed, MarkIndexedFails, MarkFailed, At
<1>9. CASE Read(i) \/ ReadFails(i)
      BY <1>2, <1>9 DEF Read, ReadFails, At
<1> QED BY <1>5, <1>6, <1>7, <1>8, <1>9 DEF CallStep

\* A call that reads its row back no longer writes it, and only the marks make a row
\* of a call found.
LEMMA CallFinds ==
  ASSUME TypeOK, NEW i \in Indexers, CallStep(i), NEW k \in Keys, call[i].key = k,
         Found(k) => call[i].pc = "reading"
  PROVE  /\ Found(k)' => call'[i].pc \in {"reading", "done", "failed"}
         /\ Found(k) => docs' = docs
<1>1. call \in [Indexers -> Calls] /\ docs \in [Keys -> Rows] BY DEF TypeOK
<1>2. ASSUME NEW to, To(i, to) PROVE call'[i].pc = to /\ call'[i].key = k
      BY <1>1, <1>2 DEF To, Calls
<1>3. \A e \in Keys : Found(e) <=> docs[e].status \in {"indexed", "failed"}
      BY DEF Found, Lexical, Semantic
<1>4. \A e \in Keys : Found(e)' <=> docs'[e].status \in {"indexed", "failed"}
      BY DEF Found, Lexical, Semantic
<1>5. ASSUME Upserted(k) PROVE ~Found(k)'
      BY <1>1, <1>4, <1>5 DEF Upserted
<1>6. ASSUME Stored(i) PROVE docs'[k].status = docs[k].status
      BY <1>1, <1>6 DEF Stored
<1>7. docs[k] \in Rows
      BY <1>1
<1>8. CASE Register(i) \/ Rewrite(i)
      BY <1>5, <1>7, <1>8 DEF Register, Rewrite, Upsert, At
<1>9. CASE RegisterFails(i) \/ RewriteFails(i)
      BY <1>2, <1>9 DEF RegisterFails, RewriteFails, UpsertFails, At
<1>10. CASE Embed(i) \/ EmbedFails(i) \/ Store(i) \/ StoreFails(i)
       BY <1>3, <1>4, <1>6, <1>7, <1>10 DEF Embed, EmbedFails, Store, StoreFails, At
<1>11. CASE MarkIndexed(i) \/ MarkIndexedFails(i) \/ MarkFailed(i)
       BY <1>2, <1>11 DEF MarkIndexed, MarkIndexedFails, MarkFailed, At
<1>12. CASE Read(i) \/ ReadFails(i)
       BY <1>2, <1>12 DEF Read, ReadFails, At
<1> QED BY <1>8, <1>9, <1>10, <1>11, <1>12 DEF CallStep

\* What a delete does to the calls and to the rows.
LEMMA DeleteKeeps ==
  ASSUME TypeOK, NEW S, Delete(S)
  PROVE  /\ \A i \in Indexers : call'[i].pc = call[i].pc /\ call'[i].key = call[i].key
         /\ \A k \in Keys \ S : docs'[k] = docs[k]
         /\ \A k \in Keys \cap S : docs'[k].status = "absent"
BY DEF TypeOK, Delete, Calls, NoRow

\* What a request's next step may do to its own call, to the other calls and to the rows.
LEMMA IndexKeeps ==
  ASSUME IInv, NEW i \in Indexers, CallStep(i) \/ Return(i) \/ Abandon(i)
  PROVE  /\ \A j \in Indexers \ {i} : call'[j] = call[j]
         /\ \/ CallStep(i) /\ call'[i].key = call[i].key /\ call[i].key \in Keys
               /\ call[i].pc \notin {"done", "failed"}
            \/ docs' = docs /\ call'[i] = NoCall
         /\ \A k \in Keys \ {call[i].key} : docs'[k] = docs[k]
<1>1. call \in [Indexers -> Calls] /\ docs \in [Keys -> Rows] /\ TypeOK
      BY DEF IInv, TypeOK
<1>2. CASE CallStep(i)
  <2>1. /\ call[i].pc \notin {"idle", "done", "failed"} /\ call'[i].key = call[i].key
        /\ \A j \in Indexers \ {i} : call'[j] = call[j]
        /\ \A k \in Keys \ {call[i].key} : docs'[k] = docs[k]
        BY <1>1, <1>2, CallKeeps
  <2> QED BY <1>2, <2>1 DEF IInv, At
<1>3. CASE Return(i) \/ Abandon(i)
      BY <1>1, <1>3 DEF Return, Abandon, Release
<1> QED BY <1>2, <1>3

\* The projection after a request's step: it leaves the rows of uncommitted entries
\* alone, and finds its own row only once it has stopped writing it.
LEMMA IndexMemoryInv ==
  ASSUME MemoryInv, NEW i \in Callers, IndexStep(i)
  PROVE  (ProjectionIsOfEntries /\ OneCall /\ NotYetFound)'
<1>1. /\ \A j \in Indexers \ {i} : call'[j] = call[j]
      /\ \/ CallStep(i) /\ call'[i].key = call[i].key /\ call[i].key \in Keys
            /\ call[i].pc \notin {"done", "failed"}
         \/ docs' = docs /\ call'[i] = NoCall
      /\ \A k \in Keys \ {call[i].key} : docs'[k] = docs[k]
      BY IndexKeeps DEF MemoryInv, IndexStep, Callers
<1>2. \A j \in Indexers : call'[j].key \in Keys => call'[j].key = call[j].key
      BY <1>1, NoKeyAssumption DEF NoCall
<1>3. entry' = entry /\ removing' = removing /\ warned' = warned
      BY DEF IndexStep
<1>4. OneCall'
      BY <1>2, <1>3 DEF MemoryInv, OneCall, Entries, Callers
<1>5. ProjectionIsOfEntries'
  <2>1. EntriesOK'
        BY <1>3 DEF MemoryInv, ProjectionIsOfEntries, EntriesOK
  <2>2. ASSUME NEW e \in Keys, entry[e] = "absent"
        PROVE  docs'[e].status = "absent" /\ \A j \in Indexers : call'[j].key # e
    <3>1. \A j \in Indexers : call[j].key # e
          BY <2>2 DEF MemoryInv, OneCall, Entries, Callers
    <3>2. docs'[e] = docs[e]
          BY <1>1, <3>1 DEF Callers
    <3>3. docs[e].status = "absent"
          BY <2>2 DEF MemoryInv, ProjectionIsOfEntries, Entries
    <3> QED BY <1>2, <3>1, <3>2, <3>3
  <2> QED BY <1>3, <2>1, <2>2 DEF ProjectionIsOfEntries, Entries, Callers, Indexing, InFlight
<1>6. NotYetFound'
  <2> SUFFICES ASSUME NEW j \in Indexers, NEW k \in Keys, call'[j].key = k, Found(k)'
               PROVE  call'[j].pc \in {"reading", "done", "failed"}
      BY DEF NotYetFound, Callers, Entries
  <2>1. call[j].key = k BY <1>2
  <2>2. Found(k) => call[j].pc \in {"reading", "done", "failed"}
        BY <2>1 DEF MemoryInv, NotYetFound, Callers, Entries
  <2>3. CASE j = i
    <3>1. CallStep(i) /\ call[i].pc \notin {"done", "failed"}
          BY <1>1, <2>3, NoKeyAssumption DEF NoCall
    <3>2. TypeOK BY DEF MemoryInv, IInv
    <3> QED BY <2>1, <2>2, <2>3, <3>1, <3>2, CallFinds DEF Callers
  <2>4. CASE j # i
    <3>1. docs'[k] = docs[k]
      <4>1. CASE call[i].key = k
            BY <2>1, <2>4, <4>1 DEF MemoryInv, OneCall, Callers, Entries
      <4> QED BY <1>1, <4>1
    <3>2. Found(k)
          BY <3>1 DEF Found, Lexical, Semantic
    <3> QED BY <1>1, <2>2, <2>4, <3>2
  <2> QED BY <2>3, <2>4
<1> QED BY <1>4, <1>5, <1>6

\* A delete of superseded entries takes nothing from another's projection, and
\* leaves every call its key.
LEMMA DeleteMemoryInv ==
  ASSUME MemoryInv, NEW S \in SUBSET Entries, Delete(S), \A e \in S : entry[e] # "absent",
         entry' = entry, EntriesOK'
  PROVE  (ProjectionIsOfEntries /\ OneCall /\ NotYetFound)'
<1>1. /\ \A i \in Indexers : call'[i].pc = call[i].pc /\ call'[i].key = call[i].key
      /\ \A k \in Keys \ S : docs'[k] = docs[k]
      /\ \A k \in Keys \cap S : docs'[k].status = "absent" /\ ~Found(k)'
  <2>1. TypeOK BY DEF MemoryInv, IInv
  <2> QED BY <2>1, DeleteKeeps DEF Found, Lexical, Semantic
<1>2. ProjectionIsOfEntries'
      BY <1>1 DEF MemoryInv, ProjectionIsOfEntries, Indexing, InFlight, Entries, Callers
<1>3. OneCall'
      BY <1>1 DEF MemoryInv, OneCall, Entries, Callers
<1>4. NotYetFound'
  <2> SUFFICES ASSUME NEW j \in Indexers, NEW k \in Keys, call'[j].key = k, Found(k)'
               PROVE  call'[j].pc \in {"reading", "done", "failed"}
      BY DEF NotYetFound, Callers, Entries
  <2>1. docs'[k] = docs[k] BY <1>1
  <2>2. Found(k) BY <2>1 DEF Found, Lexical, Semantic
  <2> QED BY <1>1, <2>2 DEF MemoryInv, NotYetFound, Callers, Entries
<1> QED BY <1>2, <1>3, <1>4

\* CreateEntry begins the one call its entry will have.
LEMMA CreateMemoryInv ==
  ASSUME MemoryInv, NEW i \in Callers, NEW e \in Entries, CreateEntry(i, e)
  PROVE  (ProjectionIsOfEntries /\ OneCall /\ NotYetFound)'
<1>1. /\ \A j \in Indexers \ {i} : call'[j] = call[j]
      /\ call'[i].key = e /\ docs' = docs /\ entry[e] = "absent"
      BY DEF MemoryInv, IInv, TypeOK, CreateEntry, Begin, Callers
<1>2. entry' = [entry EXCEPT ![e] = "active"] /\ removing' = removing /\ warned' = warned
      BY DEF CreateEntry
<1>3. EntriesOK'
      BY <1>1, <1>2 DEF MemoryInv, ProjectionIsOfEntries, EntriesOK
<1>4. \A d \in Entries \ {e} : entry'[d] = entry[d]
      BY <1>2 DEF MemoryInv, ProjectionIsOfEntries, EntriesOK
<1>5. entry'[e] = "active"
      BY <1>2 DEF MemoryInv, ProjectionIsOfEntries, EntriesOK
<1>6. \A j \in Indexers : call[j].key # e
      BY <1>1 DEF MemoryInv, OneCall, Callers
<1>7. ProjectionIsOfEntries'
      BY <1>1, <1>3, <1>4, <1>5
      DEF MemoryInv, ProjectionIsOfEntries, Indexing, InFlight, Callers
<1>8. OneCall'
      BY <1>1, <1>4, <1>5, <1>6 DEF MemoryInv, OneCall, Callers
<1>9. ~Found(e)
      BY <1>1 DEF MemoryInv, ProjectionIsOfEntries, Found, Lexical, Semantic
<1>10. NotYetFound'
  <2>1. \A k \in Keys : Found(k)' <=> Found(k)
        BY <1>1 DEF Found, Lexical, Semantic
  <2> SUFFICES ASSUME NEW j \in Indexers, NEW k \in Keys, call'[j].key = k, Found(k)'
               PROVE  call'[j].pc \in {"reading", "done", "failed"}
      BY DEF NotYetFound, Callers, Entries
  <2> QED BY <1>1, <1>9, <2>1 DEF MemoryInv, NotYetFound, Callers, Entries
<1> QED BY <1>7, <1>8, <1>10

\* An entry with no leftover to account for gets none: only a call with an insert to
\* come, or with a row of its own, could write one.
LEMMA LeftoverStep ==
  ASSUME MemoryInv, MemoryNext
  PROVE  LeftoverInv'
<1>1. IInv /\ EntriesOK /\ OneCall /\ LeftoverInv /\ TypeOK /\ Entries = Keys /\ Callers = Indexers
      BY DEF MemoryInv, ProjectionIsOfEntries, IInv, Entries, Callers
<1> SUFFICES ASSUME NEW e \in Entries, entry'[e] = "superseded",
                    e \notin removing' \cup warned' \cup early'
             PROVE  docs'[e].status = "absent" /\ ~Inserting(e)'
    BY <1>1 DEF LeftoverInv, Entries
<1>2. ASSUME NEW i \in Callers, IndexStep(i) PROVE docs'[e].status = "absent" /\ ~Inserting(e)'
  <2>1. docs[e].status = "absent" /\ ~Inserting(e)
        BY <1>1, <1>2 DEF IndexStep, LeftoverInv
  <2>2. /\ \A j \in Indexers \ {i} : call'[j] = call[j]
        /\ \/ CallStep(i) /\ call'[i].key = call[i].key
           \/ docs' = docs /\ call'[i] = NoCall
        /\ \A k \in Keys \ {call[i].key} : docs'[k] = docs[k]
        BY <1>1, <1>2, IndexKeeps DEF IndexStep
  <2>3. CASE call[i].key # e
    <3>1. docs'[e] = docs[e] BY <1>1, <2>2, <2>3
    <3>2. call'[i].key # e BY <1>1, <2>2, <2>3, NoKeyAssumption DEF NoCall
    <3> QED BY <1>1, <2>1, <2>2, <3>1, <3>2 DEF Inserting
  <2>4. CASE call[i].key = e /\ docs' = docs /\ call'[i] = NoCall
        BY <1>1, <2>1, <2>2, <2>4, NoKeyAssumption DEF Inserting, NoCall
  <2>5. CASE call[i].key = e /\ CallStep(i)
    <3>1. call[i].pc \notin {"registering", "embedding", "rewriting"}
          BY <1>1, <2>1, <2>5 DEF Inserting
    <3>2. ~call[i].own
          BY <1>1, <2>1, <2>5 DEF IInv, OwnOK
    <3>3. docs' = docs /\ call'[i].pc \in {"marking", "reading", "failing", "failed", "done"}
      <4>1. /\ i \in Indexers /\ call[i].own = FALSE /\ call \in [Indexers -> Calls]
            /\ \A pc : To(i, pc) => call'[i].pc = pc
            BY <1>1, <3>2 DEF TypeOK, To, Calls
      <4>2. ~Register(i) /\ ~RegisterFails(i) /\ ~Embed(i) /\ ~EmbedFails(i)
            /\ ~Rewrite(i) /\ ~RewriteFails(i)
            BY <3>1 DEF Register, RegisterFails, Embed, EmbedFails, Rewrite, RewriteFails,
                        Upsert, UpsertFails, At
      <4>3. CASE Store(i) \/ StoreFails(i)
            BY <4>1, <4>3 DEF Store, StoreFails, Stored
      <4>4. CASE MarkIndexed(i) \/ MarkIndexedFails(i) \/ MarkFailed(i)
            BY <4>1, <4>4 DEF MarkIndexed, MarkIndexedFails, MarkFailed, Mark
      <4>5. CASE Read(i) \/ ReadFails(i)
            BY <4>1, <4>5 DEF Read, ReadFails
      <4> QED BY <2>5, <4>2, <4>3, <4>4, <4>5 DEF CallStep
    <3> QED BY <1>1, <2>1, <2>2, <3>3 DEF Inserting
  <2> QED BY <2>2, <2>3, <2>4, <2>5
<1>3. ASSUME NEW i \in Callers, NEW d \in Entries, CreateEntry(i, d)
      PROVE  docs'[e].status = "absent" /\ ~Inserting(e)'
  <2>1. d # e BY <1>1, <1>3 DEF CreateEntry, EntriesOK
  <2>2. docs' = docs /\ call'[i].key = d /\ \A j \in Indexers \ {i} : call'[j] = call[j]
        BY <1>1, <1>3 DEF CreateEntry, Begin, TypeOK
  <2>3. entry'[e] = entry[e] /\ UNCHANGED <<removing, warned, early>>
        BY <1>1, <1>3, <2>1 DEF CreateEntry, EntriesOK
  <2>4. docs[e].status = "absent" /\ ~Inserting(e)
        BY <1>1, <2>3 DEF LeftoverInv
  <2> QED BY <1>1, <2>1, <2>2, <2>4 DEF Inserting
<1>4. ASSUME NEW d \in Entries, Supersede(d) PROVE docs'[e].status = "absent" /\ ~Inserting(e)'
  <2>1. d # e BY <1>4 DEF Supersede
  <2>2. entry'[e] = entry[e] /\ e \notin removing \cup warned \cup early
        BY <1>1, <1>4, <2>1 DEF Supersede, EntriesOK
  <2> QED BY <1>1, <1>4, <2>2 DEF LeftoverInv, Supersede, Inserting
<1>5. ASSUME NEW d \in Entries, RemoveProjection(d) \/ RemoveFails(d)
      PROVE  docs'[e].status = "absent" /\ ~Inserting(e)'
  <2>1. CASE d = e
    <3>1. RemoveProjection(e) BY <1>5, <2>1 DEF RemoveFails
    <3>2. ~Inserting(e) BY <3>1 DEF RemoveProjection, Early
    <3>3. docs'[e].status = "absent"
          BY <1>1, <3>1, DeleteKeeps DEF RemoveProjection
    <3>4. \A j \in Indexers : call'[j].pc = call[j].pc /\ call'[j].key = call[j].key
          BY <1>1, <3>1, DeleteKeeps DEF RemoveProjection
    <3> QED BY <1>1, <3>2, <3>3, <3>4 DEF Inserting
  <2>2. CASE d # e
    <3>1. entry'[e] = entry[e] /\ e \notin removing \cup warned \cup early
          BY <1>5, <2>2 DEF RemoveProjection, RemoveFails, Early
    <3>2. docs[e].status = "absent" /\ ~Inserting(e)
          BY <1>1, <1>5, <3>1 DEF LeftoverInv, RemoveProjection, RemoveFails
    <3>3. CASE Delete({d})
      <4>1. \A j \in Indexers : call'[j].pc = call[j].pc /\ call'[j].key = call[j].key
            BY <1>1, <3>3, DeleteKeeps
      <4>2. docs'[e] = docs[e]
            BY <1>1, <2>2, <3>3, DeleteKeeps
      <4> QED BY <1>1, <3>2, <4>1, <4>2 DEF Inserting
    <3>4. CASE docs' = docs /\ call' = call
          BY <3>2, <3>4 DEF Inserting
    <3> QED BY <1>5, <3>3, <3>4 DEF RemoveProjection, RemoveFails
  <2> QED BY <2>1, <2>2
<1> QED BY <1>2, <1>3, <1>4, <1>5 DEF MemoryNext

\* Every step of a memory request keeps its entry's one call and its projection, and
\* what there is of it to account for.
LEMMA StepMemoryInv ==
  ASSUME MemoryInv, [MemoryNext]_memory
  PROVE  MemoryInv'
<1>1. IInv'
  <2>1. [Next]_vars
        BY DEF MemoryNext, memory, IndexStep, CreateEntry, Supersede, RemoveProjection,
               RemoveFails, Next, vars, Entries, Callers
  <2> QED BY <2>1, StepIInv DEF MemoryInv
<1>0. LeftoverInv'
  <2>1. CASE UNCHANGED memory
        BY <2>1 DEF memory, MemoryInv, LeftoverInv, Inserting
  <2> QED BY <2>1, LeftoverStep
<1>2. EntriesOK BY DEF MemoryInv, ProjectionIsOfEntries
<1>3. ASSUME NEW i \in Callers, IndexStep(i) PROVE MemoryInv'
      BY <1>0, <1>1, <1>3, IndexMemoryInv DEF MemoryInv
<1>4. ASSUME NEW i \in Callers, NEW e \in Entries, CreateEntry(i, e) PROVE MemoryInv'
      BY <1>0, <1>1, <1>4, CreateMemoryInv DEF MemoryInv
<1>5. ASSUME NEW e \in Entries, Supersede(e) PROVE MemoryInv'
  <2>1. /\ docs' = docs /\ call' = call
        /\ \A d \in Entries : entry'[d] = "absent" <=> entry[d] = "absent"
        BY <1>2, <1>5 DEF Supersede, EntriesOK
  <2>2. EntriesOK'
        BY <1>2, <1>5 DEF Supersede, EntriesOK
  <2>3. ProjectionIsOfEntries'
        BY <2>1, <2>2 DEF MemoryInv, ProjectionIsOfEntries, Indexing, InFlight
  <2>4. OneCall' /\ NotYetFound'
        BY <2>1 DEF MemoryInv, OneCall, NotYetFound, Found, Lexical, Semantic
  <2> QED BY <1>0, <1>1, <2>3, <2>4 DEF MemoryInv
<1>6. ASSUME NEW e \in Entries, RemoveProjection(e) \/ RemoveFails(e) PROVE MemoryInv'
  <2>1. EntriesOK' /\ entry' = entry /\ entry[e] # "absent"
        BY <1>2, <1>6 DEF RemoveProjection, RemoveFails, EntriesOK
  <2>2. CASE Delete({e})
        BY <1>0, <1>1, <2>1, <2>2, DeleteMemoryInv DEF MemoryInv
  <2>3. CASE docs' = docs /\ call' = call
    <3>1. ProjectionIsOfEntries'
          BY <2>1, <2>3 DEF MemoryInv, ProjectionIsOfEntries, Indexing, InFlight
    <3>2. OneCall' /\ NotYetFound'
          BY <2>1, <2>3 DEF MemoryInv, OneCall, NotYetFound, Found, Lexical, Semantic
    <3> QED BY <1>0, <1>1, <3>1, <3>2 DEF MemoryInv
  <2> QED BY <1>6, <2>2, <2>3 DEF RemoveProjection, RemoveFails
<1>7. CASE UNCHANGED memory
      BY <1>0, <1>1, <1>7 DEF memory, MemoryInv, ProjectionIsOfEntries, EntriesOK, Indexing, InFlight,
                        OneCall, NotYetFound, Found, Lexical, Semantic
<1> QED BY <1>3, <1>4, <1>5, <1>6, <1>7 DEF MemoryNext

\* The invariant of the durable memories and their projection, for any entries, any
\* number of requests, and failures and process deaths anywhere.
THEOREM MemoryInvariance == MemorySpec => []MemoryInv
<1>1. MemoryInit => MemoryInv
  <2> SUFFICES ASSUME MemoryInit PROVE MemoryInv
      OBVIOUS
  <2>1. IInv BY InitIInv DEF MemoryInit
  <2> QED BY <2>1, NoKeyAssumption
      DEF MemoryInit, Init, MemoryInv, ProjectionIsOfEntries, EntriesOK, Indexing, InFlight,
          OneCall, NotYetFound, LeftoverInv, NoRow, NoCall, Entries, Callers
<1>2. MemoryInv /\ [MemoryNext]_memory => MemoryInv' BY StepMemoryInv
<1> QED BY <1>1, <1>2, PTL DEF MemorySpec

\* Nothing is found, or about to be, for a memory that was not committed, and only
\* what was superseded is taken out (the repository commits before Service indexes).
THEOREM ProjectionOfEntries == MemorySpec => []ProjectionIsOfEntries
<1>1. MemoryInv => ProjectionIsOfEntries BY DEF MemoryInv
<1> QED BY <1>1, MemoryInvariance, PTL

\* An active memory that was ever searchable stays searchable (MemoryProjection).
THEOREM ActiveEntriesStayFound == MemorySpec => ActiveStaysFound
<1>1. MemoryInv /\ [MemoryNext]_memory
        => [\A e \in Hits : entry'[e] = "active" => e \in Hits']_memory
  <2> SUFFICES ASSUME MemoryInv, MemoryNext, NEW e \in Hits, entry'[e] = "active"
               PROVE  e \in Hits'
      OBVIOUS
  <2>1. e \in Keys /\ Found(e) /\ entry[e] = "active" BY DEF Hits, Entries
  <2>2. docs'[e] = docs[e]
    <3>1. ASSUME NEW i \in Callers, IndexStep(i) PROVE docs'[e] = docs[e]
      <4>1. call[i].key = e => call[i].pc \in {"reading", "done", "failed"}
            BY <2>1 DEF MemoryInv, NotYetFound, Entries
      <4>2. \/ CallStep(i) /\ call[i].pc \notin {"done", "failed"}
            \/ docs' = docs
            BY <3>1, IndexKeeps DEF MemoryInv, IndexStep, Callers
      <4>3. call[i].key # e => docs'[e] = docs[e]
            BY <2>1, <3>1, IndexKeeps DEF MemoryInv, IndexStep, Callers
      <4>4. CASE call[i].key = e /\ docs' # docs
        <5>1. call[i].pc = "reading" BY <4>1, <4>2, <4>4
        <5> QED BY <2>1, <4>2, <4>4, <5>1, CallFinds DEF MemoryInv, IInv, Callers
      <4> QED BY <4>3, <4>4
    <3>2. ASSUME NEW i \in Callers, NEW d \in Entries, CreateEntry(i, d) PROVE docs'[e] = docs[e]
          BY <3>2 DEF CreateEntry, Begin
    <3>3. ASSUME NEW d \in Entries, RemoveProjection(d) \/ RemoveFails(d)
          PROVE  docs'[e] = docs[e]
      <4>1. d # e
            BY <2>1, <3>3 DEF MemoryInv, ProjectionIsOfEntries, EntriesOK, RemoveProjection, RemoveFails
      <4> QED BY <2>1, <3>3, <4>1, DeleteKeeps
              DEF MemoryInv, IInv, RemoveProjection, RemoveFails
    <3>4. ASSUME NEW d \in Entries, Supersede(d) PROVE docs'[e] = docs[e]
          BY <3>4 DEF Supersede
    <3> QED BY <3>1, <3>2, <3>3, <3>4 DEF MemoryNext
  <2>3. Found(e)' BY <2>1, <2>2 DEF Found, Lexical, Semantic
  <2> QED BY <2>1, <2>3 DEF Hits, Entries
<1> QED BY <1>1, MemoryInvariance, PTL DEF MemorySpec, ActiveStaysFound

\* What a superseded entry leaves in the projection is accounted for (SupersedeEntry,
\* indexEntry): owed, reported, or deleted before its own indexing had inserted it.
THEOREM LeftoversKnown == MemorySpec => []LeftoversAreKnown
<1>1. MemoryInv => LeftoversAreKnown
      BY DEF MemoryInv, LeftoverInv, LeftoversAreKnown, Leftover
<1> QED BY <1>1, MemoryInvariance, PTL
=============================================================================
