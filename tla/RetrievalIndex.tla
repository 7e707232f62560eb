--------------------------- MODULE RetrievalIndex ---------------------------
(***************************************************************************)
(* The retrieval projection: rows of retrieval_documents in Postgres and   *)
(* the points they own in Qdrant (internal/retrieval).  IndexDocument is a *)
(* sequence of independent calls to Postgres, the embedding provider and   *)
(* Qdrant, without a transaction around them; other calls for the same     *)
(* key, and deletes, come in between.                                      *)
(***************************************************************************)
CONSTANTS
  Keys,       \* (namespace, source_type, source_id, chunk_key) of one account
  Indexers,   \* goroutines that call IndexDocument
  NoKey,      \* the key of a goroutine that is not in a call
  MayFail     \* may calls fail, answers get lost and processes die?

ASSUME NoKeyAssumption == NoKey \notin Keys
ASSUME MayFailAssumption == MayFail \in BOOLEAN

VARIABLES
  docs,   \* the row of each key, and whether its qdrant_point_id has a point
  call    \* the IndexDocument call of each goroutine

Rows == [status : {"absent", "pending", "failed", "indexed"}, point : BOOLEAN]

\* A deleted row takes its id and its point id with it: a later insert draws
\* new ones, and the orphaned point never hydrates again.
NoRow == [status |-> "absent", point |-> FALSE]

\* own: the row whose id UpsertDocument returned to this call still exists.
Calls == [pc : {"idle", "registering", "embedding", "rewriting", "storing",
                "marking", "reading", "failing", "done", "failed"},
          key : Keys \cup {NoKey}, own : BOOLEAN]

NoCall == [pc |-> "idle", key |-> NoKey, own |-> FALSE]

Init == /\ docs = [k \in Keys |-> NoRow]
        /\ call = [i \in Indexers |-> NoCall]

At(i, pc) == call[i].pc = pc
To(i, pc) == call' = [call EXCEPT ![i].pc = pc]

InFlight(i, k) == call[i].key = k /\ call[i].pc \notin {"done", "failed"}

Begin(i, k) ==
  /\ At(i, "idle")
  /\ call' = [call EXCEPT ![i] = [pc |-> "registering", key |-> k, own |-> FALSE]]
  /\ UNCHANGED docs

\* UpsertDocument: insert, or overwrite the row in place; pending either way.
Upserted(k) == docs' = [docs EXCEPT ![k].status = "pending"]

Upsert(i, from, to) ==
  /\ At(i, from)
  /\ Upserted(call[i].key)
  /\ call' = [call EXCEPT ![i].pc = to, ![i].own = TRUE]

\* An UpsertDocument that reports an error, with or without its effect.  Nobody
\* marks the row.
UpsertFails(i, from) ==
  /\ MayFail /\ At(i, from)
  /\ UNCHANGED docs \/ Upserted(call[i].key)
  /\ To(i, "failed")

Register(i)      == Upsert(i, "registering", "embedding")
RegisterFails(i) == UpsertFails(i, "registering")

\* Embed and EnsureCollection.
Embed(i)      == At(i, "embedding") /\ To(i, "rewriting") /\ UNCHANGED docs
EmbedFails(i) == MayFail /\ At(i, "embedding") /\ To(i, "failing") /\ UNCHANGED docs

\* The second UpsertDocument records the vector's dimension.  A row deleted
\* since the first one is inserted again.
Rewrite(i)      == Upsert(i, "rewriting", "storing")
RewriteFails(i) == UpsertFails(i, "rewriting")

\* Mutants: the row and the point are addressed by the key, not by the row's id.
MarkKey(i, status) == docs' = [docs EXCEPT ![call[i].key].status = status]
StoredKey(i)       == docs' = [docs EXCEPT ![call[i].key].point = TRUE]

\* Writes to the row by its id: a row deleted since then is not matched.
Mark(i, status) ==
  docs' = IF call[i].own THEN [docs EXCEPT ![call[i].key].status = status] ELSE docs

\* The point by the row's point id: once the row is gone, a point of no row.
Stored(i) ==
  docs' = IF call[i].own THEN [docs EXCEPT ![call[i].key].point = TRUE] ELSE docs

Store(i)      == At(i, "storing") /\ Stored(i) /\ To(i, "marking")
StoreFails(i) == /\ MayFail /\ At(i, "storing")
                 /\ UNCHANGED docs \/ Stored(i)
                 /\ To(i, "failing")

MarkIndexed(i)      == At(i, "marking") /\ Mark(i, "indexed") /\ To(i, "reading")
MarkIndexedFails(i) == /\ MayFail /\ At(i, "marking")
                       /\ UNCHANGED docs \/ Mark(i, "indexed")
                       /\ To(i, "failed")

\* MarkDocumentFailed, on the context of the call that just failed; its own
\* error is dropped.
MarkFailed(i) ==
  /\ At(i, "failing")
  /\ Mark(i, "failed") \/ UNCHANGED docs
  /\ To(i, "failed")

\* GetDocument finds no row if it was deleted.
Read(i)      == At(i, "reading") /\ To(i, IF call[i].own THEN "done" ELSE "failed")
                /\ UNCHANGED docs
ReadFails(i) == MayFail /\ At(i, "reading") /\ To(i, "failed") /\ UNCHANGED docs

\* The caller has its answer, or died.
Release(i) == call' = [call EXCEPT ![i] = NoCall]

Return(i)  == call[i].pc \in {"done", "failed"} /\ Release(i) /\ UNCHANGED docs
Abandon(i) == MayFail /\ ~At(i, "idle") /\ Release(i) /\ UNCHANGED docs

\* DeleteDocumentsByMetadata and DeleteDocumentChunksOutsideKeys.
Delete(S) ==
  /\ docs' = [k \in Keys |-> IF k \in S THEN NoRow ELSE docs[k]]
  /\ call' = [i \in Indexers |->
                IF call[i].key \in S THEN [call[i] EXCEPT !.own = FALSE] ELSE call[i]]

CallStep(i) ==
  \/ Register(i) \/ RegisterFails(i) \/ Embed(i) \/ EmbedFails(i)
  \/ Rewrite(i) \/ RewriteFails(i) \/ Store(i) \/ StoreFails(i)
  \/ MarkIndexed(i) \/ MarkIndexedFails(i) \/ MarkFailed(i)
  \/ Read(i) \/ ReadFails(i)

Next ==
  \/ \E i \in Indexers : CallStep(i) \/ Return(i) \/ Abandon(i)
  \/ \E i \in Indexers, k \in Keys : Begin(i, k)
  \/ \E S \in SUBSET Keys : Delete(S)

vars == <<docs, call>>

Spec == Init /\ [][Next]_vars

-----------------------------------------------------------------------------
\* What the two legs of a hybrid search can return: rows with a matching
\* lexical_text, and points that DocumentsByPointIDs hydrates.
Lexical(k)  == docs[k].status \in {"indexed", "failed"}
Semantic(k) == docs[k].status = "indexed" /\ docs[k].point
Found(k)    == Lexical(k) \/ Semantic(k)

TypeOK == docs \in [Keys -> Rows] /\ call \in [Indexers -> Calls]

\* A row that says "indexed" has its own vector in Qdrant, whichever deletes,
\* re-inserts and concurrent calls for the same key came between the five
\* writes that lead there.
IndexedHasPoint == \A k \in Keys : docs[k].status = "indexed" => docs[k].point

\* Why: a call that still owns its row finds it there, and once it is about to
\* mark it, with the point it has stored.
OwnOK(i) ==
  call[i].own =>
    /\ call[i].key \in Keys /\ docs[call[i].key].status # "absent"
    /\ call[i].pc = "marking" => docs[call[i].key].point

IInv == /\ TypeOK
        /\ \A i \in Indexers : OwnOK(i) /\ (~At(i, "idle") => call[i].key \in Keys)
        /\ \A k \in Keys : docs[k].status = "absent" => ~docs[k].point
        /\ IndexedHasPoint
=============================================================================
