-------------------------- MODULE MemoryProjection --------------------------
(***************************************************************************)
(* Durable memories and their search projection (internal/memory):         *)
(* CreateEntry commits the row and then indexes it, SupersedeEntry commits *)
(* the replacement and then deletes the old entry's projection.  Each is a *)
(* commit followed by calls to the retrieval service that may run late.    *)
(***************************************************************************)
EXTENDS RetrievalIndex

VARIABLES
  entry,        \* memory_entries.status
  removing,     \* entries whose SupersedeEntry has committed but not returned
  warned,       \* entries whose SupersedeEntry answered with a warning
  early         \* history: entries whose last delete came before the last insert
                \* of their own indexing

memory == <<docs, call, entry, removing, warned, early>>

\* Keys are the ids of memory entries, Indexers the requests that create one.
Entries == Keys
Callers == Indexers

MemoryInit ==
  /\ Init
  /\ entry = [e \in Entries |-> "absent"]
  /\ removing = {} /\ warned = {} /\ early = {}

\* Mutant: the entry is indexed before it is committed.
CreateEntryLate(i, e) ==
  /\ entry[e] = "absent"
  /\ Begin(i, e)
  /\ UNCHANGED <<entry, removing, warned, early>>

\* The repository's CreateEntry commits; indexEntry begins.
CreateEntry(i, e) ==
  /\ entry[e] = "absent"
  /\ entry' = [entry EXCEPT ![e] = "active"]
  /\ Begin(i, e)
  /\ UNCHANGED <<removing, warned, early>>

IndexStep(i) ==
  /\ CallStep(i) \/ Return(i) \/ Abandon(i)
  /\ UNCHANGED <<entry, removing, warned, early>>

\* The repository's SupersedeEntry (see SupersedeChain) commits, or finds the
\* same replacement already recorded and changes nothing.
Supersede(e) ==
  /\ entry[e] \in {"active", "superseded"}
  /\ entry' = [entry EXCEPT ![e] = "superseded"]
  /\ removing' = removing \cup {e}
  /\ warned' = warned \ {e}
  /\ UNCHANGED <<docs, call, early>>

\* A call for it may still insert its row, for the first time or again.
Inserting(e) ==
  \E i \in Callers : call[i].key = e /\ call[i].pc \in {"registering", "embedding", "rewriting"}

Early(e) == early' = IF Inserting(e) THEN early \cup {e} ELSE early \ {e}

\* Mutant: the delete is not limited to the old entry's memory_id.
RemoveAll(e) ==
  /\ e \in removing
  /\ removing' = removing \ {e}
  /\ Delete(Entries) /\ Early(e)
  /\ UNCHANGED <<entry, warned>>

\* DeleteDocumentsByMetadata on the old entry's memory_id.
RemoveProjection(e) ==
  /\ e \in removing
  /\ removing' = removing \ {e}
  /\ Delete({e}) /\ Early(e)
  /\ UNCHANGED <<entry, warned>>

\* It fails, or the process dies: the supersede stands, the caller is warned.
RemoveFails(e) ==
  /\ MayFail /\ e \in removing
  /\ removing' = removing \ {e}
  /\ warned' = warned \cup {e}
  /\ UNCHANGED <<docs, call>> \/ Delete({e})
  /\ UNCHANGED <<entry, early>>

MemoryNext ==
  \/ \E i \in Callers : IndexStep(i) \/ \E e \in Entries : CreateEntry(i, e)
  \/ \E e \in Entries : Supersede(e) \/ RemoveProjection(e) \/ RemoveFails(e)

MemorySpec == MemoryInit /\ [][MemoryNext]_memory

-----------------------------------------------------------------------------
\* SearchEntries with a query every entry matches: candidates are re-read.
Hits == {e \in Entries : Found(e) /\ entry[e] = "active"}

Indexing(e) == \E i \in Callers : InFlight(i, e)

EntriesOK == /\ entry \in [Entries -> {"absent", "active", "superseded"}]
             /\ removing \cup warned \subseteq {e \in Entries : entry[e] = "superseded"}

\* Nothing is ever found, or about to be, for a memory that was not committed, and
\* only what was superseded is ever taken out.
ProjectionIsOfEntries ==
  /\ EntriesOK
  /\ \A e \in Entries : entry[e] = "absent" => docs[e].status = "absent" /\ ~Indexing(e)

\* An active memory that was ever searchable stays searchable: no failure, and
\* no supersede of another entry, takes it out of the projection.
ActiveStaysFound ==
  [][\A e \in Hits : entry'[e] = "active" => e \in Hits']_memory

\* A superseded entry that is still, or again, in the projection is accounted for:
\* its delete is still to come, or was reported as failed, or came while the entry
\* was being indexed and had yet to be inserted.  After that insert no step of the
\* indexing brings it back, and superseding it once more removes it for good.
Leftover(e) == entry[e] = "superseded" /\ docs[e].status # "absent"

LeftoversAreKnown == \A e \in Entries : Leftover(e) => e \in removing \cup warned \cup early

\* Why: of any other superseded entry there is no row, and no insert on its way.
LeftoverInv ==
  \A e \in Entries : entry[e] = "superseded" /\ e \notin removing \cup warned \cup early
                       => docs[e].status = "absent" /\ ~Inserting(e)

\* Why: only CreateEntry starts a call, once for each entry, so an entry has one call
\* at most; and while that call may still write, it has taken the row out of the search.
OneCall ==
  /\ \A i \in Callers : call[i].key \in Entries => entry[call[i].key] # "absent"
  /\ \A i, j \in Callers : call[i].key \in Entries /\ call[i].key = call[j].key => i = j

NotYetFound ==
  \A i \in Callers : call[i].key \in Entries /\ Found(call[i].key)
                       => call[i].pc \in {"reading", "done", "failed"}

MemoryInv == LeftoverInv /\ IInv /\ ProjectionIsOfEntries /\ OneCall /\ NotYetFound
=============================================================================
