---------------------------- MODULE SourceIngest ----------------------------
(***************************************************************************)
(* One knowledge source and its revisions (internal/knowledge/service.go,  *)
(* repo.go): Git syncs and local snapshots of several replicas race to     *)
(* record immutable revisions and to move active_revision_id, failures are *)
(* recorded late and outside the ingest, and the source is registered      *)
(* again meanwhile.                                                        *)
(***************************************************************************)
EXTENDS Naturals, Sequences

CONSTANTS
  Packages,    \* package contents, by package_hash; a revision is one of them
  Origins,     \* what a package can be: type, repository_url and package_path
  Git(_),      \* is the origin of type git?  The others are local.
  Calls,       \* SyncGitSource and SubmitSnapshot requests
  MaxCommits,  \* bound: length of the upstream branch
  Metadata,    \* bound: what clients send as metadata.sync when they register
  None         \* no value

ASSUME NoneAssumption == None \notin Packages \cup Origins \cup Calls
ASSUME CommitsAssumption == MaxCommits \in Nat \ {0}
ASSUME GitAssumption == \A o \in Origins : Git(o) \in BOOLEAN

NoSync == [status |-> "none", commit |-> 0, package |-> None]

\* metadata.sync: absent, or what the last recorded sync has to say.
Syncs  == [status : {"none", "succeeded", "failed"}, commit : 0 .. MaxCommits,
           package : Packages \cup {None}]

ASSUME MetadataAssumption == NoSync \in Metadata /\ Metadata \subseteq Syncs

VARIABLES
  upstream,    \* the package at each commit of the branch, oldest first
  source,      \* the knowledge_sources row of the one name there is
  revisions,   \* knowledge_source_revisions: the origin each package came from
  lock,        \* the advisory lock of the source
  call,        \* the request in each slot
  recorded     \* history: was metadata.sync last written by an ingest, and not by a
               \* registration?

vars == <<upstream, source, revisions, lock, call, recorded>>

Statuses == {"active", "disabled", "error"}

Sources == [origin : Origins \cup {None}, status : Statuses,
            active : Packages \cup {None}, sync : Syncs]

NoCall == [pc |-> "idle", origin |-> None, commit |-> 0, package |-> None,
           found |-> FALSE]

CallStates == {"idle", "resolving", "fetching", "fetched", "locked",
               "recording", "conflict"}

Requests == [pc : CallStates, origin : Origins \cup {None}, commit : 0 .. MaxCommits,
             package : Packages \cup {None}, found : BOOLEAN]

Init ==
  /\ \E p \in Packages : upstream = <<p>>
  /\ source = [origin |-> None, status |-> "active", active |-> None, sync |-> NoSync]
  /\ revisions = [p \in Packages |-> None]
  /\ lock = None
  /\ call = [c \in Calls |-> NoCall]
  /\ recorded = FALSE

To(c, pc) == call' = [call EXCEPT ![c].pc = pc]
End(c)    == call' = [call EXCEPT ![c] = NoCall]

-----------------------------------------------------------------------------
\* External: somebody pushes, possibly a package that was there before.
Push(p) ==
  /\ Len(upstream) < MaxCommits
  /\ upstream' = Append(upstream, p)
  /\ UNCHANGED <<source, revisions, lock, call, recorded>>

\* Mutant: the name is all that has to match.
UpsertSourceByName(o, s, m) ==
  /\ source' = [source EXCEPT !.origin = o, !.status = s, !.sync = m]
  /\ recorded' = FALSE
  /\ UNCHANGED <<upstream, revisions, lock, call>>

\* Registering a name again replaces its status and its metadata as the client
\* sends them, which may hold the sync state of an earlier read, or none; and it
\* keeps the revisions; unless it is another package's name.
UpsertSource(o, s, m) ==
  /\ source.origin \in {None, o}
  /\ source' = [source EXCEPT !.origin = o, !.status = s, !.sync = m]
  /\ recorded' = FALSE
  /\ UNCHANGED <<upstream, revisions, lock, call>>

\* GetSource and the checks on its type and status.
Admitted(c, git) ==
  /\ call[c].pc = "idle"
  /\ source.origin # None /\ Git(source.origin) = git
  /\ source.status # "disabled"

SyncGitSource(c) ==
  /\ Admitted(c, TRUE)
  /\ call' = [call EXCEPT ![c] = [NoCall EXCEPT !.pc = "resolving",
                                                !.origin = source.origin]]
  /\ UNCHANGED <<upstream, source, revisions, lock, recorded>>

\* The ref names the head of the branch, or any commit if the request says so.
Resolve(c) ==
  /\ call[c].pc = "resolving"
  /\ \E n \in 1 .. Len(upstream) :
       call' = [call EXCEPT ![c].pc = "fetching", ![c].commit = n]
  /\ UNCHANGED <<upstream, source, revisions, lock, recorded>>

\* FetchPackage and normalizeGitPackageFiles.
FetchPackage(c) ==
  /\ call[c].pc = "fetching"
  /\ call' = [call EXCEPT ![c].pc = "fetched",
                          ![c].package = upstream[call[c].commit]]
  /\ UNCHANGED <<upstream, source, revisions, lock, recorded>>

FetchFails(c) ==
  /\ call[c].pc \in {"resolving", "fetching"}
  /\ To(c, "recording")
  /\ UNCHANGED <<upstream, source, revisions, lock, recorded>>

\* The client sends the files themselves; they may be refused.
SubmitSnapshot(c, p) ==
  /\ Admitted(c, FALSE)
  /\ \E pc \in {"fetched", "recording"} :
       call' = [call EXCEPT ![c] =
                  [NoCall EXCEPT !.pc = pc, !.origin = source.origin,
                                 !.package = IF pc = "fetched" THEN p ELSE None]]
  /\ UNCHANGED <<upstream, source, revisions, lock, recorded>>

-----------------------------------------------------------------------------
Find(c) ==
  /\ call[c].pc = "fetched"
  /\ call' = [call EXCEPT ![c].pc = "locked",
                          ![c].found = revisions[call[c].package] # None]
  /\ UNCHANGED <<upstream, source, revisions, recorded>>

\* Mutant: the transaction begins without the advisory lock.
LockAndFindUnlocked(c) == Find(c) /\ UNCHANGED lock

\* IngestRevision takes the lock, then looks for the package among the
\* revisions: the key of a revision is "package:" and its hash.
LockAndFind(c) == lock = None /\ lock' = c /\ Find(c)

Unlock(c) == lock' = IF lock = c THEN None ELSE lock

\* The sync state of a snapshot is left alone.
Synced(c) ==
  IF call[c].commit = 0 THEN source.sync
  ELSE [status |-> "succeeded", commit |-> call[c].commit, package |-> call[c].package]

\* Mutant: a package that was there already moves nothing.
PointedIfNew(c) ==
  [source EXCEPT !.status = "active", !.sync = Synced(c),
                 !.active = IF call[c].found THEN @ ELSE call[c].package]

\* setActiveRevisionTx.
Pointed(c) ==
  [source EXCEPT !.status = "active", !.sync = Synced(c), !.active = call[c].package]

Ingested(c) ==
  /\ source' = Pointed(c)
  /\ revisions' = IF call[c].found THEN revisions
                  ELSE [revisions EXCEPT ![call[c].package] = call[c].origin]
  /\ recorded' = (recorded \/ call[c].commit # 0)

\* The row of a package that was found is returned as it is; a new one is
\* inserted with its documents and links.  The key is unique, so inserting a
\* package that is there after all fails.
IngestRevision(c) ==
  /\ call[c].pc = "locked" /\ Unlock(c)
  /\ IF call[c].found \/ revisions[call[c].package] = None
     THEN Ingested(c) /\ End(c)
     ELSE To(c, "conflict") /\ UNCHANGED <<source, revisions, recorded>>
  /\ UNCHANGED upstream

\* An error of the database, or a lost answer to the commit.
IngestFails(c) ==
  /\ call[c].pc \in {"fetched", "locked"}
  /\ Unlock(c) /\ To(c, "recording")
  /\ \/ UNCHANGED <<source, revisions, recorded>>
     \/ call[c].pc = "locked" /\ Ingested(c)
  /\ UNCHANGED upstream

\* recordIngestFailure, outside the transaction and after it.
RecordSourceError(c) ==
  /\ call[c].pc \in {"recording", "conflict"}
  /\ source' = [source EXCEPT !.status = "error",
                  !.sync = [status |-> "failed", commit |-> call[c].commit,
                            package |-> call[c].package]]
  /\ recorded' = TRUE
  /\ End(c)
  /\ UNCHANGED <<upstream, revisions, lock>>

\* The request's process dies, or its client hangs up.
Abandon(c) ==
  /\ call[c].pc # "idle"
  /\ Unlock(c) /\ End(c)
  /\ UNCHANGED <<upstream, source, revisions, recorded>>

Step(c) ==
  \/ SyncGitSource(c) \/ Resolve(c) \/ FetchPackage(c) \/ FetchFails(c)
  \/ \E p \in Packages : SubmitSnapshot(c, p)
  \/ LockAndFind(c) \/ IngestRevision(c) \/ IngestFails(c)
  \/ RecordSourceError(c) \/ Abandon(c)

Next ==
  \/ \E p \in Packages : Push(p)
  \/ \E o \in Origins, s \in Statuses, m \in Metadata : UpsertSource(o, s, m)
  \/ \E c \in Calls : Step(c)

Spec == Init /\ [][Next]_vars

-----------------------------------------------------------------------------
TypeOK ==
  /\ upstream \in Seq(Packages) /\ Len(upstream) \in 1 .. MaxCommits
  /\ source \in Sources
  /\ revisions \in [Packages -> Origins \cup {None}]
  /\ lock \in Calls \cup {None}
  /\ call \in [Calls -> Requests] /\ recorded \in BOOLEAN

\* The revisions of a source, and the requests on their way, are of the package
\* it is registered for, however registrations and slow syncs interleave: no
\* history "spanning two unrelated origins" (repo.go).
HistoryOfOneOrigin ==
  /\ \A p \in Packages : revisions[p] \in {None, source.origin}
  /\ \A c \in Calls : call[c].origin \in {None, source.origin}

\* "Replaying the same package_hash is idempotent": requests for one package
\* never end in a conflict with each other, which would mark a good source as
\* failed.  (The advisory lock, from the look to the commit.)
ReplayNeverConflicts == \A c \in Calls : call[c].pc # "conflict"

\* A source in which a sync has recorded that it succeeded serves what that sync
\* fetched, and the commit it names did hold that package, even when a revision that
\* exists is returned to or an older commit lands last; until the source is
\* registered again, when the record is whatever the client sends.
SyncDescribesActive ==
  recorded /\ source.sync.status = "succeeded" =>
    /\ source.active = source.sync.package
    /\ upstream[source.sync.commit] = source.sync.package

\* The active revision is one that was ingested.
ActiveIsIngested == source.active # None => revisions[source.active] # None

LockOK ==
  \A c \in Calls :
    /\ call[c].pc = "locked" <=> lock = c
    /\ call[c].pc = "locked" => call[c].found = (revisions[call[c].package] # None)

\* What a request has in hand: a commit of the branch and its package, of a Git source
\* only, or the package of a snapshot.
CallOK ==
  \A c \in Calls :
    /\ call[c].pc \in {"fetched", "locked"} => call[c].package \in Packages
    /\ call[c].pc \in {"fetched", "locked"} /\ Git(call[c].origin) =>
         call[c].commit \in 1 .. Len(upstream) /\ upstream[call[c].commit] = call[c].package
    /\ call[c].pc \in {"fetched", "locked"} /\ ~Git(call[c].origin) => call[c].commit = 0
    /\ call[c].pc = "fetching" => call[c].commit \in 1 .. Len(upstream)
    /\ call[c].pc \in {"resolving", "fetching"} => Git(call[c].origin)
    /\ call[c].pc # "idle" => call[c].origin \in Origins

\* Only a Git source records that a sync succeeded.
SourceOK ==
  recorded /\ source.sync.status = "succeeded" =>
    source.sync.commit \in 1 .. Len(upstream) /\ source.origin \in Origins /\ Git(source.origin)

IInv == /\ TypeOK /\ HistoryOfOneOrigin /\ ReplayNeverConflicts
        /\ SyncDescribesActive /\ ActiveIsIngested
        /\ LockOK /\ CallOK /\ SourceOK
=============================================================================
