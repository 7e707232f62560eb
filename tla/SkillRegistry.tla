---------------------------- MODULE SkillRegistry ----------------------------
(***************************************************************************)
(* The skill registry (internal/skills/service.go, repo.go,                *)
(* catalog_service.go): skills are published directly, from local          *)
(* snapshots and from Git; a version of each skill is active; each version *)
(* has a compiled artifact and each skill a search row for its active      *)
(* version.  Requests of several replicas interleave, fail and die.        *)
(***************************************************************************)
EXTENDS Naturals, Sequences, FiniteSets

CONSTANTS
  Skills,       \* skill names
  Packages,     \* package contents, by package_hash
  NameOf(_),    \* the name in a package's frontmatter, None if there is none
  Compiles(_),  \* does CompileSkillVersion accept the package?
  Git, Local,   \* skill_sources by type; one is one package path
  Commits,      \* commits of the repositories
  Tree(_, _),   \* what a commit holds at the path of a source
  Snapshots,    \* the snapshot ids clients choose
  Calls,        \* requests
  MaxVersions,  \* bound: versions of the account
  None          \* no value

Sources == Git \cup Local

ASSUME NoneAssumption == None \notin Skills \cup Packages \cup Calls \cup Sources
                                     \cup Commits \cup Snapshots
ASSUME NameAssumption == \A p \in Packages : NameOf(p) \in Skills \cup {None}
ASSUME CompilesAssumption == \A p \in Packages : Compiles(p) \in BOOLEAN
ASSUME TreeAssumption == \A g \in Git, k \in Commits : Tree(g, k) \in Packages
ASSUME MaxVersionsAssumption == MaxVersions \in Nat

\* The two kinds of lock have keys of their own.
ASSUME LocksAssumption == Skills \cap Sources = {}

VARIABLES
  versions,    \* skill_versions of the account, by published_at
  active,      \* the versions whose is_active is true
  revisions,   \* skill_source_revisions: what each source has of each package
  disabled,    \* skill_sources: those with that status; the others are active or
               \* in error, which makes no difference here
  index,       \* the search row of each skill: the version it describes, 0 if none
  locks,       \* the holders of the advisory locks of skills and sources
  call         \* the request in each slot

vars == <<versions, active, revisions, disabled, index, locks, call>>

Ids == 1 .. Len(versions)

Versions == [skill : Skills, package : Packages, source : Sources \cup {None}]

\* One row a source and package ("package:" and the hash is its revision_key).
NoRevision == [version |-> 0, commit |-> None, snapshot |-> None]
Revisions  == [version : 0 .. MaxVersions, commit : Commits \cup {None},
               snapshot : Snapshots \cup {None}]

NoCall == [pc |-> "idle", op |-> None, skill |-> None, package |-> None,
           source |-> None, commit |-> None, snapshot |-> None,
           activate |-> FALSE, index |-> FALSE,
           target |-> 0, found |-> 0, cleared |-> {}, card |-> 0]

Init ==
  /\ versions = <<>> /\ active = {}
  /\ revisions = [s \in Sources |-> [p \in Packages |-> NoRevision]]
  /\ disabled = {}
  /\ index = [s \in Skills |-> 0]
  /\ locks = [l \in Skills \cup Sources |-> None]
  /\ call = [c \in Calls |-> NoCall]

OfSkill(s) == {i \in Ids : versions[i].skill = s}

To(c, pc) == call' = [call EXCEPT ![c].pc = pc]
End(c)    == call' = [call EXCEPT ![c] = NoCall]
Start(c, request) == call[c].pc = "idle" /\ call' = [call EXCEPT ![c] = request]

Free(c) == locks' = [l \in DOMAIN locks |-> IF locks[l] = c THEN None ELSE locks[l]]

-----------------------------------------------------------------------------
\* Registering a location again replaces its status (and its name, see below).
UpsertSource(s, off) ==
  /\ disabled' = IF off THEN disabled \cup {s} ELSE disabled \ {s}
  /\ UNCHANGED <<versions, active, revisions, index, locks, call>>

Requested ==
  UNCHANGED <<versions, active, revisions, disabled, index, locks>>

CreateVersion(c, s, p, a) ==
  /\ Start(c, [NoCall EXCEPT !.pc = "begun", !.op = "create", !.skill = s,
                             !.package = p, !.activate = a])
  /\ Requested

\* The row gives the name of the skill to lock.
ActivateVersion(c, i) ==
  /\ Start(c, [NoCall EXCEPT !.pc = "begun", !.op = "activate", !.target = i,
                             !.skill = versions[i].skill, !.activate = TRUE])
  /\ Requested

\* The skill is the one the request names, else the one the package does, else
\* what the source is called by then.
SubmitLocalSnapshot(c, s, p, snapshot, a) ==
  /\ s \in Local /\ s \notin disabled
  /\ \E n \in Skills :
       Start(c, [NoCall EXCEPT !.pc = "begun", !.op = "ingest", !.skill = n,
                   !.package = p, !.source = s, !.snapshot = snapshot,
                   !.activate = a, !.index = TRUE])
  /\ Requested

SyncGitSource(c, s, a) ==
  /\ s \in Git /\ s \notin disabled
  /\ Start(c, [NoCall EXCEPT !.pc = "fetching", !.op = "ingest", !.source = s,
                             !.activate = a, !.index = TRUE])
  /\ Requested

\* Resolve, FetchPackage and normalizeSnapshotFiles.  Without a name in the
\* package it is what the source was called when it was read.
Fetch(c) ==
  /\ call[c].pc = "fetching"
  /\ \E k \in Commits, n \in Skills :
       LET p == Tree(call[c].source, k)
       IN /\ n = NameOf(p) \/ NameOf(p) = None
          /\ call' = [call EXCEPT ![c].pc = "begun", ![c].commit = k,
                                  ![c].package = p, ![c].skill = n]
  /\ Requested

IndexActiveVersions(c, s) ==
  /\ Start(c, [NoCall EXCEPT !.pc = "listing", !.op = "index", !.skill = s])
  /\ Requested

\* Of a Git source only; anything else just reports the error.
Failed(c) ==
  IF call[c].source \in Git THEN To(c, "recording") ELSE End(c)

RecordGitSyncFailure(c) ==
  /\ call[c].pc = "recording"
  /\ disabled' = disabled \ {call[c].source}
  /\ End(c)
  /\ UNCHANGED <<versions, active, revisions, index, locks>>

-----------------------------------------------------------------------------
\* findRevisionByIdentityTx: the revision of the package, unless the snapshot or
\* the commit is known as another's, or the package under another snapshot.
OfNoOther(q) ==
  \A p \in Packages \ {q.package} :
    /\ q.snapshot # None => revisions[q.source][p].snapshot # q.snapshot
    /\ q.commit # None => revisions[q.source][p].commit # q.commit

SameIdentity(q) ==
  LET r == revisions[q.source][q.package]
  IN /\ OfNoOther(q)
     /\ r.version # 0 => /\ q.snapshot # None => r.snapshot = q.snapshot
                        /\ versions[r.version].skill = q.skill

\* What the transaction reads before it writes, its locks held: the revision there
\* is, and the active versions its UPDATE clears.
Read(c) ==
  LET q == call[c]
      i == IF q.op = "ingest" THEN revisions[q.source][q.package].version ELSE 0
  IN IF q.op = "ingest" /\ ~SameIdentity(q)
     THEN Failed(c)
     ELSE call' = [call EXCEPT ![c].pc = "writing", ![c].found = i,
                     ![c].cleared = IF q.activate THEN active \cap OfSkill(q.skill) ELSE {}]

Begin(c) ==
  /\ call[c].pc = "begun"
  /\ IF call[c].op = "ingest" THEN To(c, "skill") ELSE Read(c)
  /\ UNCHANGED <<versions, active, revisions, disabled, index>>

\* Mutant: the transaction goes on without the lock of the skill.
LockSkillNever(c) == Begin(c) /\ UNCHANGED locks

LockSkill(c) ==
  /\ Begin(c) /\ locks[call[c].skill] = None
  /\ locks' = [locks EXCEPT ![call[c].skill] = c]

\* The lock of the source comes after that of the skill, always.
LockSource(c) ==
  /\ call[c].pc = "skill" /\ locks[call[c].source] = None
  /\ Read(c)
  /\ locks' = IF call'[c].pc = "writing" THEN [locks EXCEPT ![call[c].source] = c]
              ELSE [l \in DOMAIN locks |-> IF locks[l] = c THEN None ELSE locks[l]]
  /\ UNCHANGED <<versions, active, revisions, disabled, index>>

\* Direct versions of a skill are unique by content, and so are those of a source.
Duplicate(q) ==
  \E i \in OfSkill(q.skill) :
    versions[i].package = q.package /\ versions[i].source = q.source

\* idx_skill_versions_account_active.
TwoActive(q) ==
  q.activate /\ (active \cap OfSkill(q.skill)) \ (q.cleared \cup {q.target}) # {}

\* Mutant: the version that was active stays so.
SwitchedToo(q, i) == IF q.activate THEN active \cup {i} ELSE active

Switched(q, i) == IF q.activate THEN (active \ q.cleared) \cup {i} ELSE active

Succeeded(c, i) ==
  /\ active' = Switched(call[c], i)
  /\ call' = [call EXCEPT ![c] = [NoCall EXCEPT !.pc = "compiling", !.target = i,
                                   !.skill = call[c].skill, !.index = call[c].index]]

Insert(c) ==
  LET q == call[c]
      i == Len(versions) + 1
  IN /\ q.op # "activate" /\ q.found = 0 /\ Len(versions) < MaxVersions
     /\ ~Duplicate(q) /\ ~TwoActive(q)
     /\ versions' = Append(versions,
                      [skill |-> q.skill, package |-> q.package, source |-> q.source])
     /\ revisions' = IF q.source = None THEN revisions
                     ELSE [revisions EXCEPT ![q.source][q.package] =
                            [version |-> i, commit |-> q.commit, snapshot |-> q.snapshot]]
     /\ Succeeded(c, i)

\* A version that is there: named by the request, or the revision's.
Reuse(c) ==
  LET q == call[c]
      i == IF q.op = "activate" THEN q.target ELSE q.found
  IN /\ i # 0 /\ ~TwoActive([q EXCEPT !.target = i])
     /\ Succeeded(c, i)
     /\ UNCHANGED <<versions, revisions>>

\* A unique index refuses the row: the request is a duplicate, or another one has
\* got in between.
Refused(c) ==
  LET q == call[c]
      fresh == q.op # "activate" /\ q.found = 0
  IN /\ (fresh /\ Duplicate(q)) \/ TwoActive(q)
     /\ IF q.op = "create" /\ Duplicate(q) THEN End(c) ELSE To(c, "conflict")
     /\ UNCHANGED <<versions, active, revisions>>

\* updateSourceActiveTx is part of the transaction.
Write(c) ==
  /\ call[c].pc = "writing" /\ Free(c)
  /\ Insert(c) \/ Reuse(c) \/ Refused(c)
  /\ disabled' = IF call'[c].pc = "compiling" THEN disabled \ {call[c].source} ELSE disabled
  /\ UNCHANGED index

\* An error of the database rolls back; a process that dies does too, and nobody
\* takes up what it still had to do.
Fail(c) ==
  /\ call[c].pc \notin {"idle", "recording"}
  /\ Free(c)
  /\ \/ End(c)
     \/ call[c].pc \notin {"compiling", "listing", "indexing"} /\ Failed(c)
  /\ UNCHANGED <<versions, active, revisions, disabled, index>>

-----------------------------------------------------------------------------
\* bestEffortCompile, and on to the index if the request wants it.
Compile(c) ==
  /\ call[c].pc = "compiling"
  /\ IF call[c].index THEN To(c, "listing") ELSE End(c)
  /\ UNCHANGED <<versions, active, revisions, disabled, index, locks>>

\* Mutant: the card is the version of the request.
ListActiveTarget(c) ==
  /\ call[c].pc = "listing"
  /\ call' = [call EXCEPT ![c].pc = "indexing", ![c].card = call[c].target]
  /\ UNCHANGED <<versions, active, revisions, disabled, index, locks>>

\* ListActiveVersions.
ListActive(c) ==
  /\ call[c].pc = "listing"
  /\ \/ \E i \in active \cap OfSkill(call[c].skill) :
          call' = [call EXCEPT ![c].pc = "indexing", ![c].card = i]
     \/ active \cap OfSkill(call[c].skill) = {} /\ End(c)
  /\ UNCHANGED <<versions, active, revisions, disabled, index, locks>>

\* compileLoadedVersion, then IndexDocument under the skill's one key.
Index(c) ==
  LET i == call[c].card
  IN /\ call[c].pc = "indexing" /\ i # 0 /\ Compiles(versions[i].package)
     /\ index' = [index EXCEPT ![versions[i].skill] = i]
     /\ End(c)
     /\ UNCHANGED <<versions, active, revisions, disabled, locks>>

\* It does not compile, or IndexDocument fails and may leave the row unusable.
IndexFails(c) ==
  /\ call[c].pc = "indexing"
  /\ index' \in {index, [index EXCEPT ![call[c].skill] = 0]}
  /\ End(c)
  /\ UNCHANGED <<versions, active, revisions, disabled, locks>>

Step(c) ==
  \/ Fetch(c) \/ LockSkill(c) \/ LockSource(c) \/ Write(c) \/ Fail(c)
  \/ RecordGitSyncFailure(c) \/ Compile(c) \/ ListActive(c) \/ Index(c) \/ IndexFails(c)

Ask(c) ==
  \/ \E a \in BOOLEAN, p \in Packages :
       \/ \E s \in Skills : CreateVersion(c, s, p, a)
       \/ \E s \in Local, n \in Snapshots : SubmitLocalSnapshot(c, s, p, n, a)
  \/ \E a \in BOOLEAN, s \in Git : SyncGitSource(c, s, a)
  \/ \E i \in Ids : ActivateVersion(c, i)
  \/ \E s \in Skills : IndexActiveVersions(c, s)

Next ==
  \/ \E c \in Calls : Ask(c) \/ Step(c)
  \/ \E s \in Sources, off \in BOOLEAN : UpsertSource(s, off)

Spec == Init /\ [][Next]_vars

\* Requests end, and a client that keeps asking for a skill to be indexed gets it
\* done now and then.
Fairness ==
  /\ \A c \in Calls : WF_vars(Step(c))
  /\ \A s \in Skills :
       /\ SF_vars(\E c \in Calls : IndexActiveVersions(c, s))
       /\ SF_vars(\E c \in Calls : call[c].skill = s /\ ListActive(c))
       /\ SF_vars(\E c \in Calls : call[c].skill = s /\ Index(c))

FairSpec == Spec /\ Fairness

-----------------------------------------------------------------------------
CallStates == {"idle", "fetching", "begun", "skill", "writing", "conflict",
               "recording", "compiling", "listing", "indexing"}

Requests ==
  [pc : CallStates, op : {"create", "activate", "ingest", "index", None},
   skill : Skills \cup {None}, package : Packages \cup {None},
   source : Sources \cup {None}, commit : Commits \cup {None},
   snapshot : Snapshots \cup {None}, activate : BOOLEAN, index : BOOLEAN,
   target : 0 .. MaxVersions, found : 0 .. MaxVersions,
   cleared : SUBSET (1 .. MaxVersions), card : 0 .. MaxVersions]

TypeOK ==
  /\ versions \in Seq(Versions) /\ Len(versions) \in 0 .. MaxVersions
  /\ active \subseteq Ids
  /\ revisions \in [Sources -> [Packages -> Revisions]]
  /\ disabled \subseteq Sources
  /\ index \in [Skills -> 0 .. MaxVersions]
  /\ locks \in [Skills \cup Sources -> Calls \cup {None}]
  /\ call \in [Calls -> Requests]

\* At most one version of a skill is active.
OneActive == \A i, j \in active : versions[i].skill = versions[j].skill => i = j

\* A version that came from a source and the revision it came as name each other.
Paired ==
  /\ \A s \in Sources, p \in Packages :
       revisions[s][p].version # 0 =>
         /\ revisions[s][p].version \in Ids
         /\ versions[revisions[s][p].version].source = s
         /\ versions[revisions[s][p].version].package = p
  /\ \A i \in Ids : versions[i].source # None =>
       revisions[versions[i].source][versions[i].package].version = i

\* What a search can find under the key of a skill is a version of that skill.
IndexOK == \A s \in Skills : index[s] # 0 => index[s] \in OfSkill(s)

LocksOK ==
  \A c \in Calls :
    /\ \A s \in Skills :
         locks[s] = c <=> /\ call[c].pc \in {"skill", "writing"}
                          /\ call[c].skill = s
    /\ \A s \in Sources :
         locks[s] = c <=> /\ call[c].pc = "writing"
                          /\ call[c].source = s

\* What a transaction read is still so when it writes.
ReadHolds(q) ==
  q.pc = "writing" =>
    /\ q.op = "ingest" => q.found = revisions[q.source][q.package].version
    /\ q.op # "ingest" => q.found = 0
    /\ q.found # 0 => versions[q.found].skill = q.skill
    /\ q.cleared = IF q.activate THEN active \cap OfSkill(q.skill) ELSE {}

\* What a request has in hand where.
RequestOK(q) ==
  /\ q.pc = "fetching" => q.op = "ingest" /\ q.source \in Git
  /\ q.pc \in {"begun", "skill", "writing"} =>
       /\ q.skill \in Skills /\ q.op \in {"create", "activate", "ingest"}
       /\ q.op = "ingest" => q.source \in Sources /\ q.package \in Packages
       /\ q.op # "ingest" => q.source = None
       /\ q.op = "create" => q.package \in Packages
       /\ q.op = "activate" =>
            q.activate /\ q.target \in Ids /\ versions[q.target].skill = q.skill
  /\ q.pc = "skill" => q.op = "ingest"
  /\ q.pc \in {"compiling", "listing", "indexing"} => q.skill \in Skills
  /\ q.pc = "indexing" => q.card \in Ids /\ versions[q.card].skill = q.skill

RequestsOK == \A c \in Calls : ReadHolds(call[c]) /\ RequestOK(call[c])

IInv == TypeOK /\ OneActive /\ Paired /\ IndexOK /\ LocksOK /\ RequestsOK

\* Publishing, activating, syncing and submitting at the same time, requests never
\* lose to a unique index: no retry and no source marked as failed for a race.
NeverConflicts == \A c \in Calls : call[c].pc # "conflict"

\* Once a skill keeps its active version, a search for it that is kept up by
\* re-indexing finds that one, whatever older cards were still on their way.
ReindexConverges ==
  \A s \in Skills, i \in 1 .. MaxVersions :
    <>[](/\ i \in active /\ versions[i].skill = s
         /\ Compiles(versions[i].package)) => []<>(index[s] = i)
=============================================================================
