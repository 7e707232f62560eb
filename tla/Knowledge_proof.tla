--------------------------- MODULE Knowledge_proof ---------------------------
(***************************************************************************)
(* Proofs about the knowledge sources and about the algorithms over what   *)
(* they hold.                                                              *)
(*                                                                         *)
(* SourceIngest, for any number of packages, requests and commits: the     *)
(* revisions of a source are of one origin, replays never conflict, and    *)
(* the sync state names what is served.                                    *)
(*                                                                         *)
(* Algorithms, for every argument: incremental compiles, the lint, reviews,*)
(* quality runs, package files, discovery and validation do what the       *)
(* property of each says.  What follows step by step from a sequence is    *)
(* proved by induction on its length; the induction, and the recursive     *)
(* functions that it is about, are in the section on recursion.            *)
(***************************************************************************)
EXTENDS SourceIngest, Algorithms,
        FiniteSetTheorems, FunctionTheorems, SequenceTheorems, WellFoundedInduction, TLAPS

\* It holds at the start.
LEMMA InitIInv == Init => IInv
<1> SUFFICES ASSUME Init PROVE IInv
    OBVIOUS
<1> USE NoneAssumption, CommitsAssumption DEF Init
<1>1. TypeOK
  <2>1. NoSync \in Syncs
        BY MetadataAssumption
  <2>2. source \in Sources
        BY <2>1 DEF Sources, Statuses
  <2>3. call \in [Calls -> Requests]
        BY DEF Requests, NoCall, CallStates
  <2>4. upstream \in Seq(Packages) /\ Len(upstream) = 1
        OBVIOUS
  <2>5. /\ revisions \in [Packages -> Origins \cup {None}] /\ lock \in Calls \cup {None}
        /\ recorded \in BOOLEAN
        OBVIOUS
  <2> HIDE DEF Init
  <2> QED BY <2>2, <2>3, <2>4, <2>5 DEF TypeOK
<1>2. HistoryOfOneOrigin /\ ReplayNeverConflicts /\ SyncDescribesActive
      BY DEF HistoryOfOneOrigin, ReplayNeverConflicts, SyncDescribesActive, NoSync, NoCall
<1>3. ActiveIsIngested /\ LockOK /\ CallOK /\ SourceOK
      BY DEF ActiveIsIngested, LockOK, CallOK, SourceOK, NoSync, NoCall
<1> QED BY <1>1, <1>2, <1>3 DEF IInv

\* A request that has ended has nothing in hand.
LEMMA NoRequest == NoCall \in Requests /\ NoCall.pc = "idle" /\ NoCall.origin = None
BY NoneAssumption, CommitsAssumption DEF NoCall, Requests, CallStates

\* A step of one request that leaves the source and the branch as they were, and the
\* lock as the request has it, keeps the invariant if what it has in hand is right.
LEMMA RequestMoves ==
  ASSUME IInv, NEW c \in Calls, NEW r \in Requests,
         call' = [call EXCEPT ![c] = r],
         UNCHANGED <<upstream, source, revisions, recorded>>,
         r.origin \in {None, source.origin},
         r.pc # "idle" => r.origin \in Origins,
         r.pc \in {"resolving", "fetching"} => Git(r.origin),
         r.pc = "fetching" => r.commit \in 1 .. Len(upstream),
         r.pc \in {"fetched", "locked"} =>
           /\ r.package \in Packages
           /\ Git(r.origin) => r.commit \in 1 .. Len(upstream)
                               /\ upstream[r.commit] = r.package
           /\ ~Git(r.origin) => r.commit = 0,
         r.pc # "conflict",
         \/ call[c].pc # "locked" /\ r.pc # "locked" /\ lock' = lock
         \/ lock = None /\ lock' = c /\ r.pc = "locked"
            /\ r.found = (revisions[r.package] # None)
         \/ r.pc # "locked" /\ lock' = (IF lock = c THEN None ELSE lock)
  PROVE  IInv'
<1>1. /\ call'[c] = r
      /\ \A d \in Calls \ {c} : call'[d] = call[d]
      /\ call' \in [Calls -> Requests]
      BY DEF IInv, TypeOK
<1>2. TypeOK'
      BY <1>1 DEF IInv, TypeOK
<1>3. (HistoryOfOneOrigin /\ ReplayNeverConflicts)'
      BY <1>1 DEF IInv, HistoryOfOneOrigin, ReplayNeverConflicts
<1>4. (SyncDescribesActive /\ ActiveIsIngested /\ SourceOK)'
      BY DEF IInv, SyncDescribesActive, ActiveIsIngested, SourceOK
<1>5. LockOK'
      BY <1>1, NoneAssumption DEF IInv, TypeOK, LockOK
<1>6. CallOK'
      BY <1>1 DEF IInv, CallOK
<1> QED BY <1>2, <1>3, <1>4, <1>5, <1>6 DEF IInv

\* What an ingest that commits does to the source and its revisions.
LEMMA IngestedKeeps ==
  ASSUME IInv, NEW c \in Calls, call[c].pc = "locked", Ingested(c), upstream' = upstream
  PROVE  /\ source' \in Sources /\ revisions' \in [Packages -> Origins \cup {None}]
         /\ source'.origin = source.origin
         /\ \A p \in Packages : revisions'[p] \in {None, source'.origin}
         /\ (SyncDescribesActive /\ ActiveIsIngested /\ SourceOK)'
<1> DEFINE q == call[c]
<1>1. /\ q \in Requests /\ q.package \in Packages /\ q.origin \in Origins
      /\ q.origin = source.origin
      /\ source \in Sources /\ revisions \in [Packages -> Origins \cup {None}]
      BY NoneAssumption DEF IInv, TypeOK, CallOK, HistoryOfOneOrigin
<1>2. Synced(c) \in Syncs
      BY <1>1 DEF Synced, Syncs, Sources, Requests
<1>3. source' \in Sources /\ source'.origin = source.origin /\ source'.active = q.package
      /\ source'.sync = Synced(c)
      BY <1>1, <1>2 DEF Ingested, Pointed, Sources, Statuses
<1>4. revisions' \in [Packages -> Origins \cup {None}]
      /\ revisions'[q.package] \in {revisions[q.package], q.origin}
      /\ \A p \in Packages \ {q.package} : revisions'[p] = revisions[p]
      BY <1>1 DEF Ingested
<1>5. revisions'[q.package] # None
      BY <1>1, NoneAssumption DEF Ingested, IInv, LockOK
<1>6. \A p \in Packages : revisions'[p] \in {None, source'.origin}
      BY <1>1, <1>3, <1>4 DEF IInv, HistoryOfOneOrigin
<1>7. ActiveIsIngested'
      BY <1>3, <1>5 DEF ActiveIsIngested
<1>8. CASE Git(q.origin)
  <2>1. q.commit \in 1 .. Len(upstream) /\ upstream[q.commit] = q.package
        BY <1>8 DEF IInv, CallOK
  <2>2. Len(upstream) \in Nat
        BY DEF IInv, TypeOK
  <2>3. Synced(c) = [status |-> "succeeded", commit |-> q.commit, package |-> q.package]
        BY <2>1, <2>2 DEF Synced
  <2>4. (SyncDescribesActive /\ SourceOK)'
        BY <1>1, <1>3, <1>8, <2>1, <2>3 DEF SyncDescribesActive, SourceOK
  <2> QED BY <1>3, <1>4, <1>6, <1>7, <2>4
<1>9. CASE ~Git(q.origin)
  <2>1. Synced(c) = source.sync
        BY <1>9 DEF Synced, IInv, CallOK
  <2>2. recorded' = recorded
        BY <1>9 DEF Ingested, IInv, TypeOK, CallOK
  <2>3. recorded => source.sync.status # "succeeded"
        BY <1>1, <1>9 DEF IInv, SourceOK
  <2>4. (SyncDescribesActive /\ SourceOK)'
        BY <1>3, <2>1, <2>2, <2>3 DEF SyncDescribesActive, SourceOK
  <2> QED BY <1>3, <1>4, <1>6, <1>7, <2>4
<1> QED BY <1>8, <1>9

\* An ingest that commits keeps the invariant, whether its answer arrives or not.
LEMMA IngestCommits ==
  ASSUME IInv, NEW c \in Calls, call[c].pc = "locked", Ingested(c), upstream' = upstream,
         Unlock(c), NEW r \in Requests, call' = [call EXCEPT ![c] = r],
         r = NoCall \/ r = [call[c] EXCEPT !.pc = "recording"]
  PROVE  IInv'
<1>1. /\ call'[c] = r
      /\ \A d \in Calls \ {c} : call'[d] = call[d]
      /\ call' \in [Calls -> Requests]
      BY DEF IInv, TypeOK
<1>2. /\ lock = c /\ lock' = None
      /\ \A d \in Calls \ {c} : call[d].pc # "locked"
      BY DEF IInv, LockOK, Unlock
<1>3. r.pc \in {"idle", "recording"} /\ r.origin \in {None, call[c].origin}
      BY NoRequest DEF IInv, TypeOK, Requests
<1>4. TypeOK'
      BY <1>1, <1>2, IngestedKeeps DEF IInv, TypeOK, Ingested
<1>5. (HistoryOfOneOrigin /\ ReplayNeverConflicts)'
      BY <1>1, <1>3, IngestedKeeps DEF IInv, HistoryOfOneOrigin, ReplayNeverConflicts
<1>6. LockOK'
      BY <1>1, <1>2, <1>3, NoneAssumption DEF LockOK
<1>7. CallOK'
  <2>1. call[c].origin \in Origins
        BY DEF IInv, CallOK
  <2>2. r.pc # "idle" => r.origin \in Origins
        BY <2>1, NoRequest DEF IInv, TypeOK, Requests
  <2> QED BY <1>1, <1>3, <2>2 DEF IInv, CallOK
<1> QED BY <1>4, <1>5, <1>6, <1>7, IngestedKeeps DEF IInv

\* The registration of a name, and of one that is another package's no more.
LEMMA UpsertSourceKeeps ==
  ASSUME IInv, NEW o \in Origins, NEW s \in Statuses, NEW m \in Metadata, UpsertSource(o, s, m)
  PROVE  IInv'
<1>1. m \in Syncs
      BY MetadataAssumption
<1>2. source' \in Sources /\ source'.origin = o /\ source'.active = source.active
      /\ recorded' = FALSE
      BY <1>1 DEF UpsertSource, IInv, TypeOK, Sources
<1>3. TypeOK'
      BY <1>2 DEF UpsertSource, IInv, TypeOK
<1>4. HistoryOfOneOrigin'
      BY <1>2 DEF UpsertSource, IInv, HistoryOfOneOrigin
<1>5. (ReplayNeverConflicts /\ SyncDescribesActive /\ ActiveIsIngested /\ SourceOK)'
      BY <1>1, <1>2 DEF UpsertSource, IInv, ReplayNeverConflicts, SyncDescribesActive,
                        ActiveIsIngested, SourceOK
<1>6. (LockOK /\ CallOK)'
      BY DEF UpsertSource, IInv, LockOK, CallOK
<1> QED BY <1>3, <1>4, <1>5, <1>6 DEF IInv

\* A push leaves every commit there is where it is.
LEMMA PushKeeps ==
  ASSUME IInv, NEW p \in Packages, Push(p)
  PROVE  IInv'
<1>1. /\ upstream \in Seq(Packages) /\ Len(upstream) \in Nat
      /\ Len(upstream') = Len(upstream) + 1
      /\ \A n \in 1 .. Len(upstream) : upstream'[n] = upstream[n]
      BY DEF Push, IInv, TypeOK
<1>2. TypeOK'
      BY CommitsAssumption DEF Push, IInv, TypeOK
<1>3. (HistoryOfOneOrigin /\ ReplayNeverConflicts /\ ActiveIsIngested /\ LockOK)'
      BY DEF Push, IInv, HistoryOfOneOrigin, ReplayNeverConflicts, ActiveIsIngested, LockOK
<1>4. (SyncDescribesActive /\ SourceOK)'
      BY <1>1 DEF Push, IInv, SyncDescribesActive, SourceOK
<1>5. CallOK'
      BY <1>1 DEF Push, IInv, CallOK
<1> QED BY <1>2, <1>3, <1>4, <1>5 DEF IInv

\* A late record of a failure says nothing of what is served.
LEMMA RecordSourceErrorKeeps ==
  ASSUME IInv, NEW c \in Calls, RecordSourceError(c)
  PROVE  IInv'
<1>1. call[c] \in Requests /\ source \in Sources
      BY DEF IInv, TypeOK
<1>2. source' \in Sources /\ source'.origin = source.origin /\ source'.active = source.active
      /\ source'.sync.status = "failed"
      BY <1>1 DEF RecordSourceError, Sources, Syncs, Statuses, Requests
<1>3. /\ call'[c] = NoCall
      /\ \A d \in Calls \ {c} : call'[d] = call[d]
      /\ call' \in [Calls -> Requests]
      BY NoRequest DEF RecordSourceError, End, IInv, TypeOK
<1>4. TypeOK'
      BY <1>2, <1>3 DEF RecordSourceError, IInv, TypeOK
<1>5. (HistoryOfOneOrigin /\ ReplayNeverConflicts)'
      BY <1>2, <1>3, NoRequest DEF RecordSourceError, IInv, HistoryOfOneOrigin,
                                   ReplayNeverConflicts
<1>6. (SyncDescribesActive /\ ActiveIsIngested /\ SourceOK)'
      BY <1>2 DEF RecordSourceError, IInv, SyncDescribesActive, ActiveIsIngested, SourceOK
<1>7. LockOK'
      BY <1>3, NoRequest DEF RecordSourceError, IInv, LockOK
<1>8. CallOK'
      BY <1>3, NoRequest DEF RecordSourceError, IInv, CallOK
<1> QED BY <1>4, <1>5, <1>6, <1>7, <1>8 DEF IInv

\* Whatever a request does, one step at a time.
LEMMA StepKeeps ==
  ASSUME IInv, NEW c \in Calls, Step(c)
  PROVE  IInv'
<1> DEFINE q == call[c]
<1>0. q \in Requests /\ source \in Sources /\ upstream \in Seq(Packages)
      BY DEF IInv, TypeOK
<1>1. q.origin \in {None, source.origin}
      BY DEF IInv, HistoryOfOneOrigin
<1>2. CASE SyncGitSource(c)
  <2> DEFINE r == [NoCall EXCEPT !.pc = "resolving", !.origin = source.origin]
  <2>1. r \in Requests /\ r.pc = "resolving" /\ r.origin = source.origin
        BY <1>0, NoRequest DEF NoCall, Requests, CallStates, Sources
  <2> QED BY <1>0, <1>2, <2>1, RequestMoves DEF SyncGitSource, Admitted, Sources
<1>3. CASE Resolve(c)
  <2>1. PICK n \in 1 .. Len(upstream) :
          call' = [call EXCEPT ![c].pc = "fetching", ![c].commit = n]
        BY <1>3 DEF Resolve
  <2> DEFINE r == [q EXCEPT !.pc = "fetching", !.commit = n]
  <2>2. n \in 0 .. MaxCommits
        BY CommitsAssumption DEF IInv, TypeOK
  <2>3. r \in Requests /\ r.pc = "fetching" /\ r.commit = n /\ r.origin = q.origin
        BY <1>0, <2>2 DEF Requests, CallStates
  <2>4. call' = [call EXCEPT ![c] = r]
        BY <2>1 DEF IInv, TypeOK, Requests
  <2>5. q.origin \in Origins /\ Git(q.origin)
        BY <1>3 DEF Resolve, IInv, CallOK
  <2> QED BY <1>1, <1>3, <2>3, <2>4, <2>5, RequestMoves DEF Resolve
<1>4. CASE FetchPackage(c)
  <2> DEFINE r == [q EXCEPT !.pc = "fetched", !.package = upstream[q.commit]]
  <2>1. q.commit \in 1 .. Len(upstream) /\ q.origin \in Origins /\ Git(q.origin)
        BY <1>4 DEF FetchPackage, IInv, CallOK
  <2>2. upstream[q.commit] \in Packages
        BY <1>0, <2>1
  <2>3. /\ r \in Requests /\ r.pc = "fetched" /\ r.commit = q.commit
        /\ r.origin = q.origin /\ r.package = upstream[q.commit]
        BY <1>0, <2>2 DEF Requests, CallStates
  <2>4. call' = [call EXCEPT ![c] = r]
        BY <1>4 DEF FetchPackage, IInv, TypeOK, Requests
  <2> QED BY <1>1, <1>4, <2>1, <2>2, <2>3, <2>4, RequestMoves DEF FetchPackage
<1>5. CASE FetchFails(c)
  <2> DEFINE r == [q EXCEPT !.pc = "recording"]
  <2>1. r \in Requests /\ r.pc = "recording" /\ r.origin = q.origin
        BY <1>0 DEF Requests, CallStates
  <2>2. call' = [call EXCEPT ![c] = r]
        BY <1>5 DEF FetchFails, To, IInv, TypeOK, Requests
  <2>3. q.origin \in Origins
        BY <1>5 DEF FetchFails, IInv, CallOK
  <2> QED BY <1>1, <1>5, <2>1, <2>2, <2>3, RequestMoves DEF FetchFails
<1>6. ASSUME NEW p \in Packages, SubmitSnapshot(c, p) PROVE IInv'
  <2>1. PICK pc \in {"fetched", "recording"} :
          call' = [call EXCEPT ![c] =
                     [NoCall EXCEPT !.pc = pc, !.origin = source.origin,
                                    !.package = IF pc = "fetched" THEN p ELSE None]]
        BY <1>6 DEF SubmitSnapshot
  <2> DEFINE r == [NoCall EXCEPT !.pc = pc, !.origin = source.origin,
                                 !.package = IF pc = "fetched" THEN p ELSE None]
  <2>2. /\ r \in Requests /\ r.pc = pc /\ r.origin = source.origin /\ r.commit = 0
        /\ r.package = IF pc = "fetched" THEN p ELSE None
        BY <1>0, NoRequest DEF NoCall, Requests, CallStates, Sources
  <2>3. source.origin \in Origins /\ ~Git(source.origin) /\ q.pc = "idle"
        BY <1>0, <1>6, GitAssumption DEF SubmitSnapshot, Admitted, Sources
  <2>4. UNCHANGED <<upstream, source, revisions, lock, recorded>>
        BY <1>6 DEF SubmitSnapshot
  <2> HIDE DEF r
  <2>5. CASE pc = "fetched"
        BY <2>1, <2>2, <2>3, <2>4, <2>5, RequestMoves DEF r
  <2>6. CASE pc = "recording"
        BY <2>1, <2>2, <2>3, <2>4, <2>6, RequestMoves DEF r
  <2> QED BY <2>5, <2>6
<1>7. CASE LockAndFind(c)
  <2> DEFINE r == [q EXCEPT !.pc = "locked", !.found = (revisions[q.package] # None)]
  <2>1. /\ r \in Requests /\ r.pc = "locked" /\ r.commit = q.commit
        /\ r.origin = q.origin /\ r.package = q.package
        /\ r.found = (revisions[r.package] # None)
        BY <1>0 DEF Requests, CallStates
  <2>2. call' = [call EXCEPT ![c] = r]
        BY <1>7 DEF LockAndFind, Find, IInv, TypeOK, Requests
  <2>3. /\ q.package \in Packages /\ q.origin \in Origins
        /\ Git(q.origin) => q.commit \in 1 .. Len(upstream) /\ upstream[q.commit] = q.package
        /\ ~Git(q.origin) => q.commit = 0
        BY <1>7 DEF LockAndFind, Find, IInv, CallOK
  <2> QED BY <1>1, <1>7, <2>1, <2>2, <2>3, RequestMoves DEF LockAndFind, Find
<1>8. CASE IngestRevision(c)
  <2>1. call[c].found \/ revisions[call[c].package] = None
        BY <1>0, <1>8 DEF IngestRevision, IInv, LockOK, Requests
  <2>2. Ingested(c) /\ call' = [call EXCEPT ![c] = NoCall] /\ q.pc = "locked" /\ Unlock(c)
        /\ upstream' = upstream
        BY <1>8, <2>1 DEF IngestRevision, End
  <2> QED BY <2>2, NoRequest, IngestCommits
<1>9. CASE IngestFails(c)
  <2> DEFINE r == [q EXCEPT !.pc = "recording"]
  <2>1. r \in Requests /\ r.pc = "recording" /\ r.origin = q.origin
        BY <1>0 DEF Requests, CallStates
  <2>2. call' = [call EXCEPT ![c] = r]
        BY <1>9 DEF IngestFails, To, IInv, TypeOK, Requests
  <2>3. q.origin \in Origins
        BY <1>9 DEF IngestFails, IInv, CallOK
  <2>4. CASE UNCHANGED <<source, revisions, recorded>>
        BY <1>1, <1>9, <2>1, <2>2, <2>3, <2>4, RequestMoves DEF IngestFails, Unlock
  <2>5. CASE q.pc = "locked" /\ Ingested(c)
        BY <1>9, <2>1, <2>2, <2>5, IngestCommits DEF IngestFails
  <2> QED BY <1>9, <2>4, <2>5 DEF IngestFails
<1>10. CASE RecordSourceError(c)
       BY <1>10, RecordSourceErrorKeeps
<1>11. CASE Abandon(c)
       BY <1>11, NoRequest, NoneAssumption, RequestMoves DEF Abandon, End, Unlock
<1> QED BY <1>2, <1>3, <1>4, <1>5, <1>6, <1>7, <1>8, <1>9, <1>10, <1>11 DEF Step

\* Every step keeps the invariant.
LEMMA StepIInv == IInv /\ [Next]_vars => IInv'
<1> SUFFICES ASSUME IInv, [Next]_vars PROVE IInv'
    OBVIOUS
<1>1. CASE UNCHANGED vars
      BY <1>1 DEF vars, IInv, TypeOK, HistoryOfOneOrigin, ReplayNeverConflicts,
                  SyncDescribesActive, ActiveIsIngested, LockOK, CallOK, SourceOK
<1> QED BY <1>1, PushKeeps, UpsertSourceKeeps, StepKeeps DEF Next

\* The locked look and the origin that a name never changes are all it takes.
THEOREM Invariance == Spec => []IInv
BY InitIInv, StepIInv, PTL DEF Spec

\* No history of a source spans two origins, however registrations and slow syncs
\* interleave (UpsertSource, IngestRevision).
THEOREM OneOrigin == Spec => []HistoryOfOneOrigin
<1>1. IInv => HistoryOfOneOrigin BY DEF IInv
<1> QED BY <1>1, Invariance, PTL

\* Requests for one package never end in a conflict (IngestRevision).
THEOREM NoConflict == Spec => []ReplayNeverConflicts
<1>1. IInv => ReplayNeverConflicts BY DEF IInv
<1> QED BY <1>1, Invariance, PTL

\* A success that a sync recorded names what is served, until the source is registered
\* again (setActiveRevisionTx, RecordSourceError).
THEOREM SyncIsServed == Spec => []SyncDescribesActive
<1>1. IInv => SyncDescribesActive BY DEF IInv
<1> QED BY <1>1, Invariance, PTL

-----------------------------------------------------------------------------
\* Recursion and orders.

\* Induction over the naturals, the statement being the set of those it holds of.
LEMMA InductionOnNat ==
  ASSUME NEW S, 0 \in S, \A n \in Nat : n \in S => n + 1 \in S
  PROVE  Nat \subseteq S
<1> DEFINE T == Nat \ S
           R == {r \in Nat \X Nat : r[1] < r[2]}
<1> SUFFICES ASSUME T # {} PROVE FALSE
    OBVIOUS
<1>1. IsWellFoundedOn(R, Nat)
      BY NatLessThanWellFounded DEF OpToRel
<1>2. \E n \in T : \A m \in T : ~(<<m, n>> \in R)
  <2>1. T \subseteq Nat
        OBVIOUS
  <2> HIDE DEF T, R
  <2> QED BY <1>1, <2>1, WFMin
<1>3. PICK n \in T : \A m \in T : ~(m < n)
      BY <1>2
<1>4. n # 0 /\ n - 1 \in Nat /\ n - 1 \in S
      BY <1>3
<1> QED BY <1>3, <1>4

\* A function whose values follow one from the other.
Recurs(f, c, h, N) == f[0] = c /\ \A n \in 1 .. N : f[n] = h[<<f[n - 1], n>>]

\* A function whose values follow one from the other exists.
LEMMA Recursion ==
  ASSUME NEW V, NEW c \in V, NEW h \in [V \X Nat -> V], NEW N \in Nat
  PROVE  \E f \in [0 .. N -> V] : Recurs(f, c, h, N)
<1> DEFINE F(n) == {f \in [0 .. n -> V] :
                      /\ f[0] = c
                      /\ \A i \in 1 .. n : f[i] = h[<<f[i - 1], i>>]}
           S == {n \in Nat : F(n) # {}}
<1>1. 0 \in S
  <2>1. [i \in 0 .. 0 |-> c] \in F(0)
        OBVIOUS
  <2> QED BY <2>1
<1>2. ASSUME NEW n \in Nat, n \in S
      PROVE  n + 1 \in S
  <2>1. PICK f \in F(n) : TRUE
        BY <1>2
  <2> DEFINE g == [i \in 0 .. n + 1 |-> IF i = n + 1 THEN h[<<f[n], n + 1>>] ELSE f[i]]
  <2>2. g \in F(n + 1)
    <3>1. f[n] \in V /\ h[<<f[n], n + 1>>] \in V
          OBVIOUS
    <3>2. g \in [0 .. n + 1 -> V] /\ g[0] = c
          BY <3>1
    <3>3. ASSUME NEW i \in 1 .. n + 1
          PROVE  g[i] = h[<<g[i - 1], i>>]
          OBVIOUS
    <3> QED BY <3>2, <3>3
  <2> HIDE DEF F
  <2> QED BY <2>2
<1>3. Nat \subseteq S
  <2> HIDE DEF S
  <2> QED BY <1>1, <1>2, InductionOnNat
<1>4. PICK f \in F(N) : TRUE
      BY <1>3
<1> QED BY <1>4 DEF Recurs

\* A strict total order of a set, and what is before an element.
Orders(R, S) ==
  /\ R \subseteq S \X S /\ \A a \in S : <<a, a>> \notin R
  /\ \A a, b, c \in S : <<a, b>> \in R /\ <<b, c>> \in R => <<a, c>> \in R
  /\ \A a, b \in S : a # b => <<a, b>> \in R \/ <<b, a>> \in R
Ahead(R, S, s) == {t \in S : <<t, s>> \in R}

\* In a finite set the number of those before it tells an element's place.
LEMMA PlacesAreTaken ==
  ASSUME NEW S, IsFiniteSet(S), NEW R, Orders(R, S)
  PROVE  [s \in S |-> Cardinality(Ahead(R, S, s))]
           \in Bijection(S, 0 .. Cardinality(S) - 1)
<1> DEFINE N == Cardinality(S)
           place == [s \in S |-> Cardinality(Ahead(R, S, s))]
<1>1. N \in Nat
      BY FS_CardinalityType
<1>2. \A s \in S : IsFiniteSet(Ahead(R, S, s)) /\ Cardinality(Ahead(R, S, s)) \in Nat
      BY FS_Subset, FS_CardinalityType DEF Ahead
<1>3. \A s \in S : Cardinality(Ahead(R, S, s)) < N
  <2> TAKE s \in S
  <2>1. Ahead(R, S, s) \in SUBSET S /\ s \notin Ahead(R, S, s)
        BY DEF Ahead, Orders
  <2> QED BY <1>1, <1>2, <2>1, FS_Subset
<1>4. ASSUME NEW s \in S, NEW t \in S, <<s, t>> \in R
      PROVE  Cardinality(Ahead(R, S, s)) < Cardinality(Ahead(R, S, t))
  <2>1. Ahead(R, S, s) \in SUBSET Ahead(R, S, t) /\ s \in Ahead(R, S, t) /\ s \notin Ahead(R, S, s)
        BY <1>4 DEF Ahead, Orders
  <2> QED BY <1>2, <2>1, FS_Subset
<1>5. place \in Injection(S, 0 .. N - 1)
  <2>1. place \in [S -> 0 .. N - 1]
        BY <1>1, <1>2, <1>3
  <2>2. ASSUME NEW s \in S, NEW t \in S, s # t
        PROVE  place[s] # place[t]
    <3>1. <<s, t>> \in R \/ <<t, s>> \in R
          BY <2>2 DEF Orders
    <3> QED BY <1>2, <1>4, <3>1
  <2> QED BY <2>1, <2>2 DEF Injection, IsInjective
<1>6. IsFiniteSet(0 .. N - 1) /\ Cardinality(0 .. N - 1) = N
      BY <1>1, FS_Interval
<1>7. place \in Surjection(S, 0 .. N - 1)
      BY <1>5, <1>6, FS_Injection
<1> QED BY <1>5, <1>7 DEF Bijection

\* The first m of them are m, or all.
LEMMA FirstAreCounted ==
  ASSUME NEW S, IsFiniteSet(S), NEW R, Orders(R, S), NEW m \in Nat
  PROVE  LET F == {s \in S : Cardinality(Ahead(R, S, s)) < m}
         IN /\ IsFiniteSet(F)
            /\ Cardinality(F) = IF m < Cardinality(S) THEN m ELSE Cardinality(S)
<1> DEFINE N == Cardinality(S)
           place == [s \in S |-> Cardinality(Ahead(R, S, s))]
           F == {s \in S : Cardinality(Ahead(R, S, s)) < m}
           n == IF m < N THEN m ELSE N
           first == [s \in F |-> place[s]]
<1>1. N \in Nat /\ n \in Nat
      BY FS_CardinalityType
<1>2. place \in Bijection(S, 0 .. N - 1)
      BY PlacesAreTaken
<1>3. /\ place \in [S -> 0 .. N - 1]
      /\ \A s, t \in S : place[s] = place[t] => s = t
      /\ \A k \in 0 .. N - 1 : \E s \in S : place[s] = k
      BY <1>2, Fun_IsInj, Fun_IsSurj DEF Bijection, Injection, IsInjective, Surjection
<1>4. first \in Bijection(F, 0 .. n - 1)
  <2>1. F = {s \in S : place[s] < m}
        OBVIOUS
  <2> HIDE DEF F, place
  <2>2. first \in [F -> 0 .. n - 1]
        BY <1>1, <1>3, <2>1
  <2>3. \A s, t \in F : first[s] = first[t] => s = t
        BY <1>3, <2>1
  <2>4. \A k \in 0 .. n - 1 : \E s \in F : first[s] = k
    <3> TAKE k \in 0 .. n - 1
    <3>1. k \in 0 .. N - 1 /\ k < m
          BY <1>1
    <3> QED BY <1>3, <2>1, <3>1
  <2> HIDE DEF first, n
  <2> QED BY <2>2, <2>3, <2>4 DEF Bijection, Injection, IsInjective, Surjection
<1>5. IsFiniteSet(0 .. n - 1) /\ Cardinality(0 .. n - 1) = n
  <2>1. n \in Nat
        BY <1>1
  <2> HIDE DEF n
  <2>2. n - 1 \in Int /\ (0 > n - 1 => n = 0) /\ (n - 1) - 0 + 1 = n
        BY <2>1
  <2> QED BY <2>1, <2>2, FS_Interval
<1>6. F \in SUBSET S
      OBVIOUS
<1>7. IsFiniteSet(F)
      BY <1>6, FS_Subset
<1>8. ExistsBijection(F, 0 .. n - 1)
      BY <1>4 DEF ExistsBijection
<1> HIDE DEF F, n
<1>9. Cardinality(F) = n
      BY <1>5, <1>7, <1>8, FS_Bijection
<1> QED BY <1>7, <1>9 DEF F, n

\* One of a finite set comes before all the others.
LEMMA OneIsFirst ==
  ASSUME NEW S, IsFiniteSet(S), S # {}, NEW R, Orders(R, S)
  PROVE  \E s \in S : \A t \in S : t = s \/ <<s, t>> \in R
<1> DEFINE place == [s \in S |-> Cardinality(Ahead(R, S, s))]
<1>1. Cardinality(S) \in Nat \ {0}
      BY FS_CardinalityType, FS_EmptySet
<1>2. \A k \in 0 .. Cardinality(S) - 1 : \E s \in S : place[s] = k
  <2>1. place \in Bijection(S, 0 .. Cardinality(S) - 1)
        BY PlacesAreTaken
  <2> HIDE DEF place
  <2> QED BY <2>1 DEF Bijection, Surjection
<1>3. PICK s \in S : Cardinality(Ahead(R, S, s)) = 0
      BY <1>1, <1>2
<1>4. Ahead(R, S, s) = {}
  <2>1. IsFiniteSet(Ahead(R, S, s))
        BY FS_Subset DEF Ahead
  <2> QED BY <1>3, <2>1, FS_EmptySet
<1> QED BY <1>4 DEF Ahead, Orders

-----------------------------------------------------------------------------
\* Incremental compiles.

\* An accepted increment is faithful to its parent, whatever wiki of whatever revision that
\* is, and whatever the next revision and the model's answer are (runIncremental,
\* runChecks).
THEOREM IncrementsAreFaithful ==
  ASSUME Given("incremental") => input.x \in Incremental!Inputs
  PROVE  IncrementIsFaithful
<1> SUFFICES ASSUME Given("incremental")
             PROVE  /\ Incremental!IncrementIsFaithful(input.x)
                    /\ Incremental!RewriteSeesSources(input.x)
    BY DEF IncrementIsFaithful
<1> DEFINE x == input.x
<1>1. x \in Incremental!Inputs
      OBVIOUS
<1> HIDE DEF x
<1>2. Incremental!RewriteSeesSources(x)
      BY DEF Incremental!RewriteSeesSources, Incremental!Shown
<1>3. ASSUME Incremental!Accepted(x), Incremental!Unchanged(x)
      PROVE  Incremental!IncrementIsFaithful(x)
  <2>1. \A d \in Docs : x.new[d] = x.old[d]
        BY <1>1, <1>3 DEF Incremental!Unchanged, Incremental!Added,
           Incremental!Removed, Incremental!Changed, Incremental!Inputs
  <2> QED BY <1>1, <1>3, <2>1
          DEF Incremental!IncrementIsFaithful, Incremental!Fresh, Incremental!Result,
              Incremental!Unchanged, Incremental!Inputs, Incremental!IsWiki,
              Incremental!Accepted, Incremental!CheckFailures, Incremental!Wikis,
              Incremental!Pages
<1>4. ASSUME Incremental!Accepted(x), ~Incremental!Unchanged(x)
      PROVE  Incremental!IncrementIsFaithful(x)
  <2> DEFINE result == Incremental!Result(x)
  <2> USE <1>1 DEF Incremental!Inputs
  <2>1. /\ result = Incremental!Merged(x)
        /\ Incremental!Fresh(x) = Incremental!Recompiled(x) \ Incremental!Deleted(x)
        BY <1>4 DEF Incremental!Result, Incremental!Fresh
  <2>2. DOMAIN result
          = (Incremental!Reused(x) \cup Incremental!Recompiled(x)) \ Incremental!Deleted(x)
        BY <2>1 DEF Incremental!Merged
  <2>3. /\ \A d \in Incremental!Touched(x) : d \in Docs /\ x.new[d] # x.old[d]
        /\ \A d \in Docs \ Incremental!Touched(x) : x.new[d] = x.old[d] \/ x.old[d] = Nil
        BY DEF Incremental!Touched, Incremental!Removed, Incremental!Changed
  <2>4. ASSUME NEW p \in DOMAIN result \ Incremental!Fresh(x)
        PROVE  /\ p \in DOMAIN x.parent /\ result[p] = x.parent[p]
               /\ \A d \in x.parent[p].cites : x.new[d] = x.old[d]
    <3>1. /\ p \in Incremental!Reused(x) /\ p \notin Incremental!Recompiled(x)
          /\ result[p] = x.parent[p]
          BY <2>1, <2>2, <2>4 DEF Incremental!Merged
    <3>2. p \in DOMAIN x.parent /\ x.parent[p] \in Incremental!Pages
          BY <3>1 DEF Incremental!Reused, Incremental!Wikis
    <3>3. x.parent[p].cites \cap Incremental!Touched(x) = {}
          BY <3>1, <3>2 DEF Incremental!Reused, Incremental!Scheduled
    <3>4. \A d \in x.parent[p].cites : d \in Docs /\ x.old[d] # Nil
          BY <3>2 DEF Incremental!IsWiki, Incremental!Pages
    <3> QED BY <2>3, <3>1, <3>2, <3>3, <3>4
  <2>5. DOMAIN x.parent \ DOMAIN result \subseteq x.deleted
    <3>1. Incremental!PlanFailures(x) = {}
          BY <1>4 DEF Incremental!Accepted
    <3> QED BY <2>2, <3>1 DEF Incremental!PlanFailures, Incremental!Reused, Incremental!Deleted
  <2>6. ASSUME NEW p \in DOMAIN x.parent \cap Incremental!Fresh(x)
        PROVE  \/ \E d \in x.parent[p].cites : x.new[d] # x.old[d]
               \/ \E q \in x.parent[p].links \cap DOMAIN x.parent :
                    \E d \in x.parent[q].cites : x.new[d] # x.old[d]
    <3>1. p \in Incremental!Scheduled(x)
          BY <2>1, <2>6 DEF Incremental!Recompiled
    <3>2. \A q \in DOMAIN x.parent : x.parent[q].cites \subseteq Docs
          BY DEF Incremental!Wikis, Incremental!Pages
    <3> QED BY <2>3, <3>1, <3>2 DEF Incremental!Scheduled
  <2>7. Incremental!IsWiki(result, x.new, x.strict)
    <3>1. Incremental!CheckFailures(result, x.new, x.strict) = {}
          BY <1>4 DEF Incremental!Accepted
    <3> QED BY <3>1 DEF Incremental!CheckFailures, Incremental!IsWiki
  <2> QED BY <2>4, <2>5, <2>6, <2>7 DEF Incremental!IncrementIsFaithful
<1>5. Incremental!IncrementIsFaithful(x)
      BY <1>3, <1>4 DEF Incremental!IncrementIsFaithful
<1> QED BY <1>2, <1>5 DEF x

-----------------------------------------------------------------------------
\* The lint.

\* What one more link adds to a walk.
Behind(x, S) == {l.from : l \in {k \in x.links : /\ Lint!Dependency(k) /\ k.to \in S
                                                /\ ~Lint!Generated(x, k.from)}}

\* The walk starts at the stale pages and goes one link at a time.
LEMMA WalkSteps ==
  ASSUME NEW x \in Lint!Inputs
  PROVE  /\ Lint!Walk(x) \in [0 .. MaxDepth -> SUBSET Linted]
         /\ Lint!Walk(x)[0] = Lint!Stale(x)
         /\ \A n \in 1 .. MaxDepth : Lint!Walk(x)[n] = Behind(x, Lint!Walk(x)[n - 1])
<1> DEFINE V == SUBSET Linted
           c == Lint!Stale(x)
           h == [r \in V \X Nat |-> Behind(x, r[1])]
           Is(f) == f = [n \in 0 .. MaxDepth |-> IF n = 0 THEN c ELSE Behind(x, f[n - 1])]
<1>1. \A S : Behind(x, S) \in V
      BY DEF Behind, Lint!Inputs, Lint!Links
<1>2. c \in V /\ h \in [V \X Nat -> V]
      BY <1>1 DEF Lint!Stale, Lint!StaleCitations
<1>3. PICK f \in [0 .. MaxDepth -> V] : Recurs(f, c, h, MaxDepth)
  <2> HIDE DEF V, c, h
  <2> QED BY <1>2, DepthAssumption, Recursion
<1>4. Is(f)
  <2>1. ASSUME NEW n \in 1 .. MaxDepth
        PROVE  f[n] = Behind(x, f[n - 1])
    <3>1. n \in Nat /\ n - 1 \in 0 .. MaxDepth /\ f[n - 1] \in V
          BY DepthAssumption
    <3> QED BY <1>3, <3>1 DEF Recurs
  <2>2. f[0] = c
        BY <1>3 DEF Recurs
  <2> HIDE DEF h, c, V
  <2> QED BY <2>1, <2>2, DepthAssumption
<1>5. Lint!Walk(x) = CHOOSE g : Is(g)
      BY DEF Lint!Walk, Behind
<1> DEFINE w == Lint!Walk(x)
<1>6. Is(w)
  <2> HIDE DEF Is
  <2> QED BY <1>4, <1>5
<1>7. \A n \in 0 .. MaxDepth : w[n] = IF n = 0 THEN c ELSE Behind(x, w[n - 1])
      BY <1>6
<1> HIDE DEF c
<1>8. w \in [0 .. MaxDepth -> V]
      BY <1>1, <1>2, <1>6
<1> QED BY <1>7, <1>8, DepthAssumption DEF c

\* A path of one link.
LEMMA RestsOne ==
  ASSUME NEW x, NEW p, NEW S \in SUBSET Linted
  PROVE  Lint!RestsIn(x, p, S, 1) <=> \E q \in S : Lint!Builds(x, p, q)
<1>1. ASSUME NEW q \in S, Lint!Builds(x, p, q)
      PROVE  Lint!RestsIn(x, p, S, 1)
  <2> DEFINE path == [i \in 1 .. 1 |-> q]
  <2>1. path \in [1 .. 1 -> Linted] /\ path[1] = q
        OBVIOUS
  <2> HIDE DEF path
  <2> QED BY <1>1, <2>1 DEF Lint!RestsIn
<1> QED BY <1>1 DEF Lint!RestsIn

\* A path of a link more.
LEMMA RestsMore ==
  ASSUME NEW x, NEW p, NEW S \in SUBSET Linted, NEW n \in Nat \ {0}
  PROVE  Lint!RestsIn(x, p, S, n + 1) <=>
           \E q \in Linted : Lint!Builds(x, p, q) /\ Lint!RestsIn(x, q, S, n)
<1>1. ASSUME Lint!RestsIn(x, p, S, n + 1)
      PROVE  \E q \in Linted : Lint!Builds(x, p, q) /\ Lint!RestsIn(x, q, S, n)
  <2>1. PICK path \in [1 .. n + 1 -> Linted] :
          /\ path[n + 1] \in S /\ Lint!Builds(x, p, path[1])
          /\ \A i \in 1 .. (n + 1) - 1 : Lint!Builds(x, path[i], path[i + 1])
        BY <1>1 DEF Lint!RestsIn
  <2> DEFINE rest == [i \in 1 .. n |-> path[i + 1]]
  <2>2. rest \in [1 .. n -> Linted] /\ rest[n] \in S /\ rest[1] = path[2] /\ path[1] \in Linted
        BY <2>1
  <2>3. \A i \in 1 .. n : Lint!Builds(x, path[i], path[i + 1])
        BY <2>1
  <2>4. Lint!Builds(x, path[1], rest[1])
        BY <2>2, <2>3
  <2>5. ASSUME NEW i \in 1 .. n - 1
        PROVE  Lint!Builds(x, rest[i], rest[i + 1])
    <3>1. /\ i + 1 \in 1 .. n /\ i \in 1 .. n
          /\ rest[i] = path[i + 1] /\ rest[i + 1] = path[(i + 1) + 1]
          OBVIOUS
    <3> QED BY <2>3, <3>1
  <2> HIDE DEF rest
  <2>6. Lint!RestsIn(x, path[1], S, n)
        BY <2>2, <2>4, <2>5 DEF Lint!RestsIn
  <2> QED BY <2>1, <2>2, <2>6
<1>2. ASSUME NEW q \in Linted, Lint!Builds(x, p, q), Lint!RestsIn(x, q, S, n)
      PROVE  Lint!RestsIn(x, p, S, n + 1)
  <2>1. PICK rest \in [1 .. n -> Linted] :
          /\ rest[n] \in S /\ Lint!Builds(x, q, rest[1])
          /\ \A i \in 1 .. n - 1 : Lint!Builds(x, rest[i], rest[i + 1])
        BY <1>2 DEF Lint!RestsIn
  <2> DEFINE path == [i \in 1 .. n + 1 |-> IF i = 1 THEN q ELSE rest[i - 1]]
  <2>2. path \in [1 .. n + 1 -> Linted] /\ path[1] = q /\ path[n + 1] \in S
        BY <2>1
  <2>3. ASSUME NEW i \in 1 .. (n + 1) - 1
        PROVE  Lint!Builds(x, path[i], path[i + 1])
    <3>1. CASE i = 1
          BY <2>1, <3>1
    <3>2. CASE i # 1
      <4>1. i - 1 \in 1 .. n - 1 /\ path[i] = rest[i - 1] /\ path[i + 1] = rest[(i - 1) + 1]
            BY <3>2
      <4> QED BY <2>1, <4>1
    <3> QED BY <3>1, <3>2
  <2> HIDE DEF path
  <2> QED BY <1>2, <2>2, <2>3 DEF Lint!RestsIn
<1> QED BY <1>1, <1>2

\* The walk meets after n links the pages that rest on stale ones by a path of n.
LEMMA WalkIsRest ==
  ASSUME NEW x \in Lint!Inputs, NEW n \in 1 .. MaxDepth
  PROVE  Lint!Walk(x)[n] = {p \in Linted : Lint!RestsIn(x, p, Lint!Stale(x), n)}
<1> DEFINE w == Lint!Walk(x)
           stale == Lint!Stale(x)
           Good(k) == w[k] = {p \in Linted : Lint!RestsIn(x, p, stale, k)}
           S == {k \in Nat : k + 1 \in 1 .. MaxDepth => Good(k + 1)}
<1>1. \A T : Behind(x, T) = {p \in Linted : \E q \in T : Lint!Builds(x, p, q)}
      BY DEF Behind, Lint!Builds, Lint!Dependency, Lint!Inputs, Lint!Links
<1>2. stale \in SUBSET Linted
      BY DEF Lint!Stale, Lint!StaleCitations
<1>3. /\ w \in [0 .. MaxDepth -> SUBSET Linted]
      /\ w[0] = stale
      /\ \A k \in 1 .. MaxDepth : w[k] = Behind(x, w[k - 1])
      BY WalkSteps
<1> HIDE DEF w, stale
<1>4. 0 \in S
      BY <1>1, <1>2, <1>3, RestsOne
<1>5. ASSUME NEW k \in Nat, k \in S
      PROVE  k + 1 \in S
  <2> SUFFICES ASSUME k + 2 \in 1 .. MaxDepth
               PROVE  Good(k + 2)
      OBVIOUS
  <2>1. k + 1 \in 1 .. MaxDepth /\ k + 1 \in Nat \ {0} /\ (k + 2) - 1 = k + 1 /\ (k + 1) + 1 = k + 2
        BY DepthAssumption
  <2>2. w[k + 2] = Behind(x, w[k + 1]) /\ Good(k + 1)
        BY <1>3, <1>5, <2>1
  <2>3. \A p : Lint!RestsIn(x, p, stale, k + 2) <=>
                 \E q \in Linted : Lint!Builds(x, p, q) /\ Lint!RestsIn(x, q, stale, k + 1)
        BY <1>2, <2>1, RestsMore
  <2> QED BY <1>1, <2>2, <2>3
<1>6. Nat \subseteq S
  <2> HIDE DEF S
  <2> QED BY <1>4, <1>5, InductionOnNat
<1>7. n - 1 \in Nat /\ (n - 1) + 1 = n
      OBVIOUS
<1> QED BY <1>6, <1>7 DEF w, stale

\* The lint names exactly the pages that rest on text that moved, at their distance, in
\* wikis of any size and with any cycles (RunWikiLint).
THEOREM LintsAreExact ==
  ASSUME Given("lint") => input.x \in Lint!Inputs
  PROVE  LintIsExact
<1> SUFFICES ASSUME Given("lint")
             PROVE  Lint!LintIsExact(input.x)
    BY DEF LintIsExact
<1> DEFINE x == input.x
           stale == Lint!Stale(x)
           moved == {p \in Linted : \E d \in Docs : x.cites[p][d] \notin {Nil, x.current[d]}}
           cascade == Lint!Lint(x).cascade
           stales == Lint!Lint(x).stale
           cascaded == {c[1] : c \in cascade}
<1>1. x \in Lint!Inputs
      OBVIOUS
<1> HIDE DEF x
<1>2. /\ cascade = Lint!Cascade(x)
      /\ stales = Lint!StaleCitations(x)
      /\ Lint!Lint(x).uncovered = Lint!Uncovered(x)
      BY DEF Lint!Lint
<1>3. stale = moved /\ stale \subseteq Linted
  <2>1. stale \subseteq moved
        BY <1>1 DEF Lint!Stale, Lint!StaleCitations, Lint!Inputs
  <2>2. ASSUME NEW p \in Linted, NEW d \in Docs, x.cites[p][d] \notin {Nil, x.current[d]}
        PROVE  p \in stale
    <3>1. <<p, d>> \in Lint!StaleCitations(x)
          BY <2>2 DEF Lint!StaleCitations
    <3> QED BY <3>1 DEF Lint!Stale
  <2> QED BY <2>1, <2>2
<1> HIDE DEF stale, moved, cascade, stales
<1>4. \A c \in cascade : /\ c \in Linted \X (1 .. MaxDepth) /\ c[1] \notin stale
                         /\ Lint!RestsIn(x, c[1], stale, c[2])
      BY <1>1, <1>2, WalkIsRest DEF Lint!Cascade, stale
<1>5. ASSUME NEW p \in Linted \ moved, NEW n \in 1 .. MaxDepth
      PROVE  <<p, n>> \in cascade <=>
               Lint!RestsIn(x, p, moved, n) /\ \A m \in 1 .. n - 1 : ~Lint!RestsIn(x, p, moved, m)
  <2>1. \A m \in 1 .. n : m \in 1 .. MaxDepth
        BY DepthAssumption
  <2>2. \A m \in 1 .. n : p \in Lint!Walk(x)[m] <=> Lint!RestsIn(x, p, moved, m)
        BY <1>1, <1>3, <1>5, <2>1, WalkIsRest DEF stale
  <2>3. Lint!RestsIn(x, p, moved, n) => ~Lint!Generated(x, p)
        BY DEF Lint!RestsIn, Lint!Builds
  <2>4. <<p, n>> \in cascade <=> /\ p \in Lint!Walk(x)[n] \ stale /\ ~Lint!Generated(x, p)
                                 /\ \A m \in 1 .. n - 1 : p \notin Lint!Walk(x)[m]
        BY <1>2 DEF Lint!Cascade, stale
  <2>5. p \notin stale /\ n \in 1 .. n /\ 1 .. n - 1 \subseteq 1 .. n
        BY <1>3
  <2> QED BY <2>2, <2>3, <2>4, <2>5
<1>6. moved = {} => cascaded = {}
      BY <1>3, <1>4 DEF Lint!RestsIn
<1>7. \A c \in stales : c[2] \notin Lint!Lint(x).uncovered
      BY <1>2 DEF Lint!StaleCitations, Lint!Uncovered
<1>8. moved = {c[1] : c \in stales} /\ cascaded \cap moved = {}
      BY <1>2, <1>3, <1>4 DEF Lint!Stale, stale
<1>9. \A p \in Linted \ moved, n \in 1 .. MaxDepth :
        <<p, n>> \in cascade <=>
          Lint!RestsIn(x, p, moved, n) /\ \A m \in 1 .. n - 1 : ~Lint!RestsIn(x, p, moved, m)
      BY <1>5
<1>10. Lint!LintIsExact(x)
       BY <1>6, <1>7, <1>8, <1>9, Zenon DEF Lint!LintIsExact, moved, cascade, stales
<1> QED BY <1>10 DEF x

-----------------------------------------------------------------------------
\* Reviews.

Verdicts == {"skipped", "failed", "flagged", "partial", "clean"}
ReviewRows == [status : Verdicts, findings : SUBSET Reviewed, examined : Nat, total : Nat,
               reviewer : Models \cup {Nil}]

\* The module counts as this one does.
LEMMA ReviewCounts == \A S : Review!Cardinality(S) = Cardinality(S)
BY Zenon DEF Review!Cardinality, Cardinality

\* What one review says is no more than it saw.
LEMMA ResultIsEarned ==
  ASSUME NEW x \in Review!Inputs, NEW r \in Review!Reviews
  PROVE  LET s == Review!Result(x, r)
         IN /\ s \in ReviewRows
            /\ s.status = "clean" =>
                 \A p \in Reviewed : p \in Review!Eligible(x, r) => Review!Passed(x, r, p)
            /\ s.status = "flagged" => s.findings # {}
            /\ s.status # "flagged" => s.findings = {}
            /\ s.status # "skipped" => s.reviewer \notin {Nil, x.compiler}
            /\ s.status # "skipped" =>
                 s.findings = {p \in Review!Answered(x, r) : r.answers[p].findings # {}}
<1> DEFINE E == Review!Eligible(x, r)
           A == Review!Answered(x, r)
           F == Review!Found(x, r)
           s == Review!Result(x, r)
<1>1. E \subseteq Reviewed /\ A \subseteq E /\ F \subseteq A
      BY DEF Review!Eligible, Review!Answered, Review!Found, Review!Examined
<1>2. /\ IsFiniteSet(E) /\ IsFiniteSet(A) /\ IsFiniteSet(F)
      /\ Cardinality(E) \in Nat /\ Cardinality(A) \in Nat /\ Cardinality(F) \in Nat
      /\ Cardinality(A) <= Cardinality(E)
      BY <1>1, PagesAssumption, FS_Subset, FS_CardinalityType
<1>3. /\ Cardinality(E) = 0 <=> E = {}
      /\ Cardinality(A) = 0 <=> A = {}
      /\ Cardinality(F) = 0 <=> F = {}
      /\ Cardinality(A) = Cardinality(E) => A = E
      BY <1>1, <1>2, FS_EmptySet, FS_Subset
<1>4. \A p \in Reviewed : r.answers[p].findings \subseteq {"usable", "unusable"}
      BY DEF Review!Reviews, Review!Answers
<1>5. F = {p \in A : r.answers[p].findings # {}}
      BY <1>4 DEF Review!Answered, Review!Found
<1>6. F = {} /\ A = E => \A p \in E : Review!Passed(x, r, p)
      BY <1>5 DEF Review!Answered, Review!Passed
<1>7. x.compiler \in Models /\ r.reviewer \in Models \cup {Nil} /\ Nil \notin Models
      BY NilAssumption DEF Review!Inputs, Review!Reviews
<1>8. CASE Review!Skips(x, r)
      BY <1>7, <1>8 DEF Review!Result, ReviewRows, Verdicts
<1>9. CASE ~Review!Skips(x, r)
  <2> DEFINE o == Review!Outcome(Cardinality(E), Cardinality(A), Cardinality(F))
  <2>1. s = [status |-> o, findings |-> F, examined |-> Cardinality(A), total |-> Cardinality(E),
             reviewer |-> r.reviewer]
        BY <1>9, ReviewCounts DEF Review!Result
  <2>2. /\ o \in Verdicts
        /\ o = "clean" => Cardinality(F) = 0 /\ Cardinality(A) >= Cardinality(E)
        /\ o = "flagged" <=> Cardinality(F) # 0 /\ Cardinality(A) # 0 /\ Cardinality(E) # 0
        BY <1>2 DEF Review!Outcome, Verdicts
  <2>3. r.reviewer # Nil /\ r.reviewer # x.compiler
        BY <1>9 DEF Review!Skips
  <2>4. o = "clean" => F = {} /\ A = E
        BY <1>2, <1>3, <2>2
  <2>5. o = "flagged" <=> F # {}
        BY <1>1, <1>3, <2>2
  <2>6. s \in ReviewRows
        BY <1>1, <1>2, <1>7, <2>1, <2>2 DEF ReviewRows
  <2>7. s.status = o /\ s.findings = F /\ s.reviewer = r.reviewer
        BY <2>1
  <2> HIDE DEF o, s, E, A, F
  <2>8. s.status = "clean" => \A p \in Reviewed : p \in E => Review!Passed(x, r, p)
        BY <1>6, <2>4, <2>7
  <2> QED BY <1>5, <2>3, <2>5, <2>6, <2>7, <2>8 DEF s, E, A
<1> QED BY <1>8, <1>9

\* The row after one more review.
Reviewing(x, row, n) ==
  IF n \in 1 .. Len(x.reviews) /\ Review!Runs(x, x.reviews[n])
  THEN Review!RecordReviewResult(row, Review!Result(x, x.reviews[n])) ELSE row

\* A skip is recorded with the findings there are, an answer instead of them.
LEMMA ReviewRecorded ==
  ASSUME NEW row \in ReviewRows, NEW s \in ReviewRows
  PROVE  LET new == Review!RecordReviewResult(row, s)
         IN /\ new \in ReviewRows
            /\ new.status = s.status
            /\ new.findings = IF s.status = "skipped" THEN row.findings \cup s.findings
                              ELSE s.findings
            /\ new.reviewer = IF s.reviewer = Nil THEN row.reviewer ELSE s.reviewer
BY DEF Review!RecordReviewResult, ReviewRows

\* The rows that several reviews leave follow one from the other.
LEMMA RowsStep ==
  ASSUME NEW x \in Review!Inputs
  PROVE  /\ Review!Rows(x) \in [0 .. Len(x.reviews) -> ReviewRows]
         /\ Review!Rows(x)[0] = Review!Unreviewed(x)
         /\ \A n \in 1 .. Len(x.reviews) :
              Review!Rows(x)[n] = Reviewing(x, Review!Rows(x)[n - 1], n)
<1> DEFINE V == ReviewRows
           N == Len(x.reviews)
           c == Review!Unreviewed(x)
           h == [a \in V \X Nat |-> Reviewing(x, a[1], a[2])]
           Is(f) == f = [n \in 0 .. N |-> IF n = 0 THEN c ELSE Reviewing(x, f[n - 1], n)]
<1>1. N \in Nat /\ \A n \in 1 .. N : x.reviews[n] \in Review!Reviews
      BY DEF Review!Inputs
<1>2. c \in V
      BY DEF Review!Unreviewed, Review!Inputs, ReviewRows, Verdicts
<1>3. \A row \in V, n \in Nat : Reviewing(x, row, n) \in V
      BY <1>1, ResultIsEarned, ReviewRecorded DEF Reviewing
<1>4. PICK f \in [0 .. N -> V] : Recurs(f, c, h, N)
  <2>1. h \in [V \X Nat -> V]
        BY <1>3
  <2> HIDE DEF V, c, h, N
  <2> QED BY <1>1, <1>2, <2>1, Recursion
<1>5. Is(f)
  <2>1. ASSUME NEW n \in 1 .. N
        PROVE  f[n] = Reviewing(x, f[n - 1], n)
    <3>1. n \in Nat /\ n - 1 \in 0 .. N /\ f[n - 1] \in V
          BY <1>1
    <3> QED BY <1>4, <3>1 DEF Recurs
  <2>2. f[0] = c
        BY <1>4 DEF Recurs
  <2> HIDE DEF h, c, V, N
  <2> QED BY <1>1, <2>1, <2>2
<1> DEFINE w == Review!Rows(x)
<1> DEFINE Of(g) == g = [n \in 0 .. N |->
                        IF n = 0 THEN c
                        ELSE IF Review!Runs(x, x.reviews[n])
                             THEN Review!RecordReviewResult(g[n - 1],
                                                            Review!Result(x, x.reviews[n]))
                             ELSE g[n - 1]]
<1>6. \A g : Is(g) <=> Of(g)
      BY <1>1 DEF Reviewing
<1>7. w = CHOOSE g : Of(g)
      BY DEF Review!Rows
<1>10. Is(w)
  <2> HIDE DEF w, Is, Of
  <2> QED BY <1>5, <1>6, <1>7
<1> HIDE DEF w, c, V
<1>8. \A n \in 0 .. N : w[n] = IF n = 0 THEN c ELSE Reviewing(x, w[n - 1], n)
      BY <1>10
<1>9. w \in [0 .. N -> V]
  <2> DEFINE S == {n \in Nat : n \in 0 .. N => w[n] \in V}
  <2>1. 0 \in S
        BY <1>2, <1>8
  <2>2. ASSUME NEW n \in Nat, n \in S PROVE n + 1 \in S
        BY <1>1, <1>3, <1>8, <2>2
  <2>3. Nat \subseteq S
    <3> HIDE DEF S
    <3> QED BY <2>1, <2>2, InductionOnNat
  <2>4. \A n \in 0 .. N : w[n] \in V
        BY <1>1, <2>3
  <2>5. w = [n \in 0 .. N |-> w[n]]
        BY <1>10
  <2> QED BY <2>4, <2>5
<1> QED BY <1>1, <1>8, <1>9 DEF w, c, V

\* What the row after the first n reviews may claim.
Earned(x, n) ==
  LET row == Review!Rows(x)[n]
      C   == {m \in 1 .. n : Review!Concluded(x, m)}
  IN /\ row.status = "flagged" => row.findings # {}
     /\ row.status \in {"clean", "partial", "failed"} => row.findings = {}
     /\ row.status # "skipped" => row.reviewer \notin {Nil, x.compiler}
     /\ \A m \in C : (\A k \in C : k <= m) =>
          row.findings = {p \in Review!Answered(x, x.reviews[m]) :
                            x.reviews[m].answers[p].findings # {}}
     /\ C = {} => row.findings = {}

\* One review more leaves a row that is earned.
LEMMA EarnedStep ==
  ASSUME NEW x \in Review!Inputs, NEW n \in 1 .. Len(x.reviews), Earned(x, n - 1)
  PROVE  Earned(x, n)
<1> DEFINE r == x.reviews[n]
           s == Review!Result(x, r)
           old == Review!Rows(x)[n - 1]
           row == Review!Rows(x)[n]
           B == {m \in 1 .. n - 1 : Review!Concluded(x, m)}
           C == {m \in 1 .. n : Review!Concluded(x, m)}
           Has(f, m) == f = {p \in Review!Answered(x, x.reviews[m]) :
                               x.reviews[m].answers[p].findings # {}}
<1>1. r \in Review!Reviews /\ n \in Nat /\ n - 1 \in Nat
      BY DEF Review!Inputs
<1>2. /\ old \in ReviewRows /\ row \in ReviewRows
      /\ row = IF Review!Runs(x, r) THEN Review!RecordReviewResult(old, s) ELSE old
  <2>1. /\ Review!Rows(x) \in [0 .. Len(x.reviews) -> ReviewRows]
        /\ row = Reviewing(x, old, n)
        BY RowsStep
  <2>2. n \in 0 .. Len(x.reviews) /\ n - 1 \in 0 .. Len(x.reviews)
        BY <1>1
  <2>3. old \in ReviewRows /\ row \in ReviewRows
        BY <2>1, <2>2
  <2> QED BY <2>1, <2>3 DEF Reviewing
<1>3. /\ s \in ReviewRows
      /\ s.status = "flagged" => s.findings # {}
      /\ s.status # "flagged" => s.findings = {}
      /\ s.status # "skipped" => s.reviewer \notin {Nil, x.compiler} /\ Has(s.findings, n)
      BY <1>1, ResultIsEarned
<1>4. Review!Concluded(x, n) <=> Review!Runs(x, r) /\ s.status # "skipped"
      BY DEF Review!Concluded
<1>5. /\ old.status = "flagged" => old.findings # {}
      /\ old.status \in {"clean", "partial", "failed"} => old.findings = {}
      /\ old.status # "skipped" => old.reviewer \notin {Nil, x.compiler}
      /\ \A m \in B : (\A k \in B : k <= m) => Has(old.findings, m)
      /\ B = {} => old.findings = {}
      BY DEF Earned
<1>6. C = B \cup (IF Review!Concluded(x, n) THEN {n} ELSE {})
      BY <1>1
<1>7. \A m \in B : m \in Nat /\ m < n
      BY <1>1
<1> SUFFICES /\ row.status = "flagged" => row.findings # {}
             /\ row.status \in {"clean", "partial", "failed"} => row.findings = {}
             /\ row.status # "skipped" => row.reviewer \notin {Nil, x.compiler}
             /\ \A m \in C : (\A k \in C : k <= m) => Has(row.findings, m)
             /\ C = {} => row.findings = {}
    BY DEF Earned
<1> HIDE DEF r, s, old, row, B, C, Has
<1>8. CASE ~Review!Runs(x, r)
      BY <1>2, <1>4, <1>5, <1>6, <1>8
<1>9. CASE Review!Runs(x, r)
  <2>1. /\ row.status = s.status
        /\ row.findings = IF s.status = "skipped" THEN old.findings \cup s.findings
                          ELSE s.findings
        /\ row.reviewer = IF s.reviewer = Nil THEN old.reviewer ELSE s.reviewer
        BY <1>2, <1>3, <1>9, ReviewRecorded
  <2>2. CASE s.status = "skipped"
    <3>1. row.findings = old.findings /\ C = B
          BY <1>3, <1>4, <1>6, <2>1, <2>2
    <3> QED BY <1>3, <1>5, <2>1, <2>2, <3>1
  <2>3. CASE s.status # "skipped"
    <3>1. n \in C /\ row.findings = s.findings /\ row.reviewer = s.reviewer
          BY <1>3, <1>4, <1>6, <1>9, <2>1, <2>3
    <3>2. \A m \in C : (\A k \in C : k <= m) => m = n
          BY <1>1, <1>6, <1>7, <3>1
    <3> QED BY <1>3, <2>1, <2>3, <3>1, <3>2
  <2> QED BY <2>2, <2>3
<1> QED BY <1>8, <1>9

\* So are the rows after any number of reviews.
LEMMA RowsAreEarned ==
  ASSUME NEW x \in Review!Inputs, NEW n \in 0 .. Len(x.reviews)
  PROVE  Earned(x, n)
<1> DEFINE S == {k \in Nat : k \in 0 .. Len(x.reviews) => Earned(x, k)}
<1>1. Len(x.reviews) \in Nat
      BY DEF Review!Inputs
<1>2. 0 \in S
  <2>1. Review!Rows(x)[0] = Review!Unreviewed(x)
        BY RowsStep
  <2> QED BY <2>1 DEF Earned, Review!Unreviewed
<1>3. ASSUME NEW k \in Nat, k \in S
      PROVE  k + 1 \in S
  <2> SUFFICES ASSUME k + 1 \in 0 .. Len(x.reviews)
               PROVE  Earned(x, k + 1)
      OBVIOUS
  <2>1. k + 1 \in 1 .. Len(x.reviews) /\ (k + 1) - 1 = k /\ Earned(x, k)
        BY <1>1, <1>3
  <2> QED BY <2>1, EarnedStep
<1>4. Nat \subseteq S
  <2> HIDE DEF S
  <2> QED BY <1>2, <1>3, InductionOnNat
<1> QED BY <1>1, <1>4

\* No row claims more than its reviews saw, after any number of reviews (runReview,
\* RecordReviewResult).
THEOREM VerdictsAreEarned ==
  ASSUME Given("review") => input.x \in Review!Inputs
  PROVE  VerdictIsEarned
<1> SUFFICES ASSUME Given("review")
             PROVE  Review!VerdictIsEarned(input.x)
    BY DEF VerdictIsEarned
<1> DEFINE x == input.x
<1>1. x \in Review!Inputs
      OBVIOUS
<1> HIDE DEF x
<1>2. ASSUME NEW n \in 1 .. Len(x.reviews)
      PROVE  LET row == Review!Rows(x)[n]
                 r   == x.reviews[n]
             IN Review!Runs(x, r) /\ row.status = "clean" =>
                  \A p \in Reviewed :
                    ~x.pages[p].generated /\ (r.auto => x.pages[p].written)
                      => Review!Passed(x, r, p)
  <2> DEFINE row == Review!Rows(x)[n]
             r   == x.reviews[n]
             s   == Review!Result(x, r)
  <2> SUFFICES ASSUME Review!Runs(x, r), row.status = "clean",
                      NEW p \in Reviewed,
                      ~x.pages[p].generated /\ (r.auto => x.pages[p].written)
               PROVE  Review!Passed(x, r, p)
      OBVIOUS
  <2>1. r \in Review!Reviews /\ n - 1 \in 0 .. Len(x.reviews)
        BY <1>1 DEF Review!Inputs
  <2>2. /\ Review!Rows(x)[n - 1] \in ReviewRows
        /\ row = Review!RecordReviewResult(Review!Rows(x)[n - 1], s)
        BY <1>1, <2>1, RowsStep DEF Reviewing
  <2>3. s \in ReviewRows /\ s.status = "clean" =>
          \A q \in Reviewed : q \in Review!Eligible(x, r) => Review!Passed(x, r, q)
        BY <1>1, <2>1, ResultIsEarned
  <2>4. s \in ReviewRows
        BY <1>1, <2>1, ResultIsEarned
  <2>5. s.status = "clean"
    <3>1. Review!RecordReviewResult(Review!Rows(x)[n - 1], s).status = s.status
          BY <2>2, <2>4, ReviewRecorded
    <3> QED BY <2>2, <3>1
  <2>6. p \in Review!Eligible(x, r)
        BY DEF Review!Eligible
  <2> QED BY <2>3, <2>4, <2>5, <2>6
<1>3. \A n \in 1 .. Len(x.reviews) : Earned(x, n)
      BY <1>1, RowsAreEarned DEF Review!Inputs
<1>4. Review!VerdictIsEarned(x)
  <2> SUFFICES ASSUME NEW n \in 1 .. Len(x.reviews)
               PROVE  LET row == Review!Rows(x)[n]
                          r   == x.reviews[n]
                          C   == {m \in 1 .. n : Review!Concluded(x, m)}
                      IN /\ Review!Runs(x, r) /\ row.status = "clean" =>
                              \A p \in Reviewed :
                                ~x.pages[p].generated /\ (r.auto => x.pages[p].written)
                                  => Review!Passed(x, r, p)
                         /\ row.status = "flagged" => row.findings # {}
                         /\ row.status \in {"clean", "partial", "failed"} => row.findings = {}
                         /\ row.status # "skipped" => row.reviewer \notin {Nil, x.compiler}
                         /\ \A m \in C : (\A k \in C : k <= m) =>
                              row.findings = {p \in Review!Answered(x, x.reviews[m]) :
                                                x.reviews[m].answers[p].findings # {}}
                         /\ C = {} => row.findings = {}
      BY Zenon DEF Review!VerdictIsEarned
  <2> QED BY <1>2, <1>3, Zenon DEF Earned
<1> QED BY <1>4 DEF x

-----------------------------------------------------------------------------
\* Quality runs.

\* The module counts as this one does.
LEMMA QualityCounts ==
  /\ \A S : Quality!Cardinality(S) = Cardinality(S)
  /\ \A S : Quality!IsFiniteSet(S) <=> IsFiniteSet(S)
<1>1. \A S : Quality!Cardinality(S) = Cardinality(S)
      BY Zenon DEF Quality!Cardinality, Cardinality
<1>2. \A S : Quality!IsFiniteSet(S) <=> IsFiniteSet(S)
      BY Zenon DEF Quality!IsFiniteSet, IsFiniteSet
<1> QED BY <1>1, <1>2

Mine(v, cutoff, logs) == {k \in logs : k.version = v /\ k.at <= cutoff}
Newer(k, m) == k.at > m.at \/ (k.at = m.at /\ k.id > m.id)
Recency(L)  == {r \in L \X L : Newer(r[1], r[2])}

\* Of any two logs one is the more recent.
LEMMA RecencyOrders ==
  ASSUME NEW L \in SUBSET Quality!Logs, \A k, m \in L : k.id = m.id => k = m
  PROVE  /\ Orders(Recency(L), L)
         /\ \A k \in L : Ahead(Recency(L), L, k) = {m \in L : Newer(m, k)}
<1>1. \A k \in L : k.at \in Nat /\ k.id \in Nat
      BY DEF Quality!Logs
<1>2. \A k, m \in L : <<k, m>> \in Recency(L) <=> Newer(k, m)
      BY DEF Recency
<1>3. Recency(L) \subseteq L \X L
      BY DEF Recency
<1>4. Orders(Recency(L), L)
      BY <1>1, <1>2, <1>3 DEF Orders, Newer
<1> QED BY <1>2, <1>4 DEF Ahead

\* What telemetry considers are the most recent of a version's logs.
LEMMA ConsideredAre ==
  ASSUME NEW v, NEW c \in Nat, NEW logs \in SUBSET Quality!Logs, IsFiniteSet(logs),
         \A k, m \in logs : k.id = m.id => k = m
  PROVE  LET L == Mine(v, c, logs)
         IN /\ IsFiniteSet(L) /\ Orders(Recency(L), L)
            /\ Quality!Considered(v, c, logs) =
                 {k \in L : Cardinality(Ahead(Recency(L), L, k)) < MaxLogs}
<1> DEFINE L == Mine(v, c, logs)
<1>1. L \in SUBSET logs
      BY DEF Mine
<1>2. IsFiniteSet(L)
      BY <1>1, FS_Subset
<1>3. /\ Orders(Recency(L), L)
      /\ \A k \in L : Ahead(Recency(L), L, k) = {m \in L : Newer(m, k)}
  <2>1. L \in SUBSET Quality!Logs /\ \A k, m \in L : k.id = m.id => k = m
        BY <1>1
  <2> HIDE DEF L
  <2> QED BY <2>1, RecencyOrders
<1>4. Quality!Considered(v, c, logs) = {k \in L : Cardinality({m \in L : Newer(m, k)}) < MaxLogs}
      BY QualityCounts DEF Quality!Considered, Mine, Newer
<1> QED BY <1>2, <1>3, <1>4

\* Telemetry considers no more logs than its limit, a version's newest before the cutoff, and
\* would consider the same if there were no others.
LEMMA ConsideredKeeps ==
  ASSUME NEW v, NEW c \in Nat, NEW logs \in SUBSET Quality!Logs, IsFiniteSet(logs),
         \A k, m \in logs : k.id = m.id => k = m
  PROVE  LET seen == Quality!Considered(v, c, logs)
         IN /\ seen \subseteq Mine(v, c, logs)
            /\ Cardinality(seen) <= MaxLogs
            /\ Quality!Considered(v, c, seen) = seen
            /\ \A k \in logs \ seen : \/ k.version # v \/ k.at > c
                                       \/ \A m \in seen : m.at >= k.at
<1> DEFINE L == Mine(v, c, logs)
           seen == Quality!Considered(v, c, logs)
           ahead(k) == Ahead(Recency(L), L, k)
<1>1. /\ IsFiniteSet(L) /\ Orders(Recency(L), L)
      /\ seen = {k \in L : Cardinality(ahead(k)) < MaxLogs}
      BY ConsideredAre
<1>2. L \in SUBSET logs /\ \A k \in L : k.version = v /\ k.at <= c
      BY DEF Mine
<1>3. \A k \in logs : k.at \in Nat /\ k.id \in Nat
      BY DEF Quality!Logs
<1>4. \A k \in L : IsFiniteSet(ahead(k)) /\ Cardinality(ahead(k)) \in Nat
      BY <1>1, FS_Subset, FS_CardinalityType DEF Ahead
<1>5. Cardinality(seen) <= MaxLogs
  <2>1. Cardinality(L) \in Nat
        BY <1>1, FS_CardinalityType
  <2>2. Cardinality(seen) = IF MaxLogs < Cardinality(L) THEN MaxLogs ELSE Cardinality(L)
    <3> HIDE DEF L, seen
    <3> QED BY <1>1, LogsAssumption, FirstAreCounted DEF ahead
  <2> QED BY <2>1, <2>2, LogsAssumption
<1>6. Quality!Considered(v, c, seen) = seen
  <2> DEFINE K == Mine(v, c, seen)
  <2>1. /\ seen \in SUBSET L /\ seen \in SUBSET logs /\ seen \in SUBSET Quality!Logs
        /\ IsFiniteSet(seen)
        BY <1>1, <1>2, FS_Subset
  <2>2. K = seen
        BY <1>2, <2>1 DEF Mine
  <2>3. Quality!Considered(v, c, seen) =
          {k \in seen : Cardinality(Ahead(Recency(seen), seen, k)) < MaxLogs}
    <3>1. \A k, m \in seen : k.id = m.id => k = m
          BY <2>1
    <3> HIDE DEF seen, K
    <3>2. Quality!Considered(v, c, seen) =
            {k \in K : Cardinality(Ahead(Recency(K), K, k)) < MaxLogs}
          BY <2>1, <3>1, ConsideredAre DEF K
    <3> QED BY <2>2, <3>2
  <2>4. ASSUME NEW k \in seen
        PROVE  Cardinality(Ahead(Recency(seen), seen, k)) < MaxLogs
    <3>1. Ahead(Recency(seen), seen, k) \in SUBSET ahead(k)
          BY <2>1, <2>4 DEF Ahead, Recency
    <3>2. k \in L /\ Cardinality(ahead(k)) < MaxLogs
          BY <1>1, <2>4
    <3>3. /\ Cardinality(Ahead(Recency(seen), seen, k)) <= Cardinality(ahead(k))
          /\ Cardinality(Ahead(Recency(seen), seen, k)) \in Nat
      <4> HIDE DEF ahead
      <4> QED BY <1>4, <3>1, <3>2, FS_Subset, FS_CardinalityType
    <3> QED BY <1>4, <3>2, <3>3, LogsAssumption
  <2> HIDE DEF seen
  <2> QED BY <2>3, <2>4
<1>7. ASSUME NEW k \in logs \ seen, k.version = v, k.at <= c, NEW m \in seen, k.at > m.at
      PROVE  FALSE
  <2>1. k \in L /\ m \in L /\ Newer(k, m)
        BY <1>1, <1>7 DEF Mine, Newer
  <2>2. <<k, m>> \in Recency(L)
        BY <2>1 DEF Recency
  <2>3. ahead(k) \in SUBSET ahead(m)
        BY <1>1, <2>1, <2>2 DEF Ahead, Orders
  <2>4. Cardinality(ahead(k)) <= Cardinality(ahead(m))
        BY <1>4, <2>1, <2>3, FS_Subset
  <2>5. Cardinality(ahead(m)) < MaxLogs /\ ~(Cardinality(ahead(k)) < MaxLogs)
        BY <1>1, <1>7, <2>1
  <2> QED BY <1>4, <2>1, <2>4, <2>5, LogsAssumption
<1> HIDE DEF seen, ahead
<1>8. \A k \in logs \ seen : \/ k.version # v \/ k.at > c \/ \A m \in seen : m.at >= k.at
  <2>1. seen \subseteq logs
        BY <1>1, <1>2
  <2> QED BY <1>3, <1>7, <2>1
<1> QED BY <1>1, <1>5, <1>6, <1>8 DEF seen

\* What a check holds.
LEMMA CheckHas ==
  ASSUME NEW a, NEW b
  PROVE  Quality!Check(a, b).applicable = a /\ Quality!Check(a, b).passed = b
BY DEF Quality!Check

\* What a package that is not blocked lets be said of it.
LEMMA NotBlocked ==
  ASSUME NEW p \in Quality!Packages
  PROVE  ~Quality!Blocked(p) <=>
           /\ p.content # Nil
           /\ p.revision \/ DOMAIN p.files # {} => "SKILL.md" \in DOMAIN p.files
           /\ \A f \in DOMAIN p.files : p.files[f].own
           /\ p.hash = Quality!Hash(p)
           /\ \A f \in DOMAIN p.files : p.files[f].text # Nil =>
                /\ p.files[f].text = p.files[f].sha /\ p.files[f].sized
                /\ f = "SKILL.md" => p.files[f].text = p.content
<1> DEFINE B == Quality!Blockers(p)
<1>1. DOMAIN B = {"root", "own", "hash", "snapshots"}
      BY DEF Quality!Blockers
<1>2. ~Quality!Blocked(p) <=> /\ B.root.applicable => B.root.passed
                              /\ B.own.applicable => B.own.passed
                              /\ B.hash.applicable => B.hash.passed
                              /\ B.snapshots.applicable => B.snapshots.passed
  <2> HIDE DEF B
  <2>1. Quality!Blocked(p) <=> \E c \in DOMAIN B : B[c].applicable /\ ~B[c].passed
        BY DEF Quality!Blocked, B
  <2> QED BY <1>1, <2>1
<1> QED BY <1>2 DEF Quality!Blockers, Quality!Check

\* What the lint is made of.
LEMMA LintHas ==
  ASSUME NEW p
  PROVE  /\ DOMAIN Quality!Blockers(p) = {"root", "own", "hash", "snapshots"}
         /\ DOMAIN Quality!TextChecks(p.content) =
              {"frontmatter", "contract", "name", "described", "routed", "repeats", "self"}
                \cup Quality!Advice
         /\ DOMAIN Quality!Lint(p) = DOMAIN Quality!Blockers(p)
              \cup DOMAIN Quality!TextChecks(p.content) \cup {"artifact", "manifest"}
         /\ \A c \in DOMAIN Quality!Blockers(p) : Quality!Lint(p)[c] = Quality!Blockers(p)[c]
         /\ \A c \in DOMAIN Quality!TextChecks(p.content) :
              Quality!Lint(p)[c] = Quality!TextChecks(p.content)[c]
         /\ Quality!Lint(p)["artifact"] = Quality!Check(TRUE, Quality!CompiledArtifactCurrent(p))
         /\ Quality!Lint(p)["manifest"] =
              Quality!Check(p.artifact # Nil,
                            p.artifact # Nil /\ p.artifact.manifest = Quality!Manifest(p.files))
<1> DEFINE B == Quality!Blockers(p)
           T == Quality!TextChecks(p.content)
           A == [artifact |-> Quality!Check(TRUE, Quality!CompiledArtifactCurrent(p)),
                 manifest |-> Quality!Check(p.artifact # Nil,
                   p.artifact # Nil /\ p.artifact.manifest = Quality!Manifest(p.files))]
<1>1. DOMAIN B = {"root", "own", "hash", "snapshots"}
      BY DEF Quality!Blockers
<1>2. DOMAIN T = {"frontmatter", "contract", "name", "described", "routed", "repeats", "self"}
                   \cup Quality!Advice
      BY DEF Quality!TextChecks, Quality!Together
<1>3. /\ DOMAIN A = {"artifact", "manifest"}
      /\ A["artifact"] = Quality!Check(TRUE, Quality!CompiledArtifactCurrent(p))
      /\ A["manifest"] = Quality!Check(p.artifact # Nil,
                           p.artifact # Nil /\ p.artifact.manifest = Quality!Manifest(p.files))
      OBVIOUS
<1>4. Quality!Lint(p) = Quality!Together(Quality!Together(B, T), A)
      BY DEF Quality!Lint
<1>5. {"artifact", "manifest"} \cap (DOMAIN B \cup DOMAIN T) = {} /\ DOMAIN B \cap DOMAIN T = {}
      BY <1>1, <1>2 DEF Quality!Advice
<1> HIDE DEF B, T, A
<1>6. /\ DOMAIN Quality!Lint(p) = DOMAIN B \cup DOMAIN T \cup {"artifact", "manifest"}
      /\ \A c \in DOMAIN B : Quality!Lint(p)[c] = B[c]
      /\ \A c \in DOMAIN T : Quality!Lint(p)[c] = T[c]
      /\ \A c \in DOMAIN A : Quality!Lint(p)[c] = A[c]
      BY <1>3, <1>4, <1>5 DEF Quality!Together
<1> QED BY <1>1, <1>2, <1>3, <1>6 DEF B, T

\* What a compilation makes of a package, and when it makes nothing.
LEMMA Compilation ==
  ASSUME NEW p \in Quality!Packages
  PROVE  /\ Quality!Compile(p) = Nil <=> ~Quality!Compiles(p.content)
         /\ Quality!Compile(p) # Nil =>
              Quality!Compile(p) = [hash |-> p.hash, routing |-> Quality!Routing(p.content),
                                    contract |-> Quality!Contract(p.content),
                                    manifest |-> Quality!Manifest(p.files)]
<1> DEFINE b == p.content
           a == [hash |-> p.hash, routing |-> Quality!Routing(b),
                 contract |-> Quality!Contract(b), manifest |-> Quality!Manifest(p.files)]
<1>1. b \in Quality!Bodies \cup {Nil} /\ p.hash \in Quality!PackageHashes \cup {Nil}
      BY DEF Quality!Packages
<1>2. Quality!Parsed(b) => b.front \in Quality!Fronts
      BY <1>1 DEF Quality!Parsed, Quality!HasFront, Quality!Bodies
<1>3. Quality!Contract(b) \in Quality!Contracts
      BY <1>2 DEF Quality!Contract, Quality!Fronts, Quality!Contracts
<1>4. Quality!Routing(b) \in Quality!Fronts \cup {Nil}
      BY <1>2 DEF Quality!Routing, Quality!Fronts, Quality!Contracts
<1>5. Quality!Manifest(p.files) \in Quality!Manifests
  <2>1. PICK P \in SUBSET (Resources \cup {"SKILL.md"}) : p.files \in [P -> Quality!Stored]
        BY DEF Quality!Packages
  <2>2. P \ {"SKILL.md"} \in SUBSET Resources
        OBVIOUS
  <2>3. Quality!Manifest(p.files) \in
          [P \ {"SKILL.md"} -> [sha : Texts \cup Quality!Bodies, text : BOOLEAN]]
        BY <2>1 DEF Quality!Manifest, Quality!Stored
  <2> QED BY <2>2, <2>3 DEF Quality!Manifests
<1>6. a \in Quality!Artifacts
      BY <1>1, <1>3, <1>4, <1>5 DEF Quality!Artifacts
<1>7. a # Nil
      BY <1>6, PackagesAssumption
<1> QED BY <1>7 DEF Quality!Compile

\* Published and compiled as it is, a package is blamed for its text alone.
LEMMA GenuineIsBlameless ==
  ASSUME NEW p \in Quality!Packages, Quality!Genuine(p)
  PROVE  LET text == DOMAIN Quality!TextChecks(p.content)
         IN /\ ~Quality!Blocked(p)
            /\ Quality!Failing(Quality!Lint(p)) \subseteq
                 text \cup (IF Quality!Compile(p) = Nil THEN {"artifact"} ELSE {})
            /\ Quality!Failing(Quality!Eval(p)) =
                 IF Quality!Compile(p) = Nil THEN {"compiles"}
                 ELSE IF p.quotes THEN {"excludes"} ELSE {}
            /\ Quality!Compile(p) = Nil =>
                 Quality!Failing(Quality!Lint(p)) \cap {"frontmatter", "contract"} # {}
<1> DEFINE L == Quality!Lint(p)
           text == DOMAIN Quality!TextChecks(p.content)
<1>1. /\ DOMAIN L = DOMAIN Quality!Blockers(p) \cup text \cup {"artifact", "manifest"}
      /\ \A c \in DOMAIN Quality!Blockers(p) : L[c] = Quality!Blockers(p)[c]
      /\ \A c \in text : L[c] = Quality!TextChecks(p.content)[c]
      /\ L["artifact"] = Quality!Check(TRUE, Quality!CompiledArtifactCurrent(p))
      /\ L["manifest"] = Quality!Check(p.artifact # Nil,
           p.artifact # Nil /\ p.artifact.manifest = Quality!Manifest(p.files))
      /\ {"frontmatter", "contract"} \subseteq text
      BY LintHas
<1>2. ~Quality!Blocked(p)
      BY NotBlocked DEF Quality!Genuine
<1>3. /\ p.artifact = Quality!Compile(p)
      /\ Quality!Compile(p) = Nil <=> ~Quality!Compiles(p.content)
      /\ Quality!Compile(p) # Nil =>
           /\ Quality!Compile(p).hash = p.hash
           /\ Quality!Compile(p).manifest = Quality!Manifest(p.files)
      BY Compilation DEF Quality!Genuine
<1>4. Quality!Failing(L) \cap DOMAIN Quality!Blockers(p) = {}
      BY <1>1, <1>2 DEF Quality!Failing, Quality!Blocked
<1>5. "manifest" \notin Quality!Failing(L)
      BY <1>1, <1>3 DEF Quality!Failing, Quality!Check
<1>6. Quality!Compile(p) # Nil => "artifact" \notin Quality!Failing(L)
      BY <1>1, <1>3 DEF Quality!Failing, Quality!Check, Quality!CompiledArtifactCurrent
<1>7. Quality!Failing(L) \subseteq DOMAIN L
      BY DEF Quality!Failing
<1>8. Quality!Failing(L) \subseteq text \cup (IF Quality!Compile(p) = Nil THEN {"artifact"} ELSE {})
      BY <1>1, <1>4, <1>5, <1>6, <1>7
<1>9. Quality!Failing(Quality!Eval(p)) =
        IF Quality!Compile(p) = Nil THEN {"compiles"} ELSE IF p.quotes THEN {"excludes"} ELSE {}
  <2> DEFINE E == Quality!Eval(p)
  <2>1. /\ DOMAIN E = {"compiles", "excludes", "stable", "selected"}
        /\ E["compiles"] = Quality!Check(TRUE, Quality!Compile(p) # Nil)
        /\ E["excludes"] = Quality!Check(Quality!Compile(p) # Nil,
                                         Quality!Compile(p) # Nil /\ ~p.quotes)
        /\ E["stable"] = Quality!Check(Quality!Compile(p) # Nil, Quality!Compile(p) # Nil)
        /\ E["selected"] = Quality!Check(DOMAIN Quality!Manifest(p.files) # {},
                             \A f \in DOMAIN p.files \ {"SKILL.md"} :
                               p.files[f].text \in {Nil, p.files[f].sha})
        BY DEF Quality!Eval
  <2>2. \A f \in DOMAIN p.files : p.files[f].text \in {Nil, p.files[f].sha}
        BY DEF Quality!Genuine
  <2> HIDE DEF E
  <2>3. E["compiles"].applicable /\ (E["compiles"].passed <=> Quality!Compile(p) # Nil)
    <3>1. E["compiles"] = Quality!Check(TRUE, Quality!Compile(p) # Nil)
          BY <2>1
    <3> QED BY <3>1, CheckHas, Zenon
  <2>7. /\ E["excludes"].applicable <=> Quality!Compile(p) # Nil
        /\ E["excludes"].passed <=> Quality!Compile(p) # Nil /\ ~p.quotes
    <3>1. E["excludes"] = Quality!Check(Quality!Compile(p) # Nil,
                                        Quality!Compile(p) # Nil /\ ~p.quotes)
          BY <2>1
    <3> QED BY <3>1, CheckHas, Zenon
  <2>4. E["stable"].applicable => E["stable"].passed
        BY <2>1 DEF Quality!Check
  <2>5. E["selected"].passed
        BY <2>1, <2>2 DEF Quality!Check
  <2>6. Quality!Failing(E) = {c \in DOMAIN E : E[c].applicable /\ ~E[c].passed}
        BY DEF Quality!Failing
  <2> QED BY <2>1, <2>3, <2>4, <2>5, <2>6, <2>7 DEF E
<1>10. ASSUME Quality!Compile(p) = Nil
       PROVE  Quality!Failing(L) \cap {"frontmatter", "contract"} # {}
  <2> DEFINE b == p.content
  <2>1. /\ Quality!TextChecks(b)["frontmatter"] =
             Quality!Check(Quality!HasFront(b), Quality!HasFront(b) => Quality!Parsed(b))
        /\ Quality!TextChecks(b)["contract"] =
             Quality!Check(Quality!Contract(b) # Nil, Quality!Contract(b) # {"invalid"})
        BY DEF Quality!TextChecks, Quality!Together
  <2>2. {"invalid"} # Nil
        BY PackagesAssumption
  <2>3. (Quality!HasFront(b) /\ ~Quality!Parsed(b)) \/ Quality!Contract(b) = {"invalid"}
        BY <1>3, <1>10 DEF Quality!Compiles
  <2>4. CASE Quality!HasFront(b) /\ ~Quality!Parsed(b)
    <3>1. L["frontmatter"].applicable /\ ~L["frontmatter"].passed
      <4>1. L["frontmatter"] = Quality!Check(Quality!HasFront(b),
                                             Quality!HasFront(b) => Quality!Parsed(b))
            BY <1>1, <2>1
      <4> QED BY <2>4, <4>1, CheckHas, Zenon
    <3> QED BY <1>1, <3>1 DEF Quality!Failing
  <2>5. CASE Quality!Contract(b) = {"invalid"}
    <3>1. L["contract"].applicable /\ ~L["contract"].passed
      <4>1. L["contract"]
              = Quality!Check(Quality!Contract(b) # Nil, Quality!Contract(b) # {"invalid"})
            BY <1>1, <2>1
      <4> QED BY <2>2, <2>5, <4>1, CheckHas, Zenon
    <3> QED BY <1>1, <3>1 DEF Quality!Failing
  <2> QED BY <2>3, <2>4, <2>5
<1> QED BY <1>2, <1>8, <1>9, <1>10

\* A package that is not blocked and one of its hash hold the same files.
LEMMA OneHashOneText ==
  ASSUME NEW p \in Quality!Packages, NEW q \in Quality!Packages,
         ~Quality!Blocked(p), ~Quality!Blocked(q), p.hash = q.hash
  PROVE  /\ {<<f, p.files[f].sha>> : f \in DOMAIN p.files}
              = {<<f, q.files[f].sha>> : f \in DOMAIN q.files}
         /\ \A f \in DOMAIN p.files :
              {p.files[f].text, q.files[f].text} \subseteq {Nil, p.files[f].sha}
<1> DEFINE Shas(x) == {<<f, x.files[f].sha>> : f \in DOMAIN x.files}
<1>1. "" \notin DOMAIN p.files /\ "" \notin DOMAIN q.files
  <2>1. \A x \in Quality!Packages : DOMAIN x.files \subseteq Resources \cup {"SKILL.md"}
        BY DEF Quality!Packages
  <2> QED BY <2>1, PackagesAssumption
<1>2. Quality!Hash(p) = Quality!Hash(q)
      BY NotBlocked
<1>3. \A x : Quality!Hash(x) = IF DOMAIN x.files = {} THEN {<<"", x.content>>} ELSE Shas(x)
      BY DEF Quality!Hash
<1>4. \A x : DOMAIN x.files = {} <=> Shas(x) = {}
      OBVIOUS
<1>5. \A x, y : <<"", y>> \in Shas(x) => "" \in DOMAIN x.files
      OBVIOUS
<1>6. Shas(p) = Shas(q)
  <2> HIDE DEF Shas
  <2> QED BY <1>1, <1>2, <1>3, <1>4, <1>5
<1>7. ASSUME NEW f \in DOMAIN p.files
      PROVE  f \in DOMAIN q.files /\ p.files[f].sha = q.files[f].sha
  <2>1. <<f, p.files[f].sha>> \in Shas(q)
        BY <1>6
  <2> QED BY <2>1
<1>8. \A f \in DOMAIN p.files :
        {p.files[f].text, q.files[f].text} \subseteq {Nil, p.files[f].sha}
      BY <1>7, NotBlocked
<1> QED BY <1>6, <1>8

\* A verdict that nothing regressed hides no change.
LEMMA NothingHidden ==
  ASSUME NEW p \in Quality!Packages, NEW q \in Quality!Packages,
         Quality!Status(p, q) = "no_static_regression_detected"
  PROVE  /\ p.hash = q.hash
         /\ Quality!Compile(p) # Nil /\ Quality!Compile(q) # Nil =>
              Quality!Compile(p).routing = Quality!Compile(q).routing
         /\ Quality!Failing(Quality!Lint(p)) \ Quality!Failing(Quality!Lint(q)) \subseteq
              {c \in DOMAIN Quality!Lint(q) : ~Quality!Lint(q)[c].applicable}
         /\ Quality!Failing(Quality!Eval(p)) \ Quality!Failing(Quality!Eval(q)) \subseteq
              {c \in DOMAIN Quality!Eval(q) : ~Quality!Eval(q)[c].applicable}
<1>1. /\ p.hash = q.hash /\ ~Quality!ArtifactsDiffer(p, q)
      /\ Quality!Regressions(Quality!Lint(p), Quality!Lint(q)) = {}
      /\ Quality!Regressions(Quality!Eval(p), Quality!Eval(q)) = {}
      BY DEF Quality!Status
<1>2. Quality!Compile(p) # Nil /\ Quality!Compile(q) # Nil =>
        Quality!Compile(p).routing = Quality!Compile(q).routing
  <2> SUFFICES ASSUME Quality!Compile(p) # Nil, Quality!Compile(q) # Nil
               PROVE  Quality!Compile(p).routing = Quality!Compile(q).routing
      OBVIOUS
  <2>1. Quality!Behaviour(Quality!Compile(p)) = Quality!Behaviour(Quality!Compile(q))
        BY <1>1 DEF Quality!ArtifactsDiffer, Quality!ComparisonArtifact
  <2>2. Quality!Behaviour(Quality!Compile(p)).routing
          = Quality!Behaviour(Quality!Compile(q)).routing
        BY <2>1
  <2> QED BY <2>2 DEF Quality!Behaviour
<1>3. DOMAIN Quality!Lint(p) = DOMAIN Quality!Lint(q)
      BY LintHas
<1>4. \A x : DOMAIN Quality!Eval(x) = {"compiles", "excludes", "stable", "selected"}
      BY DEF Quality!Eval
<1>5. Quality!Failing(Quality!Eval(p)) \ Quality!Failing(Quality!Eval(q)) \subseteq
        {c \in DOMAIN Quality!Eval(q) : ~Quality!Eval(q)[c].applicable}
      BY <1>1, <1>4 DEF Quality!Regressions, Quality!Failing
<1>6. Quality!Failing(Quality!Lint(p)) \ Quality!Failing(Quality!Lint(q)) \subseteq
        {c \in DOMAIN Quality!Lint(q) : ~Quality!Lint(q)[c].applicable}
      BY <1>1, <1>3 DEF Quality!Regressions, Quality!Failing
<1> QED BY <1>1, <1>2, <1>5, <1>6

\* A version compared with itself shows no regression.
LEMMA UnchangedFromItself ==
  ASSUME NEW p \in Quality!Packages
  PROVE  Quality!Status(p, p) \in {"blocked", "no_static_regression_detected"}
<1>1. p # Nil
      BY PackagesAssumption
<1>2. Quality!Regressions(Quality!Lint(p), Quality!Lint(p)) = {}
      BY DEF Quality!Regressions
<1>3. Quality!Regressions(Quality!Eval(p), Quality!Eval(p)) = {}
      BY DEF Quality!Regressions
<1>4. ~Quality!FilesDiffer(p, p) /\ ~Quality!ArtifactsDiffer(p, p)
      BY DEF Quality!FilesDiffer, Quality!ArtifactsDiffer
<1> QED BY <1>1, <1>2, <1>3, <1>4 DEF Quality!Status

\* An artifact that passes the lint is the compiled package but for its contract.
LEMMA ArtifactIsCompiled ==
  ASSUME NEW p \in Quality!Packages, "artifact" \notin Quality!Failing(Quality!Lint(p))
  PROVE  p.artifact = [Quality!Compile(p) EXCEPT !.contract = p.artifact.contract]
<1>1. Quality!CompiledArtifactCurrent(p)
  <2> DEFINE L == Quality!Lint(p)
  <2>1. /\ "artifact" \in DOMAIN L
        /\ L["artifact"] = Quality!Check(TRUE, Quality!CompiledArtifactCurrent(p))
        BY LintHas
  <2>2. L["artifact"].applicable /\ (L["artifact"].passed <=> Quality!CompiledArtifactCurrent(p))
        BY <2>1 DEF Quality!Check
  <2> QED BY <2>1, <2>2 DEF Quality!Failing
<1>2. p.artifact \in Quality!Artifacts
      BY <1>1 DEF Quality!CompiledArtifactCurrent, Quality!Packages
<1>3. p.artifact = [hash |-> p.artifact.hash, routing |-> p.artifact.routing,
                    contract |-> p.artifact.contract, manifest |-> p.artifact.manifest]
      BY <1>2 DEF Quality!Artifacts
<1>4. /\ Quality!Compile(p) = [hash |-> p.hash, routing |-> Quality!Routing(p.content),
                               contract |-> Quality!Contract(p.content),
                               manifest |-> Quality!Manifest(p.files)]
      /\ p.artifact.hash = p.hash /\ p.artifact.routing = Quality!Compile(p).routing
      /\ p.artifact.manifest = Quality!Compile(p).manifest
      BY <1>1, Compilation DEF Quality!CompiledArtifactCurrent
<1> QED BY <1>3, <1>4

\* The default baseline is an older version with none of its skill in between.
LEMMA BaselineIsOlder ==
  ASSUME NEW x \in Quality!Reports, Quality!Baseline(x.versions, x.version, Nil) # Nil
  PROVE  LET b == Quality!Baseline(x.versions, x.version, Nil)
         IN /\ b # x.version /\ x.versions[b].at <= x.versions[x.version].at
            /\ \A w \in DOMAIN x.versions :
                 x.versions[w].skill = x.versions[x.version].skill =>
                   \/ x.versions[w].at <= x.versions[b].at
                   \/ x.versions[w].at >= x.versions[x.version].at
<1> DEFINE V == x.versions
           v == x.version
           b == Quality!Baseline(V, v, Nil)
           older == {w \in DOMAIN V : /\ V[w].skill = V[v].skill
                                      /\ \/ V[w].at < V[v].at
                                         \/ V[w].at = V[v].at /\ w < v}
           After(u, w) == V[u].at < V[w].at \/ (V[u].at = V[w].at /\ u < w)
           R == {r \in older \X older : After(r[2], r[1])}
<1>1. /\ V \in Seq([skill : Nat, at : Nat]) /\ v \in DOMAIN V
      /\ DOMAIN V = 1 .. Len(V) /\ Len(V) \in Nat
      /\ \A w \in DOMAIN V : V[w].at \in Nat /\ w \in Nat
  <2>1. V \in Seq([skill : Nat, at : Nat]) /\ v \in DOMAIN V
        BY DEF Quality!Reports
  <2>2. \A w \in DOMAIN V : V[w] \in [skill : Nat, at : Nat] /\ w \in Nat
    <3> DEFINE Versions == [skill : Nat, at : Nat]
    <3>1. V \in Seq(Versions)
          BY <2>1
    <3> HIDE DEF V, v, Versions
    <3>2. V \in [1 .. Len(V) -> Versions] /\ Len(V) \in Nat
          BY <3>1, LenProperties
    <3> QED BY <3>2 DEF Versions
  <2> HIDE DEF V, v
  <2> QED BY <2>1, <2>2, LenProperties
<1>2. older \in SUBSET DOMAIN V
      OBVIOUS
<1>3. IsFiniteSet(older)
  <2>1. IsFiniteSet(DOMAIN V)
        BY <1>1, FS_Interval
  <2> HIDE DEF older
  <2> QED BY <1>2, <2>1, FS_Subset
<1>4. b = IF older = {} THEN Nil
          ELSE CHOOSE w \in older : \A u \in older : \/ V[u].at < V[w].at
                                                     \/ V[u].at = V[w].at /\ u <= w
      BY DEF Quality!Baseline
<1>5. /\ \A u, w \in older : <<u, w>> \in R <=> After(w, u)
      /\ \A w \in older : V[w].at \in Nat /\ w \in Nat
      /\ R \subseteq older \X older
  <2> HIDE DEF older
  <2> QED BY <1>1, <1>2
<1> HIDE DEF V, v, older, R, b
<1>6. Orders(R, older)
      BY <1>5 DEF Orders
<1>7. b \in older /\ \A u \in older : V[u].at < V[b].at \/ (V[u].at = V[b].at /\ u <= b)
  <2>1. older # {}
        BY <1>4 DEF b, V, v
  <2>2. PICK w \in older : \A u \in older : u = w \/ <<w, u>> \in R
        BY <1>3, <1>6, <2>1, OneIsFirst
  <2>3. \A u \in older : V[u].at < V[w].at \/ (V[u].at = V[w].at /\ u <= w)
    <3> TAKE u \in older
    <3>1. u = w \/ After(u, w)
          BY <1>5, <2>2
    <3>2. u \in Nat /\ w \in Nat /\ V[u].at \in Nat /\ V[w].at \in Nat
          BY <1>5
    <3> QED BY <3>1, <3>2
  <2> QED BY <1>4, <2>1, <2>3
<1>8. b # v /\ V[b].at <= V[v].at
      BY <1>1, <1>5, <1>7 DEF older
<1>9. ASSUME NEW w \in DOMAIN V, V[w].skill = V[v].skill
      PROVE  V[w].at <= V[b].at \/ V[w].at >= V[v].at
  <2>1. CASE V[w].at < V[v].at
    <3>1. w \in older
          BY <1>9, <2>1 DEF older
    <3>2. V[w].at \in Nat /\ V[b].at \in Nat
          BY <1>5, <1>7, <3>1
    <3> QED BY <1>7, <3>1, <3>2
  <2> QED BY <1>1, <2>1
<1> QED BY <1>8, <1>9 DEF V, v, b

\* A report is of its past (buildQualityTelemetry, and the default baseline).
LEMMA ReportsAreOfTheirPast ==
  ASSUME NEW x \in Quality!Reports
  PROVE  Quality!ReportIsOfItsPast(x)
<1> DEFINE seen == Quality!Considered(x.version, x.cutoff, x.logs)
           s == Quality!Suggestions(x.version, x.cutoff, x.logs)
           b == Quality!Baseline(x.versions, x.version, Nil)
<1>1. /\ x.cutoff \in Nat /\ x.logs \in SUBSET Quality!Logs /\ IsFiniteSet(x.logs)
      /\ \A k, m \in x.logs : k.id = m.id => k = m
      BY QualityCounts DEF Quality!Reports
<1>2. /\ Cardinality(seen) <= MaxLogs
      /\ Quality!Considered(x.version, x.cutoff, seen) = seen
      /\ \A k \in x.logs \ seen : \/ k.version # x.version \/ k.at > x.cutoff
                                   \/ \A m \in seen : m.at >= k.at
      BY <1>1, ConsideredKeeps
<1>3. Quality!Suggestions(x.version, x.cutoff, seen) = s
      BY <1>2 DEF Quality!Suggestions
<1>4. \A t \in s : /\ t[2] \subseteq {k \in seen : k.outcome = t[1]}
                   /\ Quality!Cardinality(t[2]) >= MinCount
  <2> DEFINE of(c) == {k \in seen : k.outcome = c}
             told == {"bypass", "user_corrected", "failure", "partial"}
  <2>1. \A t \in s : \E c \in told : t = <<c, of(c)>> /\ Quality!Cardinality(of(c)) >= MinCount
        BY DEF Quality!Suggestions
  <2> HIDE DEF s
  <2>2. ASSUME NEW t \in s
        PROVE  /\ t[2] \subseteq {k \in seen : k.outcome = t[1]}
               /\ Quality!Cardinality(t[2]) >= MinCount
    <3>1. PICK c \in told : t = <<c, of(c)>> /\ Quality!Cardinality(of(c)) >= MinCount
          BY <2>1
    <3>2. t[1] = c /\ t[2] = of(c)
          BY <3>1
    <3> QED BY <3>1, <3>2
  <2> QED BY <2>2
<1>5. b # Nil => /\ b # x.version /\ x.versions[b].at <= x.versions[x.version].at
                 /\ \A w \in DOMAIN x.versions :
                      x.versions[w].skill = x.versions[x.version].skill =>
                        \/ x.versions[w].at <= x.versions[b].at
                        \/ x.versions[w].at >= x.versions[x.version].at
      BY BaselineIsOlder
<1>6. Quality!Cardinality(seen) <= MaxLogs
      BY <1>2, QualityCounts
<1> HIDE DEF seen, s, b
<1> QED BY <1>2, <1>3, <1>4, <1>5, <1>6, Zenon DEF Quality!ReportIsOfItsPast, seen, s, b

\* A version as it was published is blamed by a quality run for its own text alone, no
\* verdict that nothing regressed hides a change or a check that failed since, and no
\* report counts what came after its cutoff, for all packages and any log
\* (EvaluateSkillQuality, buildQualityTelemetry).
THEOREM QualitiesAreEarned ==
  ASSUME Given("quality") => input.x \in [current : Quality!Packages, baseline : Quality!Packages],
         Given("report") => input.x \in Quality!Reports
  PROVE  QualityIsEarned
<1>1. ASSUME NEW x \in [current : Quality!Packages, baseline : Quality!Packages]
      PROVE  Quality!QualityIsEarned(x)
  <2> DEFINE p == x.current
             base == x.baseline
             text == DOMAIN Quality!TextChecks(p.content)
  <2>1. p \in Quality!Packages /\ base \in Quality!Packages
        OBVIOUS
  <2> HIDE DEF p, base
  <2>2. Quality!Genuine(p) =>
          /\ ~Quality!Blocked(p)
          /\ Quality!Failing(Quality!Lint(p)) \subseteq
               text \cup (IF Quality!Compile(p) = Nil THEN {"artifact"} ELSE {})
          /\ Quality!Failing(Quality!Eval(p)) =
               IF Quality!Compile(p) = Nil THEN {"compiles"}
               ELSE IF p.quotes THEN {"excludes"} ELSE {}
          /\ Quality!Compile(p) = Nil =>
               Quality!Failing(Quality!Lint(p)) \cap {"frontmatter", "contract"} # {}
        BY <2>1, GenuineIsBlameless
  <2>3. ~Quality!Blocked(p) /\ "artifact" \notin Quality!Failing(Quality!Lint(p)) =>
          p.artifact = [Quality!Compile(p) EXCEPT !.contract = p.artifact.contract]
        BY <2>1, ArtifactIsCompiled
  <2>4. ~Quality!Blocked(p) /\ ~Quality!Blocked(base) /\ p.hash = base.hash =>
          /\ {<<f, p.files[f].sha>> : f \in DOMAIN p.files}
               = {<<f, base.files[f].sha>> : f \in DOMAIN base.files}
          /\ \A f \in DOMAIN p.files :
               {p.files[f].text, base.files[f].text} \subseteq {Nil, p.files[f].sha}
        BY <2>1, OneHashOneText
  <2>5. Quality!Status(p, p) \in {"blocked", "no_static_regression_detected"}
        BY <2>1, UnchangedFromItself
  <2>6. Quality!Status(p, base) = "no_static_regression_detected" =>
          /\ p.hash = base.hash
          /\ Quality!Compile(p) # Nil /\ Quality!Compile(base) # Nil =>
               Quality!Compile(p).routing = Quality!Compile(base).routing
          /\ Quality!Failing(Quality!Lint(p)) \ Quality!Failing(Quality!Lint(base)) \subseteq
               {c \in DOMAIN Quality!Lint(base) : ~Quality!Lint(base)[c].applicable}
          /\ Quality!Failing(Quality!Eval(p)) \ Quality!Failing(Quality!Eval(base)) \subseteq
               {c \in DOMAIN Quality!Eval(base) : ~Quality!Eval(base)[c].applicable}
        BY <2>1, NothingHidden
  <2> QED BY <2>2, <2>3, <2>4, <2>5, <2>6, Zenon DEF Quality!QualityIsEarned, p, base
<1> QED BY <1>1, ReportsAreOfTheirPast DEF QualityIsEarned

-----------------------------------------------------------------------------
\* Sizes of archive entries.

\* What a quotient is good for.
LEMMA Quotient ==
  ASSUME NEW a \in Int, NEW b \in Nat \ {0}, NEW q \in Nat
  PROVE  q > a \div b <=> q * b > a
<1> DEFINE k == a \div b
<1>1. k \in Int /\ b * k <= a /\ a < b * k + b
      OBVIOUS
<1> HIDE DEF k
<1>2. ASSUME q <= k PROVE b * q <= b * k
      BY <1>1, <1>2
<1>3. ASSUME q >= k + 1 PROVE b * q >= b * (k + 1)
      BY <1>1, <1>3
<1>4. b * (k + 1) = b * k + b /\ b * q = q * b
      BY <1>1
<1> QED BY <1>1, <1>2, <1>3, <1>4 DEF k

\* A size is read exactly or refused.
LEMMA OneDigit ==
  ASSUME NEW base \in Nat \ {0}, NEW max \in Nat, NEW u \in Nat, NEW d \in Nat
  PROVE  /\ u * base + d \in Nat
         /\ u > max => u * base + d > max
         /\ u > (max - d) \div base <=> u * base + d > max
         /\ u * base + d <= max => Files!WrapTo(u * base + d, max) = u * base + d
<1> DEFINE k == u * base
           a == max - d
<1>1. a \in Int
      OBVIOUS
<1>2. k \in Nat /\ k >= u
      OBVIOUS
<1>3. u > a \div base <=> k > a
  <2> HIDE DEF a
  <2> QED BY <1>1, Quotient
<1> HIDE DEF k
<1>4. u > a \div base <=> k + d > max
  <2> DEFINE t == a \div base
  <2> HIDE DEF t
  <2> QED BY <1>2, <1>3 DEF t
<1>5. k + d <= max => (k + d) % (max + 1) = k + d
      BY <1>2
<1> QED BY <1>2, <1>4, <1>5 DEF k, Files!WrapTo

\* The size in an entry's header is read exactly or refused, for every base, width and
\* number of digits (parseTarEntrySize).
THEOREM SizesAreExact ==
  ASSUME NEW base \in Nat \ {0}, NEW max \in Nat, NEW digits \in Seq(0 .. base - 1)
  PROVE  Files!SizeIsExact(digits, base, max)
<1> DEFINE N == Len(digits)
           next == [r \in Nat \X Nat |-> IF r[2] \in 1 .. N THEN r[1] * base + digits[r[2]] ELSE 0]
           Read(u, d) == IF u = Nil \/ u > (max - d) \div base THEN Nil
                         ELSE Files!WrapTo(u * base + d, max)
           read == [r \in (Nat \cup {Nil}) \X Nat |->
                      IF r[2] \in 1 .. N THEN Read(r[1], digits[r[2]]) ELSE 0]
           Is(e) == e = [n \in 0 .. N |-> IF n = 0 THEN 0 ELSE e[n - 1] * base + digits[n]]
           Reads(v) == v = [n \in 0 .. N |-> IF n = 0 THEN 0 ELSE Read(v[n - 1], digits[n])]
           exact == CHOOSE e : Is(e)
           val == CHOOSE v : Reads(v)
<1>1. N \in Nat /\ \A n \in 1 .. N : digits[n] \in Nat
      BY LenProperties
<1>2. next \in [Nat \X Nat -> Nat]
      BY <1>1
<1>3. read \in [(Nat \cup {Nil}) \X Nat -> Nat \cup {Nil}]
  <2> SUFFICES ASSUME NEW u \in Nat \cup {Nil}, NEW n \in 1 .. N
               PROVE  Read(u, digits[n]) \in Nat \cup {Nil}
      OBVIOUS
  <2>1. CASE u = Nil
        BY <2>1
  <2>2. CASE u \in Nat
    <3>1. u * base + digits[n] \in Nat
          BY <1>1, <2>2
    <3>2. (u * base + digits[n]) % (max + 1) \in Nat
      <4> DEFINE m == u * base + digits[n]
      <4> HIDE DEF m
      <4> QED BY <3>1 DEF m
    <3> QED BY <3>2 DEF Files!WrapTo
  <2> QED BY <2>1, <2>2
<1>4. PICK e \in [0 .. N -> Nat] : Recurs(e, 0, next, N)
  <2> HIDE DEF N, next
  <2> QED BY <1>1, <1>2, Recursion
<1>5. Is(e)
  <2>1. \A n \in 1 .. N : n \in Nat /\ n - 1 \in 0 .. N /\ e[n - 1] \in Nat
    <3> HIDE DEF N
    <3> QED BY <1>1
  <2>2. \A n \in 1 .. N : e[n] = e[n - 1] * base + digits[n]
        BY <1>1, <1>4, <2>1 DEF Recurs
  <2> HIDE DEF N, next
  <2> QED BY <1>1, <1>4, <2>2 DEF Recurs
<1>6. PICK v \in [0 .. N -> Nat \cup {Nil}] : Recurs(v, 0, read, N)
  <2> HIDE DEF N, read
  <2> QED BY <1>1, <1>3, Recursion
<1>7. Reads(v)
  <2>1. \A n \in 1 .. N : n \in Nat /\ n - 1 \in 0 .. N /\ v[n - 1] \in Nat \cup {Nil}
    <3> HIDE DEF N
    <3> QED BY <1>1
  <2>2. \A n \in 1 .. N : v[n] = Read(v[n - 1], digits[n])
    <3> HIDE DEF Read
    <3> QED BY <1>1, <1>6, <2>1 DEF Recurs
  <2> HIDE DEF N, read, Read
  <2> QED BY <1>1, <1>6, <2>2 DEF Recurs
<1>8. Is(exact) /\ Reads(val)
  <2> HIDE DEF Is, Reads
  <2> QED BY <1>5, <1>7
<1>9. /\ exact[0] = 0 /\ \A n \in 1 .. N : exact[n] = exact[n - 1] * base + digits[n]
      /\ val[0] = 0 /\ \A n \in 1 .. N : val[n] = Read(val[n - 1], digits[n])
  <2> HIDE DEF exact, val, N, Read
  <2> QED BY <1>1, <1>8
<1> HIDE DEF exact, val
<1> DEFINE Good(n) == /\ exact[n] \in Nat
                      /\ val[n] = IF exact[n] <= max THEN exact[n] ELSE Nil
           S == {n \in Nat : n \in 0 .. N => Good(n)}
<1>10. 0 \in S
       BY <1>1, <1>9
<1>d. \A p, q \in Nat :
        /\ p * base + q \in Nat
        /\ p > max => p * base + q > max
        /\ p > (max - q) \div base <=> p * base + q > max
        /\ p * base + q <= max => Files!WrapTo(p * base + q, max) = p * base + q
  <2> HIDE DEF N, next, read, Read, S
  <2> QED BY OneDigit
<1>11. ASSUME NEW n \in Nat, n \in S
       PROVE  n + 1 \in S
  <2> SUFFICES ASSUME n + 1 \in 0 .. N
               PROVE  Good(n + 1)
      OBVIOUS
  <2> DEFINE u == exact[n]
             d == digits[n + 1]
             m == u * base + d
  <2>1. /\ u \in Nat /\ d \in Nat
        /\ val[n] = IF u <= max THEN u ELSE Nil
        /\ exact[n + 1] = m /\ val[n + 1] = Read(val[n], d)
        BY <1>1, <1>9, <1>11
  <2> HIDE DEF u, d
  <2>2. /\ m \in Nat
        /\ u > max => m > max
        /\ u > (max - d) \div base <=> m > max
        /\ m <= max => Files!WrapTo(m, max) = m
        BY <2>1, <1>d
  <2> HIDE DEF m
  <2>3. CASE u > max
        BY <2>1, <2>2, <2>3
  <2>4. CASE u <= max
    <3>1. val[n] = u /\ u # Nil
          BY <2>1, <2>4, NumbersAssumption
    <3>2. val[n + 1] = IF m > max THEN Nil ELSE Files!WrapTo(m, max)
          BY <2>1, <2>2, <3>1 DEF m
    <3> QED BY <2>1, <2>2, <3>2
  <2> QED BY <2>1, <2>3, <2>4
<1>12. Good(N)
  <2>1. Nat \subseteq S
    <3> HIDE DEF S
    <3> QED BY <1>10, <1>11, InductionOnNat
  <2> QED BY <1>1, <2>1
<1>13. val[N] = Files!ParseTarEntrySize(digits, base, max)
       BY Zenon DEF Files!ParseTarEntrySize, val
<1> HIDE DEF N
<1> QED BY <1>12, <1>13 DEF Files!SizeIsExact, exact, N

-----------------------------------------------------------------------------
\* Globs.

\* One segment of a glob laid on a path, from place i to place j.
Covers(g, path, n, i, j) ==
  IF g[n] = "**" THEN j >= i + (IF n = Len(g) THEN 1 ELSE 0)
  ELSE j = i + 1 /\ (g[n] = "*" \/ g[n] = path[j])
\* The first n segments laid on the first j of a path.
Lays(g, path, n, j) ==
  \E at \in [0 .. n -> 0 .. Len(path)] :
    /\ at[0] = 0 /\ at[n] = j
    /\ \A k \in 1 .. n : Covers(g, path, k, at[k - 1], at[k])

\* How a glob of one part more lies on a path.
LEMMA LaysOneMore ==
  ASSUME NEW g, NEW path, NEW n \in Nat, NEW j \in 0 .. Len(path), Len(path) \in Nat
  PROVE  Lays(g, path, n + 1, j)
           <=> \E i \in 0 .. Len(path) : Lays(g, path, n, i) /\ Covers(g, path, n + 1, i, j)
<1>1. ASSUME Lays(g, path, n + 1, j)
      PROVE  \E i \in 0 .. Len(path) : Lays(g, path, n, i) /\ Covers(g, path, n + 1, i, j)
  <2>1. PICK at \in [0 .. n + 1 -> 0 .. Len(path)] :
          /\ at[0] = 0 /\ at[n + 1] = j
          /\ \A k \in 1 .. n + 1 : Covers(g, path, k, at[k - 1], at[k])
        BY <1>1 DEF Lays
  <2> DEFINE less == [k \in 0 .. n |-> at[k]]
  <2>2. less \in [0 .. n -> 0 .. Len(path)] /\ less[0] = 0 /\ less[n] = at[n]
        BY <2>1
  <2>3. ASSUME NEW k \in 1 .. n
        PROVE  Covers(g, path, k, less[k - 1], less[k])
    <3>1. less[k - 1] = at[k - 1] /\ less[k] = at[k] /\ k \in 1 .. n + 1
          OBVIOUS
    <3> QED BY <2>1, <3>1
  <2>4. Lays(g, path, n, at[n])
    <3> HIDE DEF less
    <3> QED BY <2>2, <2>3 DEF Lays
  <2>5. at[n] \in 0 .. Len(path) /\ (n + 1) - 1 = n /\ n + 1 \in 1 .. n + 1
        OBVIOUS
  <2>6. Covers(g, path, n + 1, at[n], j)
        BY <2>1, <2>5
  <2> QED BY <2>4, <2>5, <2>6
<1>2. ASSUME NEW i \in 0 .. Len(path), Lays(g, path, n, i), Covers(g, path, n + 1, i, j)
      PROVE  Lays(g, path, n + 1, j)
  <2>1. PICK at \in [0 .. n -> 0 .. Len(path)] :
          /\ at[0] = 0 /\ at[n] = i
          /\ \A k \in 1 .. n : Covers(g, path, k, at[k - 1], at[k])
        BY <1>2 DEF Lays
  <2> DEFINE more == [k \in 0 .. n + 1 |-> IF k = n + 1 THEN j ELSE at[k]]
  <2>2. more \in [0 .. n + 1 -> 0 .. Len(path)] /\ more[0] = 0 /\ more[n + 1] = j
        BY <2>1
  <2>3. ASSUME NEW k \in 1 .. n + 1
        PROVE  Covers(g, path, k, more[k - 1], more[k])
    <3>1. CASE k = n + 1
      <4>1. more[k - 1] = i /\ more[k] = j
            BY <2>1, <3>1
      <4> QED BY <1>2, <3>1, <4>1
    <3>2. CASE k \in 1 .. n
      <4>1. more[k - 1] = at[k - 1] /\ more[k] = at[k]
            BY <3>2
      <4> QED BY <2>1, <3>2, <4>1
    <3> QED BY <3>1, <3>2
  <2> HIDE DEF more
  <2> QED BY <2>2, <2>3 DEF Lays
<1> QED BY <1>1, <1>2

\* From what is reached one part more reaches what it covers.
LEMMA ReachesOneMore ==
  ASSUME NEW g, NEW path, NEW n \in Nat, n \in 1 .. Len(g), Len(path) \in Nat, Len(g) \in Nat,
         NEW R, R \subseteq 0 .. Len(path),
         NEW j \in 0 .. Len(path), n < Len(g) \/ j = Len(path)
  PROVE  j \in Files!Reaches(g, path, n, R) <=> \E i \in R : Covers(g, path, n, i, j)
<1>1. CASE g[n] # "**"
  <2>1. Files!Reaches(g, path, n, R)
          = {i + 1 : i \in {k \in R : k < Len(path) /\ (g[n] = "*" \/ g[n] = path[k + 1])}}
        BY <1>1 DEF Files!Reaches, Files!SegmentMatches
  <2>2. \A i \in R : Covers(g, path, n, i, j) <=> j = i + 1 /\ (g[n] = "*" \/ g[n] = path[i + 1])
        BY <1>1 DEF Covers
  <2>3. \A i \in R : i \in Nat /\ (j = i + 1 => i < Len(path))
        OBVIOUS
  <2> QED BY <2>1, <2>2, <2>3
<1>2. CASE g[n] = "**" /\ n = Len(g)
  <2>1. Files!Reaches(g, path, n, R) = IF \E i \in R : i < Len(path) THEN {Len(path)} ELSE {}
        BY <1>2 DEF Files!Reaches
  <2>2. \A i \in R : Covers(g, path, n, i, j) <=> j >= i + 1
        BY <1>2 DEF Covers
  <2>3. j = Len(path) /\ \A i \in R : i \in Nat
        BY <1>2
  <2> QED BY <2>1, <2>2, <2>3
<1>3. CASE g[n] = "**" /\ n < Len(g)
  <2>1. Files!Reaches(g, path, n, R) = {l \in 0 .. Len(path) : \E i \in R : i <= l}
        BY <1>3 DEF Files!Reaches
  <2>2. \A i \in R : i \in Nat /\ (Covers(g, path, n, i, j) <=> j >= i)
        BY <1>3 DEF Covers
  <2> QED BY <2>1, <2>2
<1> QED BY <1>1, <1>2, <1>3

\* It reaches no further than the path goes.
LEMMA ReachesStays ==
  ASSUME NEW g, NEW path, NEW n \in 1 .. Len(g), Len(path) \in Nat, Len(g) \in Nat,
         NEW R, R \subseteq 0 .. Len(path)
  PROVE  Files!Reaches(g, path, n, R) \subseteq 0 .. Len(path)
<1>1. CASE g[n] # "**"
  <2>1. Files!Reaches(g, path, n, R)
          = {i + 1 : i \in {k \in R : k < Len(path) /\ Files!SegmentMatches(g[n], path[k + 1])}}
        BY <1>1 DEF Files!Reaches
  <2>2. \A k \in R : k < Len(path) => k + 1 \in 0 .. Len(path)
        OBVIOUS
  <2>3. \A j \in Files!Reaches(g, path, n, R) : \E k \in R : k < Len(path) /\ j = k + 1
        BY <2>1
  <2> QED BY <2>2, <2>3
<1>2. CASE g[n] = "**" /\ n = Len(g)
      BY <1>2 DEF Files!Reaches
<1>3. CASE g[n] = "**" /\ n < Len(g)
      BY <1>3 DEF Files!Reaches
<1> QED BY <1>1, <1>2, <1>3

\* A glob matches exactly the paths it is written to match, whatever stars it holds
\* (matchGlob).
THEOREM GlobsAreExact ==
  ASSUME NEW g \in Seq(Segments \cup {"*", "**"}), NEW path \in Seq(Segments \cup {".."})
  PROVE  Files!GlobIsExact(g, path)
<1> DEFINE N == Len(g)
           P == Len(path)
           next == [r \in (SUBSET (0 .. P)) \X Nat |->
                      IF r[2] \in 1 .. N THEN Files!Reaches(g, path, r[2], r[1]) ELSE {}]
           Is(f) == f = [n \in 0 .. N |-> IF n = 0 THEN {0}
                                          ELSE Files!Reaches(g, path, n, f[n - 1])]
           reachable == CHOOSE f : Is(f)
<1>1. N \in Nat /\ P \in Nat
      BY LenProperties
<1>2. next \in [(SUBSET (0 .. P)) \X Nat -> SUBSET (0 .. P)]
      BY <1>1, ReachesStays
<1>3. PICK f \in [0 .. N -> SUBSET (0 .. P)] : Recurs(f, {0}, next, N)
  <2>1. {0} \in SUBSET (0 .. P)
        BY <1>1
  <2> HIDE DEF N, P, next
  <2> QED BY <1>1, <1>2, <2>1, Recursion
<1>4. Is(f)
  <2>1. \A n \in 1 .. N : n \in Nat /\ n - 1 \in 0 .. N /\ f[n - 1] \in SUBSET (0 .. P)
    <3> HIDE DEF N, P
    <3> QED BY <1>1
  <2>2. \A n \in 1 .. N : f[n] = Files!Reaches(g, path, n, f[n - 1])
    <3> HIDE DEF N, P
    <3> QED BY <1>1, <1>3, <2>1 DEF Recurs
  <2> HIDE DEF N, P, next
  <2> QED BY <1>1, <1>3, <2>2 DEF Recurs
<1>5. Is(reachable)
  <2> HIDE DEF Is
  <2> QED BY <1>4
<1>6. /\ reachable[0] = {0}
      /\ \A n \in 1 .. N : reachable[n] = Files!Reaches(g, path, n, reachable[n - 1])
  <2> HIDE DEF reachable, N
  <2>1. reachable = [n \in 0 .. N |-> IF n = 0 THEN {0}
                                       ELSE Files!Reaches(g, path, n, reachable[n - 1])]
        BY <1>5
  <2>2. 0 \in 0 .. N /\ \A n \in 1 .. N : n \in 0 .. N /\ n # 0
        BY <1>1
  <2> HIDE DEF Is
  <2>3. reachable[0] = {0}
        BY <2>1, <2>2
  <2>4. \A n \in 1 .. N : reachable[n] = Files!Reaches(g, path, n, reachable[n - 1])
        BY <2>1, <2>2
  <2> QED BY <2>3, <2>4
<1> HIDE DEF reachable
<1> DEFINE Good(n) == /\ reachable[n] \subseteq 0 .. P
                      /\ \A j \in 0 .. P : n < N \/ j = P =>
                           (j \in reachable[n] <=> Lays(g, path, n, j))
           S == {n \in Nat : n \in 0 .. N => Good(n)}
<1>7. 0 \in S
  <2>1. ASSUME NEW j \in 0 .. P
        PROVE  j = 0 <=> Lays(g, path, 0, j)
    <3>1. ASSUME j = 0 PROVE Lays(g, path, 0, j)
      <4> DEFINE at == [k \in 0 .. 0 |-> 0]
      <4>1. at \in [0 .. 0 -> 0 .. P] /\ at[0] = 0 /\ 1 .. 0 = {}
            BY <1>1
      <4> QED BY <3>1, <4>1 DEF Lays
    <3>2. ASSUME Lays(g, path, 0, j) PROVE j = 0
          BY <3>2 DEF Lays
    <3> QED BY <3>1, <3>2
  <2> QED BY <1>1, <1>6, <2>1
<1>8. ASSUME NEW n \in Nat, n \in S
      PROVE  n + 1 \in S
  <2> SUFFICES ASSUME n + 1 \in 0 .. N
               PROVE  Good(n + 1)
      OBVIOUS
  <2>1. n \in 0 .. N /\ n < N /\ n + 1 \in 1 .. N /\ (n + 1) - 1 = n
        BY <1>1
  <2>2. Good(n)
        BY <1>8, <2>1
  <2>3. reachable[n + 1] = Files!Reaches(g, path, n + 1, reachable[n])
        BY <1>6, <2>1
  <2>4. reachable[n + 1] \subseteq 0 .. P
        BY <1>1, <2>1, <2>2, <2>3, ReachesStays
  <2>5. ASSUME NEW j \in 0 .. P, n + 1 < N \/ j = P
        PROVE  j \in reachable[n + 1] <=> Lays(g, path, n + 1, j)
    <3>1. j \in reachable[n + 1] <=> \E i \in reachable[n] : Covers(g, path, n + 1, i, j)
          BY <1>1, <2>1, <2>2, <2>3, <2>5, ReachesOneMore
    <3>2. Lays(g, path, n + 1, j)
            <=> \E i \in 0 .. P : Lays(g, path, n, i) /\ Covers(g, path, n + 1, i, j)
          BY <1>1, LaysOneMore
    <3>3. \A i \in 0 .. P : i \in reachable[n] <=> Lays(g, path, n, i)
          BY <2>1, <2>2
    <3> QED BY <2>2, <3>1, <3>2, <3>3
  <2> QED BY <2>4, <2>5
<1>9. Good(N)
  <2>1. Nat \subseteq S
    <3> HIDE DEF S
    <3> QED BY <1>7, <1>8, InductionOnNat
  <2> QED BY <1>1, <2>1
<1>10. Files!MatchGlob(g, path) <=> P \in reachable[N]
       BY Zenon DEF Files!MatchGlob, reachable
<1>11. Files!Means(g, path) <=> Lays(g, path, N, P)
       BY Zenon DEF Files!Means, Lays, Covers
<1>12. P \in 0 .. P
       BY <1>1
<1> HIDE DEF N, P
<1> QED BY <1>9, <1>10, <1>11, <1>12 DEF Files!GlobIsExact

-----------------------------------------------------------------------------
\* Packages.

\* The module counts as this one does.
LEMMA FilesCounts == \A S : Files!Cardinality(S) = Cardinality(S)
BY Zenon DEF Cardinality, Files!Cardinality

\* Paths of one root are the same if what they hold below a package is.
LEMMA SamePath ==
  ASSUME NEW S, NEW p \in Seq(S), NEW q \in Seq(S), NEW T, NEW package \in Seq(T),
         Len(p) > 1, Files!IsPrefixOf(package, Files!Tail1(p)),
         Len(q) > 1, Files!IsPrefixOf(package, Files!Tail1(q)), p[1] = q[1],
         SubSeq(p, Len(package) + 2, Len(p)) = SubSeq(q, Len(package) + 2, Len(q))
  PROVE  p = q
<1> DEFINE k == Len(package)
           Rest(r) == SubSeq(r, k + 2, Len(r))
<1>1. ASSUME NEW r \in Seq(S), Len(r) > 1, Files!IsPrefixOf(package, Files!Tail1(r))
      PROVE  /\ k + 1 <= Len(r) /\ Len(Rest(r)) = Len(r) - (k + 1)
             /\ \A m \in 1 .. k : r[m + 1] = package[m]
             /\ \A m \in 1 .. Len(r) - (k + 1) : r[k + 1 + m] = Rest(r)[m]
  <2> DEFINE n == Len(r)
             t == SubSeq(r, 2, n)
  <2>1. k \in Nat /\ n \in Nat /\ n > 1
        BY <1>1, LenProperties
  <2>2. t \in Seq(S) /\ Len(t) = n - 1 /\ \A i \in 1 .. n - 1 : t[i] = r[i + 1]
        BY <2>1, SubSeqProperties
  <2>3. k <= n - 1 /\ SubSeq(t, 1, k) = package
        BY <1>1, <2>2 DEF Files!IsPrefixOf, Files!Tail1
  <2>4. \A i \in 1 .. k : package[i] = t[i]
        BY <2>1, <2>2, <2>3, SubSeqProperties
  <2>5. \A m \in 1 .. k : r[m + 1] = package[m]
        BY <2>1, <2>2, <2>3, <2>4
  <2>6. Len(Rest(r)) = n - (k + 1) /\ \A m \in 1 .. n - (k + 1) : Rest(r)[m] = r[k + 1 + m]
        BY <2>1, <2>3, SubSeqProperties
  <2>7. k + 1 <= n
        BY <2>1, <2>3
  <2> QED BY <2>5, <2>6, <2>7
<1>2. /\ k + 1 <= Len(p) /\ Len(Rest(p)) = Len(p) - (k + 1)
      /\ \A m \in 1 .. k : p[m + 1] = package[m]
      /\ \A m \in 1 .. Len(p) - (k + 1) : p[k + 1 + m] = Rest(p)[m]
  <2> HIDE DEF k, Rest
  <2> QED BY <1>1
<1>3. /\ k + 1 <= Len(q) /\ Len(Rest(q)) = Len(q) - (k + 1)
      /\ \A m \in 1 .. k : q[m + 1] = package[m]
      /\ \A m \in 1 .. Len(q) - (k + 1) : q[k + 1 + m] = Rest(q)[m]
  <2> HIDE DEF k, Rest
  <2> QED BY <1>1
<1>4. k \in Nat /\ Len(p) \in Nat /\ Len(q) \in Nat
      BY LenProperties
<1>5. Rest(p) = Rest(q)
      OBVIOUS
<1> HIDE DEF k, Rest
<1>6. Len(p) = Len(q)
      BY <1>2, <1>3, <1>4, <1>5
<1>7. ASSUME NEW m \in 1 .. Len(p)
      PROVE  p[m] = q[m]
  <2>1. CASE m = 1
        BY <2>1
  <2>2. CASE m \in 2 .. k + 1
    <3>1. m - 1 \in 1 .. k /\ (m - 1) + 1 = m
          BY <1>4, <2>2
    <3> QED BY <1>2, <1>3, <3>1
  <2>3. CASE m \in k + 2 .. Len(p)
    <3>1. m - (k + 1) \in 1 .. Len(p) - (k + 1) /\ k + 1 + (m - (k + 1)) = m
          BY <1>4, <2>3
    <3> QED BY <1>2, <1>3, <1>5, <1>6, <3>1
  <2> QED BY <1>4, <2>1, <2>2, <2>3
<1> QED BY <1>6, <1>7, SeqEqual

\* The entries of an archive that is accepted have one root.
LEMMA OneRoot ==
  ASSUME NEW package, NEW es \in Seq(Files!Entries), ~Files!ExtractRefuses(es, package),
         NEW i \in DOMAIN es, NEW j \in DOMAIN es, es[i].type # "meta", es[j].type # "meta"
  PROVE  es[i].path[1] = es[j].path[1]
<1> DEFINE C == {l \in DOMAIN es : Files!Content(es[l])}
           roots == {Files!ArchiveRoot(es[l]) : l \in C}
           root == [l \in C |-> Files!ArchiveRoot(es[l])]
           a == es[i].path[1]
           b == es[j].path[1]
<1>1. IsFiniteSet(roots)
  <2>1. C \in SUBSET DOMAIN es
        OBVIOUS
  <2>2. root \in Surjection(C, roots)
        BY DEF Surjection
  <2> HIDE DEF C, roots, root
  <2>3. IsFiniteSet(DOMAIN es)
    <3>1. DOMAIN es = 1 .. Len(es) /\ Len(es) \in Nat
          BY LenProperties
    <3> QED BY <3>1, FS_Interval
  <2>4. IsFiniteSet(C)
        BY <2>1, <2>3, FS_Subset
  <2> QED BY <2>2, <2>4, FS_Surjection
<1>2. ~(Cardinality(roots) > 1)
      BY FilesCounts, Zenon DEF Files!ExtractRefuses
<1>3. {a, b} \in SUBSET roots
      BY DEF Files!Content, Files!ArchiveRoot
<1>4. ASSUME a # b PROVE Cardinality({a, b}) = 2
  <2>1. {a, b} = {a} \cup {b} /\ b \notin {a}
        BY <1>4
  <2> HIDE DEF a, b
  <2>2. IsFiniteSet({a}) /\ Cardinality({a}) = 1
        BY FS_Singleton
  <2>3. Cardinality({a} \cup {b}) = Cardinality({a}) + 1
        BY <2>1, <2>2, FS_AddElement
  <2>4. Cardinality({a, b}) = 1 + 1
        BY <2>1, <2>2, <2>3, Zenon
  <2> QED BY <2>4
<1> HIDE DEF a, b, roots
<1>5. Cardinality({a, b}) <= Cardinality(roots) /\ Cardinality(roots) \in Nat
      BY <1>1, <1>3, FS_Subset, FS_CardinalityType
<1>6. Cardinality(roots) <= 1
      BY <1>2, <1>5
<1> QED BY <1>4, <1>5, <1>6 DEF a, b

\* What is taken of an archive that is accepted are the regular files inside the package.
LEMMA TakenAre ==
  ASSUME NEW package, NEW es \in Seq(Files!Entries), ~Files!ExtractRefuses(es, package)
  PROVE  Files!Taken(es, package)
           = {i \in DOMAIN es : es[i].type = "file" /\ Files!Inside(es[i], package)}
<1>1. \A i \in DOMAIN es : es[i].type \in {"file", "dir", "link", "meta"}
  <2>1. \A i \in DOMAIN es : es[i] \in Files!Entries
        BY ElementOfSeq, LenProperties
  <2> QED BY <2>1 DEF Files!Entries
<1>2. \A i \in Files!Taken(es, package) : es[i].type # "link"
      BY DEF Files!ExtractRefuses
<1> QED BY <1>1, <1>2 DEF Files!Taken, Files!Content

\* What is taken has a place of its own.
LEMMA PlacesApart ==
  ASSUME NEW package \in Seq(Segments), NEW es \in Seq(Files!Entries),
         ~Files!ExtractRefuses(es, package),
         NEW i \in Files!Taken(es, package), NEW j \in Files!Taken(es, package),
         Files!PackagePath(es[i], package) = Files!PackagePath(es[j], package)
  PROVE  i = j
<1> DEFINE p == es[i].path
           q == es[j].path
           k == Len(package)
<1>1. /\ i \in DOMAIN es /\ j \in DOMAIN es /\ es[i].type # "meta" /\ es[j].type # "meta"
      /\ Files!Inside(es[i], package) /\ Files!Inside(es[j], package)
      BY TakenAre
<1>2. p \in Seq(Segments \cup {".."}) /\ q \in Seq(Segments \cup {".."})
  <2>1. es[i] \in Files!Entries /\ es[j] \in Files!Entries
        BY <1>1, ElementOfSeq, LenProperties
  <2> QED BY <2>1 DEF Files!Entries
<1>3. p[1] = q[1]
      BY <1>1, OneRoot
<1>4. SubSeq(p, k + 2, Len(p)) = SubSeq(q, k + 2, Len(q))
      BY DEF Files!PackagePath
<1>5. /\ Len(p) > 1 /\ Files!IsPrefixOf(package, Files!Tail1(p))
      /\ Len(q) > 1 /\ Files!IsPrefixOf(package, Files!Tail1(q))
      BY <1>1 DEF Files!Inside
<1>6. p = q
  <2> HIDE DEF p, q
  <2> QED BY <1>2, <1>3, <1>4, <1>5, SamePath
<1> QED BY <1>6 DEF Files!ExtractRefuses

\* The files of an archive that is accepted.
Regular(es, package) == {i \in DOMAIN es : es[i].type = "file" /\ Files!Inside(es[i], package)}
PlaceOf(es, package, i) == Files!PackagePath(es[i], package)

IsTable(f) == f = [a \in DOMAIN f |-> f[a]]

\* What is extracted of an archive that is accepted.
LEMMA ExtractedAre ==
  ASSUME NEW package \in Seq(Segments), NEW es \in Seq(Files!Entries),
         ~Files!ExtractRefuses(es, package),
         NEW fs, fs = Files!ExtractPackage(es, package)
  PROVE  /\ IsTable(fs)
         /\ DOMAIN fs = {PlaceOf(es, package, i) : i \in Regular(es, package)}
         /\ \A i \in Regular(es, package) : fs[PlaceOf(es, package, i)] = es[i].content
<1> DEFINE T == Files!Taken(es, package)
           D == {PlaceOf(es, package, i) : i \in T}
           of(f) == CHOOSE e \in {es[i] : i \in T} : Files!PackagePath(e, package) = f
<1>1. fs = [f \in D |-> of(f).content]
      BY DEF Files!ExtractPackage, PlaceOf
<1>2. T = Regular(es, package)
      BY TakenAre DEF Regular
<1>3. ASSUME NEW i \in T PROVE of(PlaceOf(es, package, i)) = es[i]
  <2> DEFINE e == of(PlaceOf(es, package, i))
  <2>1. e \in {es[j] : j \in T} /\ Files!PackagePath(e, package) = PlaceOf(es, package, i)
    <3>1. es[i] \in {es[j] : j \in T} /\ Files!PackagePath(es[i], package) = PlaceOf(es, package, i)
          BY DEF PlaceOf
    <3> HIDE DEF T
    <3> QED BY <3>1
  <2> HIDE DEF e
  <2>2. PICK j \in T : e = es[j]
        BY <2>1
  <2>3. j = i
        BY <2>1, <2>2, PlacesApart DEF PlaceOf
  <2> QED BY <2>2, <2>3 DEF e
<1>4. \A i \in T : PlaceOf(es, package, i) \in D
      OBVIOUS
<1> HIDE DEF T, of
<1>5. ASSUME NEW i \in T PROVE fs[PlaceOf(es, package, i)] = es[i].content
      BY <1>1, <1>3, <1>4
<1> HIDE DEF D
<1>6. IsTable(fs) /\ DOMAIN fs = D
      BY <1>1 DEF IsTable
<1> QED BY <1>2, <1>5, <1>6 DEF D

\* They are some, no more than the limit, and each at a path.
LEMMA ExtractedType ==
  ASSUME NEW package \in Seq(Segments), NEW es \in Seq(Files!Entries),
         ~Files!ExtractRefuses(es, package),
         NEW fs, fs = Files!ExtractPackage(es, package)
  PROVE  /\ IsFiniteSet(DOMAIN fs) /\ Cardinality(DOMAIN fs) <= MaxFiles
         /\ Cardinality(DOMAIN fs) \in Nat /\ DOMAIN fs # {}
         /\ DOMAIN fs \subseteq Seq(Segments \cup {".."})
         /\ \A f \in DOMAIN fs : fs[f] \in Contents \cup Files!Rules
<1> DEFINE T == Regular(es, package)
           D == {PlaceOf(es, package, i) : i \in T}
           place == [i \in T |-> PlaceOf(es, package, i)]
<1>1. DOMAIN fs = D /\ \A i \in T : fs[PlaceOf(es, package, i)] = es[i].content
      BY ExtractedAre
<1>2. IsFiniteSet(T) /\ Cardinality(T) \in Nat
  <2>1. IsFiniteSet(DOMAIN es)
    <3>1. DOMAIN es = 1 .. Len(es) /\ Len(es) \in Nat
          BY LenProperties
    <3> QED BY <3>1, FS_Interval
  <2>2. T \in SUBSET DOMAIN es
        BY DEF Regular
  <2> QED BY <2>1, <2>2, FS_Subset, FS_CardinalityType
<1>3. T = Files!Taken(es, package)
      BY TakenAre DEF Regular
<1>4. T # {} /\ ~(Cardinality(T) > MaxFiles)
      BY <1>3, FilesCounts, Zenon DEF Files!ExtractRefuses
<1>5. place \in Surjection(T, D)
      BY DEF Surjection
<1>6. IsFiniteSet(D) /\ Cardinality(D) <= Cardinality(T) /\ Cardinality(D) \in Nat
  <2> HIDE DEF T, D, place
  <2> QED BY <1>2, <1>5, FS_Surjection, FS_CardinalityType
<1>7. D # {}
      BY <1>4
<1>8. ASSUME NEW i \in T
      PROVE  /\ es[i].content \in Contents \cup Files!Rules
             /\ PlaceOf(es, package, i) \in Seq(Segments \cup {".."})
  <2>1. i \in DOMAIN es /\ Files!Inside(es[i], package)
        BY DEF Regular
  <2>2. es[i] \in Files!Entries
        BY <2>1, ElementOfSeq, LenProperties
  <2> DEFINE p == es[i].path
  <2>3. p \in Seq(Segments \cup {".."}) /\ es[i].content \in Contents \cup Files!Rules
        BY <2>2 DEF Files!Entries
  <2> HIDE DEF p
  <2>4. Len(p) \in Nat /\ Len(package) \in Nat
        BY <2>3, LenProperties
  <2>5. SubSeq(p, Len(package) + 2, Len(p)) \in Seq(Segments \cup {".."})
        BY <2>3, <2>4, SubSeqProperties
  <2> QED BY <2>3, <2>5 DEF PlaceOf, Files!PackagePath, p
<1>9. \A f \in D : fs[f] \in Contents \cup Files!Rules /\ f \in Seq(Segments \cup {".."})
      BY <1>1, <1>8
<1>10. Cardinality(D) <= MaxFiles
  <2> HIDE DEF T, D
  <2> QED BY <1>2, <1>4, <1>6, FilesAssumption
<1> HIDE DEF D
<1> QED BY <1>1, <1>6, <1>7, <1>9, <1>10

\* A push of files in an order.
PushOf(fs, o) == [i \in DOMAIN o |-> [path |-> o[i], content |-> fs[o[i]], sha |-> fs[o[i]]]]
OrderOf(fs) == CHOOSE o \in [1 .. Cardinality(DOMAIN fs) -> DOMAIN fs] :
                 \A i, j \in DOMAIN o : o[i] = o[j] => i = j

\* A finite table can be pushed file by file.
LEMMA OrderIs ==
  ASSUME NEW fs, IsFiniteSet(DOMAIN fs)
  PROVE  LET n == Cardinality(DOMAIN fs) IN
         /\ OrderOf(fs) \in [1 .. n -> DOMAIN fs]
         /\ \A i, j \in 1 .. n : OrderOf(fs)[i] = OrderOf(fs)[j] => i = j
         /\ \A f \in DOMAIN fs : \E i \in 1 .. n : OrderOf(fs)[i] = f
<1> DEFINE n == Cardinality(DOMAIN fs)
           o == OrderOf(fs)
<1>1. n \in Nat /\ ExistsBijection(1 .. n, DOMAIN fs)
      BY FS_CardinalityType
<1>2. o \in [1 .. n -> DOMAIN fs] /\ \A i, j \in 1 .. n : o[i] = o[j] => i = j
  <2>1. PICK b \in [1 .. n -> DOMAIN fs] : \A i, j \in 1 .. n : b[i] = b[j] => i = j
        BY <1>1 DEF ExistsBijection, Bijection, Injection, IsInjective
  <2>2. \E x \in [1 .. n -> DOMAIN fs] : \A i, j \in DOMAIN x : x[i] = x[j] => i = j
        BY <2>1
  <2>3. o \in [1 .. n -> DOMAIN fs] /\ \A i, j \in DOMAIN o : o[i] = o[j] => i = j
    <3> HIDE DEF n
    <3> QED BY <2>2, Zenon DEF OrderOf, n
  <2> HIDE DEF n, o
  <2> QED BY <2>3
<1>3. o \in Injection(1 .. n, DOMAIN fs)
  <2> HIDE DEF o, n
  <2> QED BY <1>2 DEF Injection, IsInjective
<1>4. Cardinality(1 .. n) = n
  <2> HIDE DEF n
  <2> QED BY <1>1, FS_Interval
<1>5. o \in Surjection(1 .. n, DOMAIN fs)
  <2> HIDE DEF o
  <2> QED BY <1>3, <1>4, FS_Injection
<1>6. \A f \in DOMAIN fs : \E i \in 1 .. n : o[i] = f
  <2> HIDE DEF o, n
  <2> QED BY <1>5 DEF Surjection
<1> HIDE DEF o
<1> QED BY <1>2, <1>6 DEF o

\* A table that is pushed arrives as it was.
LEMMA PushedAre ==
  ASSUME NEW fs, IsFiniteSet(DOMAIN fs), IsTable(fs),
         NEW ps, ps = PushOf(fs, OrderOf(fs))
  PROVE  /\ Files!Pushed(ps) = fs
         /\ DOMAIN ps = 1 .. Cardinality(DOMAIN fs) /\ Len(ps) = Cardinality(DOMAIN fs)
         /\ \A i \in DOMAIN ps :
              /\ ps[i].path \in DOMAIN fs
              /\ ps[i].content = fs[ps[i].path] /\ ps[i].sha = fs[ps[i].path]
         /\ \A f \in DOMAIN fs : \E i \in DOMAIN ps : ps[i].path = f
<1> DEFINE n == Cardinality(DOMAIN fs)
           o == OrderOf(fs)
<1>1. n \in Nat
      BY FS_CardinalityType
<1>2. /\ o \in [1 .. n -> DOMAIN fs]
      /\ \A i, j \in 1 .. n : o[i] = o[j] => i = j
      /\ \A f \in DOMAIN fs : \E i \in 1 .. n : o[i] = f
      BY OrderIs
<1> HIDE DEF n, o
<1>3. /\ DOMAIN ps = 1 .. n
      /\ \A i \in 1 .. n : ps[i] = [path |-> o[i], content |-> fs[o[i]], sha |-> fs[o[i]]]
      BY <1>2 DEF PushOf, o
<1>4. Len(ps) = n
  <2>1. ps = [i \in 1 .. n |-> [path |-> o[i], content |-> fs[o[i]], sha |-> fs[o[i]]]]
        BY <1>2 DEF PushOf, o
  <2> QED BY <1>1, <2>1
<1>5. \A i \in 1 .. n : ps[i].path = o[i] /\ ps[i].content = fs[o[i]] /\ ps[i].sha = fs[o[i]]
      BY <1>3
<1>6. /\ \A i \in DOMAIN ps :
           /\ ps[i].path \in DOMAIN fs
           /\ ps[i].content = fs[ps[i].path] /\ ps[i].sha = fs[ps[i].path]
      /\ \A f \in DOMAIN fs : \E i \in DOMAIN ps : ps[i].path = f
      BY <1>2, <1>3, <1>5
<1>7. Files!Pushed(ps) = fs
  <2> DEFINE of(f) == CHOOSE u \in {ps[i] : i \in DOMAIN ps} : u.path = f
  <2>1. {ps[i].path : i \in DOMAIN ps} = DOMAIN fs
        BY <1>6
  <2>2. ASSUME NEW f \in DOMAIN fs
        PROVE  Files!Sha(of(f)) = fs[f]
    <3> DEFINE u == of(f)
    <3>1. \E v \in {ps[i] : i \in DOMAIN ps} : v.path = f
          BY <1>6
    <3>2. u \in {ps[i] : i \in DOMAIN ps} /\ u.path = f
          BY <3>1, Zenon
    <3> HIDE DEF u
    <3>3. u.content = fs[f] /\ u.sha = fs[f]
          BY <1>6, <3>2
    <3>4. Files!Sha(u) = fs[f]
          BY <3>3 DEF Files!Sha
    <3> QED BY <3>4 DEF u
  <2>3. Files!Pushed(ps) = [f \in DOMAIN fs |-> Files!Sha(of(f))]
        BY <2>1, Zenon DEF Files!Pushed
  <2> HIDE DEF of
  <2> QED BY <2>2, <2>3 DEF IsTable
<1> QED BY <1>3, <1>4, <1>6, <1>7 DEF n

ManifestPath == <<ManifestName>>
BelowOf(es, package) ==
  {<<Files!PackagePath(e, package), e.content>> :
     e \in {es[i] : i \in {j \in DOMAIN es : es[j].type = "file" /\ Files!Inside(es[j], package)}}}
ChosenOf(es, package) ==
  {c \in BelowOf(es, package) :
     /\ c[1] # ManifestPath
     /\ \A m \in BelowOf(es, package) : m[1] = ManifestPath => Files!Wanted(m[2], c[1])}
AcceptedBy(es, package) ==
  ~Files!ExtractRefuses(es, package) /\ ~Files!GitRefuses(Files!ExtractPackage(es, package))

\* A manifest selects the files other than itself that its globs want.
LEMMA SelectsAreWanted ==
  ASSUME NEW rules \in Files!Rules, NEW f \in Seq(Segments \cup {".."})
  PROVE  Files!Selects(rules, f) <=> f # ManifestPath /\ Files!Wanted(rules, f)
<1>1. rules.include \subseteq Seq(Segments \cup {"*", "**"})
      /\ rules.exclude \subseteq Seq(Segments \cup {"*", "**"})
      BY DEF Files!Rules, Files!Globs
<1>2. \A g \in Seq(Segments \cup {"*", "**"}) : Files!MatchGlob(g, f) <=> Files!Means(g, f)
      BY GlobsAreExact DEF Files!GlobIsExact
<1> QED BY <1>1, <1>2 DEF Files!Selects, Files!Wanted, ManifestPath

\* What an archive holds below a package is what is extracted of it.
LEMMA BelowAre ==
  ASSUME NEW package \in Seq(Segments), NEW es \in Seq(Files!Entries),
         ~Files!ExtractRefuses(es, package),
         NEW fs, fs = Files!ExtractPackage(es, package)
  PROVE  BelowOf(es, package) = {<<f, fs[f]>> : f \in DOMAIN fs}
<1> DEFINE T == Regular(es, package)
<1>1. /\ DOMAIN fs = {PlaceOf(es, package, i) : i \in T}
      /\ \A i \in T : fs[PlaceOf(es, package, i)] = es[i].content
      BY ExtractedAre
<1>2. BelowOf(es, package) = {<<PlaceOf(es, package, i), es[i].content>> : i \in T}
      BY DEF BelowOf, Regular, PlaceOf
<1> HIDE DEF T
<1> QED BY <1>1, <1>2

\* An archive that is accepted has a manifest, which chooses some of the files.
LEMMA AcceptedAre ==
  ASSUME NEW package \in Seq(Segments), NEW es \in Seq(Files!Entries), AcceptedBy(es, package),
         NEW fs, fs = Files!ExtractPackage(es, package)
  PROVE  /\ ~Files!ExtractRefuses(es, package)
         /\ <<>> \notin DOMAIN fs /\ ManifestPath \in DOMAIN fs
         /\ fs[ManifestPath] \in Files!Rules \ Contents /\ Files!Documents(fs) # {}
         /\ Files!Documents(fs)
              = {f \in DOMAIN fs : f # ManifestPath /\ Files!Wanted(fs[ManifestPath], f)}
<1>1. /\ ~Files!ExtractRefuses(es, package)
      /\ <<>> \notin DOMAIN fs /\ ManifestPath \in DOMAIN fs
      /\ fs[ManifestPath] \notin Contents /\ Files!Documents(fs) # {}
      BY DEF AcceptedBy, Files!GitRefuses, ManifestPath
<1>2. /\ DOMAIN fs \subseteq Seq(Segments \cup {".."})
      /\ \A f \in DOMAIN fs : fs[f] \in Contents \cup Files!Rules
      BY <1>1, ExtractedType
<1>3. fs[ManifestPath] \in Files!Rules
      BY <1>1, <1>2
<1>4. \A f \in DOMAIN fs : Files!Selects(fs[ManifestPath], f)
                             <=> f # ManifestPath /\ Files!Wanted(fs[ManifestPath], f)
      BY <1>2, <1>3, SelectsAreWanted
<1>5. Files!Documents(fs) = {f \in DOMAIN fs : Files!Selects(fs[ManifestPath], f)}
      BY DEF Files!Documents, ManifestPath
<1> QED BY <1>1, <1>3, <1>4, <1>5

\* What is extracted is what the manifest chooses.
LEMMA ChosenAre ==
  ASSUME NEW package \in Seq(Segments), NEW es \in Seq(Files!Entries), AcceptedBy(es, package),
         NEW fs, fs = Files!ExtractPackage(es, package)
  PROVE  ChosenOf(es, package) = {<<f, fs[f]>> : f \in Files!Documents(fs)}
<1>1. /\ ~Files!ExtractRefuses(es, package) /\ ManifestPath \in DOMAIN fs
      /\ Files!Documents(fs)
           = {f \in DOMAIN fs : f # ManifestPath /\ Files!Wanted(fs[ManifestPath], f)}
      BY AcceptedAre
<1>2. BelowOf(es, package) = {<<f, fs[f]>> : f \in DOMAIN fs}
      BY <1>1, BelowAre
<1> DEFINE B == BelowOf(es, package)
<1> HIDE DEF B
<1>3. ASSUME NEW f \in DOMAIN fs
      PROVE  (\A m \in B : m[1] = ManifestPath => Files!Wanted(m[2], f))
               <=> Files!Wanted(fs[ManifestPath], f)
  <2> DEFINE k == <<ManifestPath, fs[ManifestPath]>>
  <2>1. k \in B /\ k[1] = ManifestPath /\ k[2] = fs[ManifestPath]
        BY <1>1, <1>2 DEF B
  <2>2. \A m \in B : m[1] = ManifestPath => m[2] = fs[ManifestPath]
        BY <1>2 DEF B
  <2> HIDE DEF k
  <2> QED BY <2>1, <2>2
<1>4. ChosenOf(es, package)
        = {c \in B : c[1] # ManifestPath
                     /\ \A m \in B : m[1] = ManifestPath => Files!Wanted(m[2], c[1])}
      BY DEF ChosenOf, B
<1>5. B = {<<f, fs[f]>> : f \in DOMAIN fs}
      BY <1>2 DEF B
<1>6. \A c \in ChosenOf(es, package) : c \in {<<f, fs[f]>> : f \in Files!Documents(fs)}
  <2> TAKE c \in ChosenOf(es, package)
  <2>1. PICK f \in DOMAIN fs : c = <<f, fs[f]>>
        BY <1>4, <1>5
  <2>2. c[1] = f
        BY <2>1
  <2>3. f # ManifestPath /\ Files!Wanted(fs[ManifestPath], f)
        BY <1>3, <1>4, <2>2
  <2> QED BY <1>1, <2>1, <2>3
<1>7. \A f \in Files!Documents(fs) : <<f, fs[f]>> \in ChosenOf(es, package)
  <2> TAKE f \in Files!Documents(fs)
  <2>1. f \in DOMAIN fs /\ f # ManifestPath /\ Files!Wanted(fs[ManifestPath], f)
        BY <1>1
  <2> DEFINE c == <<f, fs[f]>>
  <2>2. c \in B /\ c[1] = f
        BY <1>5, <2>1
  <2> HIDE DEF c
  <2>3. c \in ChosenOf(es, package)
        BY <1>3, <1>4, <2>1, <2>2
  <2> QED BY <2>3 DEF c
<1> QED BY <1>6, <1>7

\* What is extracted from an archive is accepted when it is pushed.
LEMMA PushIsAccepted ==
  ASSUME NEW package \in Seq(Segments), NEW es \in Seq(Files!Entries), AcceptedBy(es, package),
         NEW fs, fs = Files!ExtractPackage(es, package),
         NEW ps, ps = PushOf(fs, OrderOf(fs))
  PROVE  /\ Files!Pushed(ps) = fs
         /\ ~Files!SnapshotRefuses(ps, Nil)
         /\ ~Files!SkillRefuses(ps, Files!SkillIdentity(fs))
<1>1. /\ ~Files!ExtractRefuses(es, package)
      /\ <<>> \notin DOMAIN fs /\ ManifestPath \in DOMAIN fs
      /\ fs[ManifestPath] \in Files!Rules \ Contents /\ Files!Documents(fs) # {}
      BY AcceptedAre
<1>2. /\ IsFiniteSet(DOMAIN fs) /\ Cardinality(DOMAIN fs) <= MaxFiles
      /\ Cardinality(DOMAIN fs) \in Nat /\ DOMAIN fs # {}
      /\ \A f \in DOMAIN fs : fs[f] \in Contents \cup Files!Rules
      BY <1>1, ExtractedType
<1>3. IsTable(fs)
      BY <1>1, ExtractedAre
<1>4. /\ Files!Pushed(ps) = fs
      /\ DOMAIN ps = 1 .. Cardinality(DOMAIN fs) /\ Len(ps) = Cardinality(DOMAIN fs)
      /\ \A i \in DOMAIN ps :
           /\ ps[i].path \in DOMAIN fs
           /\ ps[i].content = fs[ps[i].path] /\ ps[i].sha = fs[ps[i].path]
      /\ \A f \in DOMAIN fs : \E i \in DOMAIN ps : ps[i].path = f
      BY <1>2, <1>3, PushedAre
<1>5. \A f \in DOMAIN fs : fs[f] # Nil
      BY <1>2, FilesAssumption
<1>6. ps # <<>> /\ ~(Len(ps) > MaxFiles)
      /\ ~(Files!Cardinality(DOMAIN Files!Pushed(ps)) < Len(ps))
  <2>1. ps # <<>>
    <3>1. PICK f \in DOMAIN fs : TRUE
          BY <1>2
    <3>2. PICK i \in DOMAIN ps : TRUE
          BY <1>4, <3>1
    <3> QED BY <3>2
  <2>2. Files!Cardinality(DOMAIN fs) = Cardinality(DOMAIN fs)
        BY FilesCounts
  <2> DEFINE n == Cardinality(DOMAIN fs)
  <2>3. Files!Cardinality(DOMAIN fs) = n /\ n <= MaxFiles /\ n \in Nat /\ Len(ps) = n
        BY <1>2, <1>4, <2>2
  <2> HIDE DEF n
  <2>4. ~(n > MaxFiles) /\ ~(n < n)
        BY <2>3, FilesAssumption
  <2>5. Files!Cardinality(DOMAIN Files!Pushed(ps)) = n
        BY <1>4, <2>3
  <2> QED BY <2>1, <2>3, <2>4, <2>5
<1>7. \A i \in DOMAIN ps :
        /\ Files!Sha(ps[i]) = fs[ps[i].path] /\ Files!Sha(ps[i]) # Nil /\ ps[i].path # <<>>
        /\ ps[i].sha = ps[i].content
      BY <1>1, <1>4, <1>5 DEF Files!Sha
<1>8. \E i \in DOMAIN ps : ps[i].path = ManifestPath /\ ps[i].content \notin {Nil, EmptyFile}
  <2>1. PICK i \in DOMAIN ps : ps[i].path = ManifestPath
        BY <1>1, <1>4
  <2>2. ps[i].content = fs[ManifestPath]
        BY <1>4, <2>1
  <2>3. fs[ManifestPath] \notin {Nil, EmptyFile}
        BY <1>1, FilesAssumption
  <2> QED BY <2>1, <2>2, <2>3
<1>9. ~Files!SnapshotRefuses(ps, Nil)
      BY <1>1, <1>4, <1>6, <1>7, <1>8, Zenon DEF Files!SnapshotRefuses, ManifestPath
<1>10. ~Files!SkillRefuses(ps, Files!SkillIdentity(fs))
       BY <1>1, <1>4, <1>6, <1>7, <1>8, Zenon DEF Files!SkillRefuses, ManifestPath
<1> QED BY <1>4, <1>9, <1>10

\* Sets that gained an element each are the same if they were and the elements are.
LEMMA SameParts ==
  ASSUME NEW C, NEW D, NEW a, NEW b, a \notin C \cup D, b \notin C \cup D
  PROVE  C \cup {a} = D \cup {b} <=> C = D /\ a = b
<1>1. ASSUME C \cup {a} = D \cup {b}
      PROVE  C = D /\ a = b
  <2>1. a = b
    <3>1. a \in D \cup {b}
          BY <1>1
    <3> QED BY <3>1
  <2>2. \A c : c \in C <=> c \in D
    <3> TAKE c
    <3>1. c \in C \cup {a} <=> c \in D \cup {b}
          BY <1>1
    <3> QED BY <2>1, <3>1
  <2> QED BY <2>1, <2>2
<1> QED BY <1>1

\* A package is its selected files, out of any archive and whatever way it came
\* (ExtractPackage, normalizeSnapshotFiles).
THEOREM SelectionsAreExact ==
  ASSUME NEW x, x.package \in Seq(Segments),
         x.entries \in Seq(Files!Entries), x.others \in Seq(Files!Entries)
  PROVE  Files!PackageIsItsSelection(x)
<1> DEFINE package == x.package
           fs == Files!ExtractPackage(x.entries, package)
           os == Files!ExtractPackage(x.others, package)
           chosen == ChosenOf(x.entries, package)
           others == ChosenOf(x.others, package)
           ps == PushOf(fs, OrderOf(fs))
           Goal == AcceptedBy(x.entries, package) =>
                     /\ {<<f, fs[f]>> : f \in Files!Documents(fs)} = chosen
                     /\ ~Files!SnapshotRefuses(ps, Nil) /\ Files!Pushed(ps) = fs
                     /\ ~Files!SkillRefuses(ps, Files!SkillIdentity(fs))
                     /\ AcceptedBy(x.others, package) =>
                          (Files!Identity(fs) = Files!Identity(os)
                             <=> chosen = others /\ fs[ManifestPath] = os[ManifestPath])
<1>1. Goal
  <2> SUFFICES ASSUME AcceptedBy(x.entries, package) PROVE Goal
      OBVIOUS
  <2>1. chosen = {<<f, fs[f]>> : f \in Files!Documents(fs)}
        BY ChosenAre
  <2>2. /\ Files!Pushed(ps) = fs /\ ~Files!SnapshotRefuses(ps, Nil)
        /\ ~Files!SkillRefuses(ps, Files!SkillIdentity(fs))
        BY PushIsAccepted
  <2>3. ASSUME AcceptedBy(x.others, package)
        PROVE  Files!Identity(fs) = Files!Identity(os)
                 <=> chosen = others /\ fs[ManifestPath] = os[ManifestPath]
    <3>1. others = {<<f, os[f]>> : f \in Files!Documents(os)}
          BY <2>3, ChosenAre
    <3>2. /\ Files!Identity(fs) = chosen \cup {<<ManifestPath, fs[ManifestPath]>>}
          /\ Files!Identity(os) = others \cup {<<ManifestPath, os[ManifestPath]>>}
          BY <2>1, <3>1 DEF Files!Identity, ManifestPath
    <3>3. \A c \in chosen \cup others : c[1] # ManifestPath
          BY DEF ChosenOf
    <3> HIDE DEF chosen, others, fs, os
    <3>4. /\ <<ManifestPath, fs[ManifestPath]>>[1] = ManifestPath
          /\ <<ManifestPath, os[ManifestPath]>>[1] = ManifestPath
          /\ <<ManifestPath, fs[ManifestPath]>>[2] = fs[ManifestPath]
          /\ <<ManifestPath, os[ManifestPath]>>[2] = os[ManifestPath]
          OBVIOUS
    <3> DEFINE a == <<ManifestPath, fs[ManifestPath]>>
               b == <<ManifestPath, os[ManifestPath]>>
    <3>5. /\ a \notin chosen \cup others /\ b \notin chosen \cup others
          /\ a = b <=> fs[ManifestPath] = os[ManifestPath]
          BY <3>3, <3>4
    <3> HIDE DEF a, b
    <3>6. Files!Identity(fs) = chosen \cup {a} /\ Files!Identity(os) = others \cup {b}
          BY <3>2 DEF a, b
    <3>7. chosen \cup {a} = others \cup {b} <=> chosen = others /\ a = b
          BY <3>5, SameParts
    <3> QED BY <3>5, <3>6, <3>7
  <2> HIDE DEF fs, chosen, others, ps, os
  <2> QED BY <2>1, <2>2, <2>3
<1>2. Goal <=> Files!PackageIsItsSelection(x)
      BY FilesCounts, Zenon DEF Files!PackageIsItsSelection, AcceptedBy, ChosenOf, BelowOf,
         ManifestPath, PushOf, OrderOf
<1> QED BY <1>1, <1>2

\* Packages are read for what they are, however they came: the archive, its globs and its
\* sizes together (ExtractPackage, matchGlob, parseTarEntrySize).
THEOREM PackagesAreRead ==
  ASSUME Given("package") => /\ input.x.package \in Seq(Segments)
                             /\ input.x.entries \in Seq(Files!Entries)
                             /\ input.x.others \in Seq(Files!Entries),
         Given("glob") => /\ input.x.glob \in Seq(Segments \cup {"*", "**"})
                          /\ input.x.path \in Seq(Segments \cup {".."}),
         Given("size") => /\ input.x.base \in Nat \ {0} /\ input.x.max \in Nat
                          /\ input.x.digits \in Seq(0 .. input.x.base - 1)
  PROVE  PackageIsRead
<1>1. Given("package") => Files!PackageIsItsSelection(input.x)
      BY SelectionsAreExact
<1>2. Given("glob") => Files!GlobIsExact(input.x.glob, input.x.path)
      BY GlobsAreExact
<1>3. Given("size") => Files!SizeIsExact(input.x.digits, input.x.base, input.x.max)
      BY SizesAreExact
<1> QED BY <1>1, <1>2, <1>3 DEF PackageIsRead

-----------------------------------------------------------------------------
\* Discovery.

\* The module counts as this one does.
LEMMA DiscoveryCounts == \A S : Discovery!Cardinality(S) = Cardinality(S)
BY Zenon DEF Discovery!Cardinality, Cardinality

\* What a requirement says once it is normalised and valid.
Stated(mode, r) ==
  /\ r.required \in BOOLEAN /\ r.max \in Nat \ {0}
  /\ r.nomatch \in {"ask_user", "proceed", "fail"} /\ (r.required => r.nomatch # "proceed")
  /\ r.ambig # "proceed"
  /\ mode = "pinned" => r.pinned # <<>>

\* A requirement that is accepted is stated after it is normalised.
LEMMA AcceptedIsStated ==
  ASSUME NEW mode, NEW q \in Discovery!Requirements, ~Discovery!Refuses(mode, q)
  PROVE  Stated(mode, Discovery!Normalised(q))
<1> DEFINE r == Discovery!Normalised(q)
<1>1. Discovery!Valid(mode, r)
      BY DEF Discovery!Refuses
<1>2. /\ r.required = q.required /\ r.pinned = q.pinned
      /\ r.max = IF q.max = 0 THEN 3 ELSE q.max
      /\ r.nomatch = IF q.nomatch = Nil THEN IF q.required THEN "ask_user" ELSE "proceed"
                     ELSE q.nomatch
      BY DEF Discovery!Normalised, Discovery!Requirements
<1>3. /\ q.required \in BOOLEAN /\ q.max \in Nat
      /\ q.nomatch \in {"ask_user", "search_multiple", "proceed", "fail", Nil}
      BY DEF Discovery!Requirements, Discovery!Fallbacks
<1> HIDE DEF r
<1>4. /\ r.nomatch # "search_multiple" /\ r.ambig # "proceed"
      /\ ~(r.required /\ r.nomatch = "proceed")
      /\ mode = "pinned" => r.pinned # <<>>
      BY <1>1 DEF Discovery!Valid
<1>5. r.max \in Nat \ {0}
      BY <1>2, <1>3
<1>6. r.nomatch \in {"ask_user", "proceed", "fail"}
      BY <1>2, <1>3, <1>4
<1> QED BY <1>2, <1>3, <1>4, <1>5, <1>6 DEF Stated, r

\* Two worlds with one catalog, and two spellings of one requirement.
SameWorld(v, w) ==
  /\ Discovery!Cards(v) = Discovery!Cards(w)
  /\ \A s \in Discovery!Cards(v) : v.packages[s] = w.packages[s] /\ v.domain[s] = w.domain[s]
SameNeed(r, q) ==
  /\ r.caps = q.caps /\ r.langs = q.langs /\ r.domains = q.domains /\ r.max = q.max
  /\ r.nomatch = q.nomatch /\ r.ambig = q.ambig
  /\ {r.pinned[i] : i \in DOMAIN r.pinned} = {q.pinned[i] : i \in DOMAIN q.pinned}

\* Equal fingerprints stand for one catalog and one need.
LEMMA FingerprintStands ==
  ASSUME NEW mode, NEW v, NEW w, v.domain = w.domain, NEW r, NEW q,
         Discovery!Fingerprint(mode, v, r) = Discovery!Fingerprint(mode, w, q)
  PROVE  SameWorld(v, w) /\ SameNeed(r, q)
<1> DEFINE C(u) == {<<s, u.packages[s]>> : s \in Discovery!Cards(u)}
           bag(p) == [x \in {p.pinned[i] : i \in DOMAIN p.pinned} |->
                        Discovery!Cardinality({i \in DOMAIN p.pinned : p.pinned[i] = x})]
<1>1. Discovery!ContractIdentity(mode, r) = Discovery!ContractIdentity(mode, q) /\ C(v) = C(w)
      BY DEF Discovery!Fingerprint
<1>2. SameNeed(r, q)
  <2> DEFINE a == Discovery!ContractIdentity(mode, r)
             b == Discovery!ContractIdentity(mode, q)
  <2>1. /\ a.caps = r.caps /\ a.langs = r.langs /\ a.domains = r.domains /\ a.max = r.max
        /\ a.nomatch = r.nomatch /\ a.ambig = r.ambig /\ a.pinned = bag(r)
        BY DEF Discovery!ContractIdentity
  <2>2. /\ b.caps = q.caps /\ b.langs = q.langs /\ b.domains = q.domains /\ b.max = q.max
        /\ b.nomatch = q.nomatch /\ b.ambig = q.ambig /\ b.pinned = bag(q)
        BY DEF Discovery!ContractIdentity
  <2>3. /\ DOMAIN bag(r) = {r.pinned[i] : i \in DOMAIN r.pinned}
        /\ DOMAIN bag(q) = {q.pinned[i] : i \in DOMAIN q.pinned}
        OBVIOUS
  <2> HIDE DEF a, b, bag
  <2>4. a = b
        BY <1>1 DEF a, b
  <2> QED BY <2>1, <2>2, <2>3, <2>4 DEF SameNeed
<1>3. Discovery!Cards(v) = Discovery!Cards(w)
  <2>1. ASSUME NEW a, NEW b, C(a) = C(b), NEW s \in Discovery!Cards(a)
        PROVE  s \in Discovery!Cards(b)
    <3>1. <<s, a.packages[s]>> \in C(b)
          BY <2>1
    <3>2. PICK t \in Discovery!Cards(b) : <<s, a.packages[s]>> = <<t, b.packages[t]>>
          BY <3>1
    <3> QED BY <3>2
  <2> HIDE DEF C
  <2>2. \A s : s \in Discovery!Cards(v) <=> s \in Discovery!Cards(w)
        BY <1>1, <2>1
  <2> QED BY <2>2
<1>4. ASSUME NEW s \in Discovery!Cards(v) PROVE v.packages[s] = w.packages[s]
  <2>1. <<s, v.packages[s]>> \in C(w)
        BY <1>1
  <2>2. PICK t \in Discovery!Cards(w) : <<s, v.packages[s]>> = <<t, w.packages[t]>>
        BY <2>1
  <2> QED BY <2>2
<1> QED BY <1>2, <1>3, <1>4 DEF SameWorld

\* One need has the same matches in one catalog, with the same ranks.
LEMMA SameMatches ==
  ASSUME NEW v, NEW w, SameWorld(v, w), NEW r, NEW q, SameNeed(r, q)
  PROVE  /\ Discovery!Matches(v, r) = Discovery!Matches(w, q)
         /\ \A s \in Discovery!Matches(v, r) : Discovery!Rank(v, r, s) = Discovery!Rank(w, q, s)
<1> DEFINE M == Discovery!Matches(v, r)
<1>1. M = Discovery!Matches(w, q)
      BY DEF Discovery!Matches, SameWorld, SameNeed
<1>2. \A s \in M : s \in Discovery!Cards(v)
      BY DEF Discovery!Matches
<1>3. \A s \in M : Discovery!Score(v, r, s) = Discovery!Score(w, q, s)
      BY <1>2 DEF Discovery!Score, SameWorld, SameNeed
<1>4. \A s, t \in M : Discovery!Above(v, r, s, t) <=> Discovery!Above(w, q, s, t)
      BY <1>2, <1>3 DEF Discovery!Above, SameWorld
<1> HIDE DEF M
<1>5. ASSUME NEW s \in M PROVE Discovery!Rank(v, r, s) = Discovery!Rank(w, q, s)
  <2>1. {t \in M : Discovery!Above(v, r, t, s)} = {t \in M : Discovery!Above(w, q, t, s)}
        BY <1>4
  <2> QED BY <1>1, <2>1 DEF Discovery!Rank, M
<1> QED BY <1>1, <1>5 DEF M

\* An answer, from what it is made of.
AnswerOf(mode, pinned, ranked, cards, max, nomatch, ambig) ==
  CASE mode = "pinned" -> pinned
    [] mode # "pinned" /\ cards = {} ->
         Discovery!Answer("no_authorized_knowledge", {}, nomatch)
    [] mode # "pinned" /\ cards # {} /\ ranked = {} ->
         Discovery!Answer("no_metadata_match", {}, nomatch)
    [] mode # "pinned" /\ Discovery!Cardinality(ranked) > max ->
         Discovery!Answer("ambiguous", {c \in ranked : c[2] <= max}, ambig)
    [] mode # "pinned" /\ Discovery!Cardinality(ranked) \in 1 .. max ->
         Discovery!Answer("matched", ranked, Nil)
RankedOf(w, r) == {<<s, Discovery!Rank(w, r, s)>> : s \in Discovery!Matches(w, r)}

\* What an answer is made of.
LEMMA AnswerIs ==
  ASSUME NEW mode, NEW w, NEW r
  PROVE  Discovery!Discover(mode, w, r)
           = AnswerOf(mode, Discovery!DiscoverPinned(w, r), RankedOf(w, r), Discovery!Cards(w),
                      r.max, r.nomatch, r.ambig)
BY Zenon DEF Discovery!Discover, AnswerOf, RankedOf

\* It has the same answer, unless it is pinned.
LEMMA SameAnswer ==
  ASSUME NEW mode, mode # "pinned", NEW v, NEW w, SameWorld(v, w), NEW r, NEW q, SameNeed(r, q),
         IsFiniteSet(RankedOf(v, r)), r.max \in Nat
  PROVE  Discovery!Discover(mode, v, r) = Discovery!Discover(mode, w, q)
<1>1. RankedOf(v, r) = RankedOf(w, q)
      BY SameMatches DEF RankedOf
<1>2. Discovery!Cards(v) = Discovery!Cards(w)
      BY DEF SameWorld
<1>3. r.max = q.max /\ r.nomatch = q.nomatch /\ r.ambig = q.ambig
      BY DEF SameNeed
<1>4. ASSUME NEW a, NEW b, NEW R, IsFiniteSet(R), NEW C, NEW m \in Nat, NEW n, NEW g
      PROVE  AnswerOf(mode, a, R, C, m, n, g) = AnswerOf(mode, b, R, C, m, n, g)
  <2> DEFINE k == Discovery!Cardinality(R)
  <2>1. k \in Nat /\ (R # {} => k # 0)
        BY <1>4, DiscoveryCounts, FS_CardinalityType, FS_EmptySet
  <2> HIDE DEF k
  <2>2. k > m \/ k \in 1 .. m \/ R = {}
        BY <2>1
  <2> QED BY <2>2 DEF AnswerOf, k
<1>5. /\ Discovery!Discover(mode, v, r)
           = AnswerOf(mode, Discovery!DiscoverPinned(v, r), RankedOf(v, r), Discovery!Cards(v),
                      r.max, r.nomatch, r.ambig)
      /\ Discovery!Discover(mode, w, q)
           = AnswerOf(mode, Discovery!DiscoverPinned(w, q), RankedOf(w, q), Discovery!Cards(w),
                      q.max, q.nomatch, q.ambig)
      BY AnswerIs
<1> QED BY <1>1, <1>2, <1>3, <1>4, <1>5

\* A pin resolves to the same sources.
LEMMA SameResolved ==
  ASSUME NEW v, NEW w, v.domain = w.domain, SameWorld(v, w), NEW pin
  PROVE  Discovery!Resolved(v, pin) = Discovery!Resolved(w, pin)
BY DEF SameWorld, Discovery!Resolved, Discovery!Listed

\* What pins find, whatever their order.
PinnedBy(w, r) == UNION {Discovery!Resolved(w, p) : p \in {r.pinned[i] : i \in DOMAIN r.pinned}}
AllPinned(w, r) == \A p \in {r.pinned[i] : i \in DOMAIN r.pinned} : Discovery!Resolved(w, p) # {}

\* Pins find what they resolve to, and are missed if one resolves to nothing.
LEMMA PinsFound ==
  ASSUME NEW w, NEW r
  PROVE  LET a == Discovery!DiscoverPinned(w, r)
         IN /\ {c[1] : c \in a.candidates} = PinnedBy(w, r)
            /\ AllPinned(w, r) => a.status = "pinned_resolved" /\ a.fallback = Nil
            /\ ~AllPinned(w, r) => a.status = "pinned_missing" /\ a.fallback = r.nomatch
<1> DEFINE found == {i \in DOMAIN r.pinned : Discovery!Resolved(w, r.pinned[i]) # {}}
           k(i) == Discovery!Cardinality(found \cap (1 .. i))
           C == UNION {Discovery!Resolved(w, r.pinned[i]) \X {k(i)} : i \in found}
           a == Discovery!DiscoverPinned(w, r)
<1>1. a = IF found = DOMAIN r.pinned THEN Discovery!Answer("pinned_resolved", C, Nil)
          ELSE Discovery!Answer("pinned_missing", C, r.nomatch)
      BY DEF Discovery!DiscoverPinned
<1>2. found = DOMAIN r.pinned <=> AllPinned(w, r)
      BY DEF AllPinned
<1> HIDE DEF k
<1>3. {c[1] : c \in C} = PinnedBy(w, r)
  <2>1. ASSUME NEW c \in C PROVE c[1] \in PinnedBy(w, r)
    <3>1. PICK i \in found : c \in Discovery!Resolved(w, r.pinned[i]) \X {k(i)}
          OBVIOUS
    <3>2. i \in DOMAIN r.pinned /\ c[1] \in Discovery!Resolved(w, r.pinned[i])
          BY <3>1
    <3> QED BY <3>2 DEF PinnedBy
  <2>2. ASSUME NEW s \in PinnedBy(w, r) PROVE s \in {c[1] : c \in C}
    <3>1. PICK i \in DOMAIN r.pinned : s \in Discovery!Resolved(w, r.pinned[i])
          BY DEF PinnedBy
    <3>2. i \in found
          BY <3>1
    <3> DEFINE c == <<s, k(i)>>
    <3>3. c \in Discovery!Resolved(w, r.pinned[i]) \X {k(i)} /\ c[1] = s
          BY <3>1
    <3> HIDE DEF c, found
    <3>4. c \in C
          BY <3>2, <3>3
    <3> HIDE DEF C
    <3> QED BY <3>3, <3>4
  <2> HIDE DEF C
  <2> QED BY <2>1, <2>2
<1> HIDE DEF found, C
<1>4. /\ a.candidates = C
      /\ AllPinned(w, r) => a.status = "pinned_resolved" /\ a.fallback = Nil
      /\ ~AllPinned(w, r) => a.status = "pinned_missing" /\ a.fallback = r.nomatch
  <2> HIDE DEF a
  <2> QED BY <1>1, <1>2 DEF Discovery!Answer
<1> QED BY <1>3, <1>4

\* The same pins find the same.
LEMMA SamePins ==
  ASSUME NEW v, NEW w, v.domain = w.domain, SameWorld(v, w), NEW r, NEW q, SameNeed(r, q)
  PROVE  LET a == Discovery!DiscoverPinned(v, r)
             b == Discovery!DiscoverPinned(w, q)
         IN /\ a.status = b.status /\ a.fallback = b.fallback
            /\ {c[1] : c \in a.candidates} = {c[1] : c \in b.candidates}
<1> DEFINE a == Discovery!DiscoverPinned(v, r)
           b == Discovery!DiscoverPinned(w, q)
<1>1. {r.pinned[i] : i \in DOMAIN r.pinned} = {q.pinned[i] : i \in DOMAIN q.pinned}
      /\ r.nomatch = q.nomatch
      BY DEF SameNeed
<1>2. \A p : Discovery!Resolved(v, p) = Discovery!Resolved(w, p)
      BY SameResolved
<1>3. PinnedBy(v, r) = PinnedBy(w, q) /\ (AllPinned(v, r) <=> AllPinned(w, q))
      BY <1>1, <1>2 DEF PinnedBy, AllPinned
<1>4. /\ {c[1] : c \in a.candidates} = PinnedBy(v, r)
      /\ AllPinned(v, r) => a.status = "pinned_resolved" /\ a.fallback = Nil
      /\ ~AllPinned(v, r) => a.status = "pinned_missing" /\ a.fallback = r.nomatch
      BY PinsFound
<1>5. /\ {c[1] : c \in b.candidates} = PinnedBy(w, q)
      /\ AllPinned(w, q) => b.status = "pinned_resolved" /\ b.fallback = Nil
      /\ ~AllPinned(w, q) => b.status = "pinned_missing" /\ b.fallback = q.nomatch
      BY PinsFound
<1> HIDE DEF a, b
<1>6. a.status = b.status /\ a.fallback = b.fallback
         /\ {c[1] : c \in a.candidates} = {c[1] : c \in b.candidates}
      BY <1>1, <1>3, <1>4, <1>5
<1> QED BY <1>6 DEF a, b

\* The order of candidates, as a relation.
AboveIn(w, r) ==
  {c \in Discovery!Matches(w, r) \X Discovery!Matches(w, r) : Discovery!Above(w, r, c[1], c[2])}

\* The ranking orders the matches strictly.
LEMMA MatchesOrdered ==
  ASSUME NEW w \in Discovery!Worlds, NEW r, IsFiniteSet(r.caps), IsFiniteSet(r.langs)
  PROVE  /\ IsFiniteSet(Discovery!Matches(w, r))
         /\ Orders(AboveIn(w, r), Discovery!Matches(w, r))
<1> DEFINE M == Discovery!Matches(w, r)
           R == AboveIn(w, r)
           Sc(s) == Discovery!Score(w, r, s)
           Na(s) == w.packages[s].name
<1>1. M \subseteq Discovery!Active(w)
      BY DEF Discovery!Matches, Discovery!Cards
<1>2. \A s \in M : s \in Bases /\ w.packages[s] \in Discovery!Packages
  <2>1. w.packages \in [Bases -> Discovery!Packages \cup {Nil}]
        BY DEF Discovery!Worlds
  <2> HIDE DEF M
  <2> QED BY <1>1, <2>1 DEF Discovery!Active
<1>3. \A s \in M : s \in Nat /\ Na(s) \in Nat
  <2> HIDE DEF M
  <2> QED BY <1>2, CatalogAssumption DEF Discovery!Packages
<1>4. ASSUME NEW s \in M PROVE Sc(s) \in Nat
  <2>1. \A X : IsFiniteSet(r.caps \cap X) /\ IsFiniteSet(r.langs \cap X)
        BY FS_Subset
  <2>2. \A d : IsFiniteSet(r.domains \cap {d})
    <3> TAKE d
    <3>1. IsFiniteSet({d}) /\ r.domains \cap {d} \in SUBSET {d}
          BY FS_Singleton
    <3> QED BY <3>1, FS_Subset
  <2>3. /\ \A X : Cardinality(r.caps \cap X) \in Nat /\ Cardinality(r.langs \cap X) \in Nat
        /\ \A d : Cardinality(r.domains \cap {d}) \in Nat
        BY <2>1, <2>2, FS_CardinalityType
  <2> DEFINE a == Discovery!Cardinality(r.caps \cap w.packages[s].caps)
             b == Discovery!Cardinality(r.langs \cap w.packages[s].langs)
             c == Discovery!Cardinality(r.domains \cap {w.domain[s]})
  <2>4. a \in Nat /\ b \in Nat /\ c \in Nat
        BY <2>3, DiscoveryCounts
  <2>5. Sc(s) = a + b + c
        BY DEF Discovery!Score
  <2> HIDE DEF a, b, c, Sc
  <2> QED BY <2>4, <2>5
<1>5. \A s, t \in M : <<s, t>> \in R
        <=> Sc(s) > Sc(t) \/ (Sc(s) = Sc(t) /\ (Na(s) < Na(t) \/ (Na(s) = Na(t) /\ s < t)))
      BY DEF AboveIn, Discovery!Above
<1>6. R \subseteq M \X M
      BY DEF AboveIn
<1>7. IsFiniteSet(M)
  <2>1. M \in SUBSET Bases
        BY <1>2
  <2> QED BY <2>1, CatalogAssumption, FS_Subset
<1> HIDE DEF M, R, Sc, Na
<1>8. \A a \in M : <<a, a>> \notin R
      BY <1>3, <1>4, <1>5
<1>9. \A a, b, c \in M : <<a, b>> \in R /\ <<b, c>> \in R => <<a, c>> \in R
      BY <1>3, <1>4, <1>5
<1>10. \A a, b \in M : a # b => <<a, b>> \in R \/ <<b, a>> \in R
       BY <1>3, <1>4, <1>5
<1> QED BY <1>6, <1>7, <1>8, <1>9, <1>10 DEF Orders, M, R

\* The ranks are the numbers from one, each once.
LEMMA RanksAreTaken ==
  ASSUME NEW w \in Discovery!Worlds, NEW r, IsFiniteSet(r.caps), IsFiniteSet(r.langs)
  PROVE  LET M == Discovery!Matches(w, r)
             N == Cardinality(M)
         IN /\ N \in Nat
            /\ \A s \in M : Discovery!Rank(w, r, s) \in 1 .. N
            /\ \A s, t \in M : Discovery!Rank(w, r, s) = Discovery!Rank(w, r, t) => s = t
            /\ \A k \in 1 .. N : \E s \in M : Discovery!Rank(w, r, s) = k
            /\ \A m \in Nat \ {0} : N > m =>
                 Cardinality({s \in M : Discovery!Rank(w, r, s) <= m}) = m
<1> DEFINE M == Discovery!Matches(w, r)
           N == Cardinality(M)
           R == AboveIn(w, r)
           place == [s \in M |-> Cardinality(Ahead(R, M, s))]
<1>1. IsFiniteSet(M) /\ Orders(R, M) /\ N \in Nat
      BY MatchesOrdered, FS_CardinalityType
<1>2. ASSUME NEW s \in M
      PROVE  Discovery!Rank(w, r, s) = 1 + place[s]
  <2>1. {t \in M : Discovery!Above(w, r, t, s)} = Ahead(R, M, s)
        BY DEF AboveIn, Ahead
  <2> QED BY <2>1, DiscoveryCounts DEF Discovery!Rank
<1>3. place \in Bijection(M, 0 .. N - 1)
  <2> HIDE DEF M, R
  <2> QED BY <1>1, PlacesAreTaken
<1>4. /\ \A s \in M : place[s] \in 0 .. N - 1
      /\ \A s, t \in M : place[s] = place[t] => s = t
      /\ \A k \in 0 .. N - 1 : \E s \in M : place[s] = k
  <2> HIDE DEF M, N, R, place
  <2> QED BY <1>3 DEF Bijection, Injection, IsInjective, Surjection
<1>5. ASSUME NEW m \in Nat \ {0}, N > m
      PROVE  Cardinality({s \in M : Discovery!Rank(w, r, s) <= m}) = m
  <2> DEFINE F == {s \in M : Cardinality(Ahead(R, M, s)) < m}
  <2>1. Cardinality(F) = IF m < N THEN m ELSE N
    <3> HIDE DEF M, R
    <3> QED BY <1>1, FirstAreCounted
  <2>2. {s \in M : Discovery!Rank(w, r, s) <= m} = F
    <3>1. \A s \in M : place[s] \in Nat /\ Discovery!Rank(w, r, s) = 1 + place[s]
          BY <1>1, <1>2, <1>4
    <3>2. \A s \in M : Discovery!Rank(w, r, s) <= m <=> place[s] < m
      <4> HIDE DEF M, place, R
      <4> QED BY <3>1
    <3> HIDE DEF M, R
    <3> QED BY <3>2
  <2> HIDE DEF F, N, M
  <2> QED BY <1>1, <1>5, <2>1, <2>2
<1>6. \A s \in M : place[s] \in Nat /\ Discovery!Rank(w, r, s) = 1 + place[s]
      BY <1>1, <1>2, <1>4
<1> HIDE DEF M, N, place, R
<1>7. \A s \in M : Discovery!Rank(w, r, s) \in 1 .. N
      BY <1>1, <1>4, <1>6
<1>8. \A s, t \in M : Discovery!Rank(w, r, s) = Discovery!Rank(w, r, t) => s = t
      BY <1>4, <1>6
<1>9. ASSUME NEW k \in 1 .. N
      PROVE  \E s \in M : Discovery!Rank(w, r, s) = k
  <2>1. k - 1 \in 0 .. N - 1 /\ 1 + (k - 1) = k
        BY <1>1
  <2>2. PICK s \in M : place[s] = k - 1
        BY <1>4, <2>1
  <2> QED BY <1>6, <2>1, <2>2
<1> QED BY <1>1, <1>5, <1>7, <1>8, <1>9 DEF M, N

\* What a discovery may answer.
Answers(a, M, R, r) ==
  /\ a.status # "pinned_missing"
  /\ M = {} => a.candidates = {} /\ a.fallback = r.nomatch /\ a.status # "ambiguous"
  /\ M # {} /\ Cardinality(M) <= r.max =>
       a.candidates = R /\ a.fallback = Nil /\ a.status = "matched"
  /\ M # {} /\ ~(Cardinality(M) <= r.max) =>
       /\ a.candidates = {c \in R : c[2] <= r.max}
       /\ a.fallback = r.ambig /\ a.status = "ambiguous"

\* What discovery answers, of what matches and how it ranks.
LEMMA AnswersAre ==
  ASSUME NEW mode, mode # "pinned", NEW w \in Discovery!Worlds, NEW r, Stated(mode, r),
         IsFiniteSet(r.caps), IsFiniteSet(r.langs),
         NEW a, a = Discovery!Discover(mode, w, r)
  PROVE  IsFiniteSet(RankedOf(w, r)) /\ Answers(a, Discovery!Matches(w, r), RankedOf(w, r), r)
<1> DEFINE M == Discovery!Matches(w, r)
           N == Cardinality(M)
           R == RankedOf(w, r)
           ranked == [s \in M |-> <<s, Discovery!Rank(w, r, s)>>]
           C == Discovery!Cards(w)
           k == Discovery!Cardinality(R)
           p == Discovery!DiscoverPinned(w, r)
<1>1. IsFiniteSet(M) /\ N \in Nat /\ (M # {} => N # 0)
      BY MatchesOrdered, FS_CardinalityType, FS_EmptySet
<1>2. ranked \in Bijection(M, R)
  <2>1. ranked \in [M -> R] /\ \A c \in R : \E s \in M : ranked[s] = c
        BY DEF RankedOf
  <2>2. \A s, t \in M : ranked[s] = ranked[t] => s = t
        OBVIOUS
  <2> HIDE DEF M, R, ranked
  <2> QED BY <2>1, <2>2 DEF Bijection, Injection, IsInjective, Surjection
<1>3. IsFiniteSet(R) /\ k = N /\ (R = {} <=> M = {})
  <2>1. ExistsBijection(M, R)
        BY <1>2 DEF ExistsBijection
  <2>2. R = {} <=> M = {}
        BY DEF RankedOf
  <2> HIDE DEF M, R
  <2> QED BY <1>1, <2>1, <2>2, FS_Bijection, DiscoveryCounts
<1>4. a = AnswerOf(mode, p, R, C, r.max, r.nomatch, r.ambig)
      BY AnswerIs
<1>5. M # {} => C # {}
      BY DEF Discovery!Matches
<1>6. r.max \in Nat \ {0}
      BY DEF Stated
<1> HIDE DEF M, N, R, k, C, p
<1>7. CASE M = {}
  <2>1. \/ a = Discovery!Answer("no_authorized_knowledge", {}, r.nomatch)
        \/ a = Discovery!Answer("no_metadata_match", {}, r.nomatch)
    <3>1. R = {} /\ k = 0 /\ ~(k > r.max) /\ ~(k \in 1 .. r.max)
          BY <1>3, <1>6, <1>7, FS_EmptySet DEF M, N
    <3> QED BY <1>4, <3>1 DEF AnswerOf, k
  <2>2. /\ a.candidates = {} /\ a.fallback = r.nomatch
        /\ a.status \notin {"ambiguous", "pinned_missing"}
        BY <2>1 DEF Discovery!Answer
  <2> QED BY <1>3, <1>7, <2>2 DEF Answers, M, N, R
<1>8. CASE M # {} /\ N <= r.max
  <2>1. k \in 1 .. r.max /\ ~(k > r.max) /\ R # {} /\ C # {}
        BY <1>1, <1>3, <1>5, <1>6, <1>8
  <2>2. a = Discovery!Answer("matched", R, Nil)
        BY <1>4, <2>1 DEF AnswerOf, k
  <2>3. a.candidates = R /\ a.fallback = Nil /\ a.status = "matched"
        BY <2>2 DEF Discovery!Answer
  <2> QED BY <1>3, <1>8, <2>3 DEF Answers, M, N, R
<1>9. CASE M # {} /\ ~(N <= r.max)
  <2>1. k > r.max /\ ~(k \in 1 .. r.max) /\ R # {} /\ C # {}
        BY <1>1, <1>3, <1>5, <1>6, <1>9
  <2>2. a = Discovery!Answer("ambiguous", {c \in R : c[2] <= r.max}, r.ambig)
        BY <1>4, <2>1 DEF AnswerOf, k
  <2>3. /\ a.candidates = {c \in R : c[2] <= r.max}
        /\ a.fallback = r.ambig /\ a.status = "ambiguous"
        BY <2>2 DEF Discovery!Answer
  <2> QED BY <1>3, <1>9, <2>3 DEF Answers, M, N, R
<1> QED BY <1>7, <1>8, <1>9

IsGraph(C, S, f) == C = {<<s, f[s]>> : s \in S}
Firsts(C)  == {c[1] : c \in C}
Seconds(C) == {c[2] : c \in C}

\* A set of pairs that is a function has its domain and its range.
LEMMA GraphIs ==
  ASSUME NEW S, NEW f, NEW C, IsGraph(C, S, f)
  PROVE  Firsts(C) = S /\ Seconds(C) = {f[s] : s \in S}
<1> USE DEF IsGraph
<1>1. \A c \in C : c[1] \in S /\ c[2] \in {f[s] : s \in S}
      OBVIOUS
<1>2. ASSUME NEW s \in S PROVE \E c \in C : c[1] = s /\ c[2] = f[s]
  <2>1. <<s, f[s]>> \in C
        OBVIOUS
  <2> QED BY <2>1
<1> QED BY <1>1, <1>2 DEF Firsts, Seconds

Offered(a) == Firsts(a.candidates)
Fits(w, r, t) ==
  /\ r.caps = {} \/ \E v \in r.caps : v \in w.packages[t].caps
  /\ r.langs = {} \/ \E v \in r.langs : v \in w.packages[t].langs
  /\ r.domains = {} \/ w.domain[t] \in r.domains

\* What matches fits the need.
LEMMA MatchesFit ==
  ASSUME NEW w, NEW r
  PROVE  Discovery!Matches(w, r) = {t \in Discovery!Cards(w) : Fits(w, r, t)}
BY DEF Discovery!Matches, Fits, Discovery!Overlaps

IsBest(a, M, r) ==
  /\ Cardinality(Offered(a)) <= r.max
  /\ Offered(a) \subseteq M
  /\ Seconds(a.candidates) = 1 .. Cardinality(Offered(a))
  /\ a.status # "ambiguous" => Offered(a) = M
  /\ Offered(a) = {} => a.fallback = r.nomatch /\ a.status # "ambiguous"
  /\ a.status = "ambiguous" => a.fallback = r.ambig
  /\ a.status # "pinned_missing"

\* A base is offered if and only if it fits, the best first and within the budget.
LEMMA TheBestAreOffered ==
  ASSUME NEW mode, mode # "pinned", NEW w \in Discovery!Worlds, NEW r, Stated(mode, r),
         IsFiniteSet(r.caps), IsFiniteSet(r.langs),
         NEW a, a = Discovery!Discover(mode, w, r)
  PROVE  IsBest(a, Discovery!Matches(w, r), r)
<1> DEFINE M == Discovery!Matches(w, r)
           N == Cardinality(M)
           R == RankedOf(w, r)
           rank == [s \in M |-> Discovery!Rank(w, r, s)]
<1>1. r.max \in Nat \ {0}
      BY DEF Stated
<1>2. /\ a.status # "pinned_missing"
      /\ M = {} => a.candidates = {} /\ a.fallback = r.nomatch /\ a.status # "ambiguous"
      /\ M # {} /\ N <= r.max => a.candidates = R /\ a.fallback = Nil /\ a.status = "matched"
      /\ M # {} /\ ~(N <= r.max) => /\ a.candidates = {c \in R : c[2] <= r.max}
                                    /\ a.fallback = r.ambig /\ a.status = "ambiguous"
  <2> HIDE DEF M, R
  <2>1. Answers(a, M, R, r)
        BY AnswersAre DEF M, R
  <2> QED BY <2>1 DEF Answers
<1>3. /\ N \in Nat
      /\ \A s \in M : rank[s] \in 1 .. N
      /\ \A s, t \in M : rank[s] = rank[t] => s = t
      /\ \A k \in 1 .. N : \E s \in M : rank[s] = k
      /\ \A m \in Nat \ {0} : N > m => Cardinality({s \in M : rank[s] <= m}) = m
  <2>1. \A s \in M : rank[s] = Discovery!Rank(w, r, s)
        OBVIOUS
  <2>2. /\ N \in Nat
        /\ \A s \in M : Discovery!Rank(w, r, s) \in 1 .. N
        /\ \A s, t \in M : Discovery!Rank(w, r, s) = Discovery!Rank(w, r, t) => s = t
        /\ \A k \in 1 .. N : \E s \in M : Discovery!Rank(w, r, s) = k
        /\ \A m \in Nat \ {0} : N > m =>
             Cardinality({s \in M : Discovery!Rank(w, r, s) <= m}) = m
        BY RanksAreTaken
  <2>3. \A m : {s \in M : rank[s] <= m} = {s \in M : Discovery!Rank(w, r, s) <= m}
        OBVIOUS
  <2> HIDE DEF M, N, rank
  <2> QED BY <2>1, <2>2, <2>3
<1>4. IsGraph(R, M, rank)
      BY DEF RankedOf, IsGraph
<1> HIDE DEF M, R, rank
<1>5. CASE M = {}
  <2>1. Offered(a) = {} /\ Seconds(a.candidates) = {}
        BY <1>2, <1>5 DEF Offered, Firsts, Seconds
  <2>2. Cardinality({}) = 0
        BY FS_EmptySet
  <2> QED BY <1>1, <1>2, <1>5, <2>1, <2>2 DEF IsBest, M
<1>6. CASE M # {} /\ N <= r.max
  <2>1. Offered(a) = M /\ Seconds(a.candidates) = {rank[s] : s \in M}
        BY <1>2, <1>4, <1>6, GraphIs DEF Offered
  <2>2. {rank[s] : s \in M} = 1 .. N
    <3> HIDE DEF N
    <3> QED BY <1>3
  <2> QED BY <1>2, <1>6, <2>1, <2>2 DEF IsBest, M
<1>7. CASE M # {} /\ ~(N <= r.max)
  <2> DEFINE F == {s \in M : rank[s] <= r.max}
  <2>1. N > r.max
        BY <1>1, <1>3, <1>7
  <2>2. Cardinality(F) = r.max
        BY <1>1, <1>3, <2>1
  <2>3. IsGraph(a.candidates, F, rank)
    <3>1. a.candidates = {c \in R : c[2] <= r.max}
          BY <1>2, <1>7
    <3> QED BY <1>4, <3>1 DEF IsGraph
  <2>4. Offered(a) = F /\ Seconds(a.candidates) = {rank[s] : s \in F}
    <3> HIDE DEF F
    <3> QED BY <2>3, GraphIs DEF Offered
  <2>5. {rank[s] : s \in F} = 1 .. r.max
    <3>1. \A s \in F : rank[s] \in 1 .. r.max
          BY <1>1, <1>3
    <3>2. \A k \in 1 .. r.max : \E s \in F : rank[s] = k
      <4> TAKE k \in 1 .. r.max
      <4>1. k \in 1 .. N /\ k <= r.max
            BY <1>1, <1>3, <2>1
      <4>2. PICK s \in M : rank[s] = k
            BY <1>3, <4>1
      <4> QED BY <4>1, <4>2
    <3> HIDE DEF F
    <3> QED BY <3>1, <3>2
  <2>6. F # {}
        BY <1>1, <2>2, FS_EmptySet
  <2>7. F \subseteq M
        OBVIOUS
  <2> HIDE DEF F, N
  <2> QED BY <1>1, <1>2, <1>7, <2>2, <2>4, <2>5, <2>6, <2>7 DEF IsBest, M
<1> QED BY <1>5, <1>6, <1>7

\* One contract and one catalog have one answer, which its fingerprint stands for
\* (DiscoverForSkill).
LEMMA DiscoveriesReproduce ==
  ASSUME NEW x, x.mode \in Discovery!Modes,
         x.asked \in Discovery!Requirements, x.again \in Discovery!Requirements,
         IsFiniteSet(x.asked.caps), IsFiniteSet(x.asked.langs),
         x.now \in Discovery!Worlds, x.later \in Discovery!Worlds, x.now.domain = x.later.domain
  PROVE  Discovery!DiscoveryIsReproducible(x)
<1> DEFINE mode == x.mode
           v == x.now
           w == x.later
           r == Discovery!Normalised(x.asked)
           q == Discovery!Normalised(x.again)
           a == Discovery!Discover(mode, v, r)
           b == Discovery!Discover(mode, w, q)
           offered == {c[1] : c \in a.candidates}
           Goal == ~Discovery!Refuses(mode, x.asked) /\ ~Discovery!Refuses(mode, x.again) =>
             /\ Discovery!Fingerprint(mode, v, r) = Discovery!Fingerprint(mode, w, q)
                => /\ a.status = b.status /\ a.fallback = b.fallback
                   /\ offered = {c[1] : c \in b.candidates}
                   /\ mode # "pinned" => a.candidates = b.candidates
             /\ r.required /\ (offered = {} \/ a.status = "pinned_missing")
                  => a.fallback \in {"ask_user", "fail"}
             /\ a.status = "ambiguous" => a.fallback # "proceed"
             /\ mode = "discover" =>
                  /\ Cardinality(offered) <= r.max /\ \A t \in offered : Fits(v, r, t)
                  /\ {c[2] : c \in a.candidates} = 1 .. Cardinality(offered)
                  /\ a.status # "ambiguous" =>
                       \A t \in Discovery!Cards(v) \ offered : ~Fits(v, r, t)
<1>1. Goal
  <2> SUFFICES ASSUME ~Discovery!Refuses(mode, x.asked), ~Discovery!Refuses(mode, x.again)
               PROVE Goal
      OBVIOUS
  <2>1. Stated(mode, r) /\ Stated(mode, q)
        BY AcceptedIsStated
  <2>2. /\ r.caps = x.asked.caps /\ r.langs = x.asked.langs /\ r.pinned = x.asked.pinned
        BY DEF Discovery!Normalised, Discovery!Requirements
  <2>3. r.pinned \in Seq(Discovery!Pins)
        BY <2>2 DEF Discovery!Requirements
  <2>4. IsFiniteSet(r.caps) /\ IsFiniteSet(r.langs)
        BY <2>2
  <2>5. mode \in {"discover", "pinned"}
        BY DEF Discovery!Modes, Discovery!Refuses
  <2>6. /\ r.max \in Nat \ {0} /\ r.ambig # "proceed" /\ r.required \in BOOLEAN
        /\ r.required => r.nomatch \in {"ask_user", "fail"}
        /\ mode = "pinned" => r.pinned # <<>>
        BY <2>1 DEF Stated
  <2>7. offered = Offered(a) /\ {c[2] : c \in a.candidates} = Seconds(a.candidates)
        BY DEF Offered, Firsts, Seconds
  <2>8. {c[1] : c \in b.candidates} = Offered(b)
        BY DEF Offered, Firsts
  <2> HIDE DEF r, q, v, w
  <2>9. CASE mode = "pinned"
    <3>1. a = Discovery!DiscoverPinned(v, r) /\ b = Discovery!DiscoverPinned(w, q)
          BY <2>9 DEF Discovery!Discover
    <3>2. /\ Offered(a) = PinnedBy(v, r)
          /\ AllPinned(v, r) => a.status = "pinned_resolved" /\ a.fallback = Nil
          /\ ~AllPinned(v, r) => a.status = "pinned_missing" /\ a.fallback = r.nomatch
          BY <3>1, PinsFound DEF Offered, Firsts
    <3>3. ASSUME Discovery!Fingerprint(mode, v, r) = Discovery!Fingerprint(mode, w, q)
          PROVE  /\ a.status = b.status /\ a.fallback = b.fallback
                 /\ Offered(a) = Offered(b)
      <4>1. v.domain = w.domain
            BY DEF v, w
      <4>2. SameWorld(v, w) /\ SameNeed(r, q)
            BY <3>3, <4>1, FingerprintStands
      <4> QED BY <3>1, <4>1, <4>2, SamePins DEF Offered, Firsts
    <3>4. AllPinned(v, r) => Offered(a) # {}
      <4>1. PICK i \in DOMAIN r.pinned : TRUE
        <5>1. Len(r.pinned) \in Nat /\ DOMAIN r.pinned = 1 .. Len(r.pinned) /\ r.pinned # <<>>
              BY <2>3, <2>6, <2>9, LenProperties
        <5>2. Len(r.pinned) # 0
              BY <2>3, <5>1, EmptySeq
        <5> DEFINE n == Len(r.pinned)
        <5>3. n \in Nat /\ n # 0
              BY <5>1, <5>2
        <5> HIDE DEF n
        <5>4. 1 \in 1 .. n
              BY <5>3
        <5> QED BY <5>1, <5>4 DEF n
      <4> QED BY <3>2, <4>1 DEF AllPinned, PinnedBy
    <3> HIDE DEF a, b
    <3> QED BY <2>6, <2>7, <2>8, <2>9, <3>2, <3>3, <3>4
  <2>10. CASE mode # "pinned"
    <3>1. v \in Discovery!Worlds
          BY DEF v
    <3>2. IsBest(a, Discovery!Matches(v, r), r)
          BY <2>1, <2>4, <2>10, <3>1, TheBestAreOffered
    <3>3. ASSUME Discovery!Fingerprint(mode, v, r) = Discovery!Fingerprint(mode, w, q)
          PROVE  a = b
      <4>1. v.domain = w.domain
            BY DEF v, w
      <4>2. SameWorld(v, w) /\ SameNeed(r, q)
            BY <3>3, <4>1, FingerprintStands
      <4>3. IsFiniteSet(RankedOf(v, r))
            BY <2>1, <2>4, <2>10, <3>1, AnswersAre
      <4> QED BY <2>6, <2>10, <4>2, <4>3, SameAnswer
    <3>4. Discovery!Matches(v, r) = {t \in Discovery!Cards(v) : Fits(v, r, t)}
          BY MatchesFit
    <3> HIDE DEF a, b
    <3> QED BY <2>6, <2>7, <2>8, <2>10, <3>2, <3>3, <3>4 DEF IsBest
  <2> QED BY <2>9, <2>10
<1>2. Goal <=> Discovery!DiscoveryIsReproducible(x)
      BY DiscoveryCounts, Zenon DEF Discovery!DiscoveryIsReproducible, Fits
<1> QED BY <1>1, <1>2

-----------------------------------------------------------------------------
\* Resolutions on record.

\* What is on record after some of the requests.
Kept(owned, runs) ==
  /\ runs \in Seq(Discovery!Requests)
  /\ \A i \in 1 .. Len(runs) : runs[i].selected \subseteq owned
  /\ \A i, j \in 1 .. Len(runs) : runs[i].key = runs[j].key /\ runs[i].key # Nil => i = j

\* How a request is answered, by the record before it and after it.
IsRecorded(owned, before, after, q) ==
  Discovery!Replies(before, owned, q) = "recorded"
    <=> \E i \in 1 .. Len(after) : after[i].key = q.key /\ Discovery!SameRun(after[i], q)
          /\ q.selected \subseteq owned /\ (q.key = Nil => i > Len(before))
Extends(after, before) ==
  Len(before) <= Len(after) /\ \A i \in 1 .. Len(before) : after[i] = before[i]

\* One request more leaves the record as it was, or adds what it answers.
LEMMA OneRequest ==
  ASSUME NEW owned, NEW before, Kept(owned, before), NEW q \in Discovery!Requests,
         NEW after, after = Discovery!RecordResolution(before, owned, q)
  PROVE  Kept(owned, after) /\ Extends(after, before) /\ IsRecorded(owned, before, after, q)
<1> DEFINE n == Len(before)
           known == \E i \in 1 .. n : before[i].key = q.key
<1>1. n \in Nat /\ DOMAIN before = 1 .. n
      BY LenProperties DEF Kept
<1>2. CASE ~(q.selected \subseteq owned)
  <2>1. after = before /\ Discovery!Replies(before, owned, q) = "refused"
        BY <1>2 DEF Discovery!RecordResolution, Discovery!Replies
  <2> QED BY <1>1, <1>2, <2>1 DEF Extends, IsRecorded
<1>3. CASE q.selected \subseteq owned /\ q.key # Nil /\ known
  <2>1. after = before
        BY <1>1, <1>3 DEF Discovery!RecordResolution, Discovery!InsertResolutionRun
  <2>2. PICK k \in 1 .. n : before[k].key = q.key
        BY <1>3
  <2>3. \A i \in 1 .. n : before[i].key = q.key => i = k
        BY <1>3, <2>2 DEF Kept
  <2>4. CASE Discovery!SameRun(before[k], q)
    <3>1. Discovery!Replies(before, owned, q) = "recorded"
          BY <1>1, <1>3, <2>3, <2>4 DEF Discovery!Replies
    <3> QED BY <1>1, <1>3, <2>1, <2>2, <2>4, <3>1 DEF Extends, IsRecorded
  <2>5. CASE ~Discovery!SameRun(before[k], q)
    <3>1. Discovery!Replies(before, owned, q) = "conflict"
          BY <1>1, <1>3, <2>2, <2>5 DEF Discovery!Replies
    <3> QED BY <1>1, <1>3, <2>1, <2>3, <2>5, <3>1 DEF Extends, IsRecorded
  <2> QED BY <2>4, <2>5
<1>4. CASE q.selected \subseteq owned /\ ~(q.key # Nil /\ known)
  <2>1. after = Append(before, q)
        BY <1>1, <1>4 DEF Discovery!RecordResolution, Discovery!InsertResolutionRun
  <2>2. /\ after \in Seq(Discovery!Requests) /\ Len(after) = n + 1
        /\ \A i \in 1 .. n : after[i] = before[i]
        /\ after[n + 1] = q
        BY <2>1, AppendProperties DEF Kept
  <2>3. Discovery!Replies(before, owned, q) = "recorded"
        BY <1>1, <1>4 DEF Discovery!Replies
  <2>4. \A i \in 1 .. n + 1 : i \in 1 .. n \/ i = n + 1
        BY <1>1
  <2>5. n + 1 \in 1 .. n + 1 /\ n + 1 > n /\ n <= n + 1
        BY <1>1
  <2>6. \A i \in 1 .. n + 1 : after[i].selected \subseteq owned
        BY <1>4, <2>2, <2>4 DEF Kept
  <2>7. ASSUME NEW i \in 1 .. n + 1, NEW j \in 1 .. n + 1,
               after[i].key = after[j].key, after[i].key # Nil
        PROVE  i = j
    <3>1. CASE i = n + 1 /\ j \in 1 .. n
          BY <1>4, <2>2, <2>7, <3>1
    <3>2. CASE j = n + 1 /\ i \in 1 .. n
          BY <1>4, <2>2, <2>7, <3>2
    <3>3. CASE i \in 1 .. n /\ j \in 1 .. n
          BY <2>2, <2>7, <3>3 DEF Kept
    <3> QED BY <2>4, <3>1, <3>2, <3>3
  <2>8. Kept(owned, after)
        BY <2>2, <2>6, <2>7 DEF Kept
  <2>9. Extends(after, before)
        BY <2>2, <2>5 DEF Extends
  <2>10. IsRecorded(owned, before, after, q)
    <3>1. Discovery!SameRun(after[n + 1], q) /\ after[n + 1].key = q.key
          BY <2>2 DEF Discovery!SameRun
    <3> QED BY <1>4, <2>2, <2>3, <2>5, <3>1 DEF IsRecorded
  <2> QED BY <2>8, <2>9, <2>10
<1> QED BY <1>2, <1>3, <1>4

\* No recorded resolution is ever replaced, after any number of requests
\* (RecordResolution).
LEMMA RecordsAreEvidence ==
  ASSUME NEW owned, NEW qs \in Seq(Discovery!Requests)
  PROVE  Discovery!ResolutionIsEvidence(owned, qs)
<1> DEFINE N == Len(qs)
           V == {runs \in Seq(Discovery!Requests) : Kept(owned, runs)}
           next == [p \in V \X Nat |->
                      IF p[2] \in 1 .. N THEN Discovery!RecordResolution(p[1], owned, qs[p[2]])
                      ELSE <<>>]
           Is(f) == f = [n \in 0 .. N |-> IF n = 0 THEN <<>>
                                          ELSE Discovery!RecordResolution(f[n - 1], owned, qs[n])]
           runs == CHOOSE f : Is(f)
           last == runs[N]
<1>1. N \in Nat /\ DOMAIN qs = 1 .. N /\ \A n \in 1 .. N : qs[n] \in Discovery!Requests
      BY LenProperties, ElementOfSeq
<1>2. <<>> \in V
  <2>1. <<>> \in Seq(Discovery!Requests) /\ Len(<<>>) = 0
        BY EmptySeq
  <2> QED BY <2>1 DEF Kept
<1>3. next \in [V \X Nat -> V]
  <2> SUFFICES ASSUME NEW p \in V, NEW n \in 1 .. N
               PROVE  Discovery!RecordResolution(p, owned, qs[n]) \in V
      BY <1>2
  <2>1. Kept(owned, Discovery!RecordResolution(p, owned, qs[n]))
    <3> HIDE DEF N
    <3> QED BY <1>1, OneRequest
  <2> QED BY <2>1 DEF Kept
<1>4. PICK f \in [0 .. N -> V] : Recurs(f, <<>>, next, N)
  <2> HIDE DEF N, V, next
  <2> QED BY <1>1, <1>2, <1>3, Recursion
<1>5. Is(f)
  <2>1. \A n \in 1 .. N : n \in Nat /\ n - 1 \in 0 .. N /\ f[n - 1] \in V
    <3> HIDE DEF N, V
    <3> QED BY <1>1
  <2>2. \A n \in 1 .. N : f[n] = Discovery!RecordResolution(f[n - 1], owned, qs[n])
    <3> HIDE DEF N, V
    <3> QED BY <1>1, <1>4, <2>1 DEF Recurs
  <2> HIDE DEF N, V, next
  <2> QED BY <1>1, <1>4, <2>2 DEF Recurs
<1>6. Is(runs)
  <2> HIDE DEF Is
  <2> QED BY <1>5
<1>7. /\ runs[0] = <<>>
      /\ \A n \in 1 .. N : runs[n] = Discovery!RecordResolution(runs[n - 1], owned, qs[n])
  <2> HIDE DEF runs, N
  <2>1. runs = [n \in 0 .. N |-> IF n = 0 THEN <<>>
                                 ELSE Discovery!RecordResolution(runs[n - 1], owned, qs[n])]
        BY <1>6
  <2>2. 0 \in 0 .. N /\ \A n \in 1 .. N : n \in 0 .. N /\ n # 0
        BY <1>1
  <2> HIDE DEF Is
  <2>3. runs[0] = <<>>
        BY <2>1, <2>2
  <2>4. \A n \in 1 .. N : runs[n] = Discovery!RecordResolution(runs[n - 1], owned, qs[n])
        BY <2>1, <2>2
  <2> QED BY <2>3, <2>4
<1> HIDE DEF runs
<1> DEFINE Good(n) == /\ Kept(owned, runs[n])
                      /\ \A m \in 0 .. n : Kept(owned, runs[m]) /\ Extends(runs[n], runs[m])
           S == {n \in Nat : n \in 0 .. N => Good(n)}
<1>8. 0 \in S
  <2>1. Kept(owned, runs[0])
        BY <1>2, <1>7
  <2>2. Extends(runs[0], runs[0])
        BY <1>7, EmptySeq DEF Extends
  <2> QED BY <2>1, <2>2
<1>9. ASSUME NEW n \in Nat, n \in S
      PROVE  n + 1 \in S
  <2> SUFFICES ASSUME n + 1 \in 0 .. N PROVE Good(n + 1)
      OBVIOUS
  <2>1. n \in 0 .. N /\ n + 1 \in 1 .. N /\ (n + 1) - 1 = n
    <3>1. N \in Nat /\ n + 1 \in 0 .. N
          BY <1>1
    <3> HIDE DEF N
    <3> QED BY <3>1
  <2>2. Good(n)
        BY <1>9, <2>1
  <2>3. runs[n + 1] = Discovery!RecordResolution(runs[n], owned, qs[n + 1])
        BY <1>7, <2>1
  <2>4. Kept(owned, runs[n + 1]) /\ Extends(runs[n + 1], runs[n])
        BY <1>1, <2>1, <2>2, <2>3, OneRequest
  <2>5. ASSUME NEW m \in 0 .. n + 1 PROVE Kept(owned, runs[m]) /\ Extends(runs[n + 1], runs[m])
    <3>1. CASE m = n + 1
      <4>1. Len(runs[n + 1]) \in Nat
            BY <2>4, LenProperties DEF Kept
      <4> QED BY <2>4, <3>1, <4>1 DEF Extends
    <3>2. CASE m \in 0 .. n
      <4> DEFINE a == runs[m]
                 b == runs[n]
                 c == runs[n + 1]
      <4>1. Extends(b, a) /\ Extends(c, b) /\ b \in Seq(Discovery!Requests)
            BY <2>2, <2>4, <3>2 DEF Kept
      <4>2. a \in Seq(Discovery!Requests) /\ c \in Seq(Discovery!Requests)
            BY <2>2, <2>4, <3>2 DEF Kept
      <4> HIDE DEF a, b, c
      <4>3. Len(a) \in Nat /\ Len(b) \in Nat /\ Len(c) \in Nat
            BY <4>1, <4>2, LenProperties
      <4>4. Extends(c, a)
            BY <4>1, <4>3 DEF Extends
      <4> QED BY <2>2, <3>2, <4>4 DEF a, c
    <3> QED BY <3>1, <3>2
  <2> QED BY <2>4, <2>5
<1>10. \A n \in 0 .. N : Good(n)
  <2>1. Nat \subseteq S
    <3> HIDE DEF S
    <3> QED BY <1>8, <1>9, InductionOnNat
  <2> QED BY <1>1, <2>1
<1> HIDE DEF N
<1>11. Kept(owned, last)
       BY <1>1, <1>10
<1>12. ASSUME NEW n \in 1 .. N
       PROVE  /\ IsRecorded(owned, runs[n - 1], runs[n], qs[n])
              /\ Kept(owned, runs[n]) /\ Extends(last, runs[n])
  <2>1. n - 1 \in 0 .. N /\ n \in 0 .. N /\ N \in 0 .. N
        BY <1>1
  <2>2. Kept(owned, runs[n - 1]) /\ Kept(owned, runs[n]) /\ Extends(last, runs[n])
        BY <1>10, <2>1
  <2> QED BY <1>1, <1>7, <2>2, OneRequest
<1>13. last \in Seq(Discovery!Requests) /\ DOMAIN last = 1 .. Len(last) /\ Len(last) \in Nat
       BY <1>11, LenProperties DEF Kept
<1>14. ASSUME NEW n \in 1 .. N
       PROVE  /\ Discovery!Replies(runs[n - 1], owned, qs[n]) = "recorded"
                   <=> \E i \in DOMAIN runs[n] :
                         runs[n][i].key = qs[n].key /\ Discovery!SameRun(runs[n][i], qs[n])
                         /\ qs[n].selected \subseteq owned
                         /\ (qs[n].key = Nil => i > Len(runs[n - 1]))
              /\ SubSeq(last, 1, Len(runs[n])) = runs[n]
  <2> DEFINE s == runs[n]
  <2>1. /\ s \in Seq(Discovery!Requests)
        /\ Len(s) <= Len(last) /\ \A i \in 1 .. Len(s) : last[i] = s[i]
        BY <1>12 DEF Kept, Extends
  <2> HIDE DEF s
  <2>2. Len(s) \in Nat /\ DOMAIN s = 1 .. Len(s)
        BY <2>1, LenProperties
  <2> DEFINE t == SubSeq(last, 1, Len(s))
  <2>3. t \in Seq(Discovery!Requests) /\ Len(t) = Len(s) /\ \A i \in 1 .. Len(s) : t[i] = last[i]
        BY <1>13, <2>1, <2>2, SubSeqProperties
  <2> HIDE DEF t
  <2>4. t = s
        BY <2>1, <2>3, SeqEqual
  <2> QED BY <1>12, <2>2, <2>4 DEF IsRecorded, s, t
<1>15. runs = Discovery!RunsAfter(owned, qs)
       BY Zenon DEF Discovery!RunsAfter, runs, N
<1>16. /\ \A i \in DOMAIN last : last[i].selected \subseteq owned
       /\ \A i, j \in DOMAIN last : last[i].key = last[j].key /\ last[i].key # Nil => i = j
       BY <1>11, <1>13 DEF Kept
<1> QED BY <1>1, <1>14, <1>15, <1>16, Zenon DEF Discovery!ResolutionIsEvidence, N

\* Discovery and its record together: an answer can be had again, and a recorded one stays,
\* for every catalog, contract and history of requests (DiscoverForSkill, RecordResolution).
THEOREM DiscoveriesAreReproducible ==
  ASSUME Given("discovery") =>
           /\ input.x.mode \in Discovery!Modes
           /\ input.x.asked \in Discovery!Requirements /\ input.x.again \in Discovery!Requirements
           /\ IsFiniteSet(input.x.asked.caps) /\ IsFiniteSet(input.x.asked.langs)
           /\ input.x.now \in Discovery!Worlds /\ input.x.later \in Discovery!Worlds
           /\ input.x.now.domain = input.x.later.domain,
         Given("resolution") => input.x.runs \in Seq(Discovery!Requests)
  PROVE  DiscoveryIsReproducible
<1>1. Given("discovery") => Discovery!DiscoveryIsReproducible(input.x)
      BY DiscoveriesReproduce
<1>2. Given("resolution") => Discovery!ResolutionIsEvidence(input.x.owned, input.x.runs)
      BY RecordsAreEvidence
<1> QED BY <1>1, <1>2 DEF DiscoveryIsReproducible

-----------------------------------------------------------------------------
\* Validation signals.

\* What a function makes of a finite set is finite.
LEMMA ImageIsFinite ==
  ASSUME NEW S, IsFiniteSet(S), NEW f, DOMAIN f = S
  PROVE  IsFiniteSet({f[x] : x \in S})
<1> DEFINE T == {f[x] : x \in S}
           g == [x \in S |-> f[x]]
<1>1. g \in Surjection(S, T)
      BY DEF Surjection
<1> HIDE DEF g, T
<1>2. IsFiniteSet(T)
      BY <1>1, FS_Surjection
<1> QED BY <1>2 DEF T

\* The largest of finitely many numbers is zero only if they all are.
LEMMA LargestIs ==
  ASSUME NEW S \in SUBSET Nat, IsFiniteSet(S)
  PROVE  /\ Validation!Largest(S) \in Nat
         /\ Validation!Largest(S) = 0 <=> \A m \in S : m = 0
<1>1. CASE S = {}
      BY <1>1 DEF Validation!Largest
<1>2. CASE S # {}
  <2> DEFINE R == {p \in S \X S : p[2] < p[1]}
  <2>1. \A a, b \in S : <<a, b>> \in R <=> b < a
        OBVIOUS
  <2>2. R \subseteq S \X S
        OBVIOUS
  <2> HIDE DEF R
  <2>3. Orders(R, S)
        BY <2>1, <2>2 DEF Orders
  <2>4. PICK m \in S : \A n \in S : n = m \/ <<m, n>> \in R
        BY <1>2, <2>3, OneIsFirst
  <2>5. \E l \in S : \A n \in S : n <= l
    <3> SUFFICES ASSUME NEW n \in S PROVE n <= m
        OBVIOUS
    <3>1. n \in Nat /\ m \in Nat
          OBVIOUS
    <3>2. n = m \/ n < m
          BY <2>1, <2>4
    <3> QED BY <3>1, <3>2
  <2> DEFINE l == CHOOSE l \in S : \A n \in S : n <= l
  <2>6. l \in S /\ \A n \in S : n <= l
    <3> HIDE DEF R
    <3> QED BY <2>5, Zenon
  <2>7. Validation!Largest(S) = l
        BY <1>2 DEF Validation!Largest
  <2> HIDE DEF l
  <2>8. l = 0 <=> \A n \in S : n = 0
        BY <2>6
  <2> QED BY <2>6, <2>7, <2>8
<1> QED BY <1>1, <1>2

\* The log after some of the events, and the events that asked one text at one layer.
LogRow(events, m) ==
  [at |-> m, layer |-> events[m].layer, text |-> events[m].text,
   candidates |-> events[m].candidates, selected |-> events[m].selected]
QueriesUpTo(events, n) == {m \in 1 .. n : events[m].kind = "query"}
LogOf(events, n) == {LogRow(events, m) : m \in QueriesUpTo(events, n)}
Alike(events, n, q, layer) ==
  {m \in 1 .. n : Validation!Asked(events, m, layer) /\ events[m].text = events[q].text}

\* A query comes with its counts.
LEMMA QueriesAre ==
  ASSUME NEW events \in Seq(Validation!Events), NEW m \in 1 .. Len(events),
         events[m].kind = "query"
  PROVE  events[m].candidates \in Nat /\ events[m].selected \in Nat
<1>1. events[m] \in Validation!Events
      BY ElementOfSeq
<1>2. events[m] \in Validation!Queries
      BY <1>1 DEF Validation!Events, Validation!Queries, Validation!Activates,
                  Validation!Signals, Validation!Others
<1> QED BY <1>2 DEF Validation!Queries

\* What the log says of a query: what it found itself, and what the same text found at
\* the other layer.
Evident(events, n, q, found) ==
  LET other == Alike(events, n, q, Validation!Across(events[q].layer))
  IN /\ found.wiki \in Nat /\ found.raw \in Nat
     /\ found.known \in BOOLEAN
     /\ found.known => q \in 1 .. n /\ events[q].kind = "query"
     /\ found.known /\ events[q].layer = "wiki" =>
          /\ found.wiki = 0 <=> events[q].selected = 0
          /\ found.raw = 0 <=> \A m \in other : events[m].candidates = 0
     /\ found.known /\ events[q].layer # "wiki" =>
          /\ found.wiki = 0 <=> \A m \in other : events[m].selected = 0
          /\ found.raw = 0 <=> events[q].candidates = 0

\* SignalEvidence reads just that from the log of the moment.
LEMMA EvidenceIs ==
  ASSUME NEW events \in Seq(Validation!Events), NEW n \in 0 .. Len(events),
         NEW s, s.log = LogOf(events, n), NEW q \in Nat
  PROVE  Evident(events, n, q, Validation!SignalEvidence(s, q))
<1> DEFINE L == LogOf(events, n)
           Q == {x \in L : x.at = q}
           there(y) == Validation!Across(y.layer)
           other == {x \in L : \E y \in Q : x.layer = there(y) /\ x.text = y.text}
           A == {y \in Q \cup other : y.layer = "wiki"}
           B == {y \in Q \cup other : y.layer # "wiki"}
           W == {x.selected : x \in A}
           C == {x.candidates : x \in B}
           O == Alike(events, n, q, there(events[q]))
           found == Validation!SignalEvidence(s, q)
<1>1. Len(events) \in Nat
      BY LenProperties
<1>2. \A m \in QueriesUpTo(events, n) :
        /\ m \in 1 .. n /\ m \in Nat /\ events[m].kind = "query"
        /\ events[m].candidates \in Nat /\ events[m].selected \in Nat
  <2> TAKE m \in QueriesUpTo(events, n)
  <2>1. m \in 1 .. n /\ events[m].kind = "query"
        BY DEF QueriesUpTo
  <2>2. m \in 1 .. Len(events)
        BY <1>1, <2>1
  <2> QED BY <2>1, <2>2, QueriesAre
<1>3. \A x \in L : /\ x.candidates \in Nat /\ x.selected \in Nat
                   /\ x.at \in QueriesUpTo(events, n) /\ x = LogRow(events, x.at)
      BY <1>2 DEF LogOf, LogRow
<1>4. IsFiniteSet(L)
  <2>1. IsFiniteSet(1 .. n)
        BY FS_Interval
  <2>2. IsFiniteSet(QueriesUpTo(events, n))
        BY <2>1, FS_Subset DEF QueriesUpTo
  <2> DEFINE row == [m \in QueriesUpTo(events, n) |-> LogRow(events, m)]
  <2>3. L = {row[m] : m \in QueriesUpTo(events, n)}
        BY DEF LogOf
  <2> HIDE DEF L
  <2>4. DOMAIN row = QueriesUpTo(events, n)
        OBVIOUS
  <2> HIDE DEF row
  <2> QED BY <2>2, <2>3, <2>4, ImageIsFinite
<1> HIDE DEF L
<1>5. W \in SUBSET Nat /\ C \in SUBSET Nat
      BY <1>3
<1>6. IsFiniteSet(W) /\ IsFiniteSet(C)
  <2>1. A \in SUBSET L /\ B \in SUBSET L
        OBVIOUS
  <2>2. IsFiniteSet(A) /\ IsFiniteSet(B)
        BY <1>4, <2>1, FS_Subset
  <2> HIDE DEF A, B
  <2> DEFINE selected == [x \in A |-> x.selected]
             candidates == [x \in B |-> x.candidates]
  <2>3. W = {selected[x] : x \in A} /\ C = {candidates[x] : x \in B}
        OBVIOUS
  <2>4. DOMAIN selected = A /\ DOMAIN candidates = B
        OBVIOUS
  <2> HIDE DEF W, C, selected, candidates
  <2> QED BY <2>2, <2>3, <2>4, ImageIsFinite
<1>7. /\ found.known = (Q # {})
      /\ found.wiki = Validation!Largest(W) /\ found.raw = Validation!Largest(C)
      BY DEF Validation!SignalEvidence, L
<1>8. /\ found.wiki \in Nat /\ found.raw \in Nat /\ found.known \in BOOLEAN
      /\ found.wiki = 0 <=> \A m \in W : m = 0
      /\ found.raw = 0 <=> \A m \in C : m = 0
  <2> HIDE DEF W, C, found, Q
  <2> QED BY <1>5, <1>6, <1>7, LargestIs
<1> HIDE DEF found
<1>9. \A m \in QueriesUpTo(events, n) : LogRow(events, m) \in L
      BY DEF LogOf, L
<1>10. ASSUME Q # {}
       PROVE  q \in QueriesUpTo(events, n) /\ Q = {LogRow(events, q)}
  <2>1. PICK x \in Q : TRUE
        BY <1>10
  <2>2. q \in QueriesUpTo(events, n) /\ x = LogRow(events, q)
        BY <1>3, <2>1
  <2>3. \A y \in Q : y = LogRow(events, q)
        BY <1>3
  <2> HIDE DEF Q
  <2> QED BY <2>1, <2>2, <2>3
<1>11. \A m : /\ LogRow(events, m).layer = events[m].layer
              /\ LogRow(events, m).text = events[m].text
              /\ LogRow(events, m).selected = events[m].selected
              /\ LogRow(events, m).candidates = events[m].candidates
       BY DEF LogRow
<1>12. ASSUME Q # {}
       PROVE  other = {LogRow(events, m) : m \in O}
  <2> DEFINE y == LogRow(events, q)
  <2>1. other = {x \in L : x.layer = there(y) /\ x.text = y.text}
        BY <1>10, <1>12
  <2>2. there(y) = there(events[q]) /\ y.text = events[q].text
        BY <1>11
  <2> DEFINE w == there(events[q])
  <2>3. other = {x \in L : x.layer = w /\ x.text = events[q].text}
        BY <2>1, <2>2
  <2>4. O = {m \in QueriesUpTo(events, n) : events[m].layer = w /\ events[m].text = events[q].text}
        BY DEF Alike, QueriesUpTo, Validation!Asked
  <2> HIDE DEF other, O, w
  <2>5. \A x \in L : x.layer = events[x.at].layer /\ x.text = events[x.at].text
        BY <1>3, <1>11
  <2> QED BY <1>3, <1>9, <1>11, <2>3, <2>4, <2>5
<1>13. ASSUME Q # {}
       PROVE  /\ \A x \in Q : x.layer = events[q].layer
              /\ \A x \in other : x.layer = there(events[q])
  <2>1. \A m \in O : events[m].layer = there(events[q])
        BY DEF Alike, Validation!Asked
  <2> HIDE DEF Q, other, O
  <2> QED BY <1>10, <1>11, <1>12, <1>13, <2>1
<1>14. ASSUME Q # {}, events[q].layer = "wiki"
       PROVE  /\ found.wiki = 0 <=> events[q].selected = 0
              /\ found.raw = 0 <=> \A m \in O : events[m].candidates = 0
  <2>1. there(events[q]) # "wiki"
        BY <1>14 DEF Validation!Across
  <2> HIDE DEF Q, other, there
  <2>2. A = Q /\ B = other
        BY <1>13, <1>14, <2>1
  <2> HIDE DEF A, B, O
  <2>3. W = {LogRow(events, q).selected}
        BY <1>10, <1>14, <2>2
  <2>4. C = {x.candidates : x \in {LogRow(events, m) : m \in O}}
        BY <1>12, <1>14, <2>2
  <2> HIDE DEF W, C
  <2> QED BY <1>8, <1>11, <2>3, <2>4
<1>15. ASSUME Q # {}, events[q].layer # "wiki"
       PROVE  /\ found.wiki = 0 <=> \A m \in O : events[m].selected = 0
              /\ found.raw = 0 <=> events[q].candidates = 0
  <2>1. there(events[q]) = "wiki"
        BY <1>15 DEF Validation!Across
  <2> HIDE DEF Q, other, there
  <2>2. A = other /\ B = Q
        BY <1>13, <1>15, <2>1
  <2> HIDE DEF A, B, O
  <2>3. C = {LogRow(events, q).candidates}
        BY <1>10, <1>15, <2>2
  <2>4. W = {x.selected : x \in {LogRow(events, m) : m \in O}}
        BY <1>12, <1>15, <2>2
  <2> HIDE DEF W, C
  <2> QED BY <1>8, <1>11, <2>3, <2>4
<1>16. found.known => q \in 1 .. n /\ events[q].kind = "query"
       BY <1>2, <1>7, <1>10
<1> HIDE DEF Q
<1>17. Evident(events, n, q, found)
  <2> HIDE DEF W, C
  <2> QED BY <1>7, <1>8, <1>14, <1>15, <1>16, Zenon DEF Evident
<1> QED BY <1>17 DEF found

\* What a signal is attributed to, of what the log says of its query.
Causes == {"unattributed", "wiki_synthesis", "source_gap", "retrieval_miss"}

\* A cause is one that the evidence allows (attribute).
LEMMA AttributionIs ==
  ASSUME NEW e \in Validation!Signals, e.signal \in Validation!Reported, NEW found,
         found.known \in BOOLEAN, found.wiki \in Nat, found.raw \in Nat,
         NEW c, c = Validation!Attribute(e, found)
  PROVE  /\ c \in Causes
         /\ c # "unattributed" => e.signal \notin Validation!Positives
         /\ c = "wiki_synthesis" => e.page # Nil
         /\ c \in {"source_gap", "retrieval_miss"} =>
              found.known /\ found.wiki = 0 /\ (c = "source_gap" <=> found.raw = 0)
<1>1. CASE e.signal \in Validation!Positives
  <2>1. c = "unattributed"
        BY <1>1 DEF Validation!Attribute, Validation!Positives, Validation!Recurring
  <2> QED BY <2>1 DEF Causes
<1>2. CASE e.signal = "citation_abandoned"
  <2>1. c = IF e.page # Nil THEN "wiki_synthesis" ELSE "unattributed"
        BY <1>2 DEF Validation!Attribute, Validation!Positives, Validation!Recurring
  <2> QED BY <1>2, <2>1 DEF Causes, Validation!Positives
<1>3. CASE e.signal \in Validation!Recurring
  <2>1. e.signal \notin Validation!Positives /\ e.signal # "citation_abandoned"
        BY <1>3 DEF Validation!Positives, Validation!Recurring
  <2>2. CASE ~found.known
    <3>1. c = "unattributed"
          BY <1>3, <2>1, <2>2 DEF Validation!Attribute
    <3> QED BY <3>1 DEF Causes
  <2>3. CASE found.known /\ found.wiki = 0
    <3>1. c = IF found.raw = 0 THEN "source_gap" ELSE "retrieval_miss"
          BY <1>3, <2>1, <2>3 DEF Validation!Attribute
    <3> QED BY <2>1, <2>3, <3>1 DEF Causes
  <2>4. CASE found.known /\ found.wiki > 0
    <3>1. c = IF e.page # Nil THEN "wiki_synthesis" ELSE "unattributed"
          BY <1>3, <2>1, <2>4 DEF Validation!Attribute
    <3> QED BY <2>1, <3>1 DEF Causes
  <2>5. found.wiki = 0 \/ found.wiki > 0
        OBVIOUS
  <2> QED BY <2>2, <2>3, <2>4, <2>5
<1> QED BY <1>1, <1>2, <1>3 DEF Validation!Reported

\* The rows after some of the events.
LogRows ==
  [at : Nat, layer : Validation!Layers, text : Texts, candidates : Nat, selected : Nat]
Noted ==
  [signal : Validation!Reported \cup {"never_retrieved"}, positive : BOOLEAN,
   origin : {"reported", "derived"}, source : Bases, build : WikiBuilds \cup {Nil},
   page : Paths \cup {Nil}, query : Nat, cause : Causes, day : Nat]
Accounts ==
  [log : SUBSET LogRows, active : [Bases -> WikiBuilds \cup {Nil}], updated : [Bases -> Nat],
   updatedOn : [Bases -> Nat], day : Nat, signals : Seq(Noted)]
Stands(events, n, s) ==
  /\ s \in Accounts
  /\ s.log = LogOf(events, n)
  /\ \A i \in Bases : s.active[i] # Nil =>
       /\ s.updated[i] \in 1 .. n /\ events[s.updated[i]].kind = "activate"
       /\ events[s.updated[i]].source = i

\* What is asked of row i of those that the n-th event leaves.
RowIsEvidenced(events, n, active, new, i) ==
  LET row == new[i]
      same(layer) == Alike(events, n - 1, row.query, layer)
  IN /\ row.cause # "unattributed" => ~row.positive /\ row.origin = "reported"
     /\ row.cause \in {"source_gap", "retrieval_miss"} =>
          /\ row.query \in 1 .. n - 1 /\ events[row.query].kind = "query"
          /\ events[row.query].layer = "wiki"
               => /\ events[row.query].selected = 0
                  /\ row.cause = "source_gap"
                       <=> \A m \in same("knowledge") : events[m].candidates = 0
          /\ events[row.query].layer # "wiki"
               => /\ \A m \in same("wiki") : events[m].selected = 0
                  /\ row.cause = "source_gap" <=> events[row.query].candidates = 0
     /\ row.cause = "wiki_synthesis" => row.page # Nil
     /\ row.origin = "reported" /\ events[n].build = Nil => row.build = active[row.source]
     /\ row.origin = "derived" =>
          /\ row.build # Nil
          /\ \A j \in 1 .. i - 1 : new[j].origin = "derived" /\ new[j].source = row.source
                                     => new[j].day # row.day
          /\ \E m \in 1 .. n : events[m].kind = "activate" /\ events[m].source = row.source
               /\ \A k \in m .. n : events[k].kind # "query"

\* Only a query adds to the log.
LEMMA LogGrows ==
  ASSUME NEW events \in Seq(Validation!Events), NEW n \in 1 .. Len(events)
  PROVE  LogOf(events, n) = IF events[n].kind = "query"
                            THEN LogOf(events, n - 1) \cup {LogRow(events, n)}
                            ELSE LogOf(events, n - 1)
<1>1. Len(events) \in Nat /\ n \in Nat
      BY LenProperties
<1>2. QueriesUpTo(events, n) = IF events[n].kind = "query"
                               THEN QueriesUpTo(events, n - 1) \cup {n}
                               ELSE QueriesUpTo(events, n - 1)
  <2>1. \A m : m \in 1 .. n <=> m \in 1 .. n - 1 \/ m = n
        BY <1>1
  <2> QED BY <2>1 DEF QueriesUpTo
<1> QED BY <1>2 DEF LogOf

\* A signal that is reported.
LEMMA OneSignal ==
  ASSUME NEW events \in Seq(Validation!Events), NEW n \in 1 .. Len(events),
         NEW s, Stands(events, n - 1, s), events[n] \in Validation!Signals,
         NEW t, t = Validation!RecordSignal(s, events[n])
  PROVE  /\ t \in Accounts /\ t.log = s.log /\ t.active = s.active /\ t.updated = s.updated
         /\ Extends(t.signals, s.signals)
         /\ \A i \in Len(s.signals) + 1 .. Len(t.signals) :
              RowIsEvidenced(events, n, t.active, t.signals, i)
<1> DEFINE e == events[n]
           found == Validation!SignalEvidence(s, e.query)
           c == Validation!Attribute(e, found)
           b == IF e.build = Nil THEN s.active[e.source] ELSE e.build
           r == Validation!Row(s, e, "reported", b, c)
           old == s.signals
<1>1. Len(events) \in Nat /\ n \in Nat /\ n - 1 \in 0 .. Len(events)
      BY LenProperties
<1>2. /\ s \in Accounts /\ old \in Seq(Noted) /\ s.active \in [Bases -> WikiBuilds \cup {Nil}]
      /\ s.day \in Nat /\ s.log = LogOf(events, n - 1)
      BY DEF Stands, Accounts
<1>3. Len(old) \in Nat
      BY <1>2, LenProperties
<1>4. CASE e.signal \notin Validation!Reported
  <2>1. t = s
        BY <1>4 DEF Validation!RecordSignal
  <2>2. Len(old) + 1 .. Len(old) = {}
        BY <1>3
  <2> QED BY <1>2, <1>3, <2>1, <2>2 DEF Extends
<1>5. CASE e.signal \in Validation!Reported
  <2>1. t = [s EXCEPT !.signals = Append(old, r)]
        BY <1>5 DEF Validation!RecordSignal
  <2>2. /\ e.signal \in Validation!Reported /\ e.source \in Bases
        /\ e.build \in WikiBuilds \cup {Nil} /\ e.page \in Paths \cup {Nil} /\ e.query \in Nat
        BY <1>5 DEF Validation!Signals
  <2>3. Evident(events, n - 1, e.query, found)
    <3> HIDE DEF found
    <3> QED BY <1>1, <1>2, <2>2, EvidenceIs DEF found
  <2> HIDE DEF found
  <2>4. /\ c \in Causes
        /\ c # "unattributed" => e.signal \notin Validation!Positives
        /\ c = "wiki_synthesis" => e.page # Nil
        /\ c \in {"source_gap", "retrieval_miss"} =>
             found.known /\ found.wiki = 0 /\ (c = "source_gap" <=> found.raw = 0)
    <3>1. found.known \in BOOLEAN /\ found.wiki \in Nat /\ found.raw \in Nat
          BY <2>3 DEF Evident
    <3> HIDE DEF c, e
    <3> QED BY <1>5, <3>1, AttributionIs DEF c, e
  <2> HIDE DEF c
  <2>5. b \in WikiBuilds \cup {Nil}
        BY <1>2, <2>2
  <2> HIDE DEF b, e
  <2>6. /\ r.positive = (e.signal \in Validation!Positives) /\ r.origin = "reported"
        /\ r.source = e.source /\ r.build = b /\ r.page = e.page /\ r.query = e.query
        /\ r.cause = c
        BY DEF Validation!Row
  <2>7. r \in Noted
        BY <1>2, <2>2, <2>4, <2>5 DEF Validation!Row, Noted
  <2> HIDE DEF r
  <2> DEFINE new == Append(old, r)
  <2>8. /\ new \in Seq(Noted) /\ Len(new) = Len(old) + 1 /\ new[Len(old) + 1] = r
        /\ \A i \in 1 .. Len(old) : new[i] = old[i]
        BY <1>2, <2>7, AppendProperties
  <2> HIDE DEF new
  <2>9. /\ t.log = s.log /\ t.active = s.active /\ t.updated = s.updated /\ t.signals = new
        /\ t \in Accounts
    <3>1. t = [s EXCEPT !.signals = new]
          BY <2>1 DEF new
    <3> QED BY <1>2, <2>8, <3>1 DEF Accounts
  <2>10. Extends(t.signals, s.signals)
         BY <1>3, <2>8, <2>9 DEF Extends
  <2>11. ASSUME NEW i \in Len(old) + 1 .. Len(new)
         PROVE  RowIsEvidenced(events, n, s.active, new, i)
    <3>1. new[i] = r
          BY <1>3, <2>8
    <3> DEFINE q == r.query
               same(layer) == Alike(events, n - 1, q, layer)
    <3>2. r.cause # "unattributed" => ~r.positive /\ r.origin = "reported"
          BY <2>4, <2>6
    <3>3. ASSUME r.cause \in {"source_gap", "retrieval_miss"}
          PROVE  /\ q \in 1 .. n - 1 /\ events[q].kind = "query"
                 /\ events[q].layer = "wiki"
                      => /\ events[q].selected = 0
                         /\ r.cause = "source_gap"
                              <=> \A m \in same("knowledge") : events[m].candidates = 0
                 /\ events[q].layer # "wiki"
                      => /\ \A m \in same("wiki") : events[m].selected = 0
                         /\ r.cause = "source_gap" <=> events[q].candidates = 0
      <4>1. found.known /\ found.wiki = 0 /\ (r.cause = "source_gap" <=> found.raw = 0)
            BY <2>4, <2>6, <3>3
      <4>2. Evident(events, n - 1, q, found)
            BY <2>3, <2>6
      <4> HIDE DEF q
      <4>3. q \in 1 .. n - 1 /\ events[q].kind = "query"
            BY <4>1, <4>2 DEF Evident
      <4>4. CASE events[q].layer = "wiki"
        <5>1. Validation!Across(events[q].layer) = "knowledge"
              BY <4>4 DEF Validation!Across
        <5> QED BY <4>1, <4>2, <4>3, <4>4, <5>1 DEF Evident
      <4>5. CASE events[q].layer # "wiki"
        <5>1. Validation!Across(events[q].layer) = "wiki"
              BY <4>5 DEF Validation!Across
        <5> QED BY <4>1, <4>2, <4>3, <4>5, <5>1 DEF Evident
      <4> QED BY <4>3, <4>4, <4>5
    <3>4. r.cause = "wiki_synthesis" => r.page # Nil
          BY <2>4, <2>6
    <3>5. events[n].build = Nil => r.build = s.active[r.source]
          BY <2>6 DEF b, e
    <3>6. r.origin # "derived"
          BY <2>6
    <3> QED BY <3>1, <3>2, <3>3, <3>4, <3>5, <3>6 DEF RowIsEvidenced
  <2> QED BY <2>9, <2>10, <2>11
<1> QED BY <1>4, <1>5

\* The module counts as this one does.
LEMMA ValidationCounts == \A S : Validation!Cardinality(S) = Cardinality(S)
BY Zenon DEF Validation!Cardinality, Cardinality

\* A sweep.
LEMMA OneSweep ==
  ASSUME Nil \notin WikiBuilds, NEW events \in Seq(Validation!Events), NEW n \in 1 .. Len(events),
         NEW s, Stands(events, n - 1, s), events[n].kind = "sweep",
         NEW t, t = Validation!SweepNeverRetrieved(s)
  PROVE  /\ t \in Accounts /\ t.log = s.log /\ t.active = s.active /\ t.updated = s.updated
         /\ Extends(t.signals, s.signals)
         /\ \A i \in Len(s.signals) + 1 .. Len(t.signals) :
              RowIsEvidenced(events, n, t.active, t.signals, i)
<1> DEFINE unused == Validation!Idle(s) \ Validation!Swept(s)
           N == Cardinality(unused)
           order == CHOOSE o \in [1 .. N -> unused] :
                      \A j, k \in DOMAIN o : o[j] = o[k] => j = k
           more == [k \in DOMAIN order |-> Validation!Derived(s, order[k])]
           old == s.signals
           new == old \o more
<1>1. Len(events) \in Nat /\ n \in Nat
      BY LenProperties
<1>2. /\ s \in Accounts /\ old \in Seq(Noted) /\ s.active \in [Bases -> WikiBuilds \cup {Nil}]
      /\ s.day \in Nat /\ s.log = LogOf(events, n - 1)
      BY DEF Stands, Accounts
<1>3. Len(old) \in Nat /\ DOMAIN old = 1 .. Len(old)
      BY <1>2, LenProperties
<1>4. unused \in SUBSET Bases
      BY DEF Validation!Idle
<1>5. IsFiniteSet(unused) /\ N \in Nat
  <2> HIDE DEF unused
  <2>1. IsFiniteSet(unused)
        BY <1>4, CatalogAssumption, FS_Subset
  <2> QED BY <2>1, FS_CardinalityType
<1>6. order \in [1 .. N -> unused] /\ \A j, k \in 1 .. N : order[j] = order[k] => j = k
  <2> HIDE DEF unused
  <2>1. ExistsBijection(1 .. N, unused)
        BY <1>5, FS_CardinalityType
  <2> HIDE DEF N
  <2>2. PICK b \in [1 .. N -> unused] : \A j, k \in 1 .. N : b[j] = b[k] => j = k
        BY <2>1 DEF ExistsBijection, Bijection, Injection, IsInjective
  <2>3. \E o \in [1 .. N -> unused] : \A j, k \in DOMAIN o : o[j] = o[k] => j = k
        BY <2>2
  <2>4. order \in [1 .. N -> unused] /\ \A j, k \in DOMAIN order : order[j] = order[k] => j = k
        BY <2>3, Zenon
  <2> HIDE DEF order
  <2> QED BY <2>4
<1>7. t = [s EXCEPT !.signals = new]
  <2>1. Validation!Cardinality(unused) = N
        BY ValidationCounts
  <2> DEFINE other == CHOOSE o \in [1 .. Validation!Cardinality(unused) -> unused] :
                        \A j, k \in DOMAIN o : o[j] = o[k] => j = k
  <2>2. t = [s EXCEPT !.signals = old \o [k \in DOMAIN other |-> Validation!Derived(s, other[k])]]
        BY DEF Validation!SweepNeverRetrieved
  <2> HIDE DEF unused, N
  <2>3. other = order
        BY <2>1
  <2> HIDE DEF other, order
  <2> QED BY <2>2, <2>3
<1> HIDE DEF order, N
<1>8. ASSUME NEW k \in 1 .. N
      PROVE  /\ order[k] \in unused /\ order[k] \in Bases
             /\ more[k] = Validation!Derived(s, order[k])
             /\ more[k] \in Noted
             /\ ~more[k].positive /\ more[k].origin = "derived"
             /\ more[k].source = order[k] /\ more[k].build = s.active[order[k]]
             /\ more[k].cause = "unattributed" /\ more[k].day = s.day
  <2>1. order[k] \in unused /\ order[k] \in Bases
        BY <1>4, <1>6
  <2>2. more[k] = Validation!Derived(s, order[k])
        BY <1>6
  <2> DEFINE r == Validation!Derived(s, order[k])
  <2>3. /\ r.origin = "derived" /\ r.source = order[k] /\ r.build = s.active[order[k]]
        /\ r.cause = "unattributed" /\ r.day = s.day
        BY DEF Validation!Derived, Validation!Row
  <2>4. ~r.positive
        BY DEF Validation!Derived, Validation!Row, Validation!Positives
  <2>5. r \in Noted
    <3>1. s.active[order[k]] \in WikiBuilds \cup {Nil}
          BY <1>2, <2>1
    <3> HIDE DEF unused
    <3> QED BY <1>2, <2>1, <3>1 DEF Validation!Derived, Validation!Row, Noted, Causes
  <2> HIDE DEF r, unused
  <2> QED BY <2>1, <2>2, <2>3, <2>4, <2>5 DEF r
<1>9. more \in Seq(Noted) /\ Len(more) = N
  <2>1. more \in [1 .. N -> Noted]
        BY <1>6, <1>8
  <2> HIDE DEF more
  <2> QED BY <1>5, <2>1
<1> HIDE DEF more, unused
<1>10. /\ new \in Seq(Noted) /\ Len(new) = Len(old) + N
       /\ \A i \in 1 .. Len(old) : new[i] = old[i]
       /\ \A k \in 1 .. N : new[Len(old) + k] = more[k]
  <2>1. /\ new \in Seq(Noted) /\ Len(new) = Len(old) + N
        /\ \A i \in 1 .. Len(old) + N :
             new[i] = IF i <= Len(old) THEN old[i] ELSE more[i - Len(old)]
        BY <1>2, <1>9, ConcatProperties
  <2> HIDE DEF new
  <2>2. \A i \in 1 .. Len(old) : i \in 1 .. Len(old) + N /\ i <= Len(old)
        BY <1>3, <1>5
  <2>3. \A k \in 1 .. N : /\ Len(old) + k \in 1 .. Len(old) + N /\ ~(Len(old) + k <= Len(old))
                          /\ (Len(old) + k) - Len(old) = k
        BY <1>3, <1>5
  <2> QED BY <2>1, <2>2, <2>3
<1> HIDE DEF new
<1>11. /\ t.log = s.log /\ t.active = s.active /\ t.updated = s.updated /\ t.signals = new
       /\ t \in Accounts
       BY <1>2, <1>7, <1>10 DEF Accounts
<1>12. Extends(t.signals, s.signals)
       BY <1>3, <1>5, <1>10, <1>11 DEF Extends
<1>13. ASSUME NEW i \in Len(old) + 1 .. Len(new)
       PROVE  RowIsEvidenced(events, n, s.active, new, i)
  <2> DEFINE k == i - Len(old)
             src == order[k]
  <2>1. k \in 1 .. N /\ Len(old) + k = i /\ i \in Nat
    <3>1. Len(old) \in Nat /\ N \in Nat /\ i \in Len(old) + 1 .. Len(old) + N
          BY <1>3, <1>5, <1>10
    <3> HIDE DEF old
    <3> QED BY <3>1
  <2>2. new[i] = more[k]
        BY <1>10, <2>1
  <2> HIDE DEF k
  <2>3. /\ src \in unused /\ src \in Bases
        /\ ~new[i].positive /\ new[i].origin = "derived" /\ new[i].source = src
        /\ new[i].build = s.active[src] /\ new[i].cause = "unattributed" /\ new[i].day = s.day
        BY <1>8, <2>1, <2>2
  <2> HIDE DEF src
  <2>4. /\ s.active[src] # Nil /\ src \notin Validation!Swept(s)
        /\ \A x \in s.log : x.at <= s.updated[src]
        BY <2>3 DEF unused, Validation!Idle
  <2>5. ASSUME NEW j \in 1 .. i - 1, new[j].origin = "derived", new[j].source = src
        PROVE  new[j].day # s.day
    <3>1. CASE j \in 1 .. Len(old)
      <4>1. new[j] = old[j] /\ j \in DOMAIN s.signals
            BY <1>3, <1>10, <3>1
      <4> QED BY <2>3, <2>4, <2>5, <4>1 DEF Validation!Swept
    <3>2. CASE j \notin 1 .. Len(old)
      <4> DEFINE l == j - Len(old)
      <4>1. l \in 1 .. N /\ l # k /\ Len(old) + l = j
            BY <1>3, <1>5, <2>1, <3>2
      <4> HIDE DEF l
      <4>2. new[j] = more[l] /\ new[j].source = order[l]
            BY <1>8, <1>10, <4>1
      <4> QED BY <1>6, <2>1, <2>5, <4>1, <4>2 DEF src
    <3> QED BY <3>1, <3>2
  <2>6. \E m \in 1 .. n : events[m].kind = "activate" /\ events[m].source = src
          /\ \A l \in m .. n : events[l].kind # "query"
    <3> DEFINE m == s.updated[src]
    <3>1. m \in 1 .. n - 1 /\ events[m].kind = "activate" /\ events[m].source = src
          BY <2>3, <2>4 DEF Stands
    <3>2. m \in 1 .. n /\ m \in Nat
          BY <1>1, <3>1
    <3>3. ASSUME NEW l \in m .. n, events[l].kind = "query"
          PROVE  FALSE
      <4>1. l # m /\ l # n
            BY <3>1, <3>3
      <4>2. l \in 1 .. n - 1 /\ l > m
            BY <1>1, <3>2, <4>1
      <4>3. LogRow(events, l) \in s.log
            BY <1>2, <3>3, <4>2 DEF LogOf, QueriesUpTo
      <4>4. l <= m
            BY <2>4, <4>3 DEF LogRow
      <4> QED BY <3>2, <4>2, <4>4
    <3> HIDE DEF m
    <3> QED BY <3>1, <3>2, <3>3
  <2> QED BY <2>3, <2>4, <2>5, <2>6 DEF RowIsEvidenced
<1> QED BY <1>11, <1>12, <1>13

\* Any event.
LEMMA OneEvent ==
  ASSUME Nil \notin WikiBuilds, NEW events \in Seq(Validation!Events), NEW n \in 1 .. Len(events),
         NEW s, Stands(events, n - 1, s),
         NEW t, t = Validation!After(s, events[n], n)
  PROVE  /\ Stands(events, n, t)
         /\ Extends(t.signals, s.signals)
         /\ \A i \in Len(s.signals) + 1 .. Len(t.signals) :
              RowIsEvidenced(events, n, t.active, t.signals, i)
<1> DEFINE e == events[n]
           old == s.signals
<1>1. Len(events) \in Nat /\ n \in Nat /\ \A m \in 1 .. n - 1 : m \in 1 .. n
      BY LenProperties
<1>2. /\ s \in Accounts /\ old \in Seq(Noted) /\ s.day \in Nat /\ s.log = LogOf(events, n - 1)
      /\ s.active \in [Bases -> WikiBuilds \cup {Nil}] /\ s.log \in SUBSET LogRows
      /\ s.updated \in [Bases -> Nat] /\ s.updatedOn \in [Bases -> Nat]
      BY DEF Stands, Accounts
<1>3. Len(old) \in Nat
      BY <1>2, LenProperties
<1>4. e \in Validation!Events
      BY ElementOfSeq
<1>5. LogOf(events, n) = IF e.kind = "query" THEN LogOf(events, n - 1) \cup {LogRow(events, n)}
                         ELSE LogOf(events, n - 1)
      BY LogGrows
<1>6. \A i \in Bases : s.active[i] # Nil =>
        /\ s.updated[i] \in 1 .. n /\ events[s.updated[i]].kind = "activate"
        /\ events[s.updated[i]].source = i
      BY <1>1 DEF Stands
<1>7. Extends(old, old) /\ Len(old) + 1 .. Len(old) = {}
      BY <1>3 DEF Extends
<1>8. CASE e \in Validation!Queries
  <2>1. /\ e.kind = "query" /\ e.layer \in Validation!Layers /\ e.text \in Texts
        /\ e.candidates \in Nat /\ e.selected \in Nat
        BY <1>8 DEF Validation!Queries
  <2>2. t = [s EXCEPT !.log = @ \cup {LogRow(events, n)}]
        BY <2>1 DEF Validation!After, LogRow
  <2>3. LogRow(events, n) \in LogRows
        BY <1>1, <2>1 DEF LogRow, LogRows
  <2> HIDE DEF e
  <2>4. LogOf(events, n) = s.log \cup {LogRow(events, n)}
        BY <1>2, <1>5, <2>1
  <2>5. /\ t \in Accounts /\ t.log = LogOf(events, n) /\ t.active = s.active
        /\ t.updated = s.updated /\ t.signals = old
        BY <1>2, <2>2, <2>3, <2>4 DEF Accounts
  <2> QED BY <1>6, <1>7, <2>5 DEF Stands
<1>9. CASE e \in Validation!Activates
  <2>1. e.kind = "activate" /\ e.source \in Bases /\ e.build \in WikiBuilds
        BY <1>9 DEF Validation!Activates
  <2>2. t = [s EXCEPT !.active[e.source] = e.build, !.updated[e.source] = n,
                      !.updatedOn[e.source] = s.day]
        BY <2>1 DEF Validation!After
  <2> DEFINE active == [s.active EXCEPT ![e.source] = e.build]
             updated == [s.updated EXCEPT ![e.source] = n]
             updatedOn == [s.updatedOn EXCEPT ![e.source] = s.day]
  <2>3. t = [s EXCEPT !.active = active, !.updated = updated, !.updatedOn = updatedOn]
        BY <1>2, <2>2 DEF Accounts
  <2>4. /\ active \in [Bases -> WikiBuilds \cup {Nil}] /\ updated \in [Bases -> Nat]
        /\ updatedOn \in [Bases -> Nat]
        BY <1>1, <1>2, <2>1
  <2>5. \A i \in Bases : active[i] # Nil =>
          /\ updated[i] \in 1 .. n /\ events[updated[i]].kind = "activate"
          /\ events[updated[i]].source = i
    <3> TAKE i \in Bases
    <3>1. CASE i = e.source
      <4>1. updated[i] = n
            BY <1>2, <3>1
      <4> QED BY <1>1, <2>1, <3>1, <4>1
    <3>2. CASE i # e.source
      <4>1. active[i] = s.active[i] /\ updated[i] = s.updated[i]
            BY <1>2, <3>2
      <4> QED BY <1>6, <4>1
    <3> QED BY <3>1, <3>2
  <2> HIDE DEF e, active, updated, updatedOn
  <2>6. /\ t \in Accounts /\ t.log = LogOf(events, n) /\ t.active = active
        /\ t.updated = updated /\ t.signals = old
        BY <1>2, <1>5, <2>1, <2>3, <2>4 DEF Accounts
  <2> QED BY <1>7, <2>5, <2>6 DEF Stands
<1>10. CASE e \in Validation!Signals
  <2>1. e.kind = "signal"
        BY <1>10 DEF Validation!Signals
  <2>2. t = Validation!RecordSignal(s, e)
        BY <2>1 DEF Validation!After
  <2>3. /\ t \in Accounts /\ t.log = s.log /\ t.active = s.active /\ t.updated = s.updated
        /\ Extends(t.signals, s.signals)
        /\ \A i \in Len(s.signals) + 1 .. Len(t.signals) :
             RowIsEvidenced(events, n, t.active, t.signals, i)
        BY <1>10, <2>2, OneSignal
  <2> HIDE DEF e
  <2>4. Stands(events, n, t)
        BY <1>2, <1>5, <1>6, <2>1, <2>3 DEF Stands
  <2> QED BY <2>3, <2>4
<1>11. CASE e \in Validation!Others
  <2>1. CASE e.kind = "day"
    <3>1. t = [s EXCEPT !.day = @ + 1]
          BY <2>1 DEF Validation!After
    <3> HIDE DEF e
    <3>2. s.day + 1 \in Nat
          BY <1>2
    <3>3. /\ t \in Accounts /\ t.log = s.log /\ t.active = s.active
          /\ t.updated = s.updated /\ t.signals = old
          BY <1>2, <3>1, <3>2 DEF Accounts
    <3>4. LogOf(events, n) = s.log
          BY <1>2, <1>5, <2>1
    <3> QED BY <1>6, <1>7, <3>3, <3>4 DEF Stands
  <2>2. CASE e.kind = "sweep"
    <3>1. t = Validation!SweepNeverRetrieved(s)
          BY <2>2 DEF Validation!After
    <3>2. /\ t \in Accounts /\ t.log = s.log /\ t.active = s.active /\ t.updated = s.updated
          /\ Extends(t.signals, s.signals)
          /\ \A i \in Len(s.signals) + 1 .. Len(t.signals) :
               RowIsEvidenced(events, n, t.active, t.signals, i)
          BY <2>2, <3>1, OneSweep
    <3> HIDE DEF e
    <3>3. Stands(events, n, t)
          BY <1>2, <1>5, <1>6, <2>2, <3>2 DEF Stands
    <3> QED BY <3>2, <3>3
  <2> QED BY <1>11, <2>1, <2>2 DEF Validation!Others
<1> QED BY <1>4, <1>8, <1>9, <1>10, <1>11 DEF Validation!Events

\* What is said of a skill is said by two sources of it.
LEMMA SkillIsOfTwo ==
  ASSUME NEW s, s.signals \in Seq(Noted), Validation!Interpret(s) = "skill"
  PROVE  \E i, j \in DOMAIN s.signals :
           /\ s.signals[i].source # s.signals[j].source
           /\ ~s.signals[i].positive /\ ~s.signals[j].positive
<1> DEFINE all == s.signals
           bad == {i \in DOMAIN all : ~all[i].positive}
           sources == {all[i].source : i \in bad}
           pages == {all[i].page : i \in bad} \ {Nil}
<1>1. IsFiniteSet(bad)
  <2>1. DOMAIN all = 1 .. Len(all) /\ Len(all) \in Nat
        BY LenProperties
  <2>2. IsFiniteSet(DOMAIN all)
        BY <2>1, FS_Interval
  <2> QED BY <2>2, FS_Subset
<1>2. Cardinality(pages) \in Nat
  <2> DEFINE page == [i \in bad |-> all[i].page]
             P == {page[i] : i \in bad}
  <2>1. IsFiniteSet(P)
    <3> HIDE DEF bad
    <3>1. DOMAIN page = bad
          OBVIOUS
    <3> HIDE DEF page
    <3> QED BY <1>1, <3>1, ImageIsFinite
  <2>2. pages \in SUBSET P
        OBVIOUS
  <2> HIDE DEF P, pages
  <2> QED BY <2>1, <2>2, FS_Subset, FS_CardinalityType
<1>3. Cardinality(sources) >= 2
  <2>1. IsFiniteSet(sources)
    <3> DEFINE origin == [i \in bad |-> all[i].source]
    <3> HIDE DEF bad
    <3>1. sources = {origin[i] : i \in bad} /\ DOMAIN origin = bad
          OBVIOUS
    <3> HIDE DEF origin, sources
    <3> QED BY <1>1, <3>1, ImageIsFinite
  <2> HIDE DEF sources, pages
  <2>2. Cardinality(sources) \in Nat
        BY <2>1, FS_CardinalityType
  <2> SUFFICES ASSUME Cardinality(sources) < 2 PROVE FALSE
      BY <2>2
  <2>3. Validation!Cardinality(sources) = Cardinality(sources)
        /\ Validation!Cardinality(pages) = Cardinality(pages)
        BY ValidationCounts
  <2>4. Validation!Interpret(s) =
          CASE Cardinality(sources) >= 2 -> "skill"
            [] Cardinality(sources) < 2 /\ Cardinality(pages) >= 3 -> "source or skill"
            [] Cardinality(sources) < 2 /\ Cardinality(pages) < 3 -> "unclear"
        BY <2>3, Zenon DEF Validation!Interpret, sources, pages
  <2>5. CASE Cardinality(pages) >= 3
        BY <1>2, <2>2, <2>4, <2>5
  <2>6. CASE Cardinality(pages) < 3
    <3>1. Validation!Interpret(s) = "unclear"
          BY <1>2, <2>2, <2>4, <2>6
    <3> QED BY <3>1
  <2> QED BY <1>2, <2>5, <2>6
<1>4. \E a, b \in sources : a # b
  <2> SUFFICES ASSUME \A a, b \in sources : a = b PROVE FALSE
      OBVIOUS
  <2> HIDE DEF sources
  <2>1. CASE sources = {}
        BY <1>3, <2>1, FS_EmptySet
  <2>2. CASE sources # {}
    <3>1. PICK a \in sources : sources = {a}
          BY <2>2
    <3>2. Cardinality({a}) = 1
          BY FS_Singleton
    <3>3. Cardinality(sources) = 1
          BY <3>1, <3>2
    <3> QED BY <1>3, <3>3
  <2> QED BY <2>1, <2>2
<1> QED BY <1>4

\* After any number of events every signal is attributed on evidence.
LEMMA SignalsAreEvidenced ==
  ASSUME Nil \notin WikiBuilds, NEW events \in Seq(Validation!Events)
  PROVE  Validation!AttributionIsEvidenced(events)
<1> DEFINE N == Len(events)
           V == Accounts
           next == [p \in V \X Nat |->
                      IF p[2] \in 1 .. N /\ Stands(events, p[2] - 1, p[1])
                      THEN Validation!After(p[1], events[p[2]], p[2])
                      ELSE Validation!Empty]
           Is(f) == f = [n \in 0 .. N |-> IF n = 0 THEN Validation!Empty
                                          ELSE Validation!After(f[n - 1], events[n], n)]
           rows == CHOOSE f : Is(f)
<1>1. N \in Nat /\ DOMAIN events = 1 .. N
      BY LenProperties
<1>2. Validation!Empty \in V /\ Stands(events, 0, Validation!Empty)
  <2>1. <<>> \in Seq(Noted)
        BY EmptySeq
  <2>2. LogOf(events, 0) = {}
        BY DEF LogOf, QueriesUpTo
  <2>3. Validation!Empty \in Accounts
        BY <2>1 DEF Validation!Empty, Accounts
  <2>4. \A i \in Bases : Validation!Empty.active[i] = Nil
        BY DEF Validation!Empty
  <2>5. Validation!Empty.log = {}
        BY DEF Validation!Empty
  <2> QED BY <2>2, <2>3, <2>4, <2>5 DEF Stands
<1>3. next \in [V \X Nat -> V]
  <2> SUFFICES ASSUME NEW p \in V, NEW n \in 1 .. N, Stands(events, n - 1, p)
               PROVE  Validation!After(p, events[n], n) \in V
      BY <1>2
  <2>1. Stands(events, n, Validation!After(p, events[n], n))
        BY OneEvent
  <2> QED BY <2>1 DEF Stands
<1>4. PICK f \in [0 .. N -> V] : Recurs(f, Validation!Empty, next, N)
  <2> HIDE DEF N, V, next
  <2> QED BY <1>1, <1>2, <1>3, Recursion
<1>5. \A n \in 0 .. N : Stands(events, n, f[n])
  <2> DEFINE S == {n \in Nat : n \in 0 .. N => Stands(events, n, f[n])}
  <2>1. 0 \in S
        BY <1>2, <1>4 DEF Recurs
  <2>2. ASSUME NEW n \in Nat, n \in S PROVE n + 1 \in S
    <3> SUFFICES ASSUME n + 1 \in 0 .. N PROVE Stands(events, n + 1, f[n + 1])
        OBVIOUS
    <3>1. n \in 0 .. N /\ n + 1 \in 1 .. N /\ (n + 1) - 1 = n /\ n + 1 \in Nat
      <4>1. N \in Nat /\ n + 1 \in 0 .. N
            BY <1>1
      <4> HIDE DEF N
      <4> QED BY <4>1
    <3>2. Stands(events, n, f[n])
          BY <2>2, <3>1
    <3>3. f[n + 1] = next[<<f[n], n + 1>>]
          BY <1>4, <3>1 DEF Recurs
    <3>4. f[n] \in V
          BY <3>1
    <3>5. f[n + 1] = Validation!After(f[n], events[n + 1], n + 1)
      <4> HIDE DEF V, N
      <4> QED BY <3>1, <3>2, <3>3, <3>4
    <3> HIDE DEF next
    <3> QED BY <3>1, <3>2, <3>5, OneEvent
  <2> HIDE DEF S
  <2>3. Nat \subseteq S
        BY <2>1, <2>2, InductionOnNat
  <2> QED BY <2>3 DEF S
<1>6. Is(f)
  <2>1. \A n \in 1 .. N : n \in Nat /\ n - 1 \in 0 .. N /\ f[n - 1] \in V
    <3> HIDE DEF N, V
    <3> QED BY <1>1
  <2>2. \A n \in 1 .. N : f[n] = Validation!After(f[n - 1], events[n], n)
    <3> HIDE DEF N, V
    <3> QED BY <1>1, <1>4, <1>5, <2>1 DEF Recurs
  <2> HIDE DEF N, V, next
  <2> QED BY <1>1, <1>4, <2>2 DEF Recurs
<1>7. Is(rows)
  <2> HIDE DEF Is
  <2> QED BY <1>6
<1>8. rows = f
  <2> SUFFICES \A g : Is(g) => g = f
      BY <1>7
  <2> TAKE g
  <2> SUFFICES ASSUME Is(g) PROVE g = f
      OBVIOUS
  <2> DEFINE S == {n \in Nat : n \in 0 .. N => g[n] = f[n]}
  <2> HIDE DEF N, V, next
  <2>1. 0 \in S
        BY <1>1, <1>6
  <2>2. ASSUME NEW n \in Nat, n \in S PROVE n + 1 \in S
    <3> SUFFICES ASSUME n + 1 \in 0 .. N PROVE g[n + 1] = f[n + 1]
        OBVIOUS
    <3>1. n \in 0 .. N /\ n + 1 # 0 /\ (n + 1) - 1 = n
          BY <1>1
    <3>2. g[n] = f[n]
          BY <2>2, <3>1
    <3>3. g[n + 1] = Validation!After(g[n], events[n + 1], n + 1)
          BY <3>1
    <3>4. f[n + 1] = Validation!After(f[n], events[n + 1], n + 1)
          BY <1>6, <3>1
    <3> QED BY <3>2, <3>3, <3>4
  <2> HIDE DEF S
  <2>3. Nat \subseteq S
        BY <2>1, <2>2, InductionOnNat
  <2>4. \A n \in 0 .. N : g[n] = f[n]
    <3>1. \A n \in 0 .. N : n \in Nat
          BY <1>1
    <3> HIDE DEF Is
    <3> QED BY <2>3, <3>1 DEF S
  <2>5. DOMAIN g = 0 .. N /\ DOMAIN f = 0 .. N
        OBVIOUS
  <2> HIDE DEF Is
  <2> QED BY <1>6, <2>4, <2>5 DEF Is
<1>9. ASSUME NEW n \in 1 .. N
      PROVE  /\ Stands(events, n - 1, rows[n - 1]) /\ Stands(events, n, rows[n])
             /\ rows[n] = Validation!After(rows[n - 1], events[n], n)
  <2>1. n \in 0 .. N /\ n - 1 \in 0 .. N /\ n # 0
    <3>1. N \in Nat /\ n \in 1 .. N
          BY <1>1
    <3> HIDE DEF N
    <3> QED BY <3>1
  <2> HIDE DEF rows
  <2>2. rows[n] = Validation!After(rows[n - 1], events[n], n)
    <3> HIDE DEF N
    <3> QED BY <1>7, <2>1
  <2> HIDE DEF N, Is
  <2> QED BY <1>5, <1>8, <2>1, <2>2
<1>10. rows = Validation!Rows(events)
       BY Zenon DEF Validation!Rows, rows, N
<1> HIDE DEF rows, Is, next, N
<1>11. ASSUME NEW n \in 1 .. N
       PROVE  LET old == rows[n - 1].signals new == rows[n].signals
              IN /\ SubSeq(new, 1, Len(old)) = old
                 /\ \A i \in Len(old) + 1 .. Len(new) :
                      RowIsEvidenced(events, n, rows[n].active, new, i)
                 /\ Validation!Interpret(rows[n]) = "skill" =>
                      \E i, j \in DOMAIN new : /\ new[i].source # new[j].source
                                               /\ ~new[i].positive /\ ~new[j].positive
  <2> DEFINE old == rows[n - 1].signals
             new == rows[n].signals
  <2>1. /\ Stands(events, n - 1, rows[n - 1]) /\ Stands(events, n, rows[n])
        /\ rows[n] = Validation!After(rows[n - 1], events[n], n) /\ n \in 1 .. Len(events)
        BY <1>9 DEF N
  <2>2. /\ Extends(new, old)
        /\ \A i \in Len(old) + 1 .. Len(new) :
             RowIsEvidenced(events, n, rows[n].active, new, i)
        BY <2>1, OneEvent
  <2>3. old \in Seq(Noted) /\ new \in Seq(Noted)
        BY <2>1 DEF Stands, Accounts
  <2>4. Validation!Interpret(rows[n]) = "skill" =>
          \E i, j \in DOMAIN new : /\ new[i].source # new[j].source
                                   /\ ~new[i].positive /\ ~new[j].positive
        BY <2>3, SkillIsOfTwo
  <2> HIDE DEF old, new
  <2>5. SubSeq(new, 1, Len(old)) = old
    <3>1. Len(old) \in Nat /\ Len(new) \in Nat
          BY <2>3, LenProperties
    <3> DEFINE t == SubSeq(new, 1, Len(old))
    <3>2. t \in Seq(Noted) /\ Len(t) = Len(old) /\ \A i \in 1 .. Len(old) : t[i] = new[i]
          BY <2>2, <2>3, <3>1, SubSeqProperties DEF Extends
    <3> HIDE DEF t
    <3>3. t = old
          BY <2>2, <2>3, <3>2, SeqEqual DEF Extends
    <3> QED BY <3>3 DEF t
  <2> QED BY <2>2, <2>4, <2>5 DEF old, new
<1> DEFINE s == Validation!Rows(events)
<1>12. \A n \in DOMAIN events : LET old == s[n - 1].signals new == s[n].signals IN
         /\ SubSeq(new, 1, Len(old)) = old
         /\ \A i \in Len(old) + 1 .. Len(new) : RowIsEvidenced(events, n, s[n].active, new, i)
         /\ Validation!Interpret(s[n]) = "skill" =>
              \E i, j \in DOMAIN new : /\ new[i].source # new[j].source
                                       /\ ~new[i].positive /\ ~new[j].positive
  <2>1. s = rows /\ DOMAIN events = 1 .. N
        BY <1>1, <1>10
  <2> HIDE DEF s
  <2> QED BY <1>11, <2>1
<1> QED BY <1>12, Zenon DEF Validation!AttributionIsEvidenced, RowIsEvidenced, Alike

\* No signal is attributed without evidence and no sweep speaks twice of an idle wiki in a
\* day, after any number of events (RecordSignal, SweepNeverRetrieved,
\* SkillSignalPatterns).
THEOREM AttributionsAreEvidenced ==
  ASSUME Given("validation") => input.x \in Seq(Validation!Events)
  PROVE  AttributionIsEvidenced
BY BuildsAssumption, SignalsAreEvidenced DEF AttributionIsEvidenced
=============================================================================
