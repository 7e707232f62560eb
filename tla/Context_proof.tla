---------------------------- MODULE Context_proof ----------------------------
(***************************************************************************)
(* Proofs about what an agent is given to work with.                       *)
(*                                                                         *)
(* SkillRegistry, for any skills, packages, sources and requests: a skill  *)
(* has one active version at most, versions and revisions name each other, *)
(* and no request loses to a unique index.                                 *)
(*                                                                         *)
(* ContextPack, for every set of items and every failure of a provider: a  *)
(* pack keeps to its budget and to its caller's scopes (PacksAreSound).  A *)
(* sequence that the code takes from another is told by its places there   *)
(* (Takes), and a loop by induction on the recursive function it is        *)
(* (Recurs).                                                               *)
(***************************************************************************)
EXTENDS SkillRegistry, Packs, Selections,
        FiniteSetTheorems, FunctionTheorems, SequenceTheorems, WellFoundedInduction, TLAPS

\* At the start nothing is active and nobody holds a lock.
LEMMA InitIInv == Init => IInv /\ NeverConflicts
<1> SUFFICES ASSUME Init PROVE IInv /\ NeverConflicts
    OBVIOUS
<1> USE NoneAssumption, MaxVersionsAssumption DEF Init
<1>1. NoCall \in Requests
      BY DEF NoCall, Requests, CallStates
<1>2. TypeOK
      BY <1>1 DEF TypeOK, Versions, Revisions, NoRevision, Ids
<1>3. OneActive /\ Paired /\ IndexOK
      BY DEF OneActive, Paired, IndexOK, NoRevision, Ids
<1>4. LocksOK /\ RequestsOK /\ NeverConflicts
      BY DEF LocksOK, RequestsOK, ReadHolds, RequestOK, NeverConflicts, NoCall
<1> QED BY <1>2, <1>3, <1>4 DEF IInv

\* A request that has ended has nothing in hand.
LEMMA NoRequest == NoCall \in Requests /\ NoCall.pc = "idle"
BY NoneAssumption, MaxVersionsAssumption DEF NoCall, Requests, CallStates

-----------------------------------------------------------------------------
(* Locks *)

Holds(q) == q.pc \in {"skill", "writing"}

\* One request's change of state, and the change of the locks that goes with it.
LocksMove(c, r) ==
  \/ ~Holds(call[c]) /\ ~Holds(r) /\ locks' = locks
  \/ ~Holds(r) /\ Free(c)
  \/ /\ ~Holds(call[c]) /\ Holds(r) /\ (r.pc = "writing" => r.source = None)
     /\ r.skill \in Skills /\ locks[r.skill] = None /\ locks' = [locks EXCEPT ![r.skill] = c]
  \/ /\ call[c].pc = "skill" /\ r.pc = "writing" /\ r.skill = call[c].skill
     /\ r.source \in Sources /\ locks[r.source] = None
     /\ locks' = [locks EXCEPT ![r.source] = c]

\* A request that changes only what it has in hand leaves the others' locks alone.
LEMMA LocksKept ==
  ASSUME TypeOK, LocksOK, NEW c \in Calls, NEW r \in Requests,
         call' = [call EXCEPT ![c] = r], LocksMove(c, r)
  PROVE  LocksOK' /\ locks' \in [Skills \cup Sources -> Calls \cup {None}]
<1>1. /\ call'[c] = r
      /\ \A d \in Calls \ {c} : call'[d] = call[d]
      BY DEF TypeOK
<1> USE NoneAssumption, LocksAssumption DEF Holds
<1>2. CASE ~Holds(call[c]) /\ ~Holds(r) /\ locks' = locks
      BY <1>1, <1>2 DEF TypeOK, LocksOK
<1>3. CASE ~Holds(r) /\ Free(c)
      BY <1>1, <1>3 DEF TypeOK, LocksOK, Free
<1>4. CASE /\ ~Holds(call[c]) /\ Holds(r) /\ (r.pc = "writing" => r.source = None)
           /\ r.skill \in Skills /\ locks[r.skill] = None
           /\ locks' = [locks EXCEPT ![r.skill] = c]
      BY <1>1, <1>4 DEF TypeOK, LocksOK
<1>5. CASE /\ call[c].pc = "skill" /\ r.pc = "writing" /\ r.skill = call[c].skill
           /\ r.source \in Sources /\ locks[r.source] = None
           /\ locks' = [locks EXCEPT ![r.source] = c]
      BY <1>1, <1>5 DEF TypeOK, LocksOK
<1> QED BY <1>2, <1>3, <1>4, <1>5 DEF LocksMove

\* Two requests never write the same skill or the same source at once.
LEMMA WritersApart ==
  ASSUME LocksOK, NEW c \in Calls, NEW d \in Calls, c # d,
         call[c].pc = "writing", call[d].pc = "writing"
  PROVE  /\ call[c].skill \in Skills => call[c].skill # call[d].skill
         /\ call[c].source \in Sources => call[c].source # call[d].source
BY DEF LocksOK

-----------------------------------------------------------------------------
\* A step of one request that writes no version, activates none and indexes none.
LEMMA RequestMoves ==
  ASSUME IInv, NeverConflicts, NEW c \in Calls, NEW r \in Requests,
         call' = [call EXCEPT ![c] = r],
         UNCHANGED <<versions, active, revisions, index>>, disabled' \subseteq Sources,
         RequestOK(r), ReadHolds(r), r.pc # "conflict", LocksMove(c, r)
  PROVE  IInv' /\ NeverConflicts'
<1>1. /\ call'[c] = r
      /\ \A d \in Calls \ {c} : call'[d] = call[d]
      /\ call' \in [Calls -> Requests]
      BY DEF IInv, TypeOK
<1>2. LocksOK' /\ locks' \in [Skills \cup Sources -> Calls \cup {None}]
      BY LocksKept DEF IInv
<1>3. TypeOK'
      BY <1>1, <1>2 DEF IInv, TypeOK, Ids
<1>4. (OneActive /\ Paired /\ IndexOK)'
      BY DEF IInv, OneActive, Paired, IndexOK, Ids, OfSkill
<1>5. RequestsOK'
  <2> SUFFICES ASSUME NEW d \in Calls PROVE (ReadHolds(call[d]) /\ RequestOK(call[d]))'
      BY DEF RequestsOK
  <2>1. ReadHolds(call'[d]) /\ RequestOK(call'[d])
        BY <1>1 DEF IInv, RequestsOK
  <2> QED BY <2>1 DEF ReadHolds, RequestOK, OfSkill, Ids
<1>6. NeverConflicts'
      BY <1>1 DEF NeverConflicts
<1> QED BY <1>2, <1>3, <1>4, <1>5, <1>6 DEF IInv

-----------------------------------------------------------------------------
(* Writing *)

\* What a transaction that writes can rely on.
LEMMA Writing ==
  ASSUME IInv, NEW c \in Calls, call[c].pc = "writing"
  PROVE  LET q == call[c]
         IN /\ q \in Requests /\ q.skill \in Skills /\ q.op \in {"create", "activate", "ingest"}
            /\ q.op = "ingest" => q.source \in Sources /\ q.package \in Packages
            /\ q.op # "ingest" => q.source = None /\ q.found = 0
            /\ q.op = "create" => q.package \in Packages
            /\ q.op = "activate" =>
                 q.activate /\ q.target \in Ids /\ versions[q.target].skill = q.skill
            /\ q.op = "ingest" => q.found = revisions[q.source][q.package].version
            /\ q.found # 0 => versions[q.found].skill = q.skill
            /\ q.cleared = (IF q.activate THEN active \cap OfSkill(q.skill) ELSE {})
BY DEF IInv, TypeOK, RequestsOK, ReadHolds, RequestOK

\* A transaction that has committed has one active version of its skill, and the reads
\* of the others still hold.
LEMMA VersionWritten ==
  ASSUME IInv, NeverConflicts, NEW c \in Calls, call[c].pc = "writing",
         versions' \in Seq(Versions), Len(versions') \in Len(versions) .. MaxVersions,
         \A j \in Ids : versions'[j] = versions[j],
         NEW i \in 1 .. Len(versions'), versions'[i].skill = call[c].skill,
         Succeeded(c, i), Free(c), index' = index, disabled' \subseteq Sources,
         revisions' \in [Sources -> [Packages -> Revisions]], Paired',
         \A s \in Sources \ {call[c].source} : revisions'[s] = revisions[s]
  PROVE  IInv' /\ NeverConflicts'
<1> DEFINE q == call[c]
           r == [NoCall EXCEPT !.pc = "compiling", !.target = i,
                               !.skill = q.skill, !.index = q.index]
<1>1. Len(versions) \in 0 .. MaxVersions /\ Ids \subseteq Ids' /\ i \in Ids' /\ i \in 0 .. MaxVersions
      BY MaxVersionsAssumption DEF IInv, TypeOK, Ids
<1>2. r \in Requests /\ r.pc = "compiling" /\ r.skill = q.skill
      BY <1>1, Writing, NoRequest DEF NoCall, Requests, CallStates
<1>3. /\ call' = [call EXCEPT ![c] = r]
      /\ call'[c] = r
      /\ \A d \in Calls \ {c} : call'[d] = call[d]
      /\ call' \in [Calls -> Requests]
      BY <1>2 DEF Succeeded, IInv, TypeOK
<1>4. LocksOK' /\ locks' \in [Skills \cup Sources -> Calls \cup {None}]
      BY <1>2, <1>3, LocksKept DEF IInv, LocksMove, Holds
<1>5. /\ active \subseteq Ids /\ active' \subseteq active \cup {i}
      /\ \A j \in active : versions[j].skill # q.skill => j \in active'
      /\ q.activate => \A j \in active' : j = i \/ versions[j].skill # q.skill
      /\ ~q.activate => active' = active
      BY Writing DEF Succeeded, Switched, IInv, TypeOK, OfSkill
<1>6. TypeOK'
  <2>1. active' \subseteq Ids'
        BY <1>1, <1>5
  <2>2. index' \in [Skills -> 0 .. MaxVersions] /\ disabled' \subseteq Sources
        BY DEF IInv, TypeOK
  <2>3. Len(versions') \in 0 .. MaxVersions
        BY <1>1
  <2> QED BY <1>3, <1>4, <2>1, <2>2, <2>3 DEF TypeOK
<1>7. OneActive'
  <2> SUFFICES ASSUME NEW j \in active', NEW k \in active',
                      versions'[j].skill = versions'[k].skill, j # k
               PROVE  FALSE
      BY DEF OneActive
  <2>1. CASE ~q.activate
    <3>1. j \in active /\ k \in active /\ versions[j].skill = versions[k].skill
          BY <1>5, <2>1
    <3> QED BY <3>1 DEF IInv, OneActive
  <2>2. CASE q.activate /\ j # i /\ k # i
    <3>1. j \in active /\ k \in active /\ versions[j].skill = versions[k].skill
          BY <1>5, <2>2
    <3> QED BY <3>1 DEF IInv, OneActive
  <2>3. CASE q.activate /\ (j = i \/ k = i)
        BY <1>5, <2>3
  <2> QED BY <2>1, <2>2, <2>3
<1>8. IndexOK'
      BY <1>1 DEF IInv, IndexOK, OfSkill
<1>9. RequestsOK'
  <2> SUFFICES ASSUME NEW d \in Calls PROVE (ReadHolds(call[d]) /\ RequestOK(call[d]))'
      BY DEF RequestsOK
  <2>1. CASE d = c
        BY <1>2, <1>3, <2>1, Writing DEF ReadHolds, RequestOK
  <2>2. CASE d # c
    <3> DEFINE p == call[d]
    <3>1. p = call'[d] /\ p \in Requests /\ ReadHolds(p) /\ RequestOK(p)
          BY <1>3, <2>2 DEF IInv, RequestsOK, TypeOK
    <3>2. RequestOK(p)'
          BY <1>1, <3>1, <2>2 DEF RequestOK
    <3>3. ASSUME p.pc = "writing" PROVE ReadHolds(p)'
      <4>1. /\ p.op = "ingest" => p.source \in Sources /\ p.package \in Packages
                                  /\ p.found = revisions[p.source][p.package].version
            /\ p.op # "ingest" => p.found = 0
            /\ p.found # 0 => versions[p.found].skill = p.skill
            /\ p.cleared = (IF p.activate THEN active \cap OfSkill(p.skill) ELSE {})
            BY <3>3, Writing
      <4>2. p.skill # q.skill /\ (p.source \in Sources => p.source # q.source)
            BY <2>2, <3>3, Writing, WritersApart DEF IInv
      <4>3. p.op = "ingest" => p.found = revisions'[p.source][p.package].version
            BY <4>1, <4>2
      <4>4. p.found # 0 => p.found \in Ids
        <5> SUFFICES ASSUME p.found # 0 PROVE p.found \in Ids
            OBVIOUS
        <5>1. p.op = "ingest" BY <4>1
        <5> QED BY <4>1, <5>1 DEF IInv, Paired
      <4>5. p.found # 0 => versions'[p.found].skill = p.skill
            BY <4>1, <4>4
      <4>6. \A j \in active' : versions'[j].skill = p.skill => j \in active /\ j \in Ids
                                                               /\ versions[j].skill = p.skill
            BY <1>5, <4>2
      <4>7. \A j \in active : versions[j].skill = p.skill =>
                                j \in active' /\ j \in Ids' /\ versions'[j].skill = p.skill
        <5>1. \A j \in active : j \in Ids /\ j \in Ids' BY <1>1, <1>5
        <5>2. \A j \in active : versions'[j] = versions[j] BY <5>1
        <5>3. \A j \in active : versions[j].skill = p.skill /\ ~q.activate => j \in active'
              BY <1>5
        <5>4. \A j \in active : versions[j].skill = p.skill /\ q.activate => j \in active'
              BY <1>5, <4>2
        <5> QED BY <5>1, <5>2, <5>3, <5>4
      <4>8. active' \cap OfSkill(p.skill)' = active \cap OfSkill(p.skill)
        <5>1. OfSkill(p.skill)' = {j \in Ids' : versions'[j].skill = p.skill}
              BY <3>1 DEF OfSkill
        <5>2. \A j \in active' : j \in Ids'
              BY <1>1, <1>5
        <5>3. \A j : j \in active' \cap OfSkill(p.skill)' <=> j \in active /\ versions[j].skill = p.skill
              BY <4>6, <4>7, <5>1, <5>2
        <5>4. \A j : j \in active \cap OfSkill(p.skill) <=> j \in active /\ versions[j].skill = p.skill
              BY <1>5 DEF OfSkill
        <5> QED BY <5>3, <5>4
      <4>9. p.cleared = IF p.activate THEN active' \cap OfSkill(p.skill)' ELSE {}
            BY <4>1, <4>8
      <4> QED BY <3>1, <4>1, <4>3, <4>5, <4>9 DEF ReadHolds
    <3>4. ASSUME p.pc # "writing" PROVE ReadHolds(p)'
      <4>1. call'[d].pc # "writing" BY <3>1, <3>4
      <4> QED BY <4>1 DEF ReadHolds
    <3> QED BY <3>1, <3>2, <3>3, <3>4
  <2> QED BY <2>1, <2>2
<1>10. NeverConflicts'
       BY <1>2, <1>3 DEF NeverConflicts
<1> QED BY <1>4, <1>6, <1>7, <1>8, <1>9, <1>10 DEF IInv

\* A version that is inserted has a number and a revision of its own.
LEMMA InsertKeeps ==
  ASSUME IInv, NeverConflicts, NEW c \in Calls, call[c].pc = "writing", Insert(c), Free(c),
         index' = index, disabled' \subseteq Sources
  PROVE  IInv' /\ NeverConflicts'
<1> DEFINE q == call[c]
           i == Len(versions) + 1
           v == [skill |-> q.skill, package |-> q.package, source |-> q.source]
<1>1. /\ q.op \in {"create", "ingest"} /\ q.found = 0 /\ Len(versions) < MaxVersions
      /\ versions' = Append(versions, v) /\ Succeeded(c, i)
      /\ revisions' = IF q.source = None THEN revisions
                      ELSE [revisions EXCEPT ![q.source][q.package] =
                             [version |-> i, commit |-> q.commit, snapshot |-> q.snapshot]]
      BY Writing DEF Insert
<1>2. /\ q \in Requests /\ q.skill \in Skills /\ q.package \in Packages
      /\ q.source \in Sources \/ q.source = None
      /\ q.source \in Sources => revisions[q.source][q.package].version = 0
      BY <1>1, Writing, NoneAssumption
<1>3. v \in Versions
      BY <1>2 DEF Versions
<1>4. /\ versions \in Seq(Versions) /\ Len(versions) \in Nat
      /\ revisions \in [Sources -> [Packages -> Revisions]]
      BY DEF IInv, TypeOK
<1>5. /\ versions' \in Seq(Versions) /\ Len(versions') = i
      /\ \A j \in Ids : versions'[j] = versions[j]
      /\ versions'[i] = v
      /\ Ids' = Ids \cup {i} /\ i \notin Ids /\ i # 0
      BY <1>1, <1>3, <1>4 DEF Ids
<1>6. [version |-> i, commit |-> q.commit, snapshot |-> q.snapshot] \in Revisions
      BY <1>1, <1>2, <1>4, MaxVersionsAssumption DEF Revisions, Requests
<1>7. revisions' \in [Sources -> [Packages -> Revisions]]
      BY <1>1, <1>2, <1>4, <1>6
<1>8. Paired'
  <2>1. CASE q.source = None
    <3>1. revisions' = revisions /\ versions'[i].source = None
          BY <1>1, <1>5, <2>1
    <3> QED BY <1>5, <3>1, NoneAssumption DEF IInv, Paired
  <2>2. CASE q.source \in Sources
    <3>1. /\ revisions'[q.source][q.package].version = i
          /\ \A s \in Sources, p \in Packages :
               s # q.source \/ p # q.package => revisions'[s][p] = revisions[s][p]
          BY <1>1, <1>2, <1>4, <2>2, NoneAssumption
    <3>2. ASSUME NEW s \in Sources, NEW p \in Packages, revisions'[s][p].version # 0
          PROVE  /\ revisions'[s][p].version \in Ids'
                 /\ versions'[revisions'[s][p].version].source = s
                 /\ versions'[revisions'[s][p].version].package = p
          BY <1>5, <3>1, <3>2 DEF IInv, Paired
    <3>3. ASSUME NEW j \in Ids', versions'[j].source # None
          PROVE  revisions'[versions'[j].source][versions'[j].package].version = j
      <4>1. CASE j = i
            BY <1>5, <3>1, <4>1
      <4>2. CASE j \in Ids
        <5>1. versions'[j] = versions[j] /\ versions[j] \in Versions
              BY <1>4, <1>5, <4>2 DEF Ids
        <5>2. revisions[versions[j].source][versions[j].package].version = j
              BY <3>3, <4>2, <5>1 DEF IInv, Paired
        <5>3. versions[j].source # q.source \/ versions[j].package # q.package
              BY <1>2, <2>2, <4>2, <5>2 DEF Ids
        <5>4. versions[j].source \in Sources /\ versions[j].package \in Packages
              BY <3>3, <5>1 DEF Versions
        <5> QED BY <3>1, <5>1, <5>2, <5>3, <5>4
      <4> QED BY <1>5, <4>1, <4>2
    <3> QED BY <3>2, <3>3 DEF Paired
  <2> QED BY <1>2, <2>1, <2>2
<1>9. \A s \in Sources \ {q.source} : revisions'[s] = revisions[s]
      BY <1>1, <1>2, <1>4
<1>10. i \in 1 .. Len(versions') /\ Len(versions') \in Len(versions) .. MaxVersions
       BY <1>1, <1>4, <1>5, MaxVersionsAssumption
<1>11. versions'[i].skill = q.skill
       BY <1>5
<1> HIDE DEF i, v
<1> QED BY <1>1, <1>5, <1>7, <1>8, <1>9, <1>10, <1>11, VersionWritten

\* A version that is found is only made the active one.
LEMMA ReuseKeeps ==
  ASSUME IInv, NeverConflicts, NEW c \in Calls, call[c].pc = "writing", Reuse(c), Free(c),
         index' = index, disabled' \subseteq Sources
  PROVE  IInv' /\ NeverConflicts'
<1> DEFINE q == call[c]
           i == IF q.op = "activate" THEN q.target ELSE q.found
<1>1. i # 0 /\ Succeeded(c, i) /\ versions' = versions /\ revisions' = revisions
      BY DEF Reuse
<1>2. i \in Ids /\ versions[i].skill = q.skill
  <2>1. CASE q.op = "activate"
        BY <2>1, Writing
  <2>2. CASE q.op # "activate"
    <3>1. q.op = "ingest" /\ q.source \in Sources /\ q.package \in Packages
          /\ i = revisions[q.source][q.package].version /\ versions[i].skill = q.skill
          BY <1>1, <2>2, Writing
    <3> QED BY <1>1, <3>1 DEF IInv, Paired
  <2> QED BY <2>1, <2>2
<1>3. Paired'
      BY <1>1 DEF IInv, Paired, Ids
<1>4. Len(versions) \in 0 .. MaxVersions /\ versions \in Seq(Versions)
      /\ revisions \in [Sources -> [Packages -> Revisions]]
      BY DEF IInv, TypeOK
<1>5. Len(versions') \in Len(versions) .. MaxVersions /\ i \in 1 .. Len(versions')
      BY <1>1, <1>2, <1>4, MaxVersionsAssumption DEF Ids
<1> HIDE DEF i
<1> QED BY <1>1, <1>2, <1>3, <1>4, <1>5, VersionWritten

\* A version of a source is refused by no index: its package has no version there yet,
\* and all that were active are cleared.  What is a duplicate is a direct version.
LEMMA NoRaceIsLost ==
  ASSUME IInv, NEW c \in Calls, call[c].pc = "writing", Refused(c)
  PROVE  call[c].op = "create" /\ Duplicate(call[c])
<1> DEFINE q == call[c]
<1>1. ~TwoActive(q)
      BY Writing DEF TwoActive
<1>2. q.op # "activate" /\ q.found = 0 /\ Duplicate(q)
      BY <1>1 DEF Refused
<1>3. ASSUME q.op = "ingest" PROVE FALSE
  <2>1. q.source \in Sources /\ revisions[q.source][q.package].version = 0
        BY <1>2, <1>3, Writing
  <2>2. PICK i \in Ids : versions[i].package = q.package /\ versions[i].source = q.source
        BY <1>2 DEF Duplicate, OfSkill
  <2>3. revisions[q.source][q.package].version = i
        BY <2>1, <2>2, NoneAssumption DEF IInv, Paired
  <2> QED BY <2>1, <2>3 DEF Ids
<1> QED BY <1>2, <1>3, Writing

\* So either kind of write keeps the invariant.
LEMMA WriteKeeps ==
  ASSUME IInv, NeverConflicts, NEW c \in Calls, Write(c)
  PROVE  IInv' /\ NeverConflicts'
<1>1. /\ call[c].pc = "writing" /\ Free(c) /\ index' = index
      /\ disabled' \subseteq Sources
      BY DEF Write, IInv, TypeOK
<1>2. CASE Insert(c) BY <1>1, <1>2, InsertKeeps
<1>3. CASE Reuse(c) BY <1>1, <1>3, ReuseKeeps
<1>4. CASE Refused(c)
  <2>1. call' = [call EXCEPT ![c] = NoCall] /\ UNCHANGED <<versions, active, revisions>>
        BY <1>1, <1>4, NoRaceIsLost DEF Refused, End
  <2>2. RequestOK(NoCall) /\ ReadHolds(NoCall)
        BY NoRequest DEF RequestOK, ReadHolds
  <2> QED BY <1>1, <2>1, <2>2, NoRequest, RequestMoves DEF LocksMove, Holds
<1> QED BY <1>2, <1>3, <1>4 DEF Write

-----------------------------------------------------------------------------
(* Every other step *)

\* A request that moves on with what it had in hand.
LEMMA GoesOn ==
  ASSUME IInv, NEW c \in Calls, NEW pc \in CallStates, To(c, pc)
  PROVE  LET q == call[c]  r == [call[c] EXCEPT !.pc = pc]
         IN /\ q \in Requests /\ r \in Requests /\ call' = [call EXCEPT ![c] = r] /\ r.pc = pc
            /\ r.op = q.op /\ r.skill = q.skill /\ r.source = q.source /\ r.package = q.package
            /\ r.activate = q.activate /\ r.target = q.target /\ r.card = q.card
BY DEF To, IInv, TypeOK, Requests

\* A request that ends, or that has a failure to record.
LEMMA EndKeeps ==
  ASSUME IInv, NeverConflicts, NEW c \in Calls, End(c),
         UNCHANGED <<versions, active, revisions, index>>, disabled' \subseteq Sources,
         Free(c) \/ (~Holds(call[c]) /\ locks' = locks)
  PROVE  IInv' /\ NeverConflicts'
<1>1. RequestOK(NoCall) /\ ReadHolds(NoCall)
      BY NoRequest DEF RequestOK, ReadHolds
<1> QED BY <1>1, NoRequest, RequestMoves DEF End, LocksMove, Holds

\* A request that fails gives up its locks and leaves the tables alone.
LEMMA FailedKeeps ==
  ASSUME IInv, NeverConflicts, NEW c \in Calls, Failed(c),
         UNCHANGED <<versions, active, revisions, index>>, disabled' \subseteq Sources,
         Free(c) \/ (~Holds(call[c]) /\ locks' = locks)
  PROVE  IInv' /\ NeverConflicts'
<1>1. CASE End(c)
      BY <1>1, EndKeeps
<1>2. CASE To(c, "recording")
  <2> DEFINE r == [call[c] EXCEPT !.pc = "recording"]
  <2>1. r \in Requests /\ call' = [call EXCEPT ![c] = r] /\ r.pc = "recording"
        BY <1>2, GoesOn DEF CallStates
  <2>2. RequestOK(r) /\ ReadHolds(r)
        BY <2>1 DEF RequestOK, ReadHolds
  <2> HIDE DEF r
  <2> QED BY <2>1, <2>2, RequestMoves DEF LocksMove, Holds
<1> QED BY <1>1, <1>2 DEF Failed

\* What it reads joins what it had in hand.
LEMMA ReadRecord ==
  ASSUME NEW q \in Requests, NEW i \in 0 .. MaxVersions, NEW S \in SUBSET (1 .. MaxVersions),
         NEW r, r = [q EXCEPT !.pc = "writing", !.found = i, !.cleared = S]
  PROVE  r \in Requests
BY DEF Requests, CallStates

\* What a transaction reads under its locks holds, and will until it writes.
LEMMA ReadKeeps ==
  ASSUME IInv, NeverConflicts, NEW c \in Calls, call[c].pc \in {"begun", "skill"},
         RequestOK(call[c]), UNCHANGED <<versions, active, revisions, disabled, index>>,
         NEW i \in 0 .. MaxVersions, NEW S \in SUBSET (1 .. MaxVersions),
         call[c].op = "ingest" => i = revisions[call[c].source][call[c].package].version,
         call[c].op # "ingest" => i = 0,
         i # 0 => versions[i].skill = call[c].skill,
         S = (IF call[c].activate THEN active \cap OfSkill(call[c].skill) ELSE {}),
         NEW r, r = [call[c] EXCEPT !.pc = "writing", !.found = i, !.cleared = S],
         call' = [call EXCEPT ![c] = r],
         \/ /\ call[c].pc = "begun" /\ call[c].source = None
            /\ locks[call[c].skill] = None /\ locks' = [locks EXCEPT ![call[c].skill] = c]
         \/ /\ call[c].pc = "skill" /\ call[c].source \in Sources
            /\ locks[call[c].source] = None /\ locks' = [locks EXCEPT ![call[c].source] = c]
  PROVE  IInv' /\ NeverConflicts'
<1> DEFINE q == call[c]
<1>1. /\ disabled' \subseteq Sources /\ q \in Requests
      /\ i \in 0 .. MaxVersions /\ S \in SUBSET (1 .. MaxVersions)
      BY DEF IInv, TypeOK
<1>2. /\ r \in Requests /\ r.pc = "writing" /\ r.found = i /\ r.cleared = S
      /\ r.op = q.op /\ r.skill = q.skill /\ r.source = q.source /\ r.package = q.package
      /\ r.activate = q.activate /\ r.target = q.target
  <2>1. r = [q EXCEPT !.pc = "writing", !.found = i, !.cleared = S] OBVIOUS
  <2>2. r \in Requests BY ONLY <1>1, <2>1, ReadRecord
  <2>3. /\ r.pc = "writing" /\ r.found = i /\ r.cleared = S
        /\ r.op = q.op /\ r.skill = q.skill /\ r.source = q.source /\ r.package = q.package
        /\ r.activate = q.activate /\ r.target = q.target
        BY ONLY <1>1, <2>1 DEF Requests
  <2> QED BY <2>2, <2>3
<1>3. RequestOK(r)
      BY <1>2 DEF RequestOK
<1>4. ReadHolds(r)
      BY <1>2 DEF ReadHolds
<1>5. LocksMove(c, r)
      BY <1>2 DEF LocksMove, Holds, RequestOK
<1> QED BY <1>1, <1>2, <1>3, <1>4, <1>5, RequestMoves

\* A transaction takes the lock of its skill; a direct one reads under it.
LEMMA LockSkillKeeps ==
  ASSUME IInv, NeverConflicts, NEW c \in Calls, LockSkill(c)
  PROVE  IInv' /\ NeverConflicts'
<1> DEFINE q == call[c]
<1>1. /\ q.pc = "begun" /\ q \in Requests /\ RequestOK(q) /\ locks[q.skill] = None
      /\ locks' = [locks EXCEPT ![q.skill] = c]
      /\ UNCHANGED <<versions, active, revisions, disabled, index>>
      BY DEF LockSkill, Begin, IInv, TypeOK, RequestsOK
<1>2. q.skill \in Skills /\ (q.op # "ingest" => q.source = None)
      BY <1>1 DEF RequestOK
<1>3. CASE q.op = "ingest"
  <2> DEFINE r == [q EXCEPT !.pc = "skill"]
  <2>1. To(c, "skill")
        BY <1>3 DEF LockSkill, Begin
  <2>2. /\ r \in Requests /\ call' = [call EXCEPT ![c] = r] /\ r.pc = "skill"
        /\ r.op = q.op /\ r.skill = q.skill /\ r.source = q.source /\ r.package = q.package
        BY <2>1, GoesOn DEF CallStates
  <2>3. RequestOK(r) /\ ReadHolds(r)
        BY <1>1, <1>3, <2>2 DEF RequestOK, ReadHolds
  <2>4. disabled' \subseteq Sources
        BY <1>1 DEF IInv, TypeOK
  <2> HIDE DEF r
  <2>5. LocksMove(c, r)
        BY <1>1, <1>2, <2>2 DEF LocksMove, Holds
  <2> QED BY <1>1, <2>2, <2>3, <2>4, <2>5, RequestMoves
<1>4. CASE q.op # "ingest"
  <2> DEFINE S == IF q.activate THEN active \cap OfSkill(q.skill) ELSE {}
  <2>1. call' = [call EXCEPT ![c] = [q EXCEPT !.pc = "writing", !.found = 0, !.cleared = S]]
        BY <1>4 DEF LockSkill, Begin, Read, IInv, TypeOK, Requests
  <2>2. active \subseteq 1 .. MaxVersions
        BY MaxVersionsAssumption DEF IInv, TypeOK, Ids
  <2>3. S \in SUBSET (1 .. MaxVersions)
        BY <2>2
  <2>4. 0 \in 0 .. MaxVersions
        BY MaxVersionsAssumption
  <2> HIDE DEF S
  <2> QED BY <1>1, <1>2, <1>4, <2>1, <2>3, <2>4, ReadKeeps DEF S
<1> QED BY <1>3, <1>4

\* Then that of its source, and reads.
LEMMA LockSourceKeeps ==
  ASSUME IInv, NeverConflicts, NEW c \in Calls, LockSource(c)
  PROVE  IInv' /\ NeverConflicts'
<1> DEFINE q == call[c]
           i == revisions[q.source][q.package].version
           S == IF q.activate THEN active \cap OfSkill(q.skill) ELSE {}
<1>1. /\ q.pc = "skill" /\ q \in Requests /\ RequestOK(q) /\ locks[q.source] = None /\ Read(c)
      /\ UNCHANGED <<versions, active, revisions, disabled, index>>
      BY DEF LockSource, IInv, TypeOK, RequestsOK
<1>2. /\ q.op = "ingest" /\ q.source \in Sources /\ q.package \in Packages
      BY <1>1 DEF RequestOK
<1>3. CASE Failed(c)
  <2>1. call'[c].pc # "writing"
        BY <1>3, NoRequest DEF Failed, To, End, IInv, TypeOK, Requests
  <2>2. Free(c) /\ disabled' \subseteq Sources
        BY <1>1, <2>1 DEF LockSource, Free, IInv, TypeOK
  <2> QED BY <1>1, <1>3, <2>2, FailedKeeps
<1>4. CASE /\ SameIdentity(q)
           /\ call' = [call EXCEPT ![c] = [q EXCEPT !.pc = "writing", !.found = i, !.cleared = S]]
  <2>1. i \in 0 .. MaxVersions
        BY <1>2 DEF IInv, TypeOK, Revisions
  <2>2. active \subseteq 1 .. MaxVersions
        BY MaxVersionsAssumption DEF IInv, TypeOK, Ids
  <2>3. S \in SUBSET (1 .. MaxVersions)
        BY <2>2
  <2>4. i # 0 => versions[i].skill = q.skill
        BY <1>4 DEF SameIdentity
  <2>5. call'[c].pc = "writing"
        BY <1>1, <1>4 DEF IInv, TypeOK, Requests
  <2>6. locks' = [locks EXCEPT ![q.source] = c]
        BY <2>5 DEF LockSource
  <2> HIDE DEF i, S
  <2> QED BY <1>1, <1>2, <1>4, <2>1, <2>3, <2>4, <2>6, ReadKeeps DEF i, S
<1> QED BY <1>1, <1>2, <1>3, <1>4 DEF Read

\* A request begins with what its caller names.
LEMMA StartKeeps ==
  ASSUME IInv, NeverConflicts, NEW c \in Calls, NEW r \in Requests, Start(c, r), Requested,
         r.pc \in {"begun", "fetching", "listing"}, RequestOK(r)
  PROVE  IInv' /\ NeverConflicts'
<1>1. /\ call' = [call EXCEPT ![c] = r] /\ locks' = locks /\ disabled' \subseteq Sources
      /\ UNCHANGED <<versions, active, revisions, index>>
      /\ ~Holds(call[c]) /\ ~Holds(r)
      BY DEF Start, Requested, Holds, IInv, TypeOK
<1>2. ReadHolds(r)
      BY DEF ReadHolds
<1> QED BY <1>1, <1>2, RequestMoves DEF LocksMove

\* A request begins without locks.
LEMMA AskKeeps ==
  ASSUME IInv, NeverConflicts, NEW c \in Calls, Ask(c)
  PROVE  IInv' /\ NeverConflicts'
<1> USE NoneAssumption, MaxVersionsAssumption
<1>1. ASSUME NEW a \in BOOLEAN, NEW p \in Packages, NEW s \in Skills, CreateVersion(c, s, p, a)
      PROVE  IInv' /\ NeverConflicts'
  <2> DEFINE r == [NoCall EXCEPT !.pc = "begun", !.op = "create", !.skill = s,
                                 !.package = p, !.activate = a]
  <2>1. r \in Requests
        BY NoRequest DEF Requests, CallStates
  <2>2. RequestOK(r) /\ r.pc = "begun"
        BY DEF RequestOK, NoCall
  <2> HIDE DEF r
  <2> QED BY <1>1, <2>1, <2>2, StartKeeps DEF CreateVersion, r
<1>2. ASSUME NEW i \in Ids, ActivateVersion(c, i) PROVE IInv' /\ NeverConflicts'
  <2> DEFINE r == [NoCall EXCEPT !.pc = "begun", !.op = "activate", !.target = i,
                                 !.skill = versions[i].skill, !.activate = TRUE]
  <2>1. versions[i].skill \in Skills /\ i \in 0 .. MaxVersions
    <3>1. versions[i] \in Versions /\ Len(versions) \in 0 .. MaxVersions
          BY DEF IInv, TypeOK, Ids
    <3> QED BY <3>1 DEF Ids, Versions
  <2>2. r \in Requests
        BY <2>1, NoRequest DEF Requests, CallStates
  <2>3. RequestOK(r) /\ r.pc = "begun"
        BY <2>1 DEF RequestOK, NoCall
  <2> HIDE DEF r
  <2> QED BY <1>2, <2>2, <2>3, StartKeeps DEF ActivateVersion, r
<1>3. ASSUME NEW a \in BOOLEAN, NEW p \in Packages, NEW s \in Local, NEW t \in Snapshots,
             SubmitLocalSnapshot(c, s, p, t, a)
      PROVE  IInv' /\ NeverConflicts'
  <2>1. PICK n \in Skills : Start(c, [NoCall EXCEPT !.pc = "begun", !.op = "ingest", !.skill = n,
                   !.package = p, !.source = s, !.snapshot = t,
                   !.activate = a, !.index = TRUE])
        BY <1>3 DEF SubmitLocalSnapshot
  <2> DEFINE r == [NoCall EXCEPT !.pc = "begun", !.op = "ingest", !.skill = n,
                   !.package = p, !.source = s, !.snapshot = t,
                   !.activate = a, !.index = TRUE]
  <2>2. r \in Requests
        BY NoRequest DEF Requests, CallStates, Sources
  <2>3. RequestOK(r) /\ r.pc = "begun"
        BY DEF RequestOK, NoCall, Sources
  <2> HIDE DEF r
  <2> QED BY <1>3, <2>1, <2>2, <2>3, StartKeeps DEF SubmitLocalSnapshot, r
<1>4. ASSUME NEW a \in BOOLEAN, NEW s \in Git, SyncGitSource(c, s, a)
      PROVE  IInv' /\ NeverConflicts'
  <2> DEFINE r == [NoCall EXCEPT !.pc = "fetching", !.op = "ingest", !.source = s,
                                 !.activate = a, !.index = TRUE]
  <2>1. r \in Requests
        BY NoRequest DEF Requests, CallStates, Sources
  <2>2. RequestOK(r) /\ r.pc = "fetching"
        BY DEF RequestOK, NoCall
  <2> HIDE DEF r
  <2> QED BY <1>4, <2>1, <2>2, StartKeeps DEF SyncGitSource, r
<1>5. ASSUME NEW s \in Skills, IndexActiveVersions(c, s) PROVE IInv' /\ NeverConflicts'
  <2> DEFINE r == [NoCall EXCEPT !.pc = "listing", !.op = "index", !.skill = s]
  <2>1. r \in Requests
        BY NoRequest DEF Requests, CallStates
  <2>2. RequestOK(r) /\ r.pc = "listing"
        BY DEF RequestOK, NoCall
  <2> HIDE DEF r
  <2> QED BY <1>5, <2>1, <2>2, StartKeeps DEF IndexActiveVersions, r
<1> QED BY <1>1, <1>2, <1>3, <1>4, <1>5 DEF Ask

\* What was fetched is a package, for the skill it names or for another.
LEMMA FetchKeeps ==
  ASSUME IInv, NeverConflicts, NEW c \in Calls, Fetch(c)
  PROVE  IInv' /\ NeverConflicts'
<1> DEFINE q == call[c]
<1>1. /\ q \in Requests /\ q.pc = "fetching" /\ q.op = "ingest" /\ q.source \in Git
      /\ UNCHANGED <<versions, active, revisions, index, locks>> /\ disabled' \subseteq Sources
      BY DEF Fetch, Requested, IInv, TypeOK, RequestsOK, RequestOK
<1>2. PICK k \in Commits, n \in Skills :
        call' = [call EXCEPT ![c].pc = "begun", ![c].commit = k,
                             ![c].package = Tree(q.source, k), ![c].skill = n]
      BY DEF Fetch
<1> DEFINE r == [q EXCEPT !.pc = "begun", !.commit = k, !.package = Tree(q.source, k), !.skill = n]
<1>3. Tree(q.source, k) \in Packages
      BY <1>1, TreeAssumption
<1>4. /\ r \in Requests /\ r.pc = "begun" /\ r.op = "ingest" /\ r.source = q.source
      /\ r.skill = n /\ r.package \in Packages
      BY <1>1, <1>3 DEF Requests, CallStates
<1>5. call' = [call EXCEPT ![c] = r]
      BY <1>2 DEF IInv, TypeOK, Requests
<1> HIDE DEF r
<1>6. RequestOK(r) /\ ReadHolds(r)
      BY <1>1, <1>4 DEF RequestOK, ReadHolds, Sources
<1> QED BY <1>1, <1>4, <1>5, <1>6, RequestMoves DEF LocksMove, Holds

\* An error or a crash: the transaction is rolled back and its locks are free.
LEMMA FailKeeps ==
  ASSUME IInv, NeverConflicts, NEW c \in Calls, Fail(c)
  PROVE  IInv' /\ NeverConflicts'
<1>1. /\ Free(c) /\ UNCHANGED <<versions, active, revisions, index>> /\ disabled' \subseteq Sources
      BY DEF Fail, IInv, TypeOK
<1> QED BY <1>1, EndKeeps, FailedKeeps DEF Fail

\* After its transaction a request compiles, and looks for what is active by then.
LEMMA CompileKeeps ==
  ASSUME IInv, NeverConflicts, NEW c \in Calls, Compile(c)
  PROVE  IInv' /\ NeverConflicts'
<1>1. /\ call[c].pc = "compiling" /\ RequestOK(call[c]) /\ ~Holds(call[c])
      /\ UNCHANGED <<versions, active, revisions, disabled, index, locks>>
      /\ disabled' \subseteq Sources
      BY DEF Compile, Holds, IInv, TypeOK, RequestsOK
<1>2. CASE To(c, "listing")
  <2> DEFINE r == [call[c] EXCEPT !.pc = "listing"]
  <2>1. /\ r \in Requests /\ call' = [call EXCEPT ![c] = r] /\ r.pc = "listing"
        /\ r.skill = call[c].skill
        BY <1>2, GoesOn DEF CallStates
  <2>2. RequestOK(r) /\ ReadHolds(r)
        BY <1>1, <2>1 DEF RequestOK, ReadHolds
  <2> HIDE DEF r
  <2> QED BY <1>1, <2>1, <2>2, RequestMoves DEF LocksMove, Holds
<1>3. CASE End(c)
      BY <1>1, <1>3, EndKeeps
<1> QED BY <1>2, <1>3 DEF Compile

\* Reading the active versions changes none.
LEMMA ListActiveKeeps ==
  ASSUME IInv, NeverConflicts, NEW c \in Calls, ListActive(c)
  PROVE  IInv' /\ NeverConflicts'
<1> DEFINE q == call[c]
<1>1. /\ q.pc = "listing" /\ q \in Requests /\ RequestOK(q) /\ ~Holds(q)
      /\ UNCHANGED <<versions, active, revisions, disabled, index, locks>>
      /\ disabled' \subseteq Sources
      BY DEF ListActive, Holds, IInv, TypeOK, RequestsOK
<1>2. ASSUME NEW i \in active \cap OfSkill(q.skill),
             call' = [call EXCEPT ![c].pc = "indexing", ![c].card = i]
      PROVE  IInv' /\ NeverConflicts'
  <2> DEFINE r == [q EXCEPT !.pc = "indexing", !.card = i]
  <2>1. i \in Ids /\ versions[i].skill = q.skill
        BY DEF OfSkill
  <2>2. i \in 0 .. MaxVersions
        BY <2>1, MaxVersionsAssumption DEF IInv, TypeOK, Ids
  <2>3. r \in Requests /\ r.pc = "indexing" /\ r.card = i /\ r.skill = q.skill
        BY <1>1, <2>2 DEF Requests, CallStates
  <2>4. call' = [call EXCEPT ![c] = r]
        BY <1>2 DEF IInv, TypeOK, Requests
  <2> HIDE DEF r
  <2>5. RequestOK(r) /\ ReadHolds(r)
        BY <1>1, <2>1, <2>3 DEF RequestOK, ReadHolds
  <2> QED BY <1>1, <2>3, <2>4, <2>5, RequestMoves DEF LocksMove, Holds
<1>3. CASE End(c)
      BY <1>1, <1>3, EndKeeps
<1> QED BY <1>2, <1>3 DEF ListActive

\* A card is written under the skill of its version, or not at all.
LEMMA IndexKeeps ==
  ASSUME IInv, NeverConflicts, NEW c \in Calls, Index(c) \/ IndexFails(c)
  PROVE  IInv' /\ NeverConflicts'
<1> DEFINE q == call[c]
<1>1. /\ q.pc = "indexing" /\ q.skill \in Skills /\ ~Holds(q)
      /\ q.card \in Ids /\ versions[q.card].skill = q.skill
      /\ UNCHANGED <<versions, active, revisions, disabled, locks>> /\ End(c)
      BY DEF Index, IndexFails, Holds, IInv, TypeOK, RequestsOK, RequestOK
<1>2. PICK i \in {0, q.card} : index' \in {index, [index EXCEPT ![q.skill] = i]}
      BY <1>1 DEF Index, IndexFails
<1>3. q.card \in 0 .. MaxVersions /\ 0 \in 0 .. MaxVersions
      BY <1>1, MaxVersionsAssumption DEF IInv, TypeOK, Ids
<1>4. index' \in [Skills -> 0 .. MaxVersions]
      BY <1>1, <1>2, <1>3 DEF IInv, TypeOK
<1>5. IndexOK'
      BY <1>1, <1>2, <1>4 DEF IInv, TypeOK, IndexOK, OfSkill, Ids
<1>6. /\ call' = [call EXCEPT ![c] = NoCall] /\ call' \in [Calls -> Requests]
      /\ \A d \in Calls \ {c} : call'[d] = call[d]
      /\ call'[c] = NoCall
      BY <1>1, NoRequest DEF End, IInv, TypeOK
<1>7. LocksOK'
      BY <1>1, <1>6, NoRequest, LocksKept DEF IInv, LocksMove, Holds
<1>8. TypeOK'
      BY <1>1, <1>4, <1>6 DEF IInv, TypeOK, Ids
<1>9. (OneActive /\ Paired)'
      BY <1>1 DEF IInv, OneActive, Paired, Ids
<1>10. RequestsOK'
  <2> SUFFICES ASSUME NEW d \in Calls PROVE (ReadHolds(call[d]) /\ RequestOK(call[d]))'
      BY DEF RequestsOK
  <2>1. ReadHolds(call'[d]) /\ RequestOK(call'[d])
        BY <1>6, NoRequest DEF IInv, RequestsOK, ReadHolds, RequestOK
  <2> QED BY <1>1, <2>1 DEF ReadHolds, RequestOK, OfSkill, Ids
<1>11. NeverConflicts'
       BY <1>6, NoRequest DEF NeverConflicts
<1> QED BY <1>5, <1>7, <1>8, <1>9, <1>10, <1>11 DEF IInv

\* Every step keeps the invariant and meets no unique index.
LEMMA StepIInv == IInv /\ NeverConflicts /\ [Next]_vars => IInv' /\ NeverConflicts'
<1> SUFFICES ASSUME IInv, NeverConflicts, [Next]_vars PROVE IInv' /\ NeverConflicts'
    OBVIOUS
<1>1. ASSUME NEW c \in Calls, Step(c) PROVE IInv' /\ NeverConflicts'
  <2>1. CASE RecordGitSyncFailure(c)
        BY <2>1, EndKeeps DEF RecordGitSyncFailure, Holds, IInv, TypeOK
  <2> QED BY <1>1, <2>1, FetchKeeps, LockSkillKeeps, LockSourceKeeps, WriteKeeps, FailKeeps,
             CompileKeeps, ListActiveKeeps, IndexKeeps DEF Step
<1>2. ASSUME NEW s \in Sources, NEW off \in BOOLEAN, UpsertSource(s, off)
      PROVE  IInv' /\ NeverConflicts'
  <2>1. disabled' \subseteq Sources /\ UNCHANGED <<versions, active, revisions, index, locks, call>>
        BY <1>2 DEF UpsertSource, IInv, TypeOK
  <2>2. TypeOK' /\ OneActive' /\ Paired' /\ IndexOK' /\ LocksOK' /\ NeverConflicts'
        BY <2>1 DEF IInv, TypeOK, OneActive, Paired, IndexOK, LocksOK, NeverConflicts, OfSkill, Ids
  <2>3. RequestsOK'
        BY <2>1 DEF IInv, RequestsOK, ReadHolds, RequestOK, OfSkill, Ids
  <2> QED BY <2>2, <2>3 DEF IInv
<1>3. CASE UNCHANGED vars
  <2>1. TypeOK' /\ OneActive' /\ Paired' /\ IndexOK' /\ LocksOK' /\ NeverConflicts'
        BY <1>3 DEF vars, IInv, TypeOK, OneActive, Paired, IndexOK, LocksOK, NeverConflicts,
                    OfSkill, Ids
  <2>2. RequestsOK'
        BY <1>3 DEF vars, IInv, RequestsOK, ReadHolds, RequestOK, OfSkill, Ids
  <2> QED BY <2>1, <2>2 DEF IInv
<1> QED BY <1>1, <1>2, <1>3, AskKeeps DEF Next

\* One active version a skill, versions and revisions that name each other, search rows
\* of their own skill, and reads that hold until they are used (CreateVersion,
\* ActivateVersion, IngestSourceRevision, IndexActiveVersions).
THEOREM Invariance == Spec => []IInv
<1>1. IInv /\ NeverConflicts /\ [Next]_vars => (IInv /\ NeverConflicts)'
      BY StepIInv
<1> QED BY <1>1, InitIInv, PTL DEF Spec

\* No request is refused, and no source marked as failed, because another one was at
\* work: the two advisory locks are enough (lockSkillTx, lockSourceTx).
THEOREM NoRaceLost == Spec => []NeverConflicts
<1>1. IInv /\ NeverConflicts /\ [Next]_vars => (IInv /\ NeverConflicts)'
      BY StepIInv
<1> QED BY <1>1, InitIInv, PTL DEF Spec

\* A skill has one active version at most (idx_skill_versions_account_active is never
\* what sees to it).
THEOREM OneActiveVersion == Spec => []OneActive
<1>1. IInv => OneActive BY DEF IInv
<1> QED BY <1>1, Invariance, PTL

-----------------------------------------------------------------------------
\* Recursion and orders.

\* Induction over the naturals, the statement being the set of those it holds of.
LEMMA InductionOnNat ==
  ASSUME NEW S, 0 \in S, \A n \in Nat : n \in S => n + 1 \in S
  PROVE  Nat \subseteq S
<1> DEFINE T == Nat \ S
           R == {r \in Nat \X Nat : r[1] < r[2]}
<1> SUFFICES ASSUME T # {} PROVE FALSE
    OBVIOUS
<1>1. IsWellFoundedOn(R, Nat)
      BY NatLessThanWellFounded DEF OpToRel
<1>2. \E n \in T : \A m \in T : ~(<<m, n>> \in R)
  <2>1. T \subseteq Nat
        OBVIOUS
  <2> HIDE DEF T, R
  <2> QED BY <1>1, <2>1, WFMin
<1>3. PICK n \in T : \A m \in T : ~(m < n)
      BY <1>2
<1>4. n # 0 /\ n - 1 \in Nat /\ n - 1 \in S
      BY <1>3
<1> QED BY <1>3, <1>4

\* A function whose values follow one from the other.
Recurs(f, c, h, N) == f[0] = c /\ \A n \in 1 .. N : f[n] = h[<<f[n - 1], n>>]

\* A function whose values follow one from the other exists.
LEMMA Recursion ==
  ASSUME NEW V, NEW c \in V, NEW h \in [V \X Nat -> V], NEW N \in Nat
  PROVE  \E f \in [0 .. N -> V] : Recurs(f, c, h, N)
<1> DEFINE F(n) == {f \in [0 .. n -> V] :
                      /\ f[0] = c
                      /\ \A i \in 1 .. n : f[i] = h[<<f[i - 1], i>>]}
           S == {n \in Nat : F(n) # {}}
<1>1. 0 \in S
  <2>1. [i \in 0 .. 0 |-> c] \in F(0)
        OBVIOUS
  <2> QED BY <2>1
<1>2. ASSUME NEW n \in Nat, n \in S
      PROVE  n + 1 \in S
  <2>1. PICK f \in F(n) : TRUE
        BY <1>2
  <2> DEFINE g == [i \in 0 .. n + 1 |-> IF i = n + 1 THEN h[<<f[n], n + 1>>] ELSE f[i]]
  <2>2. g \in F(n + 1)
    <3>1. f[n] \in V /\ h[<<f[n], n + 1>>] \in V
          OBVIOUS
    <3>2. g \in [0 .. n + 1 -> V] /\ g[0] = c
          BY <3>1
    <3>3. ASSUME NEW i \in 1 .. n + 1
          PROVE  g[i] = h[<<g[i - 1], i>>]
          OBVIOUS
    <3> QED BY <3>2, <3>3
  <2> HIDE DEF F
  <2> QED BY <2>2
<1>3. Nat \subseteq S
  <2> HIDE DEF S
  <2> QED BY <1>1, <1>2, InductionOnNat
<1>4. PICK f \in F(N) : TRUE
      BY <1>3
<1> QED BY <1>4 DEF Recurs

\* A non-empty set of numbers up to one has a greatest.
LEMMA Greatest ==
  ASSUME NEW N \in Nat, NEW M \in SUBSET (0 .. N), M # {}
  PROVE  \E m \in M : \A k \in M : k <= m
<1> DEFINE S == {n \in Nat : \A L \in SUBSET (0 .. n) : L # {} => \E m \in L : \A k \in L : k <= m}
<1>1. 0 \in S
  <2>1. ASSUME NEW L \in SUBSET (0 .. 0), L # {}
        PROVE  \E m \in L : \A k \in L : k <= m
    <3>1. PICK m \in L : TRUE
          BY <2>1
    <3> QED BY <2>1, <3>1
  <2> QED BY <2>1
<1>2. ASSUME NEW n \in Nat, n \in S
      PROVE  n + 1 \in S
  <2> SUFFICES ASSUME NEW L \in SUBSET (0 .. n + 1), L # {}
               PROVE  \E m \in L : \A k \in L : k <= m
      OBVIOUS
  <2>1. CASE n + 1 \in L
        BY <2>1
  <2>2. CASE n + 1 \notin L
    <3>1. L \in SUBSET (0 .. n)
          BY <2>2
    <3> QED BY <1>2, <3>1
  <2> QED BY <2>1, <2>2
<1>3. Nat \subseteq S
  <2> HIDE DEF S
  <2> QED BY <1>1, <1>2, InductionOnNat
<1> QED BY <1>3

\* Induction over the numbers up to one.
LEMMA InductionUpTo ==
  ASSUME NEW N \in Nat, NEW S, 0 \in S, \A n \in 0 .. N - 1 : n \in S => n + 1 \in S
  PROVE  0 .. N \subseteq S
<1> DEFINE T == {n \in Nat : n <= N => n \in S}
<1>1. 0 \in T
      OBVIOUS
<1>2. \A n \in Nat : n \in T => n + 1 \in T
      OBVIOUS
<1> HIDE DEF T
<1>3. Nat \subseteq T
      BY <1>1, <1>2, InductionOnNat
<1> QED BY <1>3 DEF T

\* A non-empty set of numbers has a least.
LEMMA Least ==
  ASSUME NEW M \in SUBSET Nat, M # {}
  PROVE  \E m \in M : \A k \in M : m <= k
<1> DEFINE S == {n \in Nat : \A k \in M : n <= k}
<1> SUFFICES ASSUME \A m \in M : \E k \in M : ~(m <= k)
             PROVE  FALSE
    OBVIOUS
<1>1. 0 \in S
      OBVIOUS
<1>2. ASSUME NEW n \in Nat, n \in S
      PROVE  n + 1 \in S
  <2>1. n \notin M
        BY <1>2
  <2>2. \A k \in M : k # n /\ n <= k /\ k \in Nat
        BY <1>2, <2>1
  <2> QED BY <2>2
<1> HIDE DEF S
<1>3. Nat \subseteq S
      BY <1>1, <1>2, InductionOnNat
<1>4. PICK m \in M : TRUE
      OBVIOUS
<1>5. m + 1 \in S
      BY <1>3
<1> QED BY <1>4, <1>5 DEF S

-----------------------------------------------------------------------------
\* Selections.

\* A sequence is what another has at some places, which e counts in order.
Takes(p, s, I, e) ==
  /\ e \in [1 .. Len(p) -> I]
  /\ \A i \in I : \E k \in 1 .. Len(p) : e[k] = i
  /\ \A j, k \in 1 .. Len(p) : j < k => e[j] < e[k]
  /\ \A k \in 1 .. Len(p) : p[k] = s[e[k]]

\* One more place, after the others.
LEMMA TakesOneMore ==
  ASSUME NEW T, NEW s \in Seq(T), NEW n \in 1 .. Len(s), NEW I \in SUBSET (1 .. n - 1),
         NEW p \in Seq(T), NEW e, Takes(p, s, I, e)
  PROVE  \E d : Takes(Append(p, s[n]), s, I \cup {n}, d)
<1> DEFINE q == Append(p, s[n])
           d == [k \in 1 .. Len(p) + 1 |-> IF k = Len(p) + 1 THEN n ELSE e[k]]
<1>1. s[n] \in T /\ Len(p) \in Nat /\ n \in Nat
      BY LenProperties, ElementOfSeq
<1>2. /\ Len(q) = Len(p) + 1 /\ q[Len(p) + 1] = s[n]
      /\ \A k \in 1 .. Len(p) : q[k] = p[k]
      BY <1>1, AppendProperties
<1>3. ASSUME NEW k \in 1 .. Len(p)
      PROVE  d[k] = e[k] /\ e[k] \in I /\ e[k] < n
  <2>1. d[k] = e[k]
        BY <1>1
  <2> HIDE DEF d
  <2>2. e[k] \in I
        BY DEF Takes
  <2>3. e[k] \in 1 .. n - 1
        BY <2>2
  <2> QED BY <1>1, <2>1, <2>2, <2>3
<1>4. d \in [1 .. Len(p) + 1 -> I \cup {n}] /\ d[Len(p) + 1] = n
  <2>1. ASSUME NEW k \in 1 .. Len(p) + 1
        PROVE  d[k] \in I \cup {n}
    <3>1. CASE k = Len(p) + 1
          BY <3>1
    <3>2. CASE k \in 1 .. Len(p)
          BY <1>3, <3>2
    <3> QED BY <1>1, <3>1, <3>2
  <2> QED BY <1>1, <2>1
<1> HIDE DEF q, d
<1>5. \A i \in I \cup {n} : \E k \in 1 .. Len(q) : d[k] = i
  <2>1. n = d[Len(q)] /\ Len(q) \in 1 .. Len(q)
        BY <1>1, <1>2, <1>4
  <2>2. ASSUME NEW i \in I
        PROVE  \E k \in 1 .. Len(q) : d[k] = i
    <3>1. PICK k \in 1 .. Len(p) : e[k] = i
          BY DEF Takes
    <3> QED BY <1>1, <1>2, <1>3, <3>1
  <2> QED BY <2>1, <2>2
<1>6. \A j, k \in 1 .. Len(q) : j < k => d[j] < d[k]
      BY <1>1, <1>2, <1>3, <1>4 DEF Takes
<1>7. \A k \in 1 .. Len(q) : q[k] = s[d[k]]
  <2> TAKE k \in 1 .. Len(q)
  <2>1. CASE k = Len(p) + 1
        BY <1>2, <1>4, <2>1
  <2>2. CASE k \in 1 .. Len(p)
    <3>1. q[k] = p[k] /\ d[k] = e[k] /\ p[k] = s[e[k]]
          BY <1>2, <1>3, <2>2 DEF Takes
    <3> QED BY <3>1
  <2> QED BY <1>1, <1>2, <2>1, <2>2
<1>8. Takes(q, s, I \cup {n}, d)
      BY <1>2, <1>4, <1>5, <1>6, <1>7 DEF Takes
<1> QED BY <1>8 DEF q

\* Picked takes what a sequence has at those of its places.
LEMMA PickedTakes ==
  ASSUME NEW T, NEW s \in Seq(T), NEW I
  PROVE  /\ Picked(s, I) \in Seq(T)
         /\ \E e : Takes(Picked(s, I), s, I \cap 1 .. Len(s), e)
<1> DEFINE N == Len(s)
           V == Seq(T)
           h == [r \in V \X Nat |-> IF r[2] \in I \cap 1 .. N THEN Append(r[1], s[r[2]]) ELSE r[1]]
           Is(f) == f = [n \in 0 .. N |->
                           IF n = 0 THEN <<>>
                           ELSE IF n \in I THEN Append(f[n - 1], s[n]) ELSE f[n - 1]]
<1>1. N \in Nat /\ DOMAIN s = 1 .. N /\ \A n \in 1 .. N : s[n] \in T
      BY LenProperties, ElementOfSeq
<1>2. <<>> \in V /\ h \in [V \X Nat -> V]
  <2>1. ASSUME NEW r \in V \X Nat
        PROVE  h[r] \in V
        BY <1>1, AppendProperties
  <2> QED BY <2>1
<1>3. PICK f \in [0 .. N -> V] : Recurs(f, <<>>, h, N)
  <2> HIDE DEF V, h, N
  <2> QED BY <1>1, <1>2, Recursion
<1>4. /\ f[0] = <<>>
      /\ \A n \in 1 .. N : f[n] = IF n \in I THEN Append(f[n - 1], s[n]) ELSE f[n - 1]
  <2>1. ASSUME NEW n \in 1 .. N
        PROVE  f[n] = IF n \in I THEN Append(f[n - 1], s[n]) ELSE f[n - 1]
    <3>1. n \in Nat /\ n - 1 \in 0 .. N
          BY <1>1
    <3> HIDE DEF V, h, N
    <3>2. f[n] = h[<<f[n - 1], n>>] /\ <<f[n - 1], n>> \in V \X Nat
          BY <1>3, <3>1 DEF Recurs
    <3> QED BY <3>2 DEF h
  <2> QED BY <1>3, <2>1 DEF Recurs
<1>5. Is(f)
  <2>1. N \in Nat
        BY <1>1
  <2> HIDE DEF V, h, N
  <2>2. \A n \in 0 .. N : f[n] = IF n = 0 THEN <<>>
                                 ELSE IF n \in I THEN Append(f[n - 1], s[n]) ELSE f[n - 1]
    <3> TAKE n \in 0 .. N
    <3>1. CASE n = 0
          BY <1>4, <3>1
    <3>2. CASE n # 0
      <4>1. n \in 1 .. N
            BY <2>1, <3>2
      <4> QED BY <1>4, <3>2, <4>1
    <3> QED BY <3>1, <3>2
  <2> QED BY <1>3, <2>2
<1> DEFINE w == CHOOSE g : Is(g)
<1>6. Picked(s, I) = w[N]
      BY DEF Picked
<1>7. Is(w)
  <2> HIDE DEF Is
  <2> QED BY <1>5
<1> HIDE DEF w
<1>8. /\ w[0] = <<>>
      /\ \A n \in 1 .. N : w[n] = IF n \in I THEN Append(w[n - 1], s[n]) ELSE w[n - 1]
  <2>1. N \in Nat
        BY <1>1
  <2> HIDE DEF N
  <2>2. \A n \in 0 .. N : w[n] = IF n = 0 THEN <<>>
                                 ELSE IF n \in I THEN Append(w[n - 1], s[n]) ELSE w[n - 1]
        BY <1>7, Zenon
  <2>3. w[0] = <<>>
        BY <2>1, <2>2
  <2>4. ASSUME NEW n \in 1 .. N
        PROVE  w[n] = IF n \in I THEN Append(w[n - 1], s[n]) ELSE w[n - 1]
    <3>1. n \in 0 .. N /\ n # 0
          BY <2>1
    <3> QED BY <2>2, <3>1
  <2> QED BY <2>3, <2>4
<1> HIDE DEF Is, h
<1> DEFINE S == {n \in Nat : w[n] \in V /\ \E e : Takes(w[n], s, I \cap 1 .. n, e)}
<1>9. 0 \in S
  <2> DEFINE e == [k \in 1 .. 0 |-> k]
  <2>1. Takes(<<>>, s, I \cap 1 .. 0, e)
        BY DEF Takes
  <2> HIDE DEF e
  <2> QED BY <1>8, <2>1
<1>10. ASSUME NEW n \in 0 .. N - 1, n \in S
       PROVE  n + 1 \in S
  <2>1. n + 1 \in 1 .. N /\ (n + 1) - 1 = n /\ n + 1 \in Nat
        BY <1>1
  <2>2. w[n] \in V /\ \E e : Takes(w[n], s, I \cap 1 .. n, e)
        BY <1>10
  <2>3. CASE n + 1 \in I
    <3>1. w[n + 1] = Append(w[n], s[n + 1]) /\ I \cap 1 .. n + 1 = (I \cap 1 .. n) \cup {n + 1}
      <4>1. w[n + 1] = Append(w[n], s[n + 1])
            BY <1>8, <2>1, <2>3
      <4>2. \A i : i \in 1 .. n + 1 <=> i \in 1 .. n \/ i = n + 1
            BY <2>1
      <4> QED BY <2>3, <4>1, <4>2
    <3>2. PICK e : Takes(w[n], s, I \cap 1 .. n, e)
          BY <2>2
    <3>3. \E d : Takes(Append(w[n], s[n + 1]), s, (I \cap 1 .. n) \cup {n + 1}, d)
      <4>1. I \cap 1 .. n \in SUBSET (1 .. (n + 1) - 1)
            BY <2>1
      <4> QED BY <2>1, <2>2, <3>2, <4>1, TakesOneMore
    <3>4. w[n + 1] \in V
          BY <1>1, <2>1, <2>2, <3>1, AppendProperties
    <3> QED BY <2>1, <3>1, <3>3, <3>4
  <2>4. CASE n + 1 \notin I
    <3>1. w[n + 1] = w[n] /\ I \cap 1 .. n + 1 = I \cap 1 .. n
          BY <1>8, <2>1, <2>4
    <3> QED BY <2>1, <2>2, <3>1
  <2> QED BY <2>3, <2>4
<1>11. N \in S
  <2>1. N \in Nat
        BY <1>1
  <2> HIDE DEF S, N
  <2>2. 0 .. N \subseteq S
        BY <1>9, <1>10, <2>1, InductionUpTo
  <2> QED BY <2>1, <2>2
<1> QED BY <1>6, <1>11

-----------------------------------------------------------------------------
\* Packs: items in a budget.

\* What a sum of sizes is.
Adds(sum, items) ==
  /\ sum \in [0 .. Len(items) -> Nat]
  /\ sum[0] = 0
  /\ \A n \in 1 .. Len(items) : sum[n] = sum[n - 1] + items[n].size

\* The items of a provider have sizes.
LEMMA ItemsAreOfASize ==
  ASSUME NEW items \in Seq(Packing!Items)
  PROVE  /\ Len(items) \in Nat
         /\ \A n \in 1 .. Len(items) : items[n] \in Packing!Items /\ items[n].size \in Nat
<1>1. \A n \in 1 .. Len(items) : items[n] \in Packing!Items
      BY ElementOfSeq
<1> QED BY <1>1, LenProperties DEF Packing!Items

\* The sizes of a list of items add up.
LEMMA SizesAdd ==
  ASSUME NEW items \in Seq(Packing!Items)
  PROVE  Adds(Packing!Sizes(items), items)
<1> DEFINE N == Len(items)
           h == [r \in Nat \X Nat |-> IF r[2] \in 1 .. N THEN r[1] + items[r[2]].size ELSE r[1]]
           Is(f) == f = [n \in 0 .. N |-> IF n = 0 THEN 0 ELSE f[n - 1] + items[n].size]
<1>1. N \in Nat /\ \A n \in 1 .. N : items[n].size \in Nat
      BY ItemsAreOfASize
<1>2. h \in [Nat \X Nat -> Nat]
      BY <1>1
<1>3. PICK f \in [0 .. N -> Nat] : Recurs(f, 0, h, N)
  <2> HIDE DEF h, N
  <2> QED BY <1>1, <1>2, Recursion
<1>4. f[0] = 0 /\ \A n \in 1 .. N : f[n] = f[n - 1] + items[n].size
  <2>1. ASSUME NEW n \in 1 .. N
        PROVE  f[n] = f[n - 1] + items[n].size
    <3>1. n \in Nat /\ n - 1 \in 0 .. N
          BY <1>1
    <3> HIDE DEF h, N
    <3>2. f[n] = h[<<f[n - 1], n>>] /\ <<f[n - 1], n>> \in Nat \X Nat
          BY <1>3, <3>1 DEF Recurs
    <3> QED BY <3>2 DEF h
  <2> QED BY <1>3, <2>1 DEF Recurs
<1>5. Is(f)
  <2> HIDE DEF h, N
  <2>1. \A n \in 0 .. N : f[n] = IF n = 0 THEN 0 ELSE f[n - 1] + items[n].size
        BY <1>1, <1>4
  <2> QED BY <1>3, <2>1
<1> DEFINE w == CHOOSE g : Is(g)
<1>6. Packing!Sizes(items) = w
      BY DEF Packing!Sizes
<1>7. Is(w)
  <2> HIDE DEF Is
  <2> QED BY <1>5
<1> HIDE DEF w, h
<1>8. w[0] = 0 /\ \A n \in 1 .. N : w[n] = w[n - 1] + items[n].size
  <2> HIDE DEF N
  <2> QED BY <1>1, <1>7
<1>9. \A n \in 0 .. N : w[n] \in Nat
  <2> DEFINE S == {n \in Nat : w[n] \in Nat}
  <2>1. 0 \in S
        BY <1>8
  <2>2. \A n \in 0 .. N - 1 : n \in S => n + 1 \in S
        BY <1>1, <1>8
  <2> HIDE DEF S, N
  <2>3. 0 .. N \subseteq S
        BY <1>1, <2>1, <2>2, InductionUpTo
  <2> QED BY <2>3 DEF S
<1> QED BY <1>6, <1>7, <1>8, <1>9 DEF Adds

\* What more items come to is no less.
LEMMA SizesGrow ==
  ASSUME NEW items \in Seq(Packing!Items), NEW sum, Adds(sum, items),
         NEW m \in 0 .. Len(items), NEW n \in m .. Len(items)
  PROVE  sum[m] <= sum[n]
<1> DEFINE N == Len(items)
           S == {k \in Nat : k <= N /\ m <= k => sum[m] <= sum[k]}
<1>1. N \in Nat /\ \A k \in 1 .. N : items[k].size \in Nat
      BY ItemsAreOfASize
<1>2. /\ \A k \in 0 .. N : sum[k] \in Nat
      /\ \A k \in 1 .. N : sum[k] = sum[k - 1] + items[k].size
      BY DEF Adds
<1>3. 0 \in S
      BY <1>2
<1>4. ASSUME NEW k \in 0 .. N - 1, k \in S
      PROVE  k + 1 \in S
  <2>1. k + 1 \in 1 .. N /\ (k + 1) - 1 = k /\ k \in 0 .. N /\ m \in 0 .. N
        BY <1>1
  <2>2. sum[k + 1] = sum[k] + items[k + 1].size /\ items[k + 1].size \in Nat
        BY <1>1, <1>2, <2>1
  <2>3. sum[m] \in Nat /\ sum[k] \in Nat
        BY <1>2, <2>1
  <2>4. CASE m = k + 1
        BY <2>1, <2>2, <2>3, <2>4
  <2>5. CASE m # k + 1
        BY <1>4, <2>1, <2>2, <2>3, <2>5
  <2> QED BY <2>4, <2>5
<1> HIDE DEF S, N
<1>5. 0 .. N \subseteq S
      BY <1>1, <1>3, <1>4, InductionUpTo
<1> QED BY <1>1, <1>5 DEF S, N

\* The first of two sequences put together comes to as much as alone, the second to as
\* much on top of it.
LEMMA SizesOfTwo ==
  ASSUME NEW s \in Seq(Packing!Items), NEW t \in Seq(Packing!Items),
         NEW a, Adds(a, s), NEW b, Adds(b, t), NEW c, Adds(c, s \o t)
  PROVE  /\ \A n \in 0 .. Len(s) : c[n] = a[n]
         /\ \A n \in 0 .. Len(t) : c[Len(s) + n] = a[Len(s)] + b[n]
<1> DEFINE u == s \o t
           M == Len(s)
           N == Len(t)
<1>1. /\ M \in Nat /\ N \in Nat /\ Len(u) = M + N
      /\ \A n \in 1 .. M : u[n] = s[n] /\ s[n].size \in Nat
      /\ \A n \in 1 .. N : u[M + n] = t[n] /\ t[n].size \in Nat
  <2>1. \A n \in 1 .. M : s[n] \in Packing!Items
        BY LenProperties, ElementOfSeq
  <2>2. \A n \in 1 .. N : t[n] \in Packing!Items
        BY LenProperties, ElementOfSeq
  <2>3. M \in Nat /\ N \in Nat /\ Len(u) = M + N
        BY LenProperties, ConcatProperties
  <2>4. \A n \in 1 .. M + N : u[n] = IF n <= M THEN s[n] ELSE t[n - M]
        BY ConcatProperties
  <2> HIDE DEF u, M, N
  <2>5. \A n \in 1 .. N : M + n \in 1 .. M + N /\ ~(M + n <= M) /\ (M + n) - M = n
        BY <2>3
  <2>6. \A n \in 1 .. M : n \in 1 .. M + N /\ n <= M
        BY <2>3
  <2> QED BY <2>1, <2>2, <2>3, <2>4, <2>5, <2>6 DEF Packing!Items
<1> HIDE DEF u, M, N
<1>2. /\ a[0] = 0 /\ b[0] = 0 /\ c[0] = 0
      /\ a \in [0 .. M -> Nat] /\ \A n \in 1 .. M : a[n] = a[n - 1] + s[n].size
      /\ b \in [0 .. N -> Nat] /\ \A n \in 1 .. N : b[n] = b[n - 1] + t[n].size
      /\ \A n \in 1 .. M + N : c[n] = c[n - 1] + u[n].size
  <2>1. Adds(a, s) /\ Adds(b, t) /\ Adds(c, u) /\ Len(u) = M + N
        BY <1>1 DEF u
  <2> QED BY <2>1, Zenon DEF Adds, M, N
<1>3. \A n \in 0 .. M : c[n] = a[n]
  <2> DEFINE S == {n \in Nat : c[n] = a[n]}
  <2>1. 0 \in S
        BY <1>2
  <2>2. ASSUME NEW n \in 0 .. M - 1, n \in S
        PROVE  n + 1 \in S
    <3>1. n + 1 \in 1 .. M /\ n + 1 \in 1 .. M + N /\ (n + 1) - 1 = n
          BY <1>1
    <3>2. c[n + 1] = c[n] + u[n + 1].size /\ a[n + 1] = a[n] + s[n + 1].size
          BY <1>2, <3>1
    <3> QED BY <1>1, <2>2, <3>1, <3>2
  <2> HIDE DEF S
  <2>3. 0 .. M \subseteq S
        BY <1>1, <2>1, <2>2, InductionUpTo
  <2> QED BY <2>3 DEF S
<1>4. \A n \in 0 .. N : c[M + n] = a[M] + b[n]
  <2> DEFINE S == {n \in Nat : c[M + n] = a[M] + b[n]}
  <2>1. 0 \in S
        BY <1>1, <1>2, <1>3
  <2>2. ASSUME NEW n \in 0 .. N - 1, n \in S
        PROVE  n + 1 \in S
    <3>1. /\ n + 1 \in 1 .. N /\ M + (n + 1) \in 1 .. M + N /\ (n + 1) - 1 = n
          /\ (M + (n + 1)) - 1 = M + n
          BY <1>1
    <3>2. a[M] \in Nat /\ b[n] \in Nat
      <4>1. M \in 0 .. M /\ n \in 0 .. N
            BY <1>1
      <4> QED BY <1>2, <4>1
    <3>3. /\ c[M + (n + 1)] = c[M + n] + u[M + (n + 1)].size
          /\ b[n + 1] = b[n] + t[n + 1].size
          BY <1>2, <3>1
    <3>4. u[M + (n + 1)].size = t[n + 1].size /\ t[n + 1].size \in Nat
          BY <1>1, <3>1
    <3> QED BY <2>2, <3>2, <3>3, <3>4
  <2> HIDE DEF S
  <2>3. 0 .. N \subseteq S
        BY <1>1, <2>1, <2>2, InductionUpTo
  <2> QED BY <2>3 DEF S
<1> QED BY <1>3, <1>4 DEF M, N

\* Of a set of places up to N the greatest one, as the library has it.
LEMMA MaxIsGreatest ==
  ASSUME NEW N \in Nat, NEW M \in SUBSET (0 .. N), M # {}
  PROVE  Packing!Max(M) \in M /\ \A k \in M : k <= Packing!Max(M)
<1>1. PICK m \in M : \A k \in M : m >= k
  <2>1. PICK m \in M : \A k \in M : k <= m
        BY Greatest
  <2> QED BY <2>1
<1> QED BY <1>1 DEF Packing!Max

\* The least of a set.
LEMMA MinIsLeast ==
  ASSUME NEW M \in SUBSET Nat, M # {}
  PROVE  Packing!Min(M) \in M /\ \A k \in M : Packing!Min(M) <= k
<1>1. PICK m \in M : \A k \in M : m <= k
      BY Least
<1> QED BY <1>1 DEF Packing!Min

\* The separators of which one keeps half of what fits.
Useful(item, limit) ==
  {k \in DOMAIN item.breaks : \E e \in item.breaks[k] : limit \div 2 <= e /\ e <= limit}

\* An item's separators are sets of places.
LEMMA BreaksAreSets ==
  ASSUME NEW item \in Packing!Items
  PROVE  item.breaks \in Seq(SUBSET Nat)
<1>1. << >> \in Seq(SUBSET Nat)
      BY EmptySeq
<1>2. item.breaks \in Seq(SUBSET Nat) \/ item.breaks = << >>
      BY DEF Packing!Items
<1> QED BY <1>1, <1>2

\* Where an item is cut: at the last separator of the first useful kind.
LEMMA CutsFit ==
  ASSUME NEW item \in Packing!Items, NEW limit \in Nat
  PROVE  LET cut == Packing!TruncateAtBoundary(item, limit)
         IN /\ cut \in 0 .. limit
            /\ IF Useful(item, limit) = {} THEN cut = limit
               ELSE \E k \in Useful(item, limit) :
                      /\ \A j \in Useful(item, limit) : k <= j
                      /\ cut \in item.breaks[k]
                      /\ \A e \in item.breaks[k] : e <= limit => e <= cut
<1> DEFINE useful == {k \in DOMAIN item.breaks :
                        \E e \in Packing!Window(item.breaks[k], limit) : e >= limit \div 2}
           least == Packing!Min(useful)
           window == Packing!Window(item.breaks[least], limit)
           cut == Packing!TruncateAtBoundary(item, limit)
<1>1. /\ limit \div 2 \in Nat /\ DOMAIN item.breaks \subseteq Nat
      /\ \A k \in DOMAIN item.breaks : item.breaks[k] \in SUBSET Nat
  <2>1. item.breaks \in Seq(SUBSET Nat)
        BY BreaksAreSets
  <2> QED BY <2>1, LenProperties, ElementOfSeq
<1>2. useful = Useful(item, limit)
      BY <1>1 DEF Useful, Packing!Window
<1>3. CASE useful = {}
  <2>1. cut = limit
        BY <1>3 DEF Packing!TruncateAtBoundary
  <2> QED BY <1>2, <1>3, <2>1
<1>4. CASE useful # {}
  <2>1. cut = Packing!Max(window)
        BY <1>4 DEF Packing!TruncateAtBoundary
  <2>2. useful \in SUBSET Nat
        BY <1>1
  <2> HIDE DEF useful
  <2>3. least \in useful /\ \A k \in useful : least <= k
        BY <1>4, <2>2, MinIsLeast
  <2> HIDE DEF least
  <2>4. window \in SUBSET (0 .. limit) /\ window # {}
        BY <1>1, <2>3 DEF Packing!Window, useful
  <2> HIDE DEF window
  <2>5. cut \in window /\ \A k \in window : k <= cut
        BY <2>1, <2>4, MaxIsGreatest
  <2>6. cut \in item.breaks[least] /\ \A e \in item.breaks[least] : e <= limit => e <= cut
        BY <2>5 DEF window, Packing!Window
  <2> QED BY <1>2, <1>4, <2>3, <2>4, <2>5, <2>6
<1> QED BY <1>3, <1>4

\* More room keeps no less of an item.
LEMMA CutsGrow ==
  ASSUME NEW item \in Packing!Items, NEW limit \in Nat, NEW more \in Nat, limit <= more
  PROVE  Packing!TruncateAtBoundary(item, limit) <= Packing!TruncateAtBoundary(item, more)
<1> DEFINE cut == Packing!TruncateAtBoundary(item, limit)
           long == Packing!TruncateAtBoundary(item, more)
<1>1. /\ limit \div 2 \in Nat /\ more \div 2 \in Nat /\ limit \div 2 <= more \div 2
      /\ \A k \in DOMAIN item.breaks : k \in Nat /\ item.breaks[k] \in SUBSET Nat
  <2>1. item.breaks \in Seq(SUBSET Nat)
        BY BreaksAreSets
  <2> QED BY <2>1, LenProperties, ElementOfSeq
<1>2. /\ cut \in 0 .. limit /\ long \in 0 .. more
      /\ Useful(item, limit) = {} => cut = limit
      /\ Useful(item, more) = {} => long = more
      /\ Useful(item, limit) # {} => \E k \in Useful(item, limit) : /\ \A j \in Useful(item, limit) : k <= j
                                          /\ cut \in item.breaks[k]
      /\ Useful(item, more) # {} =>
           \E k \in Useful(item, more) : /\ \A j \in Useful(item, more) : k <= j
                                         /\ long \in item.breaks[k]
                                         /\ \A e \in item.breaks[k] : e <= more => e <= long
      BY CutsFit
<1> SUFFICES cut <= long
    OBVIOUS
<1> HIDE DEF cut, long
<1>3. CASE Useful(item, more) = {}
      BY <1>2, <1>3
<1>4. CASE Useful(item, more) # {}
  <2>1. PICK k \in Useful(item, more) : /\ \A j \in Useful(item, more) : k <= j
                                        /\ long \in item.breaks[k]
                                        /\ \A e \in item.breaks[k] : e <= more => e <= long
        BY <1>2, <1>4
  <2>2. k \in DOMAIN item.breaks /\ more \div 2 <= long
        BY <1>1, <1>2, <2>1 DEF Useful
  <2>3. k \notin Useful(item, limit) => ~(limit \div 2 <= long /\ long <= limit)
        BY <2>1, <2>2 DEF Useful
  <2>4. CASE Useful(item, limit) = {}
        BY <1>1, <1>2, <2>2, <2>3, <2>4
  <2>5. CASE Useful(item, limit) # {}
    <3>1. PICK j \in Useful(item, limit) : /\ \A i \in Useful(item, limit) : j <= i
                                              /\ cut \in item.breaks[j]
          BY <1>2, <2>5
    <3>2. CASE more \div 2 <= cut
      <4>1. j \in Useful(item, more)
            BY <1>1, <1>2, <3>1, <3>2 DEF Useful
      <4>2. CASE k = j
            BY <1>2, <2>1, <3>1, <4>2
      <4>3. CASE k \notin Useful(item, limit)
            BY <1>1, <1>2, <2>2, <2>3, <4>3
      <4>4. CASE k \in Useful(item, limit)
        <5>1. k <= j /\ j <= k /\ j \in Nat /\ k \in Nat
              BY <1>1, <2>1, <2>2, <3>1, <4>1, <4>4 DEF Useful
        <5> QED BY <4>2, <5>1
      <4> QED BY <4>3, <4>4
    <3> QED BY <1>1, <1>2, <2>2, <3>2
  <2> QED BY <2>4, <2>5
<1> QED BY <1>3, <1>4

\* Whether a budget reaches an item, at least for a beginning of it.
Reaches(sum, budget, k) ==
  sum[k - 1] < budget /\ (sum[k] <= budget \/ sum[k - 1] + MinItem <= budget)

Pieces == [of : Packing!Items, size : Nat]

\* What fits: the items that the budget reaches, whole but for the last.
LEMMA FitKeeps ==
  ASSUME NEW items \in Seq(Packing!Items), NEW budget \in Nat
  PROVE  LET fit == Packing!Fit(items, budget)
             sum == Packing!Sizes(items)
         IN /\ fit.kept \in Seq(Pieces) /\ Len(fit.kept) <= Len(items)
            /\ \A k \in 1 .. Len(items) : k <= Len(fit.kept) <=> Reaches(sum, budget, k)
            /\ \A k \in 1 .. Len(fit.kept) :
                 /\ fit.kept[k].of = items[k]
                 /\ fit.kept[k].size =
                      IF sum[k] <= budget THEN items[k].size
                      ELSE Packing!TruncateAtBoundary(items[k], budget - sum[k - 1])
            /\ fit.used \in 0 .. budget
            /\ fit.dropped = Len(items) - Len(fit.kept)
<1> DEFINE sum == Packing!Sizes(items)
           N == Len(items)
           M == {m \in 0 .. N : sum[m] <= budget /\ \A i \in 0 .. m - 1 : sum[i] < budget}
           n == Packing!Max(M)
           remaining == budget - sum[n]
           fit == Packing!Fit(items, budget)
           whole == [i \in 1 .. n |-> [of |-> items[i], size |-> items[i].size]]
           last == Packing!TruncateAtBoundary(items[n + 1], remaining)
           piece == [of |-> items[n + 1], size |-> last]
<1>1. /\ N \in Nat
      /\ \A k \in 1 .. N : items[k] \in Packing!Items /\ items[k].size \in Nat
      BY ItemsAreOfASize
<1>2. /\ Adds(sum, items) /\ sum \in [0 .. N -> Nat] /\ sum[0] = 0
      /\ \A k \in 1 .. N : sum[k] = sum[k - 1] + items[k].size
      BY SizesAdd DEF Adds
<1>3. fit = Packing!FitFrom(items, n, sum[n], budget - sum[n])
      BY DEF Packing!Fit
<1> HIDE DEF fit, sum
<1>4. 0 \in M
      BY <1>1, <1>2
<1>5. n \in M /\ \A m \in M : m <= n
  <2>1. M \in SUBSET (0 .. N)
        OBVIOUS
  <2> HIDE DEF M, N
  <2> QED BY <1>1, <1>4, <2>1, MaxIsGreatest
<1> HIDE DEF n
<1>6. /\ n \in 0 .. N /\ n \in Nat /\ sum[n] \in Nat /\ sum[n] <= budget
      /\ \A i \in 0 .. n - 1 : sum[i] < budget
      BY <1>1, <1>2, <1>5
<1>7. n + 1 \in 1 .. N /\ sum[n] < budget => sum[n + 1] \in Nat /\ budget < sum[n + 1]
  <2> SUFFICES ASSUME n + 1 \in 1 .. N, sum[n] < budget, sum[n + 1] <= budget
               PROVE  FALSE
    <3>1. n + 1 \in 1 .. N => sum[n + 1] \in Nat
          BY <1>2
    <3> QED BY <3>1
  <2>1. \A i \in 0 .. (n + 1) - 1 : i \in 0 .. n - 1 \/ i = n
        BY <1>6
  <2>2. n + 1 \in M
        BY <1>6, <2>1
  <2> QED BY <1>5, <1>6, <2>2
<1> HIDE DEF M
<1>8. remaining \in Nat
      BY <1>6
<1>9. \A k \in 1 .. n : /\ k \in 1 .. N /\ items[k] \in Packing!Items /\ items[k].size \in Nat
                        /\ sum[k] <= budget /\ sum[k - 1] < budget
  <2> TAKE k \in 1 .. n
  <2>1. k \in 1 .. N /\ k - 1 \in 0 .. n - 1 /\ (k \in 0 .. n - 1 \/ k = n)
        BY <1>1, <1>6
  <2>2. sum[k] \in Nat
        BY <1>2, <2>1
  <2> QED BY <1>1, <1>6, <2>1, <2>2
<1>10. whole \in Seq(Pieces) /\ Len(whole) = n
  <2>1. \A k \in 1 .. n : [of |-> items[k], size |-> items[k].size] \in Pieces
        BY <1>9 DEF Pieces
  <2>2. whole \in [1 .. n -> Pieces]
        BY <2>1
  <2> QED BY <1>6, <2>2, LenProperties, SeqDef
<1>11. ASSUME NEW k \in 1 .. N, n + 1 < k
       PROVE  ~Reaches(sum, budget, k)
  <2>1. n + 1 \in 0 .. N /\ k - 1 \in n + 1 .. N /\ n + 1 \in 1 .. N
        BY <1>1, <1>6, <1>11
  <2>2. sum[n + 1] <= sum[k - 1]
        BY <1>2, <2>1, SizesGrow DEF N
  <2>3. /\ sum[k - 1] \in Nat /\ sum[n + 1] \in Nat /\ sum[n + 1] = sum[n] + items[n + 1].size
        /\ items[n + 1].size \in Nat
    <3>1. (n + 1) - 1 = n /\ k - 1 \in 0 .. N
          BY <1>6, <2>1
    <3> QED BY <1>1, <1>2, <2>1, <3>1
  <2>4. sum[k - 1] < budget => sum[n] < budget
        BY <1>6, <2>2, <2>3
  <2> QED BY <1>7, <2>1, <2>2, <2>3, <2>4 DEF Reaches
<1>12. \A k \in 1 .. n : Reaches(sum, budget, k)
       BY <1>9 DEF Reaches
<1>13. CASE n < N /\ remaining > 0 /\ remaining >= MinItem
  <2>1. fit = [kept |-> Append(whole, piece), used |-> sum[n] + last,
               dropped |-> N - n - 1, truncated |-> 1]
        BY <1>3, <1>13 DEF Packing!FitFrom
  <2>2. n + 1 \in 1 .. N
        BY <1>1, <1>6, <1>13
  <2>3. last \in 0 .. remaining /\ piece \in Pieces
    <3>1. last \in 0 .. remaining
          BY <1>1, <1>8, <2>2, CutsFit
    <3> HIDE DEF last, remaining
    <3> QED BY <1>1, <1>8, <2>2, <3>1 DEF Pieces
  <2> HIDE DEF whole, last
  <2>4. /\ fit.kept \in Seq(Pieces) /\ Len(fit.kept) = n + 1 /\ fit.kept[n + 1] = piece
        /\ \A k \in 1 .. n : fit.kept[k] = whole[k]
        BY <1>10, <2>1, <2>3, AppendProperties
  <2>5. /\ Reaches(sum, budget, n + 1) /\ ~(sum[n + 1] <= budget)
        /\ (n + 1) - 1 = n
        BY <1>6, <1>7, <1>13, <2>2, PacksAssumption DEF Reaches
  <2>6. ASSUME NEW k \in 1 .. Len(fit.kept)
        PROVE  /\ fit.kept[k].of = items[k]
               /\ fit.kept[k].size =
                    IF sum[k] <= budget THEN items[k].size
                    ELSE Packing!TruncateAtBoundary(items[k], budget - sum[k - 1])
    <3>1. CASE k = n + 1
          BY <2>4, <2>5, <3>1 DEF last
    <3>2. CASE k \in 1 .. n
      <4>1. fit.kept[k] = whole[k] /\ sum[k] <= budget
            BY <1>9, <2>4, <3>2
      <4>2. whole[k] = [of |-> items[k], size |-> items[k].size]
            BY <3>2 DEF whole
      <4> QED BY <4>1, <4>2
    <3> QED BY <1>6, <2>4, <3>1, <3>2
  <2>7. fit.used \in 0 .. budget /\ fit.dropped = N - (n + 1)
        BY <1>1, <1>6, <1>8, <2>1, <2>3
  <2>8. ASSUME NEW k \in 1 .. N
        PROVE  k <= Len(fit.kept) <=> Reaches(sum, budget, k)
    <3>1. k \in 1 .. n \/ k = n + 1 \/ n + 1 < k
          BY <1>6
    <3> QED BY <1>6, <1>11, <1>12, <2>4, <2>5, <3>1
  <2> QED BY <2>2, <2>4, <2>6, <2>7, <2>8 DEF fit, sum, N
<1>14. CASE ~(n < N /\ remaining > 0 /\ remaining >= MinItem)
  <2>1. fit = [kept |-> whole, used |-> sum[n], dropped |-> N - n, truncated |-> 0]
        BY <1>3, <1>14 DEF Packing!FitFrom
  <2> HIDE DEF whole
  <2>2. /\ fit.kept \in Seq(Pieces) /\ Len(fit.kept) = n /\ fit.kept = whole
        /\ fit.used = sum[n] /\ fit.dropped = N - n
        BY <1>10, <2>1
  <2>3. \A k \in 1 .. n : /\ fit.kept[k].of = items[k] /\ fit.kept[k].size = items[k].size
        BY <2>2 DEF whole
  <2>4. n + 1 \in 1 .. N => ~Reaches(sum, budget, n + 1)
    <3> SUFFICES ASSUME n + 1 \in 1 .. N, Reaches(sum, budget, n + 1)
                 PROVE  FALSE
        OBVIOUS
    <3>1. sum[n] < budget /\ sum[n] + MinItem <= budget
          BY <1>6, <1>7 DEF Reaches
    <3> QED BY <1>1, <1>6, <1>14, <3>1, PacksAssumption
  <2>5. ASSUME NEW k \in 1 .. N
        PROVE  k <= Len(fit.kept) <=> Reaches(sum, budget, k)
    <3>1. k \in 1 .. n \/ k = n + 1 \/ n + 1 < k
          BY <1>6
    <3> QED BY <1>6, <1>11, <1>12, <2>2, <2>4, <3>1
  <2>6. fit.used \in 0 .. budget /\ n <= N
        BY <1>1, <1>6, <2>2
  <2> QED BY <1>9, <2>2, <2>3, <2>5, <2>6 DEF fit, sum, N
<1> QED BY <1>13, <1>14

\* More room shows no less.
LEMMA MoreRoom ==
  ASSUME NEW items \in Seq(Packing!Items), NEW budget \in Nat, NEW more \in Nat, budget <= more
  PROVE  Packing!RoomIsUsed(items, budget, more)
<1> DEFINE sum == Packing!Sizes(items)
           N == Len(items)
           short == Packing!Fit(items, budget).kept
           long == Packing!Fit(items, more).kept
<1>1. /\ N \in Nat /\ \A k \in 1 .. N : items[k] \in Packing!Items /\ items[k].size \in Nat
      BY ItemsAreOfASize
<1>2. /\ \A k \in 0 .. N : sum[k] \in Nat
      /\ \A k \in 1 .. N : sum[k] = sum[k - 1] + items[k].size
      BY SizesAdd DEF Adds
<1>3. /\ short \in Seq(Pieces) /\ Len(short) <= N
      /\ \A k \in 1 .. N : k <= Len(short) <=> Reaches(sum, budget, k)
      /\ \A k \in 1 .. Len(short) :
           /\ short[k].of = items[k]
           /\ short[k].size = IF sum[k] <= budget THEN items[k].size
                              ELSE Packing!TruncateAtBoundary(items[k], budget - sum[k - 1])
      BY FitKeeps
<1>4. /\ long \in Seq(Pieces) /\ Len(long) <= N
      /\ \A k \in 1 .. N : k <= Len(long) <=> Reaches(sum, more, k)
      /\ \A k \in 1 .. Len(long) :
           /\ long[k].of = items[k]
           /\ long[k].size = IF sum[k] <= more THEN items[k].size
                             ELSE Packing!TruncateAtBoundary(items[k], more - sum[k - 1])
      BY FitKeeps
<1>5. Len(short) \in Nat /\ Len(long) \in Nat /\ DOMAIN short = 1 .. Len(short)
      BY <1>3, <1>4, LenProperties
<1> SUFFICES Len(short) <= Len(long)
             /\ \A i \in 1 .. Len(short) : short[i].of = long[i].of /\ short[i].size <= long[i].size
    BY <1>5 DEF Packing!RoomIsUsed, Packing!ShowsNoLess
<1> HIDE DEF sum, N, short, long
<1>6. ASSUME NEW k \in 1 .. Len(short)
      PROVE  /\ k \in 1 .. N /\ k - 1 \in 0 .. N /\ sum[k] \in Nat /\ sum[k - 1] \in Nat
             /\ Reaches(sum, budget, k) /\ k <= Len(long)
  <2>1. k \in 1 .. N /\ k - 1 \in 0 .. N /\ k \in 0 .. N /\ k <= Len(short)
        BY <1>1, <1>3, <1>5
  <2>2. sum[k] \in Nat /\ sum[k - 1] \in Nat /\ Reaches(sum, budget, k)
        BY <1>2, <1>3, <2>1
  <2>3. Reaches(sum, more, k)
        BY <2>2, PacksAssumption DEF Reaches
  <2> QED BY <1>4, <2>1, <2>2, <2>3
<1>7. Len(short) <= Len(long)
      BY <1>5, <1>6
<1>8. ASSUME NEW k \in 1 .. Len(short)
      PROVE  short[k].of = long[k].of /\ short[k].size <= long[k].size
  <2>1. k \in 1 .. Len(long)
        BY <1>5, <1>6
  <2>2. /\ short[k].of = items[k] /\ long[k].of = items[k]
        /\ short[k].size = IF sum[k] <= budget THEN items[k].size
                           ELSE Packing!TruncateAtBoundary(items[k], budget - sum[k - 1])
        /\ long[k].size = IF sum[k] <= more THEN items[k].size
                          ELSE Packing!TruncateAtBoundary(items[k], more - sum[k - 1])
        BY <1>3, <1>4, <2>1
  <2>3. /\ items[k] \in Packing!Items /\ items[k].size \in Nat /\ sum[k] = sum[k - 1] + items[k].size
        /\ sum[k] \in Nat /\ sum[k - 1] \in Nat /\ sum[k - 1] < budget
        BY <1>1, <1>2, <1>6 DEF Reaches
  <2>4. CASE sum[k] <= budget
        BY <2>2, <2>3, <2>4
  <2>5. CASE ~(sum[k] <= budget) /\ sum[k] <= more
    <3>1. budget - sum[k - 1] \in Nat
          BY <2>3
    <3>2. Packing!TruncateAtBoundary(items[k], budget - sum[k - 1]) \in 0 .. budget - sum[k - 1]
          BY <2>3, <3>1, CutsFit
    <3> QED BY <2>2, <2>3, <2>5, <3>2
  <2>6. CASE ~(sum[k] <= budget) /\ ~(sum[k] <= more)
    <3>1. /\ budget - sum[k - 1] \in Nat /\ more - sum[k - 1] \in Nat
          /\ budget - sum[k - 1] <= more - sum[k - 1]
          BY <2>3
    <3> QED BY <2>2, <2>3, <2>6, <3>1, CutsGrow
  <2> QED BY <2>4, <2>5, <2>6
<1> QED BY <1>7, <1>8

-----------------------------------------------------------------------------
\* Packs: budgets.

\* A sum over some of the layers.
At(f, S, l) == IF l \in S THEN f[l] ELSE 0

Five(f, S) == At(f, S, "SKILL") + At(f, S, "KNOWLEDGE") + At(f, S, "MEMORY")
                + At(f, S, "FACTS") + At(f, S, "TASK")

\* A sum over layers, without one of them.
LEMMA OneLess ==
  ASSUME NEW S \in SUBSET Packing!Layers, NEW f, \A l \in S : f[l] \in Int, NEW l \in S
  PROVE  Five(f, S) \in Int /\ Five(f, S) = f[l] + Five(f, S \ {l})
<1>1. \A m \in Packing!Layers : At(f, S, m) \in Int
      BY DEF At
<1>2. \A m \in Packing!Layers : At(f, S \ {l}, m) = IF m = l THEN 0 ELSE At(f, S, m)
      BY DEF At
<1>3. At(f, S, l) = f[l] /\ l \in Packing!Layers
      BY DEF At
<1> QED BY <1>1, <1>2, <1>3 DEF Five, Packing!Layers

\* The library's sum of a function over layers.
SumOf(f, S) == Packing!FoldFunctionOnSet(+, 0, f, S)

\* The fold over the layers is that sum.
LEMMA FoldIsSum ==
  ASSUME NEW S \in SUBSET Packing!Layers, NEW f, \A l \in S : f[l] \in Int
  PROVE  SumOf(f, S) = Five(f, S)
<1> DEFINE Is(g) == g = [s \in SUBSET S |->
                           IF s = {} THEN 0
                           ELSE f[CHOOSE x \in s : TRUE] + g[s \ {CHOOSE x \in s : TRUE}]]
           sum == [s \in SUBSET S |-> Five(f, s)]
           w == CHOOSE g : Is(g)
<1>1. SumOf(f, S) = w[S]
      BY DEF SumOf, Packing!FoldFunctionOnSet, Packing!MapThenFoldSet
<1>2. ASSUME NEW s \in SUBSET S, s # {}
      PROVE  LET x == CHOOSE x \in s : TRUE
             IN x \in s /\ s \ {x} \in SUBSET S /\ Five(f, s) = f[x] + Five(f, s \ {x})
  <2> DEFINE x == CHOOSE x \in s : TRUE
  <2>1. x \in s
        BY <1>2
  <2> HIDE DEF x
  <2>2. s \in SUBSET Packing!Layers /\ \A l \in s : f[l] \in Int
        OBVIOUS
  <2>3. Five(f, s) = f[x] + Five(f, s \ {x})
        BY <2>1, <2>2, OneLess
  <2> QED BY <2>1, <2>3 DEF x
<1>3. Five(f, {}) = 0
      BY DEF Five, At
<1>4. Is(sum)
  <2> SUFFICES ASSUME NEW s \in SUBSET S
               PROVE  sum[s] = IF s = {} THEN 0
                               ELSE f[CHOOSE x \in s : TRUE] + sum[s \ {CHOOSE x \in s : TRUE}]
      OBVIOUS
  <2>1. CASE s = {}
        BY <1>3, <2>1
  <2>2. CASE s # {}
        BY <1>2, <2>2
  <2> QED BY <2>1, <2>2
<1>5. Is(w)
  <2> HIDE DEF Is, sum
  <2> QED BY <1>4
<1> HIDE DEF w
<1>6. \A s \in SUBSET S : w[s] = IF s = {} THEN 0
                                 ELSE f[CHOOSE x \in s : TRUE] + w[s \ {CHOOSE x \in s : TRUE}]
      BY <1>5
<1>7. IsFiniteSet(S)
  <2>1. IsFiniteSet(Packing!Layers)
    <3> DEFINE a == {"SKILL"}
               b == a \cup {"KNOWLEDGE"}
               c == b \cup {"MEMORY"}
               d == c \cup {"FACTS"}
    <3>1. IsFiniteSet(a) /\ IsFiniteSet({})
          BY FS_Singleton, FS_EmptySet
    <3> HIDE DEF a
    <3>2. IsFiniteSet(b)
          BY <3>1, FS_AddElement
    <3> HIDE DEF b
    <3>3. IsFiniteSet(c)
          BY <3>2, FS_AddElement
    <3> HIDE DEF c
    <3>4. IsFiniteSet(d)
          BY <3>3, FS_AddElement
    <3> HIDE DEF d
    <3>5. IsFiniteSet(d \cup {"TASK"})
          BY <3>4, FS_AddElement
    <3>6. Packing!Layers = d \cup {"TASK"}
          BY DEF Packing!Layers, a, b, c, d
    <3> QED BY <3>5, <3>6
  <2> QED BY <2>1, FS_Subset
<1> DEFINE T == {n \in Nat : \A s \in SUBSET S : Cardinality(s) = n => w[s] = Five(f, s)}
<1>8. 0 \in T
  <2>1. ASSUME NEW s \in SUBSET S, Cardinality(s) = 0
        PROVE  w[s] = Five(f, s)
    <3>1. s = {}
          BY <1>7, <2>1, FS_Subset, FS_EmptySet
    <3> QED BY <1>3, <1>6, <3>1
  <2> QED BY <2>1
<1>9. ASSUME NEW n \in Nat, n \in T
      PROVE  n + 1 \in T
  <2>1. ASSUME NEW s \in SUBSET S, Cardinality(s) = n + 1
        PROVE  w[s] = Five(f, s)
    <3> DEFINE x == CHOOSE x \in s : TRUE
    <3>1. IsFiniteSet(s) /\ s # {}
          BY <1>7, <2>1, FS_Subset, FS_EmptySet
    <3>2. x \in s /\ s \ {x} \in SUBSET S /\ Five(f, s) = f[x] + Five(f, s \ {x})
          BY <1>2, <3>1
    <3>3. w[s] = f[x] + w[s \ {x}]
          BY <1>6, <3>1
    <3> HIDE DEF x
    <3>4. Cardinality(s \ {x}) = n
      <4>1. Cardinality(s \ {x}) = Cardinality(s) - 1
            BY <3>1, <3>2, FS_RemoveElement
      <4> QED BY <2>1, <4>1
    <3>5. w[s \ {x}] = Five(f, s \ {x})
          BY <1>9, <3>2, <3>4
    <3> QED BY <3>2, <3>3, <3>5
  <2> QED BY <2>1
<1> HIDE DEF T
<1>10. Nat \subseteq T
       BY <1>8, <1>9, InductionOnNat
<1>11. Cardinality(S) \in T
       BY <1>7, <1>10, FS_CardinalityType
<1> QED BY <1>1, <1>11 DEF T

\* What a division leaves.
LEMMA Division ==
  ASSUME NEW e \in Nat, NEW t \in Nat, t > 0
  PROVE  /\ e \div t \in Nat /\ e % t \in 0 .. t - 1
         /\ e = t * (e \div t) + (e % t)
<1>1. e % t \in 0 .. t - 1
      BY SMT
<1>2. e \div t \in Int
      BY SMT
<1>3. e = (e \div t) * t + (e % t)
      BY SMT
<1> DEFINE q == e \div t
           r == e % t
<1>4. q \in Int /\ r \in 0 .. t - 1 /\ e = q * t + r
      BY <1>1, <1>2, <1>3
<1> HIDE DEF q, r
<1>5. q \in Nat
  <2>1. CASE q <= -1
    <3>1. q * t <= (-1) * t
          BY <1>4, <2>1, SMT
    <3> QED BY <1>4, <3>1, SMT
  <2> QED BY <1>4, <2>1
<1>6. q * t = t * q
      BY <1>4, SMT
<1> QED BY <1>4, <1>5, <1>6 DEF q, r

\* A factor on both sides.
LEMMA Cancel ==
  ASSUME NEW a \in Int, NEW b \in Int, NEW t \in Nat, t > 0, t * a <= t * b
  PROVE  a <= b
BY SMT

\* A share of a hundred, of which the reserve is five.
LEMMA Scale ==
  ASSUME NEW q \in Nat, NEW t \in Nat, 1 <= t, t <= 95
  PROVE t * q <= 95 * q
BY SMT

\* A sum over five layers, term by term.
LEMMA Sums ==
  ASSUME NEW S \in SUBSET Packing!Layers, NEW f, \A l \in S : f[l] \in Int,
         NEW g, \A l \in S : g[l] \in Int,
         NEW t \in Nat, NEW c \in Nat, NEW d \in Nat,
         \A l \in S : t * f[l] <= c * g[l] + d
  PROVE  t * Five(f, S) <= c * Five(g, S) + 5 * d
<1>1. \A m \in Packing!Layers : At(f, S, m) \in Int /\ At(g, S, m) \in Int
      BY DEF At
<1>2. \A m \in Packing!Layers : t * At(f, S, m) <= c * At(g, S, m) + d
  <2> TAKE m \in Packing!Layers
  <2>1. CASE m \in S
        BY <2>1 DEF At
  <2>2. CASE m \notin S
    <3>1. At(f, S, m) = 0 /\ At(g, S, m) = 0
          BY <2>2 DEF At
    <3> QED BY <3>1
  <2> QED BY <2>1, <2>2
<1> DEFINE a(m) == At(f, S, m)
           b(m) == At(g, S, m)
<1>3. /\ t * (a("SKILL") + a("KNOWLEDGE") + a("MEMORY") + a("FACTS") + a("TASK"))
          = t * a("SKILL") + t * a("KNOWLEDGE") + t * a("MEMORY") + t * a("FACTS") + t * a("TASK")
      /\ c * (b("SKILL") + b("KNOWLEDGE") + b("MEMORY") + b("FACTS") + b("TASK"))
          = c * b("SKILL") + c * b("KNOWLEDGE") + c * b("MEMORY") + c * b("FACTS") + c * b("TASK")
      BY <1>1 DEF Packing!Layers
<1>4. \A m \in Packing!Layers : t * a(m) \in Int /\ c * b(m) \in Int
      BY <1>1
<1>5. \A m \in Packing!Layers : t * a(m) <= c * b(m) + d
      BY <1>2
<1> HIDE DEF a, b
<1>6. t * a("SKILL") + t * a("KNOWLEDGE") + t * a("MEMORY") + t * a("FACTS") + t * a("TASK")
        <= c * b("SKILL") + c * b("KNOWLEDGE") + c * b("MEMORY") + c * b("FACTS") + c * b("TASK") + 5 * d
      BY <1>4, <1>5 DEF Packing!Layers
<1> QED BY <1>3, <1>6 DEF Five, a, b

\* A quotient, or one less where nothing remains, is within one of what is divided.
LEMMA QuotientIsNear ==
  ASSUME NEW e \in Nat, e >= 2500, NEW t \in Nat, 5 <= t, t <= 100, NEW s \in BOOLEAN,
         NEW d, d = e \div t, NEW r, r = e % t, NEW q, q = IF s /\ r = 0 THEN d - 1 ELSE d
  PROVE  q \in Nat \ {0} /\ t * q <= e /\ e <= t * q + t
<1>1. d \in Nat /\ r \in 0 .. t - 1 /\ e = t * d + r
      BY Division
<1>2. q = d \/ (q = d - 1 /\ r = 0)
  <2>1. CASE s /\ r = 0
        BY <2>1
  <2>2. CASE ~(s /\ r = 0)
        BY <2>2
  <2> QED BY <2>1, <2>2
<1>3. t * d \in Nat /\ t * (d - 1) = t * d - t
      BY <1>1
<1>4. d # 0 /\ d # 1
  <2>1. d = 0 => t * d = 0
        BY <1>1
  <2>2. d = 1 => t * d = t
        BY <1>1
  <2> QED BY <1>1, <2>1, <2>2
<1>5. CASE q = d
  <2>1. t * q = t * d /\ q \in Nat \ {0}
        BY <1>1, <1>4, <1>5
  <2> QED BY <1>1, <1>3, <2>1
<1>6. CASE q = d - 1 /\ r = 0
  <2>1. t * q = t * d - t /\ q \in Nat \ {0}
        BY <1>1, <1>3, <1>4, <1>6
  <2> QED BY <1>1, <1>3, <1>6, <2>1
<1> QED BY <1>2, <1>5, <1>6

\* Fewer layers leave each a larger quotient.
LEMMA QuotientGrows ==
  ASSUME NEW e \in Nat, e > 0, NEW t \in Nat, 1 <= t, t <= 95, NEW s \in BOOLEAN
  PROVE  (IF s /\ e % t = 0 THEN e \div t - 1 ELSE e \div t)
           >= (IF s /\ e % 100 = 0 THEN e \div 100 - 1 ELSE e \div 100)
<1> DEFINE d == e \div t
           r == e % t
           p == e \div 100
           u == e % 100
<1>1. d \in Nat /\ r \in 0 .. t - 1 /\ e = t * d + r
      BY Division
<1>2. p \in Nat /\ u \in 0 .. 99 /\ e = 100 * p + u
      OBVIOUS
<1> HIDE DEF d, r, p, u
<1>3. t * d <= 95 * d /\ t * d \in Nat
      BY <1>1, Scale
<1>4. d >= p
      BY <1>1, <1>2, <1>3
<1>5. r = 0 => d - 1 >= p
      BY <1>1, <1>2, <1>3
<1>6. (IF s /\ r = 0 THEN d - 1 ELSE d) >= (IF s /\ u = 0 THEN p - 1 ELSE p)
      BY <1>1, <1>2, <1>4, <1>5
<1> QED BY <1>6 DEF d, r, p, u

\* What a layer is given before the rest is shared.
LEMMA QuotientIsClose ==
  ASSUME NEW chars \in Nat, 500 <= chars, NEW layers, NEW short, NEW l \in Packing!Layers,
         NEW t \in Nat, 5 <= t, t <= 100, t = SumOf(Packing!Share, Packing!Range(layers))
  PROVE  LET q == Packing!Quotient(chars, layers, short, l)
             e == chars * Packing!Share[l]
         IN /\ e \in Nat /\ e >= 2500
            /\ q \in Nat \ {0} /\ t * q <= e /\ e <= t * q + t
            /\ q = IF l \in short /\ e % t = 0 THEN e \div t - 1 ELSE e \div t
<1> DEFINE q == Packing!Quotient(chars, layers, short, l)
           e == chars * Packing!Share[l]
<1>1. Packing!Share[l] \in {5, 10, 20, 30, 35}
      BY DEF Packing!Share, Packing!Layers
<1>2. q = IF l \in short /\ e % t = 0 THEN e \div t - 1 ELSE e \div t
      BY Zenon DEF Packing!Quotient, SumOf
<1> HIDE DEF q
<1>3. e \in Nat /\ e >= 2500
  <2> DEFINE share == Packing!Share[l]
  <2>1. share \in {5, 10, 20, 30, 35}
        BY <1>1
  <2> HIDE DEF share
  <2>2. chars * share \in Nat /\ chars * share >= 2500
        BY <2>1
  <2> QED BY <2>2 DEF share
<1> HIDE DEF e
<1> DEFINE s == l \in short
           d == e \div t
           r == e % t
<1>4. s \in BOOLEAN /\ q = IF s /\ r = 0 THEN d - 1 ELSE d
      BY <1>2
<1>5. d = e \div t /\ r = e % t
      OBVIOUS
<1> HIDE DEF s, d, r
<1>6. q \in Nat \ {0} /\ t * q <= e /\ e <= t * q + t
      BY <1>3, <1>4, <1>5, QuotientIsNear
<1> QED BY <1>2, <1>3, <1>6 DEF q, e

\* The shares of some layers, in percent.
LEMMA SharesTotal ==
  ASSUME NEW S \in SUBSET Packing!Layers, S # {}
  PROVE  /\ SumOf(Packing!Share, S) = Five(Packing!Share, S)
         /\ SumOf(Packing!Share, S) \in Nat /\ 5 <= SumOf(Packing!Share, S)
         /\ SumOf(Packing!Share, S) <= 100
         /\ S # Packing!Layers => SumOf(Packing!Share, S) <= 95
<1>1. /\ Packing!Share["SKILL"] = 30 /\ Packing!Share["KNOWLEDGE"] = 35
      /\ Packing!Share["MEMORY"] = 20 /\ Packing!Share["FACTS"] = 10
      /\ Packing!Share["TASK"] = 5
      BY DEF Packing!Share
<1>2. \A l \in S : Packing!Share[l] \in Int
      BY <1>1 DEF Packing!Layers
<1>3. SumOf(Packing!Share, S) = Five(Packing!Share, S)
      BY <1>2, FoldIsSum
<1>4. /\ At(Packing!Share, S, "SKILL") = IF "SKILL" \in S THEN 30 ELSE 0
      /\ At(Packing!Share, S, "KNOWLEDGE") = IF "KNOWLEDGE" \in S THEN 35 ELSE 0
      /\ At(Packing!Share, S, "MEMORY") = IF "MEMORY" \in S THEN 20 ELSE 0
      /\ At(Packing!Share, S, "FACTS") = IF "FACTS" \in S THEN 10 ELSE 0
      /\ At(Packing!Share, S, "TASK") = IF "TASK" \in S THEN 5 ELSE 0
      BY <1>1 DEF At
<1>5. \E l \in Packing!Layers : l \in S
      OBVIOUS
<1>6. S # Packing!Layers => \E l \in Packing!Layers : l \notin S
      OBVIOUS
<1> DEFINE five == Five(Packing!Share, S)
<1>7. five \in Nat /\ 5 <= five /\ five <= 100 /\ (S # Packing!Layers => five <= 95)
      BY <1>4, <1>5, <1>6 DEF Five, Packing!Layers
<1> QED BY <1>3, <1>7

\* A sum of which one term is another.
LEMMA OneOther ==
  ASSUME NEW S \in SUBSET Packing!Layers, NEW f, \A l \in S : f[l] \in Int,
         NEW g, \A l \in S : g[l] \in Int, NEW top \in S, \A l \in S \ {top} : g[l] = f[l]
  PROVE  Five(g, S) = Five(f, S) - f[top] + g[top]
<1>1. \A m \in Packing!Layers : At(f, S, m) \in Int /\ At(g, S, m) \in Int
      BY DEF At
<1>2. \A m \in Packing!Layers : m # top => At(f, S, m) = At(g, S, m)
      BY DEF At
<1>3. At(f, S, top) = f[top] /\ At(g, S, top) = g[top] /\ top \in Packing!Layers
      BY DEF At
<1> DEFINE a(m) == At(f, S, m)
           b(m) == At(g, S, m)
<1>4. \A m \in Packing!Layers : a(m) \in Int /\ b(m) \in Int /\ (m # top => a(m) = b(m))
      BY <1>1, <1>2
<1>5. a(top) = f[top] /\ b(top) = g[top]
      BY <1>3
<1> HIDE DEF a, b
<1>6. b("SKILL") + b("KNOWLEDGE") + b("MEMORY") + b("FACTS") + b("TASK")
        = a("SKILL") + a("KNOWLEDGE") + a("MEMORY") + a("FACTS") + a("TASK") - a(top) + b(top)
  <2> USE <1>4 DEF Packing!Layers
  <2>1. CASE top = "SKILL"
        BY <2>1
  <2>2. CASE top = "KNOWLEDGE"
        BY <2>2
  <2>3. CASE top = "MEMORY"
        BY <2>3
  <2>4. CASE top = "FACTS"
        BY <2>4
  <2>5. CASE top = "TASK"
        BY <2>5
  <2> QED BY <1>3, <2>1, <2>2, <2>3, <2>4, <2>5
<1>7. Five(f, S) = a("SKILL") + a("KNOWLEDGE") + a("MEMORY") + a("FACTS") + a("TASK")
      BY Zenon DEF Five, a
<1>8. Five(g, S) = b("SKILL") + b("KNOWLEDGE") + b("MEMORY") + b("FACTS") + b("TASK")
      BY Zenon DEF Five, b
<1> QED BY <1>3, <1>4, <1>5, <1>6, <1>7, <1>8 DEF Packing!Layers

\* The same in one word.
Alike(f, g, S, top) == /\ \A l \in S : f[l] \in Int /\ g[l] \in Int
                       /\ \A l \in S \ {top} : g[l] = f[l]

Differ(f, g, S, top) == Five(g, S) = Five(f, S) - f[top] + g[top]

\* Two such functions differ in their sums by what they differ at that place.
LEMMA OneIsOther ==
  \A S \in SUBSET Packing!Layers : \A f, g : \A top \in S :
    Alike(f, g, S, top) => Differ(f, g, S, top)
BY OneOther DEF Alike, Differ

\* The budgets spend the request: each layer has its quotient, the largest also the rest.
LEMMA BudgetsSpend ==
  ASSUME NEW chars \in Nat, 500 <= chars, NEW layers, NEW short,
         NEW S \in SUBSET Packing!Layers, S # {}, S = Packing!Range(layers)
  PROVE  LET budgets == Packing!Allocate(chars, layers, short)
             Q(l) == Packing!Quotient(chars, layers, short, l)
         IN /\ budgets \in [S -> Nat] /\ Five(budgets, S) = chars
            /\ \E top \in S : /\ \A l \in S : Packing!Share[l] <= Packing!Share[top]
                              /\ \A l \in S \ {top} : budgets[l] = Q(l)
                              /\ budgets[top] >= Q(top)
<1> DEFINE floor == [l \in S |-> Packing!Quotient(chars, layers, short, l)]
           top == CHOOSE l \in S : \A m \in S : Packing!Share[m] <= Packing!Share[l]
           budgets == Packing!Allocate(chars, layers, short)
           rest == chars - SumOf(floor, S)
           t == SumOf(Packing!Share, S)
<1>1. budgets = [floor EXCEPT ![top] = @ + chars - SumOf(floor, DOMAIN floor)]
      BY Zenon DEF Packing!Allocate, SumOf, Packing!FoldFunction
<1>2. \A l \in Packing!Layers : Packing!Share[l] \in 5 .. 35
      BY DEF Packing!Share, Packing!Layers
<1>3. top \in S /\ \A m \in S : Packing!Share[m] <= Packing!Share[top]
  <2>1. \E l \in S : \A m \in S : Packing!Share[m] <= Packing!Share[l]
    <3>1. /\ Packing!Share["SKILL"] = 30 /\ Packing!Share["KNOWLEDGE"] = 35
          /\ Packing!Share["MEMORY"] = 20 /\ Packing!Share["FACTS"] = 10
          /\ Packing!Share["TASK"] = 5
          BY DEF Packing!Share
    <3> QED BY <3>1 DEF Packing!Layers
  <2> QED BY <2>1
<1> HIDE DEF top, budgets
<1>4. /\ t = Five(Packing!Share, S) /\ t \in Nat /\ 5 <= t /\ t <= 100
      BY SharesTotal
<1>5. \A l \in S : floor[l] \in Nat \ {0} /\ t * floor[l] <= chars * Packing!Share[l]
  <2> TAKE l \in S
  <2>1. /\ Packing!Quotient(chars, layers, short, l) \in Nat \ {0}
        /\ t * Packing!Quotient(chars, layers, short, l) <= chars * Packing!Share[l]
        BY <1>4, QuotientIsClose
  <2> QED BY <2>1
<1>6. DOMAIN floor = S /\ \A l \in S : floor[l] = Packing!Quotient(chars, layers, short, l)
      OBVIOUS
<1> HIDE DEF floor, t
<1>7. SumOf(floor, S) = Five(floor, S) /\ Five(floor, S) \in Int
  <2>1. \A l \in S : floor[l] \in Int
        BY <1>5
  <2> QED BY <1>3, <2>1, FoldIsSum, OneLess
<1>8. Five(floor, S) <= chars
  <2>1. \A l \in S : t * floor[l] <= chars * Packing!Share[l] + 0
    <3> TAKE l \in S
    <3>1. chars * Packing!Share[l] \in Int
          BY <1>2
    <3> QED BY <1>5, <3>1
  <2>2. t * Five(floor, S) <= chars * Five(Packing!Share, S) + 5 * 0
    <3>1. \A l \in S : floor[l] \in Int /\ Packing!Share[l] \in Int
          BY <1>2, <1>5
    <3> QED BY <1>4, <2>1, <3>1, Sums
  <2>3. t * Five(floor, S) <= t * chars
    <3>1. chars * t = t * chars /\ chars * t \in Int
          BY <1>4
    <3> QED BY <1>4, <2>2, <3>1
  <2> QED BY <1>4, <1>7, <2>3, Cancel
<1>9. budgets = [floor EXCEPT ![top] = @ + chars - Five(floor, S)]
      BY <1>1, <1>6, <1>7
<1>10. /\ DOMAIN budgets = S
       /\ \A l \in S \ {top} : budgets[l] = floor[l]
       /\ budgets[top] = floor[top] + chars - Five(floor, S)
  <2>1. floor = [l \in S |-> floor[l]]
        BY <1>6 DEF floor
  <2> QED BY <1>3, <1>6, <1>9, <2>1
<1>11. budgets \in [S -> Nat] /\ budgets[top] >= floor[top]
  <2>1. floor[top] \in Nat
        BY <1>3, <1>5
  <2>2. budgets[top] \in Nat /\ budgets[top] >= floor[top]
        BY <1>7, <1>8, <1>10, <2>1
  <2>3. \A l \in S : budgets[l] \in Nat
        BY <1>5, <1>10, <2>2
  <2>4. budgets = [l \in S |-> budgets[l]]
        BY <1>9, <1>6 DEF floor
  <2> QED BY <2>2, <2>3, <2>4
<1>12. Five(budgets, S) = chars
  <2>1. \A l \in S : floor[l] \in Int /\ budgets[l] \in Int
        BY <1>5, <1>11
  <2>2. Five(budgets, S) = Five(floor, S) - floor[top] + budgets[top]
    <3>1. top \in S /\ Alike(floor, budgets, S, top)
          BY <1>3, <1>10, <2>1 DEF Alike
    <3>2. Differ(floor, budgets, S, top)
          BY <3>1, OneIsOther, Zenon
    <3> QED BY <3>2, Zenon DEF Differ
  <2>3. floor[top] \in Int
        BY <1>3, <2>1
  <2> QED BY <1>7, <1>10, <2>2, <2>3
<1> QED BY <1>3, <1>6, <1>10, <1>11, <1>12 DEF budgets

\* The order names every layer.
LEMMA OrderIsAll == Packing!Range(Packing!LayerOrder) = Packing!Layers
<1>1. DOMAIN Packing!LayerOrder = 1 .. 5
      BY DEF Packing!LayerOrder
<1>2. /\ Packing!LayerOrder[1] = "SKILL" /\ Packing!LayerOrder[2] = "KNOWLEDGE"
      /\ Packing!LayerOrder[3] = "MEMORY" /\ Packing!LayerOrder[4] = "FACTS"
      /\ Packing!LayerOrder[5] = "TASK"
      BY DEF Packing!LayerOrder
<1>3. \A i \in 1 .. 5 : i \in {1, 2, 3, 4, 5}
      OBVIOUS
<1> QED BY <1>1, <1>2, <1>3 DEF Packing!Range, Packing!Layers

\* A sum without one of its terms.
LEMMA OneNone ==
  ASSUME NEW S \in SUBSET Packing!Layers, NEW f, \A m \in S : f[m] \in Int, NEW top \in S
  PROVE  Five([m \in S |-> IF m = top THEN 0 ELSE f[m]], S) = Five(f, S) - f[top]
<1> DEFINE g == [m \in S |-> IF m = top THEN 0 ELSE f[m]]
<1>1. (\A m \in S : g[m] \in Int) /\ (\A m \in S \ {top} : g[m] = f[m]) /\ g[top] = 0
      OBVIOUS
<1> HIDE DEF g
<1>2. Five(f, S) \in Int /\ Five(f, S) = f[top] + Five(f, S \ {top})
      BY OneLess
<1>3. Five(g, S) \in Int /\ Five(g, S) = g[top] + Five(g, S \ {top})
      BY <1>1, OneLess
<1>4. Five(g, S \ {top}) = Five(f, S \ {top})
      BY <1>1 DEF Five, At
<1>5. Five(f, S \ {top}) \in Int
      BY DEF Five, At
<1> QED BY <1>1, <1>2, <1>3, <1>4, <1>5 DEF g

\* What is asked of fewer layers leaves none of them less room.
LEMMA BudgetsOfFewer ==
  ASSUME NEW chars \in Nat, 500 <= chars, NEW layers, NEW short,
         NEW S \in SUBSET Packing!Layers, S # {}, S = Packing!Range(layers), NEW l \in S
  PROVE  Packing!Allocate(chars, layers, short)[l]
           >= Packing!Allocate(chars, Packing!LayerOrder, short)[l]
<1> DEFINE few == Packing!Allocate(chars, layers, short)
           all == Packing!Allocate(chars, Packing!LayerOrder, short)
           L == Packing!Layers
           q(m) == Packing!Quotient(chars, layers, short, m)
           p(m) == Packing!Quotient(chars, Packing!LayerOrder, short, m)
           t == SumOf(Packing!Share, S)
           K == "KNOWLEDGE"
<1> SUFFICES few[l] >= all[l]
    OBVIOUS
<1>0. K = "KNOWLEDGE" /\ K \in L
      BY DEF Packing!Layers
<1> HIDE DEF K
<1>1. /\ Packing!Share["SKILL"] = 30 /\ Packing!Share["KNOWLEDGE"] = 35
      /\ Packing!Share["MEMORY"] = 20 /\ Packing!Share["FACTS"] = 10
      /\ Packing!Share["TASK"] = 5
      BY DEF Packing!Share
<1>2. /\ few \in [S -> Nat] /\ Five(few, S) = chars
      /\ \E top \in S : /\ \A m \in S : Packing!Share[m] <= Packing!Share[top]
                        /\ \A m \in S \ {top} : few[m] = q(m)
                        /\ few[top] >= q(top)
      BY BudgetsSpend
<1>3. /\ all \in [L -> Nat] /\ Five(all, L) = chars
      /\ \E top \in L : /\ \A m \in L : Packing!Share[m] <= Packing!Share[top]
                        /\ \A m \in L \ {top} : all[m] = p(m)
                        /\ all[top] >= p(top)
      BY OrderIsAll, BudgetsSpend
<1>4. CASE S = L
  <2>1. few = all
    <3>1. SumOf(Packing!Share, Packing!Range(layers)) = SumOf(Packing!Share, Packing!Range(Packing!LayerOrder))
          BY <1>4, OrderIsAll
    <3>2. \A m : q(m) = p(m)
          BY <3>1, Zenon DEF Packing!Quotient, SumOf
    <3>3. [m \in Packing!Range(layers) |-> q(m)] = [m \in Packing!Range(Packing!LayerOrder) |-> p(m)]
          BY <1>4, <3>2, OrderIsAll
    <3>4. Packing!Range(layers) = Packing!Range(Packing!LayerOrder)
          BY <1>4, OrderIsAll
    <3> QED BY <3>3, <3>4, Zenon DEF Packing!Allocate
  <2>2. few[l] \in Nat
        BY <1>2
  <2> QED BY <2>1, <2>2
<1>5. CASE S # L
  <2>1. t \in Nat /\ 5 <= t /\ t <= 95 /\ t = Five(Packing!Share, S)
        BY <1>5, SharesTotal
  <2>2. SumOf(Packing!Share, L) = 100
    <3>1. SumOf(Packing!Share, L) = Five(Packing!Share, L)
          BY SharesTotal
    <3> QED BY <1>1, <3>1 DEF Five, At, Packing!Layers
  <2>3. \A m \in S : LET e == chars * Packing!Share[m] IN
          /\ e \in Nat /\ e >= 2500 /\ q(m) \in Nat /\ p(m) \in Nat
          /\ t * q(m) <= e
          /\ e <= 100 * p(m) + 100
          /\ q(m) >= p(m)
    <3> TAKE m \in S
    <3> DEFINE e == chars * Packing!Share[m]
    <3>1. /\ e \in Nat /\ e >= 2500 /\ q(m) \in Nat \ {0} /\ t * q(m) <= e
          /\ q(m) = IF m \in short /\ e % t = 0 THEN e \div t - 1 ELSE e \div t
          BY <2>1, QuotientIsClose
    <3>2. /\ p(m) \in Nat \ {0} /\ e <= 100 * p(m) + 100
          /\ p(m) = IF m \in short /\ e % 100 = 0 THEN e \div 100 - 1 ELSE e \div 100
          BY <2>2, OrderIsAll, QuotientIsClose
    <3> HIDE DEF e, q, p, t
    <3> DEFINE s == m \in short
    <3>3. s \in BOOLEAN /\ q(m) = IF s /\ e % t = 0 THEN e \div t - 1 ELSE e \div t
          BY <3>1
    <3>4. p(m) = IF s /\ e % 100 = 0 THEN e \div 100 - 1 ELSE e \div 100
          BY <3>2
    <3> HIDE DEF s
    <3>5. q(m) >= p(m)
      <4>1. (IF s /\ e % t = 0 THEN e \div t - 1 ELSE e \div t)
              >= (IF s /\ e % 100 = 0 THEN e \div 100 - 1 ELSE e \div 100)
            BY <2>1, <3>1, <3>3, QuotientGrows
      <4> QED BY <3>3, <3>4, <4>1
    <3> QED BY <3>1, <3>2, <3>5 DEF e
  <2>4. \A m \in L : /\ chars * Packing!Share[m] <= 100 * p(m) + 100 /\ p(m) \in Nat
                     /\ chars * Packing!Share[m] \in Nat
        BY <2>2, OrderIsAll, QuotientIsClose
  <2> HIDE DEF few, all, t, q, p
  <2>5. /\ \A m \in L \ {K} : all[m] = p(m)
        /\ all[K] \in Nat /\ all[l] \in Nat /\ few[l] \in Nat
        BY <1>0, <1>1, <1>2, <1>3 DEF Packing!Layers
  <2>6. CASE l # K
    <3>1. few[l] >= q(l)
      <4>1. q(l) \in Nat
            BY <2>3
      <4> QED BY <1>2, <4>1
    <3>2. all[l] = p(l) /\ q(l) >= p(l) /\ p(l) \in Nat /\ q(l) \in Nat
          BY <2>3, <2>5, <2>6
    <3> QED BY <2>5, <3>1, <3>2
  <2>7. CASE l = K
    <3> DEFINE f == [m \in S |-> IF m = K THEN 0 ELSE few[m]]
               g == [m \in S |-> IF m = K THEN 0 ELSE Packing!Share[m]]
               a == [m \in L |-> IF m = K THEN 0 ELSE all[m]]
               b == [m \in L |-> IF m = K THEN 0 ELSE Packing!Share[m]]
    <3>1. \A m \in S \ {K} : few[m] = q(m)
          BY <1>0, <1>1, <1>2, <2>7 DEF Packing!Layers
    <3>2. \A m \in L : Packing!Share[m] \in Nat /\ all[m] \in Nat
          BY <1>1, <1>3 DEF Packing!Layers
    <3>3. \A m \in S : few[m] \in Nat
          BY <1>2
    <3>4. /\ \A m \in S : f[m] \in Int /\ g[m] \in Int
          /\ \A m \in L : a[m] \in Int /\ b[m] \in Int
          BY <3>2, <3>3
    <3>5. /\ \A m \in S \ {K} : f[m] = few[m] /\ g[m] = Packing!Share[m]
          /\ \A m \in L \ {K} : a[m] = all[m] /\ b[m] = Packing!Share[m]
          /\ f[K] = 0 /\ g[K] = 0 /\ a[K] = 0 /\ b[K] = 0 /\ K \in S /\ K \in L
          BY <1>0, <2>7
    <3> HIDE DEF f, g, a, b
    <3>6. Five(f, S) = chars - few[K]
      <4>1. Five(f, S) = Five(few, S) - few[K]
            BY <3>3, <3>5, OneNone DEF f
      <4> QED BY <1>2, <4>1
    <3>7. Five(a, L) = chars - all[K]
      <4>1. L \in SUBSET Packing!Layers /\ K \in L /\ \A m \in L : all[m] \in Int
            BY <3>2, <3>5
      <4>2. Five(a, L) = Five(all, L) - all[K]
            BY <4>1, OneNone, Zenon DEF a
      <4> QED BY <1>3, <4>2
    <3>8. Five(g, S) = t - 35
      <4>1. \A m \in S : Packing!Share[m] \in Int
            BY <3>2
      <4>2. Five(g, S) = Five(Packing!Share, S) - Packing!Share[K]
            BY <3>5, <4>1, OneNone DEF g
      <4> QED BY <1>0, <1>1, <2>1, <4>2
    <3>9. Five(b, L) = 65
          BY <1>0, <1>1, <3>5 DEF Five, At, Packing!Layers
    <3>10. t * Five(f, S) <= chars * Five(g, S) + 5 * 0
      <4>1. ASSUME NEW m \in S
            PROVE  t * f[m] <= chars * g[m] + 0
        <5>1. CASE m = K
              BY <2>1, <3>5, <5>1
        <5>2. CASE m # K
          <6>1. t * q(m) <= chars * Packing!Share[m] /\ chars * Packing!Share[m] \in Nat
                BY <2>3
          <6>2. f[m] = q(m) /\ g[m] = Packing!Share[m]
                BY <3>1, <3>5, <5>2
          <6> QED BY <6>1, <6>2
        <5> QED BY <5>1, <5>2
      <4> QED BY <2>1, <3>4, <4>1, Sums
    <3>11. chars * Five(b, L) <= 100 * Five(a, L) + 5 * 100
      <4>1. ASSUME NEW m \in L
            PROVE  chars * b[m] <= 100 * a[m] + 100
        <5>1. CASE m = K
              BY <3>5, <5>1
        <5>2. CASE m # K
          <6>1. a[m] = p(m) /\ b[m] = Packing!Share[m]
                BY <2>5, <3>5, <5>2
          <6> QED BY <2>4, <6>1
        <5> QED BY <5>1, <5>2
      <4> QED BY <3>4, <4>1, Sums
    <3>12. few[K] \in Nat
          BY <3>3, <3>5
    <3>13. 35 * chars <= 95 * few[K]
      <4> DEFINE x == few[K]
      <4>1. t * (chars - x) <= chars * (t - 35)
            BY <2>1, <3>6, <3>8, <3>10
      <4>2. x \in Nat
            BY <3>12
      <4> HIDE DEF x
      <4>3. t * (chars - x) = t * chars - t * x /\ chars * (t - 35) = t * chars - 35 * chars
            BY <2>1, <4>2
      <4>4. t * x <= 95 * x /\ t * x \in Nat /\ t * chars \in Nat
            BY <2>1, <4>2, Scale
      <4>5. 35 * chars <= t * x
            BY <4>1, <4>3, <4>4
      <4>6. 35 * chars <= 95 * x
            BY <4>2, <4>4, <4>5
      <4> QED BY <4>6 DEF x
    <3>14. 65 * chars <= 100 * (chars - all[K]) + 500
          BY <3>7, <3>9, <3>11
    <3> QED BY <2>5, <2>7, <3>12, <3>13, <3>14
  <2> QED BY <2>6, <2>7
<1> QED BY <1>4, <1>5

\* What is asked for is some of the layers.
LEMMA SomeLayers ==
  ASSUME NEW asked \in Seq(Packing!Layers)
  PROVE  /\ Packing!Range(Packing!ResolveLayers(asked)) \in SUBSET Packing!Layers
         /\ Packing!Range(Packing!ResolveLayers(asked)) # {}
<1> DEFINE order == Packing!LayerOrder
           I == {i \in DOMAIN order : order[i] \in Packing!Range(asked)}
           p == Packing!ResolveLayers(asked)
<1>1. CASE asked = << >>
  <2>1. p = order
        BY <1>1 DEF Packing!ResolveLayers
  <2> QED BY <2>1, OrderIsAll DEF Packing!Layers
<1>2. CASE asked # << >>
  <2>1. p = Picked(order, I)
        BY <1>2, Zenon DEF Packing!ResolveLayers, Packing!Picked, Picked
  <2>2. order \in Seq(Packing!Layers) /\ Len(order) = 5 /\ DOMAIN order = 1 .. 5
        BY DEF Packing!LayerOrder, Packing!Layers
  <2>3. \E i \in 1 .. 5 : i \in I
    <3>1. 1 \in DOMAIN asked /\ asked[1] \in Packing!Layers
          BY <1>2, LenProperties, ElementOfSeq, EmptySeq
    <3>2. PICK i \in DOMAIN order : order[i] = asked[1]
          BY <3>1, OrderIsAll DEF Packing!Range
    <3> QED BY <2>2, <3>1, <3>2 DEF Packing!Range
  <2> HIDE DEF order, I
  <2>4. p \in Seq(Packing!Layers) /\ \E e : Takes(p, order, I \cap 1 .. 5, e)
        BY <2>1, <2>2, PickedTakes
  <2>5. PICK e : Takes(p, order, I \cap 1 .. 5, e)
        BY <2>4
  <2>6. \E k \in 1 .. Len(p) : TRUE
        BY <2>3, <2>5 DEF Takes
  <2>7. DOMAIN p = 1 .. Len(p) /\ \A k \in 1 .. Len(p) : p[k] \in Packing!Layers
        BY <2>4, LenProperties, ElementOfSeq
  <2> HIDE DEF p
  <2> QED BY <2>6, <2>7 DEF Packing!Range, p
<1> QED BY <1>1, <1>2

\* What a layer ranks, once its caller may read of it.
Ranked(x, l) ==
  CASE l = "FACTS" -> Packing!Reads(x, "todos") \o Packing!Reads(x, "notes")
    [] l = "TASK"  -> IF x.session /\ Packing!Permits(x.scopes, "session") /\ "session" \notin x.failing
                      THEN <<x.goal>> \o (x.has["session"] \o Packing!TailItem(x.lines)) ELSE <<x.goal>>
    [] OTHER       -> Packing!Reads(x, CHOOSE v \in Packing!Of[l] : TRUE)

\* Items of a request that its caller may read.
Permitted(x) ==
  {item \in Packing!Items : item.from = "task" \/ Packing!Permits(x.scopes, item.from)}

\* What a request is made of.
LEMMA RequestsAre ==
  ASSUME NEW x \in Packing!Inputs
  PROVE  /\ x.layers \in Seq(Packing!Layers) /\ x.chars \in Nat /\ 500 <= x.chars
         /\ x.lines \in Seq(STRING)
         /\ x.failing \in SUBSET Packing!Providers
         /\ x.goal \in Packing!Items /\ x.goal.from = "task"
         /\ x.room[1] \in Nat /\ x.room[2] \in Nat /\ x.room[1] <= x.room[2]
         /\ \A v \in Packing!Providers :
              x.has[v] \in Seq(Packing!Items) /\ \A i \in DOMAIN x.has[v] : x.has[v][i].from = v
<1> QED BY DEF Packing!Inputs

\* The providers.
LEMMA SixProviders ==
  Packing!Providers = {"skills", "knowledge", "entries", "todos", "notes", "session"}
<1> QED BY DEF Packing!Providers, Packing!Resource

\* What a provider is read for.
LEMMA ReadsArePermitted ==
  ASSUME NEW x \in Packing!Inputs, NEW v \in Packing!Providers
  PROVE  /\ Packing!Reads(x, v) \in Seq(Packing!Items)
         /\ \A i \in DOMAIN Packing!Reads(x, v) :
              Packing!Reads(x, v)[i].from = v /\ Packing!Permits(x.scopes, v)
<1>1. CASE Packing!Permits(x.scopes, v) /\ v \notin x.failing
  <2>1. Packing!Reads(x, v) = x.has[v]
        BY <1>1 DEF Packing!Reads
  <2> QED BY <1>1, <2>1, RequestsAre
<1>2. CASE ~(Packing!Permits(x.scopes, v) /\ v \notin x.failing)
  <2>1. Packing!Reads(x, v) = << >>
        BY <1>2 DEF Packing!Reads
  <2>2. << >> \in Seq(Packing!Items) /\ DOMAIN << >> = {}
        BY EmptySeq
  <2> QED BY <2>1, <2>2
<1> QED BY <1>1, <1>2

\* A journal's tail is one item or none.
LEMMA TailIsAnItem ==
  ASSUME NEW lines \in Seq(STRING)
  PROVE  /\ Packing!TailItem(lines) \in Seq(Packing!Items)
         /\ \A i \in DOMAIN Packing!TailItem(lines) : Packing!TailItem(lines)[i].from = "session"
<1> DEFINE I == {i \in DOMAIN lines : lines[i] # "observation"}
           told == Picked(lines, I)
           kept == Packing!TimelineLines(lines)
           item == [from |-> "session", size |-> Len(kept), breaks |-> << >>, lines |-> kept]
<1>1. kept = SubSeq(told, Packing!Max({1, Len(told) - MaxLines + 1}), Len(told))
      BY Zenon DEF Packing!TimelineLines, Packing!Picked, Picked
<1>2. told \in Seq(STRING)
      BY PickedTakes
<1>3. Len(told) \in Nat
      BY <1>2, LenProperties
<1> HIDE DEF told
<1> DEFINE first == Packing!Max({1, Len(told) - MaxLines + 1})
<1>4. first \in Nat \ {0}
  <2>1. \E m \in {1, Len(told) - MaxLines + 1} : \A k \in {1, Len(told) - MaxLines + 1} : k <= m
        BY <1>3, PacksAssumption
  <2>2. first \in {1, Len(told) - MaxLines + 1} /\ \A k \in {1, Len(told) - MaxLines + 1} : k <= first
        BY <2>1 DEF Packing!Max
  <2> HIDE DEF first
  <2> QED BY <1>3, <2>2, PacksAssumption
<1> HIDE DEF first
<1>5. kept \in Seq(STRING)
  <2>1. kept = SubSeq(told, first, Len(told))
        BY <1>1 DEF first
  <2>2. \A i \in first .. Len(told) : told[i] \in STRING
    <3> TAKE i \in first .. Len(told)
    <3>1. i \in 1 .. Len(told)
          BY <1>3, <1>4
    <3> QED BY <1>2, <3>1, ElementOfSeq
  <2> QED BY <1>2, <1>3, <1>4, <2>1, <2>2, SubSeqProperties
<1>6. Len(kept) \in Nat
      BY <1>5, LenProperties
<1> HIDE DEF kept
<1>7. item \in Packing!Items
      BY <1>5, <1>6 DEF Packing!Items
<1>8. Packing!TailItem(lines) = IF kept = << >> THEN << >> ELSE <<item>>
      BY DEF Packing!TailItem, kept
<1>9. item.from = "session"
      OBVIOUS
<1> HIDE DEF item
<1>10. << >> \in Seq(Packing!Items) /\ DOMAIN << >> = {}
       BY EmptySeq
<1>11. <<item>> \in Seq(Packing!Items) /\ \A i \in DOMAIN <<item>> : <<item>>[i] = item
       BY <1>7
<1> QED BY <1>8, <1>9, <1>10, <1>11

\* One sequence after another.
LEMMA Concatenated ==
  ASSUME NEW T, NEW s \in Seq(T), NEW t \in Seq(T)
  PROVE  /\ s \o t \in Seq(T) /\ Len(s \o t) = Len(s) + Len(t) /\ Len(s) \in Nat /\ Len(t) \in Nat
         /\ \A i \in 1 .. Len(s) : (s \o t)[i] = s[i]
         /\ \A i \in 1 .. Len(t) : (s \o t)[Len(s) + i] = t[i]
         /\ \A i \in 1 .. Len(s) + Len(t) : i \in 1 .. Len(s) \/ (i - Len(s) \in 1 .. Len(t) /\ i = Len(s) + (i - Len(s)))
<1>1. Len(s) \in Nat /\ Len(t) \in Nat
      BY LenProperties
<1>2. /\ s \o t \in Seq(T) /\ Len(s \o t) = Len(s) + Len(t)
      /\ \A i \in 1 .. Len(s) + Len(t) : (s \o t)[i] = IF i <= Len(s) THEN s[i] ELSE t[i - Len(s)]
      BY ConcatProperties
<1>3. \A i \in 1 .. Len(s) : i \in 1 .. Len(s) + Len(t) /\ i <= Len(s)
      BY <1>1
<1>4. ASSUME NEW i \in 1 .. Len(t)
      PROVE  (s \o t)[Len(s) + i] = t[i]
  <2>1. /\ Len(s) + i \in 1 .. Len(s) + Len(t) /\ ~(Len(s) + i <= Len(s))
        /\ (Len(s) + i) - Len(s) = i
        BY <1>1
  <2> QED BY <1>2, <2>1
<1> QED BY <1>1, <1>2, <1>3, <1>4

\* Items of some kind after items of that kind.
LEMMA KindsAreKept ==
  ASSUME NEW T, NEW K, NEW s \in Seq(T), NEW t \in Seq(T),
         \A i \in DOMAIN s : s[i] \in K, \A i \in DOMAIN t : t[i] \in K
  PROVE  s \o t \in Seq(T) /\ \A i \in DOMAIN (s \o t) : (s \o t)[i] \in K
<1>1. DOMAIN s = 1 .. Len(s) /\ DOMAIN t = 1 .. Len(t)
      BY LenProperties
<1>2. DOMAIN (s \o t) = 1 .. Len(s) + Len(t)
      BY Concatenated, LenProperties
<1>3. ASSUME NEW i \in 1 .. Len(s) + Len(t)
      PROVE  (s \o t)[i] \in K
  <2>1. CASE i \in 1 .. Len(s)
        BY <1>1, <2>1, Concatenated
  <2>2. CASE i - Len(s) \in 1 .. Len(t) /\ i = Len(s) + (i - Len(s))
    <3> DEFINE j == i - Len(s)
    <3>1. j \in 1 .. Len(t) /\ i = Len(s) + j
          BY <2>2
    <3> HIDE DEF j
    <3> QED BY <1>1, <3>1, Concatenated
  <2> QED BY <2>1, <2>2, Concatenated
<1> QED BY <1>2, <1>3, Concatenated

\* Every layer ranks items that its caller may read.
LEMMA RankedIsPermitted ==
  ASSUME NEW x \in Packing!Inputs, NEW l \in Packing!Layers
  PROVE  /\ Ranked(x, l) \in Seq(Packing!Items)
         /\ \A i \in DOMAIN Ranked(x, l) : Ranked(x, l)[i] \in Permitted(x)
<1>1. ASSUME NEW v \in Packing!Providers
      PROVE  /\ Packing!Reads(x, v) \in Seq(Packing!Items)
             /\ \A i \in DOMAIN Packing!Reads(x, v) : Packing!Reads(x, v)[i] \in Permitted(x)
  <2>1. Packing!Reads(x, v) \in Seq(Packing!Items)
        BY ReadsArePermitted
  <2>2. \A i \in DOMAIN Packing!Reads(x, v) : Packing!Reads(x, v)[i] \in Packing!Items
        BY <2>1, LenProperties, ElementOfSeq
  <2> QED BY <2>1, <2>2, ReadsArePermitted DEF Permitted
<1>2. CASE l = "FACTS"
  <2>1. Ranked(x, l) = Packing!Reads(x, "todos") \o Packing!Reads(x, "notes")
        BY <1>2 DEF Ranked
  <2>2. "todos" \in Packing!Providers /\ "notes" \in Packing!Providers
        BY SixProviders
  <2> QED BY <1>1, <2>1, <2>2, KindsAreKept
<1>3. CASE l = "TASK"
  <2> DEFINE known == x.session /\ Packing!Permits(x.scopes, "session") /\ "session" \notin x.failing
             had == x.has["session"]
             tail == Packing!TailItem(x.lines)
  <2>1. Ranked(x, l) = IF known THEN <<x.goal>> \o (had \o tail) ELSE <<x.goal>>
        BY <1>3 DEF Ranked
  <2>2. x.goal \in Packing!Items /\ x.goal \in Permitted(x)
        BY RequestsAre DEF Permitted
  <2>3. /\ <<x.goal>> \in Seq(Packing!Items)
        /\ \A i \in DOMAIN <<x.goal>> : <<x.goal>>[i] \in Permitted(x)
        BY <2>2
  <2>4. CASE known
    <3>1. had \in Seq(Packing!Items) /\ \A i \in DOMAIN had : had[i].from = "session"
          BY RequestsAre, SixProviders
    <3>2. tail \in Seq(Packing!Items) /\ \A i \in DOMAIN tail : tail[i].from = "session"
          BY RequestsAre, TailIsAnItem
    <3>3. Packing!Permits(x.scopes, "session")
          BY <2>4
    <3> HIDE DEF known, had, tail
    <3>4. /\ \A i \in DOMAIN had : had[i] \in Permitted(x)
          /\ \A i \in DOMAIN tail : tail[i] \in Permitted(x)
      <4>1. /\ \A i \in DOMAIN had : had[i] \in Packing!Items
            /\ \A i \in DOMAIN tail : tail[i] \in Packing!Items
            BY <3>1, <3>2, LenProperties, ElementOfSeq
      <4> QED BY <3>1, <3>2, <3>3, <4>1 DEF Permitted
    <3>5. had \o tail \in Seq(Packing!Items) /\ \A i \in DOMAIN (had \o tail) : (had \o tail)[i] \in Permitted(x)
          BY <3>1, <3>2, <3>4, KindsAreKept
    <3> DEFINE state == had \o tail
    <3>6. state \in Seq(Packing!Items) /\ \A i \in DOMAIN state : state[i] \in Permitted(x)
          BY <3>5
    <3>7. Ranked(x, l) = <<x.goal>> \o state
          BY <2>1, <2>4
    <3> HIDE DEF state
    <3> DEFINE one == <<x.goal>>
    <3>8. one \in Seq(Packing!Items) /\ \A i \in DOMAIN one : one[i] \in Permitted(x)
          BY <2>3
    <3>9. Ranked(x, l) = one \o state
          BY <3>7
    <3> HIDE DEF one
    <3> QED BY <3>6, <3>8, <3>9, KindsAreKept
  <2>5. CASE ~known
    <3>1. Ranked(x, l) = <<x.goal>>
          BY <2>1, <2>5
    <3> QED BY <2>3, <3>1
  <2> QED BY <2>4, <2>5
<1>4. CASE l \notin {"FACTS", "TASK"}
  <2> DEFINE v == CHOOSE w \in Packing!Of[l] : TRUE
  <2>1. Ranked(x, l) = Packing!Reads(x, v)
        BY <1>4 DEF Ranked
  <2>2. v \in Packing!Providers
    <3>1. /\ Packing!Of["SKILL"] = {"skills"} /\ Packing!Of["KNOWLEDGE"] = {"knowledge"}
          /\ Packing!Of["MEMORY"] = {"entries"}
          BY DEF Packing!Of
    <3> QED BY <1>4, <3>1, SixProviders DEF Packing!Layers
  <2> HIDE DEF v
  <2> QED BY <1>1, <2>1, <2>2
<1> QED BY <1>2, <1>3, <1>4

\* A layer has nothing and says why, or it has of what it ranks what fits.
LEMMA LayersGather ==
  ASSUME NEW x \in Packing!Inputs, NEW l \in Packing!Layers, NEW budget \in Nat
  PROVE  LET g == Packing!Gather(x, l, budget)
             fit == Packing!Fit(Ranked(x, l), budget)
         IN \/ \E note \in Packing!Notes : g = Packing!Nothing(note)
            \/ \E note \in Packing!Notes \cup {Nil} :
                 /\ g = Packing!Result(fit, note)
                 /\ note = Nil => fit.kept # << >> \/ Ranked(x, l) # << >>
<1> DEFINE g == Packing!Gather(x, l, budget)
           fit == Packing!Fit(Ranked(x, l), budget)
<1>1. /\ "insufficient scope" \in Packing!Notes /\ "failed" \in Packing!Notes
      /\ "no match" \in Packing!Notes /\ "resumed" \in Packing!Notes
      /\ "journal" \in Packing!Notes
      BY DEF Packing!Notes
<1>2. CASE l = "FACTS"
  <2>1. g = Packing!GatherFacts(x, budget)
        BY <1>2 DEF Packing!Gather
  <2>2. fit = Packing!Fit(Packing!Reads(x, "todos") \o Packing!Reads(x, "notes"), budget)
        BY <1>2 DEF Ranked
  <2> DEFINE failed == {v \in Packing!Of["FACTS"] : Packing!Permits(x.scopes, v)} \cap x.failing
             none == \A v \in Packing!Of["FACTS"] : ~Packing!Permits(x.scopes, v)
             note == IF failed # {} THEN "failed" ELSE IF fit.kept = << >> THEN "no match" ELSE Nil
  <2>3. g = IF none THEN Packing!Nothing("insufficient scope") ELSE Packing!Result(fit, note)
        BY <2>1, <2>2, Zenon DEF Packing!GatherFacts
  <2>4. note \in Packing!Notes \cup {Nil} /\ (note = Nil => fit.kept # << >>)
        BY <1>1, PacksAssumption
  <2> HIDE DEF note, none
  <2> QED BY <1>1, <2>3, <2>4
<1>3. CASE l = "TASK"
  <2>1. g = Packing!GatherTask(x, budget)
        BY <1>3 DEF Packing!Gather
  <2> DEFINE known == x.session /\ Packing!Permits(x.scopes, "session")
             had == x.has["session"]
             state == IF "session" \in x.failing THEN << >> ELSE had \o Packing!TailItem(x.lines)
             one == <<x.goal>>
             note == CASE "session" \in x.failing -> "failed"
                       [] had # << >> -> "resumed"
                       [] OTHER -> "journal"
  <2>2. g = IF ~known THEN Packing!Result(Packing!Fit(one, budget), Nil)
            ELSE Packing!Result(Packing!Fit(one \o state, budget), note)
        BY <2>1, Zenon DEF Packing!GatherTask
  <2>3. note \in Packing!Notes
        BY <1>1
  <2>4. one # << >> /\ one \in Seq(Packing!Items) /\ Len(one) = 1
        BY RequestsAre
  <2>5. Ranked(x, l) = IF known /\ "session" \notin x.failing
                       THEN one \o (had \o Packing!TailItem(x.lines)) ELSE one
        BY <1>3 DEF Ranked
  <2> HIDE DEF note, had, one
  <2>6. CASE ~known
    <3>1. Ranked(x, l) = one
          BY <2>5, <2>6
    <3> QED BY <2>2, <2>4, <2>6, <3>1
  <2>7. CASE known
    <3>1. Ranked(x, l) = one \o state
      <4>1. CASE "session" \in x.failing
        <5>1. one \o << >> = one
              BY <2>4, ConcatEmptySeq
        <5> QED BY <2>5, <4>1, <5>1
      <4>2. CASE "session" \notin x.failing
            BY <2>5, <2>7, <4>2
      <4> QED BY <4>1, <4>2
    <3>2. note # Nil
          BY <2>3, PacksAssumption
    <3> QED BY <2>2, <2>3, <2>7, <3>1, <3>2
  <2> QED BY <2>6, <2>7
<1>4. CASE l \notin {"FACTS", "TASK"}
  <2> DEFINE v == CHOOSE w \in Packing!Of[l] : TRUE
             note == IF l # "SKILL" /\ fit.kept = << >> THEN "no match" ELSE Nil
  <2>1. g = Packing!GatherFound(x, l, v, budget)
        BY <1>4 DEF Packing!Gather
  <2>2. Ranked(x, l) = Packing!Reads(x, v)
        BY <1>4 DEF Ranked
  <2> HIDE DEF v
  <2>3. g = CASE ~Packing!Permits(x.scopes, v) -> Packing!Nothing("insufficient scope")
              [] v \in x.failing -> Packing!Nothing("failed")
              [] l = "SKILL" /\ x.has[v] = << >> -> Packing!Nothing("no match")
              [] OTHER -> Packing!Result(fit, note)
        BY <2>1, <2>2, Zenon DEF Packing!GatherFound
  <2>4. note \in Packing!Notes \cup {Nil}
        BY <1>1
  <2>5. CASE ~Packing!Permits(x.scopes, v) \/ v \in x.failing \/ (l = "SKILL" /\ x.has[v] = << >>)
    <3> HIDE DEF note, fit, g
    <3> QED BY <1>1, <2>3, <2>5 DEF g
  <2>6. CASE ~(~Packing!Permits(x.scopes, v) \/ v \in x.failing \/ (l = "SKILL" /\ x.has[v] = << >>))
    <3>1. Packing!Reads(x, v) = x.has[v]
          BY <2>6 DEF Packing!Reads
    <3>2. note = Nil => fit.kept # << >> \/ Ranked(x, l) # << >>
          BY <1>1, <2>2, <2>6, <3>1, PacksAssumption
    <3> HIDE DEF note, fit
    <3>3. g = Packing!Result(fit, note)
          BY <2>3, <2>6
    <3> QED BY <2>4, <3>2, <3>3 DEF fit
  <2> QED BY <2>5, <2>6
<1> QED BY <1>2, <1>3, <1>4

\* What a layer shows is a beginning of what it ranks, and no more than its budget.
LEMMA LayersKeep ==
  ASSUME NEW x \in Packing!Inputs, NEW l \in Packing!Layers, NEW budget \in Nat
  PROVE  LET g == Packing!Gather(x, l, budget)
         IN /\ g.used \in 0 .. budget
            /\ g.kept \in Seq(Pieces) /\ Len(g.kept) <= Len(Ranked(x, l))
            /\ \A i \in 1 .. Len(g.kept) : g.kept[i].of = Ranked(x, l)[i]
            /\ g.kept = << >> => g.note # Nil \/ g.dropped > 0
<1> DEFINE g == Packing!Gather(x, l, budget)
           fit == Packing!Fit(Ranked(x, l), budget)
           N == Len(Ranked(x, l))
<1>1. Ranked(x, l) \in Seq(Packing!Items) /\ N \in Nat
      BY RankedIsPermitted, LenProperties
<1>2. /\ fit.kept \in Seq(Pieces) /\ Len(fit.kept) <= N
      /\ \A i \in 1 .. Len(fit.kept) : fit.kept[i].of = Ranked(x, l)[i]
      /\ fit.used \in 0 .. budget /\ fit.dropped = N - Len(fit.kept)
      BY <1>1, FitKeeps
<1>3. \/ \E note \in Packing!Notes : g = Packing!Nothing(note)
      \/ \E note \in Packing!Notes \cup {Nil} :
           /\ g = Packing!Result(fit, note)
           /\ note = Nil => fit.kept # << >> \/ Ranked(x, l) # << >>
      BY LayersGather
<1> HIDE DEF g, fit
<1> SUFFICES /\ g.used \in 0 .. budget
             /\ g.kept \in Seq(Pieces) /\ Len(g.kept) <= N
             /\ \A i \in 1 .. Len(g.kept) : g.kept[i].of = Ranked(x, l)[i]
             /\ g.kept = << >> => g.note # Nil \/ g.dropped > 0
    BY DEF g
<1>4. CASE \E note \in Packing!Notes : g = Packing!Nothing(note)
  <2>1. PICK note \in Packing!Notes : g = Packing!Nothing(note)
        BY <1>4
  <2>2. g.used = 0 /\ g.kept = << >> /\ g.note = note
        BY <2>1 DEF Packing!Nothing, Packing!Result
  <2>3. << >> \in Seq(Pieces) /\ Len(<< >>) = 0
        BY EmptySeq
  <2> QED BY <1>1, <2>2, <2>3, PacksAssumption
<1>5. CASE \E note \in Packing!Notes \cup {Nil} :
             /\ g = Packing!Result(fit, note)
             /\ note = Nil => fit.kept # << >> \/ Ranked(x, l) # << >>
  <2>1. PICK note \in Packing!Notes \cup {Nil} :
          /\ g = Packing!Result(fit, note)
          /\ note = Nil => fit.kept # << >> \/ Ranked(x, l) # << >>
        BY <1>5
  <2>2. g.used = fit.used /\ g.kept = fit.kept /\ g.note = note /\ g.dropped = fit.dropped
        BY <2>1 DEF Packing!Result
  <2>3. ASSUME g.kept = << >>, g.note = Nil
        PROVE  g.dropped > 0
    <3>1. Ranked(x, l) # << >>
          BY <2>1, <2>2, <2>3
    <3>2. N # 0 /\ Len(fit.kept) = 0
          BY <1>1, <2>2, <2>3, <3>1, EmptySeq
    <3> QED BY <1>1, <1>2, <2>2, <3>2
  <2> QED BY <1>2, <2>2, <2>3
<1> QED BY <1>3, <1>4, <1>5

\* Terms that are no greater have no greater sum.
LEMMA FiveGrows ==
  ASSUME NEW S \in SUBSET Packing!Layers, NEW f, NEW g,
         \A l \in S : f[l] \in Int /\ g[l] \in Int /\ f[l] <= g[l]
  PROVE  Five(f, S) <= Five(g, S)
<1>1. \A m \in Packing!Layers : /\ At(f, S, m) \in Int /\ At(g, S, m) \in Int
                                /\ At(f, S, m) <= At(g, S, m)
      BY DEF At
<1> QED BY <1>1 DEF Five, Packing!Layers

\* What a pack is made of.
LEMMA PacksAre ==
  ASSUME NEW x \in Packing!Inputs
  PROVE  LET r == Packing!Pack(x)
             order == Packing!ResolveLayers(x.layers)
             S == Packing!Range(order)
             budgets == Packing!Allocate(x.chars, order, x.short)
         IN /\ S \in SUBSET Packing!Layers /\ S # {}
            /\ budgets \in [S -> Nat] /\ Five(budgets, S) = x.chars
            /\ r.order = order /\ r.budgets = budgets
            /\ \A l \in S : r.results[l] = Packing!Gather(x, l, budgets[l])
            /\ r.used = SumOf([l \in S |-> r.results[l].used], S)
            /\ SumOf(budgets, S) = x.chars
<1> DEFINE r == Packing!Pack(x)
           order == Packing!ResolveLayers(x.layers)
           S == Packing!Range(order)
           budgets == Packing!Allocate(x.chars, order, x.short)
           results == [l \in S |-> Packing!Gather(x, l, budgets[l])]
           used == [l \in S |-> results[l].used]
<1>1. S \in SUBSET Packing!Layers /\ S # {}
      BY RequestsAre, SomeLayers
<1>2. x.chars \in Nat /\ 500 <= x.chars
      BY RequestsAre
<1>3. budgets \in [S -> Nat] /\ Five(budgets, S) = x.chars
  <2> HIDE DEF order
  <2> QED BY <1>1, <1>2, BudgetsSpend
<1>4. r = [order |-> order, budgets |-> budgets, results |-> results,
           used |-> Packing!FoldFunction(+, 0, used),
           warned |-> {l \in S : results[l].note # Nil /\ results[l].kept = << >>}]
      BY Zenon DEF Packing!Pack, Packing!GatherAll, Packing!Assemble
<1>5. Packing!FoldFunction(+, 0, used) = SumOf(used, S)
  <2>1. DOMAIN used = S
        OBVIOUS
  <2> HIDE DEF used
  <2> QED BY <2>1, Zenon DEF Packing!FoldFunction, SumOf
<1>6. SumOf(budgets, S) = x.chars
  <2>1. \A l \in S : budgets[l] \in Int
        BY <1>3
  <2> HIDE DEF budgets, S
  <2> QED BY <1>1, <1>3, <2>1, FoldIsSum
<1> DEFINE sum == SumOf(used, S)
<1>7. /\ r.order = order /\ r.budgets = budgets /\ r.results = results /\ r.used = sum
  <2> HIDE DEF order, budgets, results, used, S, r
  <2>1. \E w : r = [order |-> order, budgets |-> budgets, results |-> results,
                    used |-> sum, warned |-> w]
    <3> HIDE DEF sum
    <3> QED BY <1>4, <1>5, Zenon DEF sum
  <2> HIDE DEF sum
  <2> QED BY <2>1
<1>8. \A l \in S : r.results[l] = Packing!Gather(x, l, budgets[l])
      BY <1>7
<1>9. used = [l \in S |-> r.results[l].used]
      BY <1>7
<1> HIDE DEF r, order, budgets, results
<1>10. r.used = SumOf([l \in S |-> r.results[l].used], S)
       BY <1>7, <1>9
<1> QED BY <1>1, <1>3, <1>6, <1>7, <1>8, <1>10 DEF r, order, budgets

\* The budgets spend the request, the uses keep to them, and fewer layers have no less.
LEMMA PacksFit ==
  ASSUME NEW x \in Packing!Inputs
  PROVE  Packing!PackFits(x, Packing!Pack(x))
<1> DEFINE r == Packing!Pack(x)
           order == Packing!ResolveLayers(x.layers)
           S == Packing!Range(order)
           budgets == Packing!Allocate(x.chars, order, x.short)
           all == Packing!Allocate(x.chars, Packing!LayerOrder, x.short)
           used == [l \in S |-> r.results[l].used]
<1>1. /\ S \in SUBSET Packing!Layers /\ S # {}
      /\ budgets \in [S -> Nat] /\ Five(budgets, S) = x.chars
      /\ r.order = order /\ r.budgets = budgets
      /\ \A l \in S : r.results[l] = Packing!Gather(x, l, budgets[l])
      /\ r.used = SumOf(used, S)
      /\ SumOf(budgets, S) = x.chars
      BY PacksAre
<1>2. x.chars \in Nat /\ 500 <= x.chars
      BY RequestsAre
<1>3. \A l \in S : budgets[l] >= all[l]
  <2> HIDE DEF order
  <2> QED BY <1>1, <1>2, BudgetsOfFewer
<1>4. \A l \in S : r.results[l].used \in 0 .. budgets[l] /\ budgets[l] \in Nat
  <2> TAKE l \in S
  <2>1. budgets[l] \in Nat /\ l \in Packing!Layers /\ r.results[l] = Packing!Gather(x, l, budgets[l])
        BY <1>1
  <2> HIDE DEF r, budgets, S
  <2> QED BY <2>1, LayersKeep
<1>5. SumOf(used, S) <= x.chars
  <2>1. \A l \in S : used[l] \in Int /\ budgets[l] \in Int /\ used[l] <= budgets[l]
        BY <1>4
  <2> HIDE DEF used, budgets, S
  <2>2. SumOf(used, S) = Five(used, S)
        BY <1>1, <2>1, FoldIsSum
  <2> QED BY <1>1, <2>1, <2>2, FiveGrows
<1>6. Packing!FoldFunction(+, 0, budgets) = SumOf(budgets, S)
  <2>1. DOMAIN budgets = S
        BY <1>1
  <2> HIDE DEF budgets, S
  <2> QED BY <2>1, Zenon DEF Packing!FoldFunction, SumOf
<1> HIDE DEF used, budgets, all, order, r
<1>7. Packing!FoldFunction(+, 0, r.budgets) = x.chars
  <2>1. Packing!FoldFunction(+, 0, r.budgets) = Packing!FoldFunction(+, 0, budgets)
        BY <1>1, Zenon
  <2> HIDE DEF S
  <2> DEFINE b == Packing!FoldFunction(+, 0, budgets)
  <2>2. b = x.chars
        BY <1>1, <1>6, Zenon
  <2> QED BY <2>1, <2>2, Zenon
<1>8. r.used <= x.chars
      BY <1>1, <1>5
<1>9. \A l \in Packing!Range(r.order) : r.results[l].used <= r.budgets[l] /\ r.budgets[l] >= all[l]
      BY <1>1, <1>3, <1>4
<1> QED BY <1>7, <1>8, <1>9, Zenon DEF Packing!PackFits, r, all

\* A layer shows nothing its caller may not read, the goal first, and what it ranks first.
LEMMA PacksArePermitted ==
  ASSUME NEW x \in Packing!Inputs
  PROVE  Packing!PackIsPermitted(x, Packing!Pack(x))
<1> DEFINE r == Packing!Pack(x)
           order == Packing!ResolveLayers(x.layers)
           S == Packing!Range(order)
           budgets == Packing!Allocate(x.chars, order, x.short)
<1>1. /\ S \in SUBSET Packing!Layers /\ budgets \in [S -> Nat] /\ r.order = order
      /\ \A l \in S : r.results[l] = Packing!Gather(x, l, budgets[l])
      BY PacksAre
<1> HIDE DEF order, budgets, r
<1> SUFFICES ASSUME NEW l \in S
             PROVE  LET kept == r.results[l].kept
                    IN /\ \A i \in DOMAIN kept : \/ kept[i].of.from = "task"
                                                 \/ Packing!Permits(x.scopes, kept[i].of.from)
                       /\ l = "TASK" /\ kept # << >> => kept[1].of = x.goal
                       /\ l \in {"SKILL", "KNOWLEDGE", "MEMORY"} =>
                            \E v \in Packing!Of[l] :
                              Packing!IsPrefix([i \in DOMAIN kept |-> kept[i].of], x.has[v])
    BY <1>1, Zenon DEF Packing!PackIsPermitted, r
<1> DEFINE kept == r.results[l].kept
           ranked == Ranked(x, l)
<1>2. l \in Packing!Layers /\ budgets[l] \in Nat /\ r.results[l] = Packing!Gather(x, l, budgets[l])
      BY <1>1
<1>3. /\ kept \in Seq(Pieces) /\ Len(kept) <= Len(ranked)
      /\ \A i \in 1 .. Len(kept) : kept[i].of = ranked[i]
      BY <1>2, LayersKeep
<1>4. /\ ranked \in Seq(Packing!Items) /\ \A i \in DOMAIN ranked : ranked[i] \in Permitted(x)
      BY <1>2, RankedIsPermitted
<1>5. /\ Len(kept) \in Nat /\ DOMAIN kept = 1 .. Len(kept)
      /\ Len(ranked) \in Nat /\ DOMAIN ranked = 1 .. Len(ranked)
      BY <1>3, <1>4, LenProperties
<1> HIDE DEF kept
<1>6. \A i \in DOMAIN kept : \/ kept[i].of.from = "task"
                             \/ Packing!Permits(x.scopes, kept[i].of.from)
      BY <1>3, <1>4, <1>5 DEF Permitted
<1>7. ASSUME l = "TASK", kept # << >>
      PROVE  kept[1].of = x.goal
  <2>1. 1 \in 1 .. Len(kept)
        BY <1>3, <1>5, <1>7, EmptySeq
  <2> DEFINE state == x.has["session"] \o Packing!TailItem(x.lines)
             known == x.session /\ Packing!Permits(x.scopes, "session") /\ "session" \notin x.failing
             one == <<x.goal>>
  <2>2. ranked = IF known THEN one \o state ELSE one
        BY <1>7 DEF Ranked
  <2>3. one \in Seq(Packing!Items) /\ Len(one) = 1 /\ one[1] = x.goal
        BY RequestsAre
  <2>4. state \in Seq(Packing!Items)
    <3>1. x.has["session"] \in Seq(Packing!Items) /\ Packing!TailItem(x.lines) \in Seq(Packing!Items)
          BY RequestsAre, SixProviders, TailIsAnItem
    <3> QED BY <3>1, Concatenated
  <2> HIDE DEF state, one, known, ranked
  <2>5. (one \o state)[1] = x.goal
    <3>1. \A i \in 1 .. Len(one) : (one \o state)[i] = one[i]
          BY <2>3, <2>4, Concatenated
    <3>2. 1 \in 1 .. Len(one)
          BY <2>3
    <3> QED BY <2>3, <3>1, <3>2
  <2> QED BY <1>3, <2>1, <2>2, <2>3, <2>5
<1>8. ASSUME l \in {"SKILL", "KNOWLEDGE", "MEMORY"}
      PROVE  \E v \in Packing!Of[l] : Packing!IsPrefix([i \in DOMAIN kept |-> kept[i].of], x.has[v])
  <2> DEFINE v == CHOOSE w \in Packing!Of[l] : TRUE
             shown == [i \in DOMAIN kept |-> kept[i].of]
  <2>1. v \in Packing!Of[l] /\ v \in Packing!Providers
    <3>1. /\ Packing!Of["SKILL"] = {"skills"} /\ Packing!Of["KNOWLEDGE"] = {"knowledge"}
          /\ Packing!Of["MEMORY"] = {"entries"}
          BY DEF Packing!Of
    <3> QED BY <1>8, <3>1, SixProviders
  <2>2. ranked = Packing!Reads(x, v)
        BY <1>8 DEF Ranked
  <2> HIDE DEF v
  <2>3. x.has[v] \in Seq(Packing!Items) /\ Len(x.has[v]) \in Nat
        BY <2>1, RequestsAre, LenProperties
  <2>4. /\ \A i \in 1 .. Len(kept) : kept[i].of = x.has[v][i]
        /\ Len(kept) <= Len(x.has[v])
    <3>1. CASE ranked = x.has[v]
          BY <1>3, <3>1
    <3>2. CASE ranked = << >>
          BY <1>3, <1>5, <2>3, <3>2, EmptySeq
    <3> QED BY <2>2, <3>1, <3>2 DEF Packing!Reads
  <2>5. shown \in Seq(Packing!Items) /\ Len(shown) = Len(kept) /\ DOMAIN shown = 1 .. Len(kept)
    <3>1. \A i \in 1 .. Len(kept) : kept[i].of \in Packing!Items
      <4>1. \A i \in 1 .. Len(kept) : kept[i] \in Pieces
            BY <1>3, <1>5, ElementOfSeq
      <4> QED BY <4>1 DEF Pieces
    <3> QED BY <1>5, <3>1
  <2>6. shown = SubSeq(x.has[v], 1, Len(shown))
    <3> DEFINE beginning == SubSeq(x.has[v], 1, Len(kept))
    <3>1. /\ beginning \in Seq(Packing!Items) /\ Len(beginning) = Len(kept)
          /\ \A i \in 1 .. Len(kept) : beginning[i] = x.has[v][i]
      <4>1. \A i \in 1 .. Len(kept) : x.has[v][i] \in Packing!Items
            BY <1>5, <2>3, <2>4, ElementOfSeq
      <4> QED BY <1>5, <2>3, <2>4, <4>1, SubSeqProperties
    <3> HIDE DEF beginning
    <3>2. \A i \in 1 .. Len(kept) : shown[i] = beginning[i]
          BY <1>5, <2>4, <3>1
    <3> HIDE DEF shown
    <3>3. shown = beginning
          BY <1>5, <2>5, <3>1, <3>2, SeqEqual
    <3> QED BY <2>5, <3>3 DEF beginning
  <2> HIDE DEF shown
  <2>7. Packing!IsPrefix(shown, x.has[v])
        BY <1>5, <2>3, <2>4, <2>5, <2>6 DEF Packing!IsPrefix
  <2> QED BY <2>1, <2>7 DEF shown
<1> QED BY <1>6, <1>7, <1>8 DEF kept

\* What an item is reached by does not depend on what comes after it, and what comes
\* before it only takes its room.
LEMMA ReachesOfTwo ==
  ASSUME NEW s \in Seq(Packing!Items), NEW t \in Seq(Packing!Items), NEW budget \in Nat
  PROVE  /\ \A k \in 1 .. Len(s) : Reaches(Packing!Sizes(s \o t), budget, k)
                                     <=> Reaches(Packing!Sizes(s), budget, k)
         /\ \A k \in 1 .. Len(t) : Reaches(Packing!Sizes(s \o t), budget, Len(s) + k)
                                     => Reaches(Packing!Sizes(t), budget, k)
<1> DEFINE a == Packing!Sizes(s)
           b == Packing!Sizes(t)
           c == Packing!Sizes(s \o t)
           M == Len(s)
           N == Len(t)
<1>1. Adds(a, s) /\ Adds(b, t)
      BY SizesAdd
<1>2. Adds(c, s \o t) /\ M \in Nat /\ N \in Nat
      BY Concatenated, SizesAdd
<1> HIDE DEF a, b, c
<1>3. /\ \A n \in 0 .. M : c[n] = a[n]
      /\ \A n \in 0 .. N : c[M + n] = a[M] + b[n]
      BY <1>1, <1>2, SizesOfTwo
<1>4. /\ \A n \in 0 .. M : a[n] \in Nat
      /\ \A n \in 0 .. N : b[n] \in Nat
      BY <1>1 DEF Adds
<1>5. ASSUME NEW k \in 1 .. M
      PROVE  Reaches(c, budget, k) <=> Reaches(a, budget, k)
  <2>1. k \in 0 .. M /\ k - 1 \in 0 .. M
        BY <1>2
  <2>2. c[k] = a[k] /\ c[k - 1] = a[k - 1]
        BY <1>3, <2>1
  <2> QED BY <2>2 DEF Reaches
<1>6. ASSUME NEW k \in 1 .. N, Reaches(c, budget, M + k)
      PROVE  Reaches(b, budget, k)
  <2>1. k \in 0 .. N /\ k - 1 \in 0 .. N /\ M \in 0 .. M /\ (M + k) - 1 = M + (k - 1)
        BY <1>2
  <2>2. c[M + k] = a[M] + b[k] /\ c[M + (k - 1)] = a[M] + b[k - 1]
        BY <1>3, <2>1
  <2>3. a[M] \in Nat /\ b[k] \in Nat /\ b[k - 1] \in Nat
        BY <1>4, <2>1
  <2>4. /\ c[M + (k - 1)] < budget
        /\ c[M + k] <= budget \/ c[M + (k - 1)] + MinItem <= budget
        BY <1>6, <2>1 DEF Reaches
  <2>5. /\ a[M] + b[k - 1] < budget
        /\ a[M] + b[k] <= budget \/ (a[M] + b[k - 1]) + MinItem <= budget
        BY <2>2, <2>4
  <2>6. /\ b[k - 1] < budget
        /\ b[k] <= budget \/ b[k - 1] + MinItem <= budget
        BY <2>3, <2>5, PacksAssumption
  <2> QED BY <2>6 DEF Reaches
<1> QED BY <1>5, <1>6 DEF a, b, c

\* The instance counts as this module does.
LEMMA PackingCounts == \A S : Packing!Cardinality(S) = Cardinality(S)
<1> QED BY Zenon DEF Packing!Cardinality, Cardinality

\* Which of what is shown is from a provider.
ShownOf(kept, v) == {i \in DOMAIN kept : kept[i].of.from = v}

\* They can be counted.
LEMMA ShownAreFinite ==
  ASSUME NEW kept \in Seq(Pieces), NEW v
  PROVE  IsFiniteSet(ShownOf(kept, v)) /\ Cardinality(ShownOf(kept, v)) \in Nat
<1>1. Len(kept) \in Nat /\ DOMAIN kept = 1 .. Len(kept)
      BY LenProperties
<1>2. IsFiniteSet(1 .. Len(kept))
      BY <1>1, FS_Interval
<1>3. ShownOf(kept, v) \in SUBSET (1 .. Len(kept))
      BY <1>1 DEF ShownOf
<1> QED BY <1>2, <1>3, FS_Subset, FS_CardinalityType

\* One of two that follow each other shows no less without the other.
LEMMA HalvesAreKept ==
  ASSUME NEW s \in Seq(Packing!Items), NEW t \in Seq(Packing!Items), NEW budget \in Nat,
         NEW v, NEW w, v # w, \A i \in DOMAIN s : s[i].from = v, \A i \in DOMAIN t : t[i].from = w
  PROVE  LET both == Packing!Fit(s \o t, budget).kept
         IN /\ Cardinality(ShownOf(both, v)) <= Cardinality(ShownOf(Packing!Fit(s, budget).kept, v))
            /\ Cardinality(ShownOf(both, w)) <= Cardinality(ShownOf(Packing!Fit(t, budget).kept, w))
<1> DEFINE M == Len(s)
           N == Len(t)
           u == s \o t
           both == Packing!Fit(u, budget).kept
           first == Packing!Fit(s, budget).kept
           second == Packing!Fit(t, budget).kept
<1>1. /\ u \in Seq(Packing!Items) /\ Len(u) = M + N /\ M \in Nat /\ N \in Nat
      /\ \A i \in 1 .. M : u[i] = s[i]
      /\ \A i \in 1 .. N : u[M + i] = t[i]
      BY Concatenated
<1>2. DOMAIN s = 1 .. M /\ DOMAIN t = 1 .. N
      BY LenProperties
<1>3. /\ both \in Seq(Pieces) /\ Len(both) <= M + N
      /\ \A k \in 1 .. M + N : k <= Len(both) <=> Reaches(Packing!Sizes(u), budget, k)
      /\ \A k \in 1 .. Len(both) : both[k].of = u[k]
  <2>1. u \in Seq(Packing!Items) /\ Len(u) = M + N
        BY <1>1
  <2> HIDE DEF u
  <2> QED BY <2>1, FitKeeps
<1>4. /\ first \in Seq(Pieces) /\ Len(first) <= M
      /\ \A k \in 1 .. M : k <= Len(first) <=> Reaches(Packing!Sizes(s), budget, k)
      /\ \A k \in 1 .. Len(first) : first[k].of = s[k]
      BY FitKeeps
<1>5. /\ second \in Seq(Pieces) /\ Len(second) <= N
      /\ \A k \in 1 .. N : k <= Len(second) <=> Reaches(Packing!Sizes(t), budget, k)
      /\ \A k \in 1 .. Len(second) : second[k].of = t[k]
      BY FitKeeps
<1>6. /\ \A k \in 1 .. M : Reaches(Packing!Sizes(u), budget, k) <=> Reaches(Packing!Sizes(s), budget, k)
      /\ \A k \in 1 .. N : Reaches(Packing!Sizes(u), budget, M + k) => Reaches(Packing!Sizes(t), budget, k)
      BY ReachesOfTwo
<1>7. /\ Len(both) \in Nat /\ DOMAIN both = 1 .. Len(both)
      /\ Len(first) \in Nat /\ DOMAIN first = 1 .. Len(first)
      /\ Len(second) \in Nat /\ DOMAIN second = 1 .. Len(second)
      BY <1>3, <1>4, <1>5, LenProperties
<1> HIDE DEF u, both, first, second
<1>8. ShownOf(both, v) \in SUBSET ShownOf(first, v)
  <2> SUFFICES ASSUME NEW k \in ShownOf(both, v)
               PROVE  k \in ShownOf(first, v)
      OBVIOUS
  <2>1. k \in 1 .. Len(both) /\ both[k].of.from = v /\ both[k].of = u[k] /\ k \in 1 .. M + N
        BY <1>1, <1>3, <1>7 DEF ShownOf
  <2>2. CASE k \in 1 .. M
    <3>1. k <= Len(first)
          BY <1>3, <1>4, <1>6, <2>1, <2>2
    <3>2. k \in 1 .. Len(first) /\ first[k].of = s[k]
          BY <1>4, <1>7, <2>1, <3>1
    <3> QED BY <1>2, <1>7, <2>2, <3>2 DEF ShownOf
  <2>3. CASE k \notin 1 .. M
    <3> DEFINE j == k - M
    <3>1. j \in 1 .. N /\ k = M + j
          BY <1>1, <2>1, <2>3
    <3> HIDE DEF j
    <3>2. u[k] = t[j] /\ t[j].from = w
          BY <1>1, <1>2, <3>1
    <3> QED BY <2>1, <3>2
  <2> QED BY <2>2, <2>3
<1>9. Cardinality(ShownOf(both, v)) <= Cardinality(ShownOf(first, v))
  <2>1. IsFiniteSet(ShownOf(first, v))
        BY <1>4, ShownAreFinite
  <2> QED BY <1>8, <2>1, FS_Subset
<1> DEFINE f == [k \in ShownOf(both, w) |-> k - M]
<1>10. f \in Injection(ShownOf(both, w), ShownOf(second, w))
  <2>1. ASSUME NEW k \in ShownOf(both, w)
        PROVE  k \in Nat /\ k - M \in ShownOf(second, w)
    <3>1. k \in 1 .. Len(both) /\ both[k].of.from = w /\ both[k].of = u[k] /\ k \in 1 .. M + N
          BY <1>1, <1>3, <1>7 DEF ShownOf
    <3>2. k \notin 1 .. M
          BY <1>1, <1>2, <3>1
    <3> DEFINE j == k - M
    <3>3. j \in 1 .. N /\ k = M + j
          BY <1>1, <3>1, <3>2
    <3> HIDE DEF j
    <3>4. j <= Len(second)
          BY <1>3, <1>5, <1>6, <1>7, <3>1, <3>3
    <3>5. j \in 1 .. Len(second) /\ second[j].of = t[j]
          BY <1>5, <1>7, <3>3, <3>4
    <3>6. j \in ShownOf(second, w)
          BY <1>2, <1>7, <3>3, <3>5 DEF ShownOf
    <3> QED BY <3>1, <3>6 DEF j
  <2>2. f \in [ShownOf(both, w) -> ShownOf(second, w)]
        BY <2>1
  <2>3. \A j, k \in ShownOf(both, w) : f[j] = f[k] => j = k
        BY <1>1, <2>1
  <2> QED BY <2>2, <2>3 DEF Injection, IsInjective
<1>11. Cardinality(ShownOf(both, w)) <= Cardinality(ShownOf(second, w))
  <2>1. IsFiniteSet(ShownOf(second, w))
        BY <1>5, ShownAreFinite
  <2> HIDE DEF f
  <2> QED BY <1>10, <2>1, FS_Injection DEF ExistsInjection
<1> QED BY <1>9, <1>11 DEF both, first, second, u

\* What a request reads when nothing fails.
LEMMA WellRequests ==
  ASSUME NEW x \in Packing!Inputs
  PROVE  LET y == [x EXCEPT !.failing = {}]
         IN /\ y \in Packing!Inputs /\ y.failing = {}
            /\ y.layers = x.layers /\ y.chars = x.chars /\ y.short = x.short
            /\ y.scopes = x.scopes /\ y.session = x.session /\ y.lines = x.lines
            /\ y.goal = x.goal /\ y.has = x.has
<1> DEFINE C == {c \in Nat : 500 <= c /\ c <= 200000}
           A == SUBSET ({Packing!Resource[v] : v \in Packing!Providers} \X {"r", "rw"})
           G == {item \in Packing!Items : item.from = "task"}
           R == {r \in Nat \X Nat : r[1] <= r[2]}
           H == {h \in [Packing!Providers -> Seq(Packing!Items)] :
                   \A v \in Packing!Providers : \A i \in DOMAIN h[v] : h[v][i].from = v}
           P == Packing!Providers
           L == Packing!Layers
           Q == Seq(Packing!Layers)
           T == Seq(STRING)
<1>1. Packing!Inputs =
        [layers : Q, chars : C, short : SUBSET L, scopes : A, failing : SUBSET P,
         session : BOOLEAN, lines : T, goal : G, room : R, has : H]
      BY DEF Packing!Inputs
<1> HIDE DEF A, C, G, R, H, P, L, Q, T
<1> QED BY <1>1

\* A layer whose providers are well is the same whoever else fails.
LEMMA WellLayersAreTheSame ==
  ASSUME NEW x \in Packing!Inputs, NEW l \in Packing!Layers, NEW budget \in Nat,
         Packing!Of[l] \cap x.failing = {}
  PROVE  Packing!Gather(x, l, budget) = Packing!Gather([x EXCEPT !.failing = {}], l, budget)
<1> DEFINE y == [x EXCEPT !.failing = {}]
<1>1. /\ y \in Packing!Inputs /\ y.failing = {}
      /\ y.scopes = x.scopes /\ y.session = x.session /\ y.lines = x.lines
      /\ y.goal = x.goal /\ y.has = x.has
      BY WellRequests
<1> HIDE DEF y
<1>2. /\ Packing!Of["SKILL"] = {"skills"} /\ Packing!Of["KNOWLEDGE"] = {"knowledge"}
      /\ Packing!Of["MEMORY"] = {"entries"} /\ Packing!Of["FACTS"] = {"todos", "notes"}
      /\ Packing!Of["TASK"] = {"session"}
      BY DEF Packing!Of
<1>3. \A v : v \notin x.failing => Packing!Reads(x, v) = Packing!Reads(y, v)
      BY <1>1 DEF Packing!Reads
<1>4. CASE l = "FACTS"
  <2>1. "todos" \notin x.failing /\ "notes" \notin x.failing
        BY <1>2, <1>4
  <2>2. Packing!Reads(x, "todos") = Packing!Reads(y, "todos")
        BY <1>3, <2>1
  <2>3. Packing!Reads(x, "notes") = Packing!Reads(y, "notes")
        BY <1>3, <2>1
  <2>4. {v \in Packing!Of["FACTS"] : Packing!Permits(x.scopes, v)} \cap x.failing
          = {v \in Packing!Of["FACTS"] : Packing!Permits(y.scopes, v)} \cap y.failing
        BY <1>1, <1>4
  <2>5. Packing!GatherFacts(x, budget) = Packing!GatherFacts(y, budget)
        BY <1>1, <2>2, <2>3, <2>4 DEF Packing!GatherFacts
  <2> QED BY <1>4, <2>5 DEF Packing!Gather, y
<1>5. CASE l = "TASK"
  <2>1. "session" \notin x.failing /\ "session" \notin y.failing
        BY <1>1, <1>2, <1>5
  <2>2. Packing!GatherTask(x, budget) = Packing!GatherTask(y, budget)
        BY <1>1, <2>1 DEF Packing!GatherTask
  <2> QED BY <1>5, <2>2 DEF Packing!Gather, y
<1>6. CASE l \notin {"FACTS", "TASK"}
  <2> DEFINE v == CHOOSE w \in Packing!Of[l] : TRUE
  <2>1. v \notin x.failing /\ v \notin y.failing
        BY <1>1, <1>2, <1>6 DEF Packing!Layers
  <2> HIDE DEF v
  <2>2. Packing!Reads(x, v) = Packing!Reads(y, v)
        BY <1>3, <2>1
  <2>3. Packing!GatherFound(x, l, v, budget) = Packing!GatherFound(y, l, v, budget)
        BY <1>1, <2>1, <2>2 DEF Packing!GatherFound
  <2> QED BY <1>6, <2>3 DEF Packing!Gather, y, v
<1> QED BY <1>4, <1>5, <1>6

\* What the facts show of a provider that is well.
LEMMA FactsAreKept ==
  ASSUME NEW x \in Packing!Inputs, NEW budget \in Nat, NEW v \in {"todos", "notes"}, v \notin x.failing
  PROVE  Cardinality(ShownOf(Packing!Gather([x EXCEPT !.failing = {}], "FACTS", budget).kept, v))
           <= Cardinality(ShownOf(Packing!Gather(x, "FACTS", budget).kept, v))
<1> DEFINE y == [x EXCEPT !.failing = {}]
           l == "FACTS"
           shown == Packing!Gather(x, l, budget).kept
           well == Packing!Gather(y, l, budget).kept
<1> SUFFICES Cardinality(ShownOf(well, v)) <= Cardinality(ShownOf(shown, v))
    OBVIOUS
<1>0. l = "FACTS" /\ l \in Packing!Layers /\ Packing!Of[l] = {"todos", "notes"}
      BY DEF Packing!Layers, Packing!Of
<1> HIDE DEF l
<1>1. /\ y \in Packing!Inputs /\ y.failing = {} /\ y.scopes = x.scopes /\ y.has = x.has
      BY WellRequests
<1>2. CASE Packing!Of[l] \cap x.failing = {}
  <2>1. shown = well
        BY <1>0, <1>2, WellLayersAreTheSame
  <2>2. shown \in Seq(Pieces)
        BY <1>0, LayersKeep
  <2> HIDE DEF shown, well
  <2> QED BY <2>1, <2>2, ShownAreFinite
<1> DEFINE a == Packing!Reads(x, "todos")
           b == Packing!Reads(x, "notes")
           c == Packing!Reads(y, "todos")
           d == Packing!Reads(y, "notes")
           none == \A w \in Packing!Of["FACTS"] : ~Packing!Permits(x.scopes, w)
<1>3. /\ a \in Seq(Packing!Items) /\ \A i \in DOMAIN a : a[i].from = "todos"
      /\ b \in Seq(Packing!Items) /\ \A i \in DOMAIN b : b[i].from = "notes"
      /\ c \in Seq(Packing!Items) /\ \A i \in DOMAIN c : c[i].from = "todos"
      /\ d \in Seq(Packing!Items) /\ \A i \in DOMAIN d : d[i].from = "notes"
      BY <1>1, SixProviders, ReadsArePermitted
<1>4. /\ "todos" \notin x.failing => a = c
      /\ "notes" \notin x.failing => b = d
      /\ "todos" \in x.failing => a = << >>
      /\ "notes" \in x.failing => b = << >>
      BY <1>1 DEF Packing!Reads
<1>5. /\ shown = IF none THEN << >> ELSE Packing!Fit(a \o b, budget).kept
      /\ well = IF none THEN << >> ELSE Packing!Fit(c \o d, budget).kept
  <2>1. \A fit, note : Packing!Result(fit, note).kept = fit.kept
        BY DEF Packing!Result
  <2>2. \A note : Packing!Nothing(note).kept = << >>
        BY DEF Packing!Nothing, Packing!Result
  <2>3. \A z : Packing!Gather(z, l, budget) = Packing!GatherFacts(z, budget)
        BY <1>0 DEF Packing!Gather
  <2>4. shown = IF none THEN << >> ELSE Packing!Fit(a \o b, budget).kept
    <3>1. \E n : Packing!GatherFacts(x, budget) =
            IF none THEN Packing!Nothing("insufficient scope")
            ELSE Packing!Result(Packing!Fit(a \o b, budget), n)
          BY Zenon DEF Packing!GatherFacts
    <3> HIDE DEF none, a, b
    <3> QED BY <2>1, <2>2, <2>3, <3>1
  <2>5. well = IF none THEN << >> ELSE Packing!Fit(c \o d, budget).kept
    <3>1. \E n : Packing!GatherFacts(y, budget) =
            IF none THEN Packing!Nothing("insufficient scope")
            ELSE Packing!Result(Packing!Fit(c \o d, budget), n)
          BY <1>1, Zenon DEF Packing!GatherFacts
    <3> HIDE DEF none, c, d, y
    <3> QED BY <2>1, <2>2, <2>3, <3>1 DEF well
  <2> QED BY <2>4, <2>5
<1> HIDE DEF shown, well, none, a, b, c, d
<1>6. /\ Cardinality(ShownOf(Packing!Fit(c \o d, budget).kept, "todos"))
           <= Cardinality(ShownOf(Packing!Fit(c, budget).kept, "todos"))
      /\ Cardinality(ShownOf(Packing!Fit(c \o d, budget).kept, "notes"))
           <= Cardinality(ShownOf(Packing!Fit(d, budget).kept, "notes"))
  <2> DEFINE t == "todos"
             n == "notes"
  <2>1. t # n /\ t = "todos" /\ n = "notes"
        OBVIOUS
  <2> HIDE DEF t, n
  <2>2. (\A i \in DOMAIN c : c[i].from = t) /\ \A i \in DOMAIN d : d[i].from = n
        BY <1>3, <2>1
  <2>3. /\ Cardinality(ShownOf(Packing!Fit(c \o d, budget).kept, t))
             <= Cardinality(ShownOf(Packing!Fit(c, budget).kept, t))
        /\ Cardinality(ShownOf(Packing!Fit(c \o d, budget).kept, n))
             <= Cardinality(ShownOf(Packing!Fit(d, budget).kept, n))
        BY <1>3, <2>1, <2>2, HalvesAreKept
  <2> QED BY <2>1, <2>3
<1>7. Cardinality(ShownOf(<< >>, v)) <= Cardinality(ShownOf(<< >>, v))
  <2> DEFINE e == << >>
  <2>1. e \in Seq(Pieces)
        BY EmptySeq
  <2> HIDE DEF e
  <2>2. Cardinality(ShownOf(e, v)) \in Nat
        BY <2>1, ShownAreFinite
  <2>3. Cardinality(ShownOf(e, v)) <= Cardinality(ShownOf(e, v))
        BY <2>2
  <2> QED BY <2>3 DEF e
<1>8. CASE none
      BY <1>5, <1>7, <1>8
<1>9. CASE ~none /\ v = "todos" /\ "notes" \in x.failing
  <2>1. a = c /\ a \o b = c
    <3>1. a = c /\ b = << >> /\ a \o << >> = a
          BY <1>3, <1>4, <1>9, ConcatEmptySeq
    <3> QED BY <3>1
  <2> QED BY <1>5, <1>6, <1>9, <2>1
<1>10. CASE ~none /\ v = "notes" /\ "todos" \in x.failing
  <2>1. b = d /\ a \o b = d
    <3>1. b = d /\ a = << >> /\ << >> \o b = b
          BY <1>3, <1>4, <1>10, ConcatEmptySeq
    <3> QED BY <3>1
  <2> QED BY <1>5, <1>6, <1>10, <2>1
<1> QED BY <1>0, <1>2, <1>8, <1>9, <1>10

\* A failure stays in its layer, and in its half of it; a layer without items says why.
LEMMA FailuresStay ==
  ASSUME NEW x \in Packing!Inputs
  PROVE  Packing!FailureStaysInItsLayer(x, Packing!Pack(x), Packing!Pack([x EXCEPT !.failing = {}]))
<1> DEFINE y == [x EXCEPT !.failing = {}]
           r == Packing!Pack(x)
           s == Packing!Pack(y)
           order == Packing!ResolveLayers(x.layers)
           S == Packing!Range(order)
           budgets == Packing!Allocate(x.chars, order, x.short)
<1>1. /\ y \in Packing!Inputs /\ y.failing = {}
      /\ y.layers = x.layers /\ y.chars = x.chars /\ y.short = x.short
      BY WellRequests
<1>2. /\ S \in SUBSET Packing!Layers /\ budgets \in [S -> Nat] /\ r.order = order
      /\ \A l \in S : r.results[l] = Packing!Gather(x, l, budgets[l])
      BY PacksAre
<1>3. \A l \in S : s.results[l] = Packing!Gather(y, l, budgets[l])
  <2> DEFINE theirs == Packing!ResolveLayers(y.layers)
             others == Packing!Allocate(y.chars, theirs, y.short)
  <2>1. \A l \in Packing!Range(theirs) : s.results[l] = Packing!Gather(y, l, others[l])
    <3> HIDE DEF y
    <3> QED BY <1>1, PacksAre
  <2>2. theirs = order /\ others = budgets
    <3> HIDE DEF y
    <3> QED BY <1>1
  <2> HIDE DEF theirs, others, order, budgets, y, s
  <2> QED BY <2>1, <2>2
<1>4. ASSUME NEW l \in S
      PROVE  /\ Packing!Of[l] \cap x.failing = {} => r.results[l] = s.results[l]
             /\ \A v \in Packing!Of[l] \ x.failing :
                  Cardinality(ShownOf(r.results[l].kept, v)) >= Cardinality(ShownOf(s.results[l].kept, v))
             /\ r.results[l].kept = << >> => r.results[l].note # Nil \/ r.results[l].dropped > 0
  <2> DEFINE b == budgets[l]
             mine == Packing!Gather(x, l, b)
             well == Packing!Gather(y, l, b)
  <2>1. l \in Packing!Layers /\ b \in Nat /\ r.results[l] = mine /\ s.results[l] = well
        BY <1>2, <1>3
  <2> HIDE DEF b, r, s, S
  <2>2. Packing!Of[l] \cap x.failing = {} => mine = well
        BY <2>1, WellLayersAreTheSame
  <2>3. mine.kept = << >> => mine.note # Nil \/ mine.dropped > 0
        BY <2>1, LayersKeep
  <2>4. ASSUME NEW v \in Packing!Of[l] \ x.failing
        PROVE  Cardinality(ShownOf(mine.kept, v)) >= Cardinality(ShownOf(well.kept, v))
    <3>1. mine.kept \in Seq(Pieces) /\ well.kept \in Seq(Pieces)
      <4> HIDE DEF y
      <4> QED BY <1>1, <2>1, LayersKeep
    <3> DEFINE m == Cardinality(ShownOf(mine.kept, v))
               n == Cardinality(ShownOf(well.kept, v))
    <3>2. m \in Nat /\ n \in Nat
      <4> HIDE DEF mine, well
      <4> QED BY <3>1, ShownAreFinite
    <3>3. CASE l = "FACTS"
      <4>1. v \in {"todos", "notes"} /\ v \notin x.failing
            BY <3>3 DEF Packing!Of
      <4>2. n <= m
            BY <2>1, <3>3, <4>1, FactsAreKept
      <4> HIDE DEF m, n
      <4> QED BY <3>2, <4>2 DEF m, n
    <3>4. CASE l # "FACTS"
      <4>1. Packing!Of[l] = {v}
        <5>1. /\ Packing!Of["SKILL"] = {"skills"} /\ Packing!Of["KNOWLEDGE"] = {"knowledge"}
              /\ Packing!Of["MEMORY"] = {"entries"} /\ Packing!Of["TASK"] = {"session"}
              BY DEF Packing!Of
        <5> QED BY <2>1, <3>4, <5>1 DEF Packing!Layers
      <4>2. mine = well
            BY <2>2, <4>1
      <4>3. m = n
        <5> HIDE DEF mine, well
        <5> QED BY <4>2
      <4> HIDE DEF m, n
      <4> QED BY <3>2, <4>3 DEF m, n
    <3> QED BY <3>3, <3>4
  <2> HIDE DEF mine, well
  <2> QED BY <2>1, <2>2, <2>3, <2>4
<1>5. \A t, l, v : Packing!Cardinality({i \in DOMAIN t.results[l].kept : t.results[l].kept[i].of.from = v})
                     = Cardinality(ShownOf(t.results[l].kept, v))
      BY PackingCounts DEF ShownOf
<1> HIDE DEF order, budgets, S, r, s
<1>6. \A l \in Packing!Range(r.order) :
        /\ Packing!Of[l] \cap x.failing = {} => r.results[l] = s.results[l]
        /\ \A v \in Packing!Of[l] \ x.failing :
             Packing!Cardinality({i \in DOMAIN r.results[l].kept : r.results[l].kept[i].of.from = v})
               >= Packing!Cardinality({i \in DOMAIN s.results[l].kept : s.results[l].kept[i].of.from = v})
        /\ r.results[l].kept = << >> => r.results[l].note # Nil \/ r.results[l].dropped > 0
  <2>1. Packing!Range(r.order) = S
        BY <1>2 DEF S
  <2> SUFFICES ASSUME NEW l \in S
               PROVE  /\ Packing!Of[l] \cap x.failing = {} => r.results[l] = s.results[l]
                      /\ \A v \in Packing!Of[l] \ x.failing :
                           Packing!Cardinality({i \in DOMAIN r.results[l].kept : r.results[l].kept[i].of.from = v})
                             >= Packing!Cardinality({i \in DOMAIN s.results[l].kept : s.results[l].kept[i].of.from = v})
                      /\ r.results[l].kept = << >> => r.results[l].note # Nil \/ r.results[l].dropped > 0
      BY <2>1, Zenon
  <2>2. ASSUME NEW v \in Packing!Of[l] \ x.failing
        PROVE  Packing!Cardinality({i \in DOMAIN r.results[l].kept : r.results[l].kept[i].of.from = v})
                 >= Packing!Cardinality({i \in DOMAIN s.results[l].kept : s.results[l].kept[i].of.from = v})
    <3>1. Cardinality(ShownOf(r.results[l].kept, v)) >= Cardinality(ShownOf(s.results[l].kept, v))
          BY <1>4
    <3>2. /\ Packing!Cardinality({i \in DOMAIN r.results[l].kept : r.results[l].kept[i].of.from = v})
               = Cardinality(ShownOf(r.results[l].kept, v))
          /\ Packing!Cardinality({i \in DOMAIN s.results[l].kept : s.results[l].kept[i].of.from = v})
               = Cardinality(ShownOf(s.results[l].kept, v))
          BY <1>5, Zenon
    <3> QED BY <3>1, <3>2
  <2> QED BY <1>4, <2>2
<1> QED BY <1>6, Zenon DEF Packing!FailureStaysInItsLayer, r, s

\* Every answer to a request for context keeps to its budget and to its caller's scopes,
\* a provider that fails takes nothing from the others, and more room shows no less, of
\* every request, whatever the providers have and whichever fail (Service.Pack).
THEOREM PacksAreSound ==
  ASSUME Given("pack") => input.x \in Packing!Inputs
  PROVE  PackIsSound
<1> SUFFICES ASSUME NEW x \in Packing!Inputs
             PROVE  Packing!PackIsSound(x)
    BY DEF PackIsSound
<1>1. Packing!AnswerIsSound(x, Packing!Pack(x), Packing!Pack([x EXCEPT !.failing = {}]))
      BY PacksFit, PacksArePermitted, FailuresStay, Zenon DEF Packing!AnswerIsSound
<1>2. \A v \in Packing!Providers : Packing!RoomIsUsed(x.has[v], x.room[1], x.room[2])
      BY RequestsAre, MoreRoom
<1> QED BY <1>1, <1>2, Zenon DEF Packing!PackIsSound

=============================================================================
