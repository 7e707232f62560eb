-------------------------- MODULE BuildEnqueue_proof --------------------------
(***************************************************************************)
(* Proofs about BuildEnqueue, for any number of requests, builds, revisions*)
(* and compilers: what an incremental build is an increment of, and that   *)
(* rows name the compiler of their pages as long as each is run by the     *)
(* compiler that queued it.                                                *)
(***************************************************************************)
EXTENDS BuildEnqueue, WellFoundedInduction, TLAPS

\* A set of builds that is not empty has a newest one.
LEMMA NewestExists ==
  ASSUME NEW n \in Nat, NEW S \in SUBSET (1 .. n), S # {}
  PROVE  Newest(S) \in S
<1> DEFINE T == {n - x : x \in S}
<1>1. T \subseteq Nat /\ T # {}
  <2>1. \A x \in S : n - x \in Nat
        OBVIOUS
  <2>2. \E x \in S : n - x \in T
        OBVIOUS
  <2> QED BY <2>1, <2>2
<1>2. PICK t \in T : \A y \in T : <<y, t>> \notin OpToRel(<, Nat)
      BY <1>1, NatLessThanWellFounded, WFMin
<1>3. \A y \in T : ~(y < t)
      BY <1>1, <1>2 DEF OpToRel
<1>4. PICK m \in S : t = n - m
      OBVIOUS
<1>5. \A y \in S : m >= y
  <2> SUFFICES ASSUME NEW y \in S PROVE m >= y
      OBVIOUS
  <2>1. n - y \in T /\ n - m \in Nat /\ n - y \in Nat /\ m \in Nat /\ y \in Nat
        OBVIOUS
  <2> QED BY <1>3, <1>4, <2>1
<1> QED BY <1>5 DEF Newest, Max

\* A finished request has nothing in hand.
LEMMA NoneAsked == TypeOK => NoRequest \in Requests /\ RequestOK(NoRequest)
BY MaxBuildsAssumption DEF TypeOK, NoRequest, Requests, RequestOK, Modes

\* Whatever the fleet, the room it has is within the bound.
LEMMA RoomIsBounded == TypeOK => Room(fleet) \in 0 .. MaxBuilds /\ MaxBuilds \in Nat
BY MaxBuildsAssumption DEF TypeOK

LEMMA InitIInv == Init => IInv
<1> SUFFICES ASSUME Init PROVE IInv
    OBVIOUS
<1>1. TypeOK
      BY MaxBuildsAssumption DEF Init, TypeOK, NoRequest, Requests, Modes
<1>2. LineageOK /\ CalmMade /\ Written
      BY DEF Init, LineageOK, CalmMade, Written, Ids
<1> QED BY <1>1, <1>2, NoneAsked DEF IInv, RequestsOK, Init

\* A parent is a build of the source.
LEMMA ParentIsABuild ==
  ASSUME IInv, NEW i \in Ids, builds[i].parent # 0
  PROVE  builds[i].parent \in Ids
<1>1. Len(builds) \in Nat /\ builds[i] \in BuildRows /\ builds[i].parent < i
      BY DEF IInv, TypeOK, LineageOK, Ids
<1>2. builds[i].parent \in 0 .. MaxBuilds
      BY <1>1 DEF BuildRows
<1> QED BY <1>1, <1>2, MaxBuildsAssumption DEF Ids

-----------------------------------------------------------------------------
\* A step of a request that leaves the builds alone keeps the invariant if what it
\* knows is right and what it makes the source serve is written.
LEMMA RequestMoves ==
  ASSUME IInv, NEW c \in Clients, NEW r \in Requests, RequestOK(r),
         request' = [request EXCEPT ![c] = r],
         UNCHANGED <<revision, builds, calm, fleet>>,
         serving' \in 0 .. Len(builds),
         serving' # 0 => builds[serving'].made # {}
  PROVE  IInv'
<1>1. TypeOK'
      BY DEF IInv, TypeOK
<1>2. (LineageOK /\ CalmMade /\ Written)'
      BY DEF IInv, LineageOK, CalmMade, Written, Ids
<1>3. RequestsOK'
      BY DEF IInv, TypeOK, RequestsOK, RequestOK
<1> QED BY <1>1, <1>2, <1>3 DEF IInv

\* What has happened to a row when its run is decided or activated.
Decided(i, row) ==
  /\ row.rev = builds[i].rev /\ row.compiler = builds[i].compiler
  /\ row.mode = builds[i].mode /\ row.parent = builds[i].parent
  /\ builds[i].made # {} => row.made # {}
  /\ row.status = "succeeded" => row.made # {}

LEMMA RowMoves ==
  ASSUME IInv, NEW i \in Ids, NEW row \in BuildRows, Decided(i, row),
         builds' = [builds EXCEPT ![i] = row],
         UNCHANGED <<revision, request, fleet>>,
         calm' \in BOOLEAN, calm' => calm,
         calm' => row.made \in {{}, {row.compiler}},
         serving' \in 0 .. Len(builds),
         serving' # 0 => builds[serving'].made # {}
  PROVE  IInv'
<1>1. /\ builds' \in Seq(BuildRows) /\ Len(builds') = Len(builds) /\ Ids' = Ids
      /\ builds'[i] = row /\ \A j \in Ids \ {i} : builds'[j] = builds[j]
      /\ Len(builds) \in Nat
      BY DEF IInv, TypeOK, Ids
<1>2. \A j \in Ids : /\ builds'[j].rev = builds[j].rev /\ builds'[j].mode = builds[j].mode
                     /\ builds'[j].compiler = builds[j].compiler
                     /\ builds'[j].parent = builds[j].parent
                     /\ builds[j].made # {} => builds'[j].made # {}
      BY <1>1 DEF Decided
<1>3. \A j \in Ids : builds[j].parent # 0 => builds[j].parent \in Ids
      BY ParentIsABuild
<1>4. TypeOK'
      BY <1>1 DEF IInv, TypeOK
<1>5. LineageOK'
  <2> SUFFICES ASSUME NEW j \in Ids
               PROVE  /\ builds'[j].mode = "full" <=> builds'[j].parent = 0
                      /\ builds'[j].parent # 0 =>
                           /\ builds'[j].parent < j
                           /\ builds'[builds'[j].parent].made # {}
                           /\ builds'[builds'[j].parent].compiler = builds'[j].compiler
                           /\ Profile(builds'[builds'[j].parent].rev) = Profile(builds'[j].rev)
      BY <1>1 DEF LineageOK
  <2>1. LineageOK
        BY DEF IInv
  <2> QED BY <1>2, <1>3, <2>1 DEF LineageOK
<1>6. CalmMade'
  <2>1. CalmMade BY DEF IInv
  <2> QED BY <1>1, <2>1 DEF CalmMade
<1>7. Written'
  <2>1. Written BY DEF IInv
  <2>2. serving' # 0 => serving' \in Ids
        BY <1>1 DEF Ids
  <2> QED BY <1>1, <1>2, <2>1, <2>2 DEF Written, Decided
<1>8. RequestsOK'
  <2> SUFFICES ASSUME NEW c \in Clients PROVE RequestOK(request[c])'
      BY DEF RequestsOK
  <2>1. RequestOK(request[c]) /\ request'[c] = request[c]
        BY DEF IInv, RequestsOK
  <2>2. request[c].parent \in 0 .. Len(builds)
        BY <2>1 DEF RequestOK
  <2>3. request[c].parent # 0 => request[c].parent \in Ids
        BY <1>1, <2>2 DEF Ids
  <2> QED BY <1>1, <1>2, <2>1, <2>3 DEF RequestOK
<1> QED BY <1>4, <1>5, <1>6, <1>7, <1>8 DEF IInv

-----------------------------------------------------------------------------
LEMMA AskKeeps ==
  ASSUME IInv, NEW c \in Clients, NEW a \in Question, Ask(c, a)
  PROVE  IInv'
<1> DEFINE m == a.mode
           R(k) == [NoRequest EXCEPT !.pc = IF m = "full" THEN "looking" ELSE "parent",
                                     !.rev = revision, !.compiler = k, !.mode = m,
                                     !.force = a.force, !.activate = a.activate]
<1>0. m \in Modes /\ a.force \in BOOLEAN /\ a.activate \in BOOLEAN
      BY DEF Question
<1>1. PICK k \in Compilers : request' = [request EXCEPT ![c] = R(k)]
      BY FleetsAssumption DEF Ask, IInv, TypeOK
<1> HIDE DEF m
<1> DEFINE r == R(k)
<1>2. /\ UNCHANGED <<revision, builds, serving, calm, fleet>> /\ revision # None /\ revision \in Packages
      BY DEF Ask, IInv, TypeOK
<1>3. /\ r \in Requests /\ r.rev \in Packages /\ r.compiler \in Compilers /\ r.mode = m
      /\ r.pc = (IF m = "full" THEN "looking" ELSE "parent") /\ r.parent = 0 /\ r.target = 0
  <2>1. NoRequest \in Requests
        BY NoneAsked DEF IInv
  <2>2. r \in Requests
        BY <1>0, <1>2, <2>1 DEF Requests
  <2> QED BY <1>2, <2>2 DEF NoRequest
<1>4. request' = [request EXCEPT ![c] = r]
      BY <1>1
<1>5. serving' \in 0 .. Len(builds) /\ (serving' # 0 => builds[serving'].made # {})
      BY <1>2 DEF IInv, TypeOK, Written
<1> HIDE DEF r
<1>6. Len(builds) \in Nat
      BY DEF IInv, TypeOK
<1>7. RequestOK(r)
      BY <1>0, <1>3, <1>6 DEF RequestOK, Modes
<1> QED BY <1>2, <1>3, <1>4, <1>5, <1>7, RequestMoves

LEMMA EndKeeps ==
  ASSUME IInv, NEW c \in Clients, End(c), UNCHANGED <<revision, builds, calm, fleet>>,
         serving' = serving \/ serving' \in Succeeded
  PROVE  IInv'
<1>1. serving' \in 0 .. Len(builds) /\ (serving' # 0 => builds[serving'].made # {})
      BY DEF IInv, TypeOK, Written, Succeeded, Ids
<1>2. NoRequest \in Requests /\ RequestOK(NoRequest)
      BY NoneAsked DEF IInv
<1> QED BY <1>1, <1>2, RequestMoves DEF End

LEMMA FindKeeps ==
  ASSUME IInv, NEW c \in Clients, FindParent(c) \/ FindBuildByInputIdentity(c)
  PROVE  IInv'
<1> DEFINE q == request[c]
<1>1. /\ UNCHANGED <<revision, builds, serving, calm, fleet>>
      /\ q \in Requests /\ RequestOK(q) /\ Len(builds) \in Nat /\ Len(builds) <= MaxBuilds
      BY RoomIsBounded DEF FindParent, FindBuildByInputIdentity, IInv, TypeOK, RequestsOK
<1>2. serving' \in 0 .. Len(builds) /\ (serving' # 0 => builds[serving'].made # {})
      BY <1>1 DEF IInv, TypeOK, Written
<1>3. \A S \in SUBSET Succeeded : Newest(S) = 0 \/ Newest(S) \in S
  <2> SUFFICES ASSUME NEW S \in SUBSET Succeeded PROVE Newest(S) = 0 \/ Newest(S) \in S
      OBVIOUS
  <2>1. S \in SUBSET (1 .. Len(builds))
        BY DEF Succeeded, Ids
  <2>2. CASE S = {}
        BY <2>2 DEF Newest
  <2>3. CASE S # {}
        BY <1>1, <2>1, <2>3, NewestExists
  <2> QED BY <2>2, <2>3
<1>4. \A i \in Succeeded : i \in 1 .. Len(builds) /\ i \in 0 .. MaxBuilds /\ i # 0
                           /\ builds[i].made # {}
  <2> SUFFICES ASSUME NEW i \in Succeeded
               PROVE  /\ i \in 1 .. Len(builds) /\ i \in 0 .. MaxBuilds /\ i # 0
                      /\ builds[i].made # {}
      OBVIOUS
  <2>1. i \in 1 .. Len(builds) /\ builds[i].status = "succeeded"
        BY DEF Succeeded, Ids
  <2>2. builds[i].made # {}
        BY <2>1 DEF IInv, Written, Ids
  <2> QED BY <1>1, <2>1, <2>2, MaxBuildsAssumption
<1>5. CASE FindParent(c)
  <2> DEFINE i == PreviousSucceeded
             r1 == [q EXCEPT !.pc = "activating", !.target = i]
             r2 == [q EXCEPT !.pc = "looking", !.parent = i]
  <2>1. q.pc = "parent" /\ (i = 0 \/ i \in Succeeded)
        BY <1>3, <1>5 DEF FindParent, PreviousSucceeded
  <2>2. \/ End(c)
        \/ i # 0 /\ request' = [request EXCEPT ![c] = r1]
        \/ i # 0 /\ Compatible(i, q.rev, q.compiler) /\ request' = [request EXCEPT ![c] = r2]
        BY <1>5 DEF FindParent
  <2> HIDE DEF i
  <2>3. CASE End(c)
        BY <1>1, <2>3, EndKeeps
  <2>4. CASE i # 0 /\ request' = [request EXCEPT ![c] = r1]
    <3>1. /\ r1 \in Requests /\ r1.pc = "activating" /\ r1.target = i /\ r1.rev = q.rev
          /\ r1.compiler = q.compiler /\ r1.mode = q.mode /\ r1.parent = q.parent
          BY <1>1, <1>4, <2>1, <2>4 DEF Requests
    <3> HIDE DEF r1
    <3>2. RequestOK(r1)
          BY <1>1, <1>4, <2>1, <2>4, <3>1 DEF RequestOK
    <3> QED BY <1>1, <1>2, <2>4, <3>1, <3>2, RequestMoves
  <2>5. CASE i # 0 /\ Compatible(i, q.rev, q.compiler) /\ request' = [request EXCEPT ![c] = r2]
    <3>1. /\ r2 \in Requests /\ r2.pc = "looking" /\ r2.parent = i /\ r2.rev = q.rev
          /\ r2.compiler = q.compiler /\ r2.mode = q.mode /\ r2.target = q.target
          BY <1>1, <1>4, <2>1, <2>5 DEF Requests
    <3> HIDE DEF r2
    <3>2. RequestOK(r2)
          BY <1>1, <1>4, <2>1, <2>5, <3>1 DEF RequestOK, Compatible
    <3> QED BY <1>1, <1>2, <2>5, <3>1, <3>2, RequestMoves
  <2> QED BY <2>2, <2>3, <2>4, <2>5
<1>6. CASE FindBuildByInputIdentity(c)
  <2>1. PICK i : /\ i = 0 \/ i \in Succeeded
                 /\ request' = [request EXCEPT
                      ![c].pc = IF i = 0 THEN "inserting" ELSE "activating", ![c].target = i]
    <3> DEFINE S == {j \in Succeeded : SameInput(j, q)}
               i == IF q.force THEN 0 ELSE Newest(S)
    <3>1. S \in SUBSET Succeeded
          OBVIOUS
    <3>2. i = 0 \/ i \in Succeeded
          BY <1>3, <3>1
    <3> QED BY <1>6, <3>2 DEF FindBuildByInputIdentity
  <2> DEFINE r == [q EXCEPT !.pc = IF i = 0 THEN "inserting" ELSE "activating", !.target = i]
  <2>2. request' = [request EXCEPT ![c] = r]
        BY <2>1, <1>1 DEF Requests
  <2>3. q.pc = "looking" /\ i \in 0 .. Len(builds) /\ i \in 0 .. MaxBuilds
        BY <1>1, <1>4, <1>6, <2>1, MaxBuildsAssumption DEF FindBuildByInputIdentity
  <2>4. /\ r \in Requests /\ r.pc = (IF i = 0 THEN "inserting" ELSE "activating")
        /\ r.target = i /\ r.rev = q.rev /\ r.compiler = q.compiler /\ r.mode = q.mode
        /\ r.parent = q.parent
        BY <1>1, <2>3 DEF Requests
  <2> HIDE DEF r
  <2>5. RequestOK(r)
        BY <1>1, <2>3, <2>4 DEF RequestOK
  <2> QED BY <1>1, <1>2, <2>2, <2>4, <2>5, RequestMoves
<1> QED BY <1>5, <1>6

\* A row at the end: an increment only of what the request has checked.
LEMMA CreateBuildKeeps ==
  ASSUME IInv, NEW c \in Clients, CreateBuild(c)
  PROVE  IInv'
<1> DEFINE q == request[c]
           row == [rev |-> q.rev, compiler |-> q.compiler, mode |-> q.mode,
                   parent |-> q.parent, activate |-> q.activate, status |-> "queued",
                   made |-> {}]
           n == Len(builds) + 1
<1>1. /\ builds' = Append(builds, row) /\ request' = [request EXCEPT ![c] = NoRequest]
      /\ UNCHANGED <<revision, serving, calm, fleet>> /\ Len(builds) < Room(fleet) /\ q.pc = "inserting"
      BY DEF CreateBuild, End
<1>2. /\ q \in Requests /\ RequestOK(q) /\ Len(builds) \in Nat /\ builds \in Seq(BuildRows)
      /\ NoRequest \in Requests /\ serving \in 0 .. Len(builds) /\ Room(fleet) \in Nat
      BY NoneAsked, RoomIsBounded DEF IInv, TypeOK, RequestsOK
<1>3. q.rev \in Packages /\ q.compiler \in Compilers
      BY <1>1, <1>2 DEF RequestOK
<1>4. /\ row \in BuildRows /\ row.rev = q.rev /\ row.compiler = q.compiler /\ row.mode = q.mode
      /\ row.parent = q.parent /\ row.status = "queued" /\ row.made = {}
      BY <1>2, <1>3 DEF BuildRows, Requests
<1> HIDE DEF row
<1>5. /\ Len(builds') = n /\ builds'[n] = row /\ builds' \in Seq(BuildRows)
      /\ \A i \in Ids : builds'[i] = builds[i] /\ i # n /\ i \in Nat
      /\ Ids' = Ids \cup {n} /\ n \in Nat
      BY <1>1, <1>2, <1>4 DEF Ids
<1> HIDE DEF n
<1>6. TypeOK'
      BY <1>1, <1>2, <1>5, MaxBuildsAssumption DEF IInv, TypeOK, n
<1>7. \A i \in Ids : builds[i].parent # 0 => builds[i].parent \in Ids
      BY ParentIsABuild
<1>8. q.parent # 0 => q.parent \in Ids
      BY <1>2 DEF RequestOK, Ids
<1>9. LineageOK'
  <2> SUFFICES ASSUME NEW i \in Ids'
               PROVE  /\ builds'[i].mode = "full" <=> builds'[i].parent = 0
                      /\ builds'[i].parent # 0 =>
                           /\ builds'[i].parent < i
                           /\ builds'[builds'[i].parent].made # {}
                           /\ builds'[builds'[i].parent].compiler = builds'[i].compiler
                           /\ Profile(builds'[builds'[i].parent].rev) = Profile(builds'[i].rev)
      BY DEF LineageOK
  <2>1. CASE i \in Ids
    <3>1. LineageOK
          BY DEF IInv
    <3> QED BY <1>5, <1>7, <2>1, <3>1 DEF LineageOK
  <2>2. CASE i = n
    <3>1. q.mode = "full" <=> q.parent = 0
          BY <1>1, <1>2 DEF RequestOK
    <3>2. q.parent # 0 => q.parent < n
          BY <1>2, <1>8 DEF Ids, n
    <3> QED BY <1>2, <1>4, <1>5, <1>8, <2>2, <3>1, <3>2 DEF RequestOK
  <2> QED BY <1>5, <2>1, <2>2
<1>10. CalmMade'
  <2>1. CalmMade BY DEF IInv
  <2> QED BY <1>1, <1>4, <1>5, <2>1 DEF CalmMade
<1>11. Written'
  <2>1. Written BY DEF IInv
  <2>2. serving # 0 => serving \in Ids
        BY <1>2 DEF Ids
  <2> QED BY <1>1, <1>4, <1>5, <2>1, <2>2 DEF Written
<1>12. RequestsOK'
  <2> SUFFICES ASSUME NEW d \in Clients PROVE RequestOK(request[d])'
      BY DEF RequestsOK
  <2>1. \E r \in Requests : RequestOK(r) /\ request'[d] = r
        BY <1>1, <1>2, NoneAsked DEF IInv, TypeOK, RequestsOK
  <2>2. PICK r \in Requests : RequestOK(r) /\ request'[d] = r
        BY <2>1
  <2>3. r.parent # 0 => r.parent \in Ids
        BY <1>2, <2>2 DEF RequestOK, Ids
  <2>4. 0 .. Len(builds) \subseteq 0 .. Len(builds')
        BY <1>2, <1>5 DEF n
  <2> QED BY <1>5, <2>2, <2>3, <2>4 DEF RequestOK
<1> QED BY <1>6, <1>9, <1>10, <1>11, <1>12 DEF IInv

-----------------------------------------------------------------------------
\* The run of a row: pages of its worker's compiler, or of the parent's and its own.
LEMMA RunBuildKeeps ==
  ASSUME IInv, NEW i \in Ids, NEW k \in Compilers, RunBuild(i, k)
  PROVE  IInv'
<1> DEFINE b == builds[i]
<1>1. PICK made \in IF b.mode = "full" THEN {{k}} ELSE Merged(i, k) :
        builds' = [builds EXCEPT ![i].status = "succeeded", ![i].made = made]
      BY DEF RunBuild
<1> DEFINE row == [b EXCEPT !.status = "succeeded", !.made = made]
<1>2. b \in BuildRows /\ builds \in Seq(BuildRows)
      BY DEF IInv, TypeOK, Ids
<1>3. calm' = (calm /\ k = b.compiler) /\ UNCHANGED <<revision, serving, request, fleet>>
      /\ calm \in BOOLEAN
      BY DEF RunBuild, IInv, TypeOK
<1>4. b.mode # "full" => /\ b.parent \in Ids
                         /\ builds[b.parent].made # {}
                         /\ builds[b.parent].compiler = b.compiler
                         /\ builds[b.parent] \in BuildRows
  <2> SUFFICES ASSUME b.mode # "full"
               PROVE  /\ b.parent \in Ids
                      /\ builds[b.parent].made # {}
                      /\ builds[b.parent].compiler = b.compiler
                      /\ builds[b.parent] \in BuildRows
      OBVIOUS
  <2>1. /\ b.parent # 0 /\ builds[b.parent].made # {}
        /\ builds[b.parent].compiler = b.compiler
        BY DEF IInv, LineageOK
  <2>2. b.parent \in Ids
        BY <2>1, ParentIsABuild
  <2> QED BY <1>2, <2>1, <2>2 DEF Ids
<1>5. made # {} /\ made \in SUBSET Compilers
      BY <1>1, <1>4 DEF Merged, BuildRows
<1>6. calm' => made = {b.compiler}
  <2> SUFFICES ASSUME calm' PROVE made = {b.compiler}
      OBVIOUS
  <2>1. calm /\ k = b.compiler
        BY <1>3
  <2>2. b.mode # "full" => builds[b.parent].made = {b.compiler}
        BY <1>4, <2>1 DEF IInv, CalmMade
  <2> QED BY <1>1, <2>1, <2>2 DEF Merged
<1>7. /\ row \in BuildRows /\ row.rev = b.rev /\ row.compiler = b.compiler
      /\ row.mode = b.mode /\ row.parent = b.parent /\ row.made = made
      BY <1>2, <1>5 DEF BuildRows
<1>8. builds' = [builds EXCEPT ![i] = row]
      BY <1>1, <1>2 DEF BuildRows
<1> HIDE DEF row
<1>9. Decided(i, row)
      BY <1>5, <1>7 DEF Decided
<1>10. serving' \in 0 .. Len(builds) /\ (serving' # 0 => builds[serving'].made # {})
       BY <1>3 DEF IInv, TypeOK, Written
<1> QED BY <1>3, <1>6, <1>7, <1>8, <1>9, <1>10, RowMoves

LEMMA CloseKeeps ==
  ASSUME IInv, NEW i \in Ids, FinishFailed(i) \/ ActivateOnSuccess(i)
  PROVE  IInv'
<1> DEFINE b == builds[i]
           r1 == [b EXCEPT !.status = "failed", !.activate = FALSE]
           r2 == [b EXCEPT !.activate = FALSE]
<1>1. /\ b \in BuildRows /\ builds \in Seq(BuildRows) /\ calm \in BOOLEAN
      /\ serving \in 0 .. Len(builds) /\ (serving # 0 => builds[serving].made # {})
      /\ i \in 0 .. Len(builds)
      /\ b.status = "succeeded" => b.made # {}
      /\ calm => b.made \in {{}, {b.compiler}}
      BY DEF IInv, TypeOK, Ids, Written, CalmMade
<1>2. CASE FinishFailed(i)
  <2>1. /\ r1 \in BuildRows /\ r1.rev = b.rev /\ r1.compiler = b.compiler /\ r1.mode = b.mode
        /\ r1.parent = b.parent /\ r1.made = b.made /\ r1.status = "failed"
        BY <1>1 DEF BuildRows
  <2>2. builds' = [builds EXCEPT ![i] = r1] /\ UNCHANGED <<revision, serving, request, calm, fleet>>
        BY <1>1, <1>2 DEF FinishFailed, BuildRows
  <2> HIDE DEF r1
  <2>3. Decided(i, r1)
        BY <2>1 DEF Decided
  <2> QED BY <1>1, <2>1, <2>2, <2>3, RowMoves
<1>3. CASE ActivateOnSuccess(i)
  <2>1. /\ r2 \in BuildRows /\ r2.rev = b.rev /\ r2.compiler = b.compiler /\ r2.mode = b.mode
        /\ r2.parent = b.parent /\ r2.made = b.made /\ r2.status = b.status
        BY <1>1 DEF BuildRows
  <2>2. builds' = [builds EXCEPT ![i] = r2] /\ UNCHANGED <<revision, request, calm, fleet>>
        /\ serving' \in {i, serving} /\ b.made # {}
        BY <1>1, <1>3 DEF ActivateOnSuccess, Pending, BuildRows
  <2> HIDE DEF r2
  <2>3. Decided(i, r2)
        BY <1>1, <2>1 DEF Decided
  <2> QED BY <1>1, <2>1, <2>2, <2>3, RowMoves
<1> QED BY <1>2, <1>3

LEMMA PointersKeep ==
  ASSUME IInv,
         \/ \E p \in Packages : Ingest(p)
         \/ \E i \in Ids : ActivateBuild(i)
  PROVE  IInv'
<1>1. /\ UNCHANGED <<builds, request, calm, fleet>> /\ revision' \in Packages \cup {None}
      /\ serving' \in 0 .. Len(builds) /\ (serving' # 0 => builds[serving'].made # {})
      BY DEF Ingest, ActivateBuild, IInv, TypeOK, Written, Succeeded, Ids
<1> QED BY <1>1 DEF IInv, TypeOK, LineageOK, CalmMade, Written, RequestsOK, RequestOK, Ids

LEMMA StepIInv == IInv /\ [Next]_vars => IInv'
<1> SUFFICES ASSUME IInv, [Next]_vars PROVE IInv'
    OBVIOUS
<1>1. CASE UNCHANGED vars
      BY <1>1 DEF vars, IInv, TypeOK, LineageOK, CalmMade, Written, RequestsOK, RequestOK, Ids
<1>2. ASSUME NEW c \in Clients, HangUp(c) \/ MaybeActivate(c) PROVE IInv'
      BY <1>2, EndKeeps DEF HangUp, MaybeActivate
<1>3. ASSUME NEW c \in Clients, NEW a \in Asks, Ask(c, a) PROVE IInv'
      BY <1>3, AsksAssumption, AskKeeps
<1>4. ASSUME NEW i \in Ids, Worker(i) \/ FinishFailed(i) PROVE IInv'
  <2>1. CASE \E k \in fleet : RunBuild(i, k)
        BY <2>1, FleetsAssumption, RunBuildKeeps DEF IInv, TypeOK
  <2>2. CASE FinishFailed(i) \/ ActivateOnSuccess(i)
        BY <2>2, CloseKeeps
  <2> QED BY <1>4, <2>1, <2>2 DEF Worker
<1> QED BY <1>1, <1>2, FindKeeps, CreateBuildKeeps, RunBuildKeeps, CloseKeeps,
           PointersKeep, <1>3, <1>4 DEF Next, Answer

\* An incremental build is an increment of an older build of its compiler and
\* profile that has pages, and what is served has pages (EnqueueCompile,
\* runIncremental, maybeActivate, ActivateBuild).
THEOREM Invariance == Spec => []IInv
BY InitIInv, StepIInv, PTL DEF Spec

\* A build tells what compiled its pages, the reused ones included, as long as each
\* row is run by the compiler that queued it (EnqueueCompile, RunBuild).
THEOREM ProvenanceWhileCalm == Spec => []CalmProvenance
<1>1. IInv => CalmProvenance
      BY DEF IInv, CalmMade, Written, CalmProvenance, ProvenanceIsTrue
<1> QED BY <1>1, Invariance, PTL
=============================================================================
