------------------------- MODULE SessionJournal_proof -------------------------
(***************************************************************************)
(* Proofs about SessionJournal, for any number of requests, events and     *)
(* sessions: keys are unique and counters are their log, an answer is of   *)
(* the caller's own content, and a session at rest resumes from the        *)
(* checkpoint that was saved last.                                         *)
(***************************************************************************)
EXTENDS SessionJournal, FiniteSetTheorems, TLAPS

LEMMA NoRequest == NoCall \in CallStates /\ NoCall.pc = "idle" /\ HoldsOK(NoCall)
BY BoundsAssumption DEF NoCall, CallStates, HoldsOK

LEMMA InitIInv == Init => IInv
<1> SUFFICES ASSUME Init PROVE IInv
    OBVIOUS
<1> USE DEF Init
<1>1. TypeOK
      BY BoundsAssumption, NoRequest, FS_EmptySet DEF TypeOK, Signals
<1>2. KeysUnique /\ AnswerIsOwn /\ CalmResume /\ InOrder
      BY NoRequest DEF KeysUnique, AnswerIsOwn, CalmResume, InOrder, Ids, Checkpoints, Pending, Saving
<1>3. CountersExact
  <2>1. \A g \in Signals : {f \in feedback : f.signal = g} = {}
        OBVIOUS
  <2> QED BY <2>1, FS_EmptySet DEF CountersExact
<1> QED BY <1>1, <1>2, <1>3, NoRequest DEF IInv, JournalOK

-----------------------------------------------------------------------------
\* What is asked of a request's new state, as the journal is.
Own(q) ==
  q.pc = "recorded" => /\ q.event \in Ids
                       /\ events[q.event].content = q.content
                       /\ events[q.event].type = q.type
                       /\ events[q.event].key = q.key

Resumed(q) ==
  calm /\ q.pc \in {"latest", "resumed"} /\ q.event # 0 =>
    /\ events[q.event].content = q.content
    /\ \A i \in q.since \cap Checkpoints : i > q.event

Saves(q) == q.pc \in {"validated", "replayed"} /\ q.type = "checkpoint"

\* A step of one request that leaves the journal alone keeps the invariant: what it
\* holds is right, and it saves a checkpoint only as it already did, or alone and
\* later than all.
LEMMA RequestMoves ==
  ASSUME IInv, NEW c \in Calls, NEW r \in CallStates,
         call' = [call EXCEPT ![c] = r],
         UNCHANGED <<now, events, feedback, counters, saved>>,
         calm' \in BOOLEAN, calm' => calm,
         HoldsOK(r), Own(r), Resumed(r),
         calm' /\ Saves(r) =>
           \/ Saves(call[c]) /\ r.at = call[c].at
           \/ Saving = {} /\ \A i \in Ids : events[i].at < r.at
  PROVE  IInv'
<1>1. /\ call'[c] = r
      /\ \A d \in Calls \ {c} : call'[d] = call[d]
      /\ call' \in [Calls -> CallStates]
      BY DEF IInv, JournalOK, TypeOK
<1>2. JournalOK'
  <2>1. TypeOK'
        BY <1>1 DEF IInv, JournalOK, TypeOK
  <2>2. KeysUnique' /\ CountersExact'
        BY DEF IInv, JournalOK, KeysUnique, CountersExact, Ids
  <2> QED BY <2>1, <2>2 DEF JournalOK
<1>3. AnswerIsOwn'
      BY <1>1 DEF IInv, AnswerIsOwn, Own, Ids
<1>4. CalmResume'
      BY <1>1 DEF IInv, CalmResume, Resumed, Checkpoints, Ids
<1>5. \A d \in Calls : HoldsOK(call[d])'
      BY <1>1 DEF IInv, HoldsOK, Checkpoints, Ids
<1>6. InOrder'
  <2> SUFFICES ASSUME calm' PROVE InOrder'
      BY DEF InOrder
  <2>1. InOrder /\ calm
        BY DEF IInv
  <2>2. \A d \in Calls : Pending(d) <=> Saves(call[d])
        BY DEF Pending, Saving, Saves
  <2>3. \A d \in Calls : Pending(d)' <=> Saves(call'[d])
        BY DEF Pending, Saving, Saves
  <2>4. \A d, e \in Calls : Pending(d)' /\ Pending(e)' => d = e
        BY <1>1, <2>1, <2>2, <2>3 DEF InOrder, Saving, Saves
  <2>5. \A d \in Calls, i \in Checkpoints : Pending(d)' => events[i].at < call'[d].at
        BY <1>1, <2>1, <2>2, <2>3 DEF InOrder, Checkpoints
  <2> QED BY <2>1, <2>4, <2>5 DEF InOrder, Checkpoints, Ids
<1> QED BY <1>2, <1>3, <1>4, <1>5, <1>6 DEF IInv

-----------------------------------------------------------------------------
\* A new request: complete, and a checkpoint alone and later than all.
LEMMA RecordKeeps ==
  ASSUME IInv, NEW c \in Calls, NEW t \in Types, NEW x \in Contents, NEW k \in AllKeys,
         NEW at \in 0 .. MaxTime, Record(c, t, x, k, at),
         calm' \in BOOLEAN, calm' => calm,
         calm' /\ t = "checkpoint" => Saving = {} /\ \A i \in Ids : events[i].at < at
  PROVE  IInv'
<1> DEFINE r == [NoCall EXCEPT !.pc = "validated", !.type = t, !.content = x,
                               !.key = k, !.at = at]
<1>1. /\ r \in CallStates /\ r.pc = "validated" /\ r.type = t /\ r.content = x
      /\ r.key = k /\ r.at = at /\ r.since = {}
      BY DEF NoCall, CallStates
<1>2. HoldsOK(r) /\ Own(r) /\ Resumed(r)
      BY <1>1 DEF HoldsOK, Own, Resumed
<1>3. call' = [call EXCEPT ![c] = r] /\ UNCHANGED <<now, events, feedback, counters, saved>>
      BY DEF Record, Start
<1>4. calm' /\ Saves(r) => Saving = {} /\ \A i \in Ids : events[i].at < r.at
      BY <1>1 DEF Saves
<1> HIDE DEF r
<1> QED BY <1>1, <1>2, <1>3, <1>4, RequestMoves

LEMMA ResumeKeeps ==
  ASSUME IInv, NEW c \in Calls, ResumeBegins(c) \/ ResumeJournalOnly(c) \/ ResumeEnds(c)
  PROVE  IInv'
<1> USE DEF IInv, JournalOK, TypeOK
<1>0. UNCHANGED <<now, events, feedback, counters, saved, calm>>
      BY DEF ResumeBegins, ResumeJournalOnly, ResumeEnds
<1>1. CASE ResumeBegins(c)
  <2>1. PICK i \in Latest(Checkpoints) :
          call' = [call EXCEPT ![c] = [NoCall EXCEPT !.pc = "latest", !.event = i,
                                                     !.content = saved]]
        BY <1>1 DEF ResumeBegins, Start
  <2> DEFINE r == [NoCall EXCEPT !.pc = "latest", !.event = i, !.content = saved]
  <2>2. i \in Checkpoints /\ i \in Ids /\ i \in Nat \ {0}
        BY DEF Latest, Checkpoints, Ids
  <2>3. /\ r \in CallStates /\ r.pc = "latest" /\ r.event = i /\ r.content = saved
        /\ r.since = {}
        BY <2>2, NoRequest DEF NoCall, CallStates
  <2>4. calm => events[i].content = saved
    <3> SUFFICES ASSUME calm, NEW j \in Checkpoints PROVE j <= i
        BY <2>2 DEF InOrder
    <3>1. events[j].at <= events[i].at /\ events[j] \in Events /\ events[i] \in Events
          BY <2>2 DEF Latest, Checkpoints, Ids
    <3>2. i < j => events[i].at < events[j].at
          BY <2>2 DEF InOrder
    <3> QED BY <2>2, <3>1, <3>2 DEF Events, Checkpoints, Ids
  <2>5. HoldsOK(r) /\ Own(r) /\ Resumed(r) /\ ~Saves(r)
        BY <2>2, <2>3, <2>4 DEF HoldsOK, Own, Resumed, Saves
  <2> HIDE DEF r
  <2>6. call' = [call EXCEPT ![c] = r] BY <2>1 DEF r
  <2> QED BY <1>0, <2>3, <2>5, <2>6, RequestMoves
<1>2. CASE ResumeJournalOnly(c)
  <2>1. PICK J \in SUBSET Ids :
          call' = [call EXCEPT ![c] = [NoCall EXCEPT !.pc = "resumed", !.since = J]]
        BY <1>2 DEF ResumeJournalOnly, Start, Oldest
  <2> DEFINE r == [NoCall EXCEPT !.pc = "resumed", !.since = J]
  <2> J \in SUBSET Nat
      BY DEF Ids
  <2>2. r \in CallStates /\ r.pc = "resumed" /\ r.event = 0 /\ r.since = J
    <3>1. r \in CallStates
          BY NoRequest DEF CallStates
    <3> QED BY <3>1 DEF NoCall
  <2>3. HoldsOK(r) /\ Own(r) /\ Resumed(r) /\ ~Saves(r)
        BY <2>2 DEF HoldsOK, Own, Resumed, Saves
  <2> HIDE DEF r
  <2>4. call' = [call EXCEPT ![c] = r] BY <2>1 DEF r
  <2> QED BY <1>0, <2>2, <2>3, <2>4, RequestMoves
<1>3. CASE ResumeEnds(c)
  <2> DEFINE q == call[c]
  <2>1. PICK J \in SUBSET {i \in Ids : events[i].at > events[q.event].at} :
          call' = [call EXCEPT ![c] = [q EXCEPT !.pc = "resumed", !.since = J]]
        BY <1>3 DEF ResumeEnds, Oldest
  <2> DEFINE r == [q EXCEPT !.pc = "resumed", !.since = J]
  <2>2. q \in CallStates /\ q.pc = "latest" /\ HoldsOK(q)
        BY <1>3 DEF ResumeEnds
  <2>3. /\ r \in CallStates /\ r.pc = "resumed" /\ r.event = q.event /\ r.since = J
        /\ r.content = q.content
    <3>1. J \in SUBSET Nat
          BY DEF Ids
    <3>2. r \in CallStates
          BY <2>2, <3>1 DEF CallStates
    <3> QED BY <2>2, <3>2 DEF CallStates
  <2>4. q.event \in Checkpoints /\ q.event \in Ids
        BY <2>2 DEF HoldsOK, Checkpoints
  <2>5. calm => events[q.event].content = q.content
        BY <2>2, <2>4 DEF CalmResume, HoldsOK
  <2>6. calm => \A i \in J \cap Checkpoints : i > q.event
    <3> SUFFICES ASSUME calm, NEW i \in J, i \in Checkpoints PROVE i > q.event
        OBVIOUS
    <3>1. events[i].at > events[q.event].at /\ events[i] \in Events /\ events[q.event] \in Events
          BY <2>4 DEF Ids
    <3>2. i < q.event => events[i].at < events[q.event].at
          BY <2>4 DEF InOrder
    <3> QED BY <2>4, <3>1, <3>2 DEF Events, Ids, Checkpoints
  <2>7. HoldsOK(r) /\ Own(r) /\ Resumed(r) /\ ~Saves(r)
        BY <2>3, <2>4, <2>5, <2>6 DEF HoldsOK, Own, Resumed, Saves
  <2> HIDE DEF r
  <2>8. call' = [call EXCEPT ![c] = r] BY <2>1 DEF r
  <2> QED BY <1>0, <2>3, <2>7, <2>8, RequestMoves
<1> QED BY <1>1, <1>2, <1>3

LEMMA ReplayKeeps ==
  ASSUME IInv, NEW c \in Calls, Replay(c)
  PROVE  IInv'
<1> USE DEF IInv, JournalOK, TypeOK
<1> DEFINE q == call[c]
<1>0. /\ UNCHANGED <<now, events, feedback, counters, saved, calm>>
      /\ q \in CallStates /\ q.pc = "replayed" /\ HoldsOK(q)
      BY DEF Replay
<1>1. PICK i \in WithKey(q.key) :
        call' = [call EXCEPT ![c] = IF SameHash(i, q)
                                    THEN [q EXCEPT !.pc = "recorded", !.event = i]
                                    ELSE NoCall]
      BY DEF Replay
<1>2. CASE ~SameHash(i, q)
  <2>1. call' = [call EXCEPT ![c] = NoCall]
        BY <1>1, <1>2
  <2>2. Own(NoCall) /\ Resumed(NoCall) /\ ~Saves(NoCall)
        BY NoRequest DEF Own, Resumed, Saves
  <2> QED BY <1>0, <2>1, <2>2, NoRequest, RequestMoves
<1>3. CASE SameHash(i, q)
  <2> DEFINE r == [q EXCEPT !.pc = "recorded", !.event = i]
  <2>1. i \in Ids /\ i \in Nat /\ events[i].key = q.key
        BY DEF WithKey, Ids
  <2>2. /\ r \in CallStates /\ r.pc = "recorded" /\ r.event = i /\ r.content = q.content
        /\ r.type = q.type /\ r.key = q.key /\ r.since = q.since
        BY <1>0, <2>1 DEF CallStates
  <2>3. HoldsOK(r) /\ Own(r) /\ Resumed(r) /\ ~Saves(r)
        BY <1>0, <1>3, <2>1, <2>2 DEF HoldsOK, Own, Resumed, Saves, SameHash
  <2> HIDE DEF r
  <2>4. call' = [call EXCEPT ![c] = r] BY <1>1, <1>3 DEF r
  <2> QED BY <1>0, <2>2, <2>3, <2>4, RequestMoves
<1> QED BY <1>2, <1>3

-----------------------------------------------------------------------------
\* A row under a new key at the end of the journal.
LEMMA AppendKeeps ==
  ASSUME IInv, NEW c \in Calls, call[c].pc = "validated", WithKey(call[c].key) = {}, Insert(c)
  PROVE  IInv'
<1> USE DEF IInv, JournalOK, TypeOK
<1> DEFINE q == call[c]
           e == [type |-> q.type, content |-> q.content, key |-> q.key, at |-> q.at]
           n == Len(events) + 1
           r == [q EXCEPT !.pc = "recorded", !.event = n]
<1>0. /\ q \in CallStates /\ HoldsOK(q) /\ n \in Nat /\ Len(events) \in Nat
      /\ q.type \in Types /\ q.content \in Contents /\ q.key \in AllKeys
      BY DEF HoldsOK
<1>1. e \in Events /\ e.type = q.type /\ e.content = q.content /\ e.key = q.key /\ e.at = q.at
      BY <1>0 DEF Events, CallStates
<1>2. /\ events' = Append(events, e) /\ call' = [call EXCEPT ![c] = r]
      /\ saved' = IF q.type = "checkpoint" THEN q.content ELSE saved
      /\ UNCHANGED <<now, feedback, counters, calm>>
  <2>1. events' = Append(events, e) /\ saved' = (IF q.type = "checkpoint" THEN q.content ELSE saved)
        /\ UNCHANGED <<now, feedback, counters, calm>>
        BY DEF Insert
  <2>2. call' = [call EXCEPT ![c].pc = "recorded", ![c].event = n]
        BY DEF Insert
  <2> QED BY <2>1, <2>2, <1>0 DEF CallStates
<1>3. /\ r \in CallStates /\ r.pc = "recorded" /\ r.event = n /\ r.content = q.content
      /\ r.type = q.type /\ r.key = q.key /\ r.since = q.since
      BY <1>0 DEF CallStates
<1> HIDE DEF e, r, n
<1>4. /\ Len(events') = n /\ events'[n] = e /\ events' \in Seq(Events)
      /\ \A i \in Ids : events'[i] = events[i] /\ i < n /\ i \in Nat
      /\ Ids' = Ids \cup {n} /\ n \notin Ids
      BY <1>0, <1>1, <1>2 DEF Ids, n
<1>5. /\ Checkpoints' = IF q.type = "checkpoint" THEN Checkpoints \cup {n} ELSE Checkpoints
      /\ Checkpoints \subseteq Ids
      BY <1>1, <1>4 DEF Checkpoints
<1>6. /\ call'[c] = r
      /\ \A d \in Calls \ {c} : call'[d] = call[d]
      /\ call' \in [Calls -> CallStates]
      BY <1>2, <1>3
<1>7. TypeOK'
      BY <1>0, <1>2, <1>4, <1>6
<1>8. KeysUnique'
  <2>1. \A i \in Ids : events[i].key # e.key
        BY <1>1 DEF WithKey
  <2>2. \A i \in Ids : events'[i].key = events[i].key
        BY <1>4
  <2>3. events'[n].key = e.key
        BY <1>4
  <2>4. KeysUnique
        OBVIOUS
  <2> QED BY ONLY <1>4, <2>1, <2>2, <2>3, <2>4 DEF KeysUnique
<1>9. CountersExact'
      BY <1>2 DEF CountersExact
<1>10. AnswerIsOwn'
  <2> SUFFICES ASSUME NEW d \in Calls, call'[d].pc = "recorded"
               PROVE  /\ call'[d].event \in Ids'
                      /\ events'[call'[d].event].content = call'[d].content
                      /\ events'[call'[d].event].type = call'[d].type
                      /\ events'[call'[d].event].key = call'[d].key
      BY DEF AnswerIsOwn
  <2>1. CASE d = c
        BY <2>1, <1>1, <1>3, <1>4, <1>6
  <2>2. CASE d # c
    <3>1. call'[d] = call[d] /\ call[d].event \in Ids
          BY <2>2, <1>6 DEF AnswerIsOwn
    <3>2. events'[call[d].event] = events[call[d].event] /\ call[d].event \in Ids'
          BY <3>1, <1>4
    <3> QED BY <3>1, <3>2 DEF AnswerIsOwn
  <2> QED BY <2>1, <2>2
<1>11. \A d \in Calls : HoldsOK(call[d])'
  <2> SUFFICES ASSUME NEW d \in Calls PROVE HoldsOK(call[d])'
      OBVIOUS
  <2>1. CASE d = c
        BY <2>1, <1>0, <1>3, <1>4, <1>6 DEF HoldsOK
  <2>2. CASE d # c
        BY <2>2, <1>4, <1>5, <1>6 DEF HoldsOK
  <2> QED BY <2>1, <2>2
<1>12. CalmResume'
  <2> SUFFICES ASSUME calm', NEW d \in Calls, call'[d].pc \in {"latest", "resumed"},
                      call'[d].event # 0
               PROVE  /\ events'[call'[d].event].content = call'[d].content
                      /\ \A i \in call'[d].since \cap Checkpoints' : i > call'[d].event
      BY DEF CalmResume
  <2>1. d # c /\ call'[d] = call[d] /\ HoldsOK(call[d])
        BY <1>3, <1>6
  <2>2. call[d].event \in Checkpoints /\ call[d].since \subseteq Ids
        BY <2>1 DEF HoldsOK
  <2>3. call[d].since \cap Checkpoints' = call[d].since \cap Checkpoints
        BY <1>4, <1>5, <2>2
  <2> QED BY <1>2, <1>4, <1>5, <2>1, <2>2, <2>3 DEF CalmResume
<1>13. InOrder'
  <2> SUFFICES ASSUME calm' PROVE InOrder'
      BY DEF InOrder
  <2>1. InOrder /\ calm
        BY <1>2
  <2>2. \A d \in Calls : Pending(d) <=> Saves(call[d])
        BY DEF Pending, Saving, Saves
  <2>3. \A d \in Calls : Pending(d)' <=> Saves(call'[d])
        BY DEF Pending, Saving, Saves
  <2>4. \A d \in Calls : Pending(d)' => Pending(d) /\ d # c /\ call'[d] = call[d]
        BY <1>3, <1>6, <2>2, <2>3 DEF Saves
  <2>5. \A d, f \in Calls : Pending(d)' /\ Pending(f)' => d = f
        BY <2>1, <2>4 DEF InOrder
  <2>6. CASE q.type # "checkpoint"
    <3>1. Checkpoints' = Checkpoints /\ saved' = saved
          BY <1>2, <1>5, <2>6
    <3>2. \A i \in Checkpoints : events'[i] = events[i]
          BY <1>4, <1>5
    <3>3. \A d \in Calls, i \in Checkpoints' : Pending(d)' => events'[i].at < call'[d].at
          BY <2>1, <2>4, <3>1, <3>2 DEF InOrder
    <3>4. /\ \A i, j \in Checkpoints' : i < j => events'[i].at < events'[j].at
          /\ \A i \in Checkpoints' :
               (\A j \in Checkpoints' : j <= i) => events'[i].content = saved'
          BY <2>1, <3>1, <3>2 DEF InOrder
    <3> QED BY <2>5, <3>3, <3>4 DEF InOrder
  <2>7. CASE q.type = "checkpoint"
    <3>1. Pending(c)
          BY <2>2, <2>7 DEF Saves
    <3>2. \A d \in Calls : ~Pending(d)'
          BY <2>1, <2>4, <3>1 DEF InOrder
    <3>3. \A i \in Checkpoints : events[i].at < e.at
          BY <1>1, <2>1, <3>1 DEF InOrder
    <3>4. Checkpoints' = Checkpoints \cup {n}
          BY <1>5, <2>7
    <3>5. \A i, j \in Checkpoints' : i < j => events'[i].at < events'[j].at
          BY <1>0, <1>4, <1>5, <2>1, <3>3, <3>4 DEF InOrder
    <3>6. \A i \in Checkpoints' : (\A j \in Checkpoints' : j <= i) => i = n
          BY <1>0, <1>4, <1>5, <3>4
    <3>7. events'[n].content = saved'
          BY <1>1, <1>2, <1>4, <2>7
    <3> QED BY <3>2, <3>5, <3>6, <3>7 DEF InOrder
  <2> QED BY <2>6, <2>7
<1> QED BY <1>7, <1>8, <1>9, <1>10, <1>11, <1>12, <1>13

LEMMA InsertKeeps ==
  ASSUME IInv, NEW c \in Calls, Insert(c)
  PROVE  IInv'
<1> DEFINE q == call[c]
           r == [q EXCEPT !.pc = "replayed"]
<1>0. q \in CallStates /\ HoldsOK(q) /\ q.pc = "validated" /\ calm \in BOOLEAN
      BY DEF Insert, IInv, JournalOK, TypeOK
<1>1. CASE WithKey(q.key) = {}
      BY <1>0, <1>1, AppendKeeps
<1>2. CASE WithKey(q.key) # {}
  <2>1. /\ r \in CallStates /\ r.pc = "replayed" /\ r.type = q.type /\ r.content = q.content
        /\ r.key = q.key /\ r.at = q.at /\ r.since = q.since
        BY <1>0 DEF CallStates
  <2>2. call' = [call EXCEPT ![c] = r] /\ UNCHANGED <<now, events, feedback, counters, saved>>
        /\ calm' = (calm /\ q.type # "checkpoint")
        BY <1>2 DEF Insert
  <2>3. HoldsOK(r) /\ Own(r) /\ Resumed(r)
        BY <1>0, <2>1 DEF HoldsOK, Own, Resumed
  <2>4. calm' /\ Saves(r) => FALSE
        BY <2>1, <2>2 DEF Saves
  <2> HIDE DEF r
  <2> QED BY <1>0, <2>1, <2>2, <2>3, <2>4, RequestMoves
<1> QED BY <1>1, <1>2

-----------------------------------------------------------------------------
LEMMA TickKeeps == IInv /\ Tick => IInv'
<1> SUFFICES ASSUME IInv, Tick PROVE IInv'
    OBVIOUS
<1>1. now' \in 0 .. MaxTime
      BY BoundsAssumption DEF Tick, IInv, JournalOK, TypeOK
<1> QED BY <1>1 DEF Tick, IInv, JournalOK, TypeOK, KeysUnique, CountersExact, AnswerIsOwn,
           CalmResume, HoldsOK, InOrder, Ids, Checkpoints, Pending, Saving

\* One signal, and the counter it moves.
LEMMA RecordFeedbackKeeps ==
  ASSUME IInv, NEW s \in Sessions, NEW g \in Signals, RecordFeedback(s, g)
  PROVE  IInv'
<1> DEFINE f == [session |-> s, signal |-> g]
           Log(F, h) == {x \in F : x.signal = h}
<1>1. /\ feedback' = feedback \cup {f} /\ counters' = Counted(f)
      /\ UNCHANGED <<now, events, call, saved, calm>>
      BY DEF RecordFeedback
<1>2. f \in [session : Sessions, signal : Signals] /\ f.signal = g
      OBVIOUS
<1>3. IsFiniteSet(feedback) /\ counters \in [Signals -> Nat]
      BY DEF IInv, JournalOK, TypeOK
<1> HIDE DEF f
<1>4. CountersExact'
  <2> SUFFICES ASSUME NEW h \in Signals
               PROVE  counters'[h] = Cardinality(Log(feedback', h))
      BY DEF CountersExact
  <2>1. counters[h] = Cardinality(Log(feedback, h))
        BY DEF IInv, JournalOK, CountersExact
  <2>2. IsFiniteSet(Log(feedback, h))
        BY <1>3, FS_Subset
  <2>3. CASE f \in feedback
    <3>1. feedback' = feedback /\ counters' = counters
          BY <1>1, <2>3 DEF Counted
    <3> QED BY <2>1, <3>1
  <2>4. CASE f \notin feedback /\ h # g
    <3>1. Log(feedback', h) = Log(feedback, h)
          BY <1>1, <1>2, <2>4
    <3>2. counters'[h] = counters[h]
          BY <1>1, <1>2, <1>3, <2>4 DEF Counted
    <3> QED BY <2>1, <3>1, <3>2
  <2>5. CASE f \notin feedback /\ h = g
    <3>1. Log(feedback', h) = Log(feedback, h) \cup {f} /\ f \notin Log(feedback, h)
          BY <1>1, <1>2, <2>5
    <3>2. counters'[h] = counters[h] + 1
          BY <1>1, <1>2, <1>3, <2>5 DEF Counted
    <3> HIDE DEF Log
    <3>3. Cardinality(Log(feedback', h)) = Cardinality(Log(feedback, h)) + 1
          BY <2>2, <3>1, FS_AddElement
    <3> QED BY <2>1, <3>2, <3>3
  <2> QED BY <2>3, <2>4, <2>5
<1>5. TypeOK'
  <2>1. IsFiniteSet(feedback')
        BY <1>1, <1>3, FS_AddElement
  <2>2. counters' \in [Signals -> Nat]
        BY <1>1, <1>2, <1>3 DEF Counted
  <2> QED BY <1>1, <1>2, <2>1, <2>2 DEF IInv, JournalOK, TypeOK
<1> QED BY <1>1, <1>4, <1>5 DEF IInv, JournalOK, KeysUnique, AnswerIsOwn,
           CalmResume, HoldsOK, InOrder, Ids, Checkpoints, Pending, Saving

LEMMA RequestKeeps ==
  ASSUME IInv, NEW c \in Calls, Request(c)
  PROVE  IInv'
<1>0. now \in 0 .. MaxTime /\ 0 .. now \subseteq 0 .. MaxTime /\ calm \in BOOLEAN
      BY BoundsAssumption DEF IInv, JournalOK, TypeOK
<1>1. ASSUME NEW t \in Types, NEW x \in Contents, NEW k \in Keys, RecordEvent(c, t, x, k)
      PROVE  IInv'
  <2>1. PICK at \in 0 .. now : Record(c, t, x, k, at)
        BY <1>1 DEF RecordEvent
  <2>2. calm' = (calm /\ t # "checkpoint")
        BY <1>1 DEF RecordEvent
  <2>3. at \in 0 .. MaxTime /\ k \in AllKeys
        BY <1>0 DEF AllKeys
  <2> QED BY <1>0, <2>1, <2>2, <2>3, RecordKeeps
<1>2. ASSUME NEW x \in Contents, NEW k \in AllKeys, SaveCheckpoint(c, x, k)
      PROVE  IInv'
  <2>1. "checkpoint" \in Types
        BY DEF Types
  <2>2. Record(c, "checkpoint", x, k, now)
        /\ calm' = (calm /\ Saving = {} /\ \A i \in Ids : events[i].at < now)
        BY <1>2 DEF SaveCheckpoint
  <2> QED BY <1>0, <2>1, <2>2, RecordKeeps
<1>3. Keys \subseteq AllKeys /\ \A x \in Contents : DefaultKey(x) \in AllKeys
      BY DEF AllKeys
<1> QED BY <1>1, <1>2, <1>3, ResumeKeeps DEF Request

LEMMA StepIInv == IInv /\ [Next]_vars => IInv'
<1> SUFFICES ASSUME IInv, [Next]_vars PROVE IInv'
    OBVIOUS
<1>1. CASE UNCHANGED vars
      BY <1>1 DEF vars, IInv, JournalOK, TypeOK, KeysUnique, CountersExact, AnswerIsOwn,
             CalmResume, HoldsOK, InOrder, Ids, Checkpoints, Pending, Saving
<1>2. ASSUME NEW c \in Calls, End(c) PROVE IInv'
  <2>1. call' = [call EXCEPT ![c] = NoCall]
        /\ UNCHANGED <<now, events, feedback, counters, saved, calm>>
        BY <1>2 DEF End
  <2>2. Own(NoCall) /\ Resumed(NoCall) /\ ~Saves(NoCall)
        BY NoRequest DEF Own, Resumed, Saves
  <2>3. calm' \in BOOLEAN /\ (calm' => calm)
        BY <2>1 DEF IInv, JournalOK, TypeOK
  <2> QED BY <2>1, <2>2, <2>3, NoRequest, RequestMoves
<1> QED BY <1>1, <1>2, TickKeeps, RecordFeedbackKeeps, RequestKeeps, InsertKeeps,
           ReplayKeeps, ResumeKeeps DEF Next

THEOREM Invariance == Spec => []IInv
BY InitIInv, StepIInv, PTL DEF Spec

\* A key is in the journal once and a counter is the number of its signals, whatever
\* is retried next to what (RecordEvent, RecordFeedback).
THEOREM JournalIsOK == Spec => []JournalOK
<1>1. IInv => JournalOK BY DEF IInv
<1> QED BY <1>1, Invariance, PTL

\* A request that is told its event is recorded is told of its own (RecordEvent).
THEOREM OwnAnswers == Spec => []AnswerIsOwn
<1>1. IInv => AnswerIsOwn BY DEF IInv
<1> QED BY <1>1, Invariance, PTL

\* Checkpoints saved one after the other are resumed from the last one, and with
\* what followed it (SaveCheckpoint, Resume).
THEOREM ResumesFromLast == Spec => []CalmResume
<1>1. IInv => CalmResume BY DEF IInv
<1> QED BY <1>1, Invariance, PTL
=============================================================================
