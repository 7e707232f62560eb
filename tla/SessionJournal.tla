---------------------------- MODULE SessionJournal ----------------------------
(***************************************************************************)
(* The memory journal of one session and the feedback on one memory        *)
(* (internal/memory/service.go, repo.go): idempotent events, checkpoints   *)
(* that are events, resuming from the latest one, and signals with the     *)
(* counters projected from them.  Clients retry; a request they have given *)
(* up goes on in the server.                                               *)
(***************************************************************************)
EXTENDS Naturals, Sequences, FiniteSets

CONSTANTS
  Contents,   \* payloads, with all else that hashEvent covers
  Keys,       \* idempotency keys that clients choose
  Sessions,   \* sessions that report on the memory
  Calls,      \* requests in the server
  Limit,      \* how much activity Resume shows
  MaxTime,    \* bound: the clock
  MaxEvents,  \* bound: the journal
  None        \* no value

ASSUME NoneAssumption == None \notin Contents \cup Keys \cup Sessions
ASSUME LimitAssumption == Limit \in Nat \ {0}
ASSUME BoundsAssumption == MaxTime \in Nat /\ MaxEvents \in Nat

VARIABLES
  now,       \* the clock
  events,    \* memory_events of the session, in the order of their commits
  feedback,  \* memory_feedback of the memory: the sessions and signals
  counters,  \* useful_count and harmful_count
  call,      \* the request in each slot
  saved,     \* what the client saved last, as a history variable
  calm       \* was no save a replay, in the tick of another or next to another?

vars == <<now, events, feedback, counters, call, saved, calm>>

Signals == {"useful", "harmful"}
Types   == {"checkpoint", "note"}

\* "checkpoint:", the session and the hash of the payload.
DefaultKey(x) == <<"checkpoint", x>>
AllKeys == Keys \cup {DefaultKey(x) : x \in Contents}

Events == [type : Types, content : Contents, key : AllKeys, at : 0 .. MaxTime]

Ids == 1 .. Len(events)

NoCall == [pc |-> "idle", type |-> None, content |-> None, key |-> None, at |-> 0,
           event |-> 0, since |-> {}]

Init ==
  /\ now = 0 /\ events = <<>>
  /\ feedback = {} /\ counters = [g \in Signals |-> 0]
  /\ call = [c \in Calls |-> NoCall]
  /\ saved = None /\ calm = TRUE

Tick ==
  /\ now < MaxTime /\ now' = now + 1
  /\ UNCHANGED <<events, feedback, counters, call, saved, calm>>

Start(c, request) == call[c].pc = "idle" /\ call' = [call EXCEPT ![c] = request]

\* The server has answered, or the client and the process are gone.
End(c) ==
  /\ call[c].pc # "idle"
  /\ call' = [call EXCEPT ![c] = NoCall]
  /\ UNCHANGED <<now, events, feedback, counters, saved, calm>>

-----------------------------------------------------------------------------
Saving == {c \in Calls : call[c].pc \in {"validated", "replayed"}}

Record(c, t, x, k, at) ==
  /\ Start(c, [NoCall EXCEPT !.pc = "validated", !.type = t, !.content = x,
                             !.key = k, !.at = at])
  /\ UNCHANGED <<now, events, feedback, counters, saved>>

\* The time is the server's, unless the client says when the event occurred.
RecordEvent(c, t, x, k) ==
  /\ \E at \in 0 .. now : Record(c, t, x, k, at)
  /\ calm' = (calm /\ t # "checkpoint")

\* RecordEvent under a key that is the payload's, or one the client has chosen.
SaveCheckpoint(c, x, k) ==
  /\ Record(c, "checkpoint", x, k, now)
  /\ calm' = (calm /\ Saving = {} /\ \A i \in Ids : events[i].at < now)

WithKey(k) == {i \in Ids : events[i].key = k}

\* INSERT ... ON CONFLICT (account_id, idempotency_key) DO NOTHING.
Insert(c) ==
  LET q == call[c]
  IN /\ q.pc = "validated"
     /\ IF WithKey(q.key) = {} THEN
          /\ Len(events) < MaxEvents
          /\ events' = Append(events, [type |-> q.type, content |-> q.content,
                                       key |-> q.key, at |-> q.at])
          /\ call' = [call EXCEPT ![c].pc = "recorded", ![c].event = Len(events) + 1]
          /\ saved' = IF q.type = "checkpoint" THEN q.content ELSE saved
          /\ UNCHANGED calm
        ELSE
          /\ call' = [call EXCEPT ![c].pc = "replayed"]
          /\ calm' = (calm /\ q.type # "checkpoint")
          /\ UNCHANGED <<events, saved>>
     /\ UNCHANGED <<now, feedback, counters>>

\* Mutant: the key alone says that it is a retry.
SameHashByKey(i, q) == TRUE

SameHash(i, q) == events[i].content = q.content /\ events[i].type = q.type

\* A second statement selects the row that was in the way; ErrIdempotencyConflict.
Replay(c) ==
  /\ call[c].pc = "replayed"
  /\ \E i \in WithKey(call[c].key) :
       call' = [call EXCEPT ![c] = IF SameHash(i, @)
                                   THEN [@ EXCEPT !.pc = "recorded", !.event = i]
                                   ELSE NoCall]
  /\ UNCHANGED <<now, events, feedback, counters, saved, calm>>

-----------------------------------------------------------------------------
Checkpoints == {i \in Ids : events[i].type = "checkpoint"}

\* Mutant: the order is ascending.
Earliest(C) == {i \in C : \A j \in C : events[i].at <= events[j].at}

\* ORDER BY occurred_at DESC, and created_at DESC: in one tick, either.  (What was
\* last saved by then is kept with the call.)
Latest(C) == {i \in C : \A j \in C : events[j].at <= events[i].at}

ResumeBegins(c) ==
  /\ Checkpoints # {}
  /\ \E i \in Latest(Checkpoints) :
       Start(c, [NoCall EXCEPT !.pc = "latest", !.event = i, !.content = saved])
  /\ UNCHANGED <<now, events, feedback, counters, saved, calm>>

\* The first Limit of I by their time.
Oldest(I) ==
  {J \in SUBSET I : /\ Cardinality(J) = IF Cardinality(I) < Limit THEN Cardinality(I) ELSE Limit
                    /\ \A j \in J, i \in I \ J : events[j].at <= events[i].at}

\* TimelineSince, a statement of its own.
ResumeEnds(c) ==
  /\ call[c].pc = "latest"
  /\ \E J \in Oldest({i \in Ids : events[i].at > events[call[c].event].at}) :
       call' = [call EXCEPT ![c].pc = "resumed", ![c].since = J]
  /\ UNCHANGED <<now, events, feedback, counters, saved, calm>>

\* Without a checkpoint: the beginning of the journal.
ResumeJournalOnly(c) ==
  /\ Checkpoints = {}
  /\ \E J \in Oldest(Ids) : Start(c, [NoCall EXCEPT !.pc = "resumed", !.since = J])
  /\ UNCHANGED <<now, events, feedback, counters, saved, calm>>

-----------------------------------------------------------------------------
\* Mutant: the counter moves even if the signal was there.
CountedTwice(g) == [counters EXCEPT ![g.signal] = @ + 1]

Counted(g) == IF g \in feedback THEN counters ELSE [counters EXCEPT ![g.signal] = @ + 1]

\* The signal and its counter are one transaction; a signal is unique.
RecordFeedback(s, g) ==
  LET signal == [session |-> s, signal |-> g]
  IN /\ feedback' = feedback \cup {signal}
     /\ counters' = Counted(signal)
     /\ UNCHANGED <<now, events, call, saved, calm>>

Request(c) ==
  \/ \E t \in Types, x \in Contents, k \in Keys : RecordEvent(c, t, x, k)
  \/ \E x \in Contents, k \in Keys : SaveCheckpoint(c, x, k)
  \/ \E x \in Contents : SaveCheckpoint(c, x, DefaultKey(x))
  \/ ResumeBegins(c) \/ ResumeJournalOnly(c)

Next ==
  \/ Tick
  \/ \E s \in Sessions, g \in Signals : RecordFeedback(s, g)
  \/ \E c \in Calls : Request(c) \/ Insert(c) \/ Replay(c) \/ ResumeEnds(c) \/ End(c)

Spec == Init /\ [][Next]_vars

-----------------------------------------------------------------------------
CallStates ==
  [pc : {"idle", "validated", "replayed", "recorded", "latest", "resumed"},
   type : Types \cup {None}, content : Contents \cup {None},
   key : AllKeys \cup {None}, at : 0 .. MaxTime, event : Nat, since : SUBSET Nat]

TypeOK ==
  /\ now \in 0 .. MaxTime
  /\ events \in Seq(Events)
  /\ feedback \subseteq [session : Sessions, signal : Signals] /\ IsFiniteSet(feedback)
  /\ counters \in [Signals -> Nat]
  /\ call \in [Calls -> CallStates]
  /\ saved \in Contents \cup {None} /\ calm \in BOOLEAN

\* "The counter can never drift from the signal log", and a retried event or signal
\* is there once, whatever is retried next to what.
KeysUnique == \A i, j \in Ids : events[i].key = events[j].key => i = j

CountersExact == \A g \in Signals : counters[g] = Cardinality({f \in feedback : f.signal = g})

JournalOK == TypeOK /\ KeysUnique /\ CountersExact

\* A request that is told its event is recorded is told of one with its own content:
\* no retry with a reused key takes another event for its own.
AnswerIsOwn ==
  \A c \in Calls : call[c].pc = "recorded" =>
    /\ call[c].event \in Ids
    /\ events[call[c].event].content = call[c].content
    /\ events[call[c].event].type = call[c].type
    /\ events[call[c].event].key = call[c].key

\* If checkpoints are saved one after the other, in ticks of their own and with
\* contents that were not saved before, then resuming returns the last one that was
\* saved when it looked, and no activity from before it.
CalmResume ==
  \A c \in Calls : calm /\ call[c].pc \in {"latest", "resumed"} /\ call[c].event # 0 =>
    /\ events[call[c].event].content = call[c].content
    /\ \A i \in call[c].since \cap Checkpoints : i > call[c].event

\* What a request holds is what its step has found: a write is complete, a resumed
\* checkpoint is one, and activity is of the journal.
HoldsOK(q) ==
  /\ q.pc \in {"validated", "replayed"} =>
       q.type \in Types /\ q.content \in Contents /\ q.key \in AllKeys
  /\ q.pc \in {"latest", "resumed"} => q.event = 0 \/ q.event \in Checkpoints
  /\ q.pc = "latest" => q.event # 0 /\ q.since = {}
  /\ q.since \subseteq Ids

Pending(c) == c \in Saving /\ call[c].type = "checkpoint"

\* One save at a time keeps the checkpoints in the order of their times: the one on
\* its way is later than all, and the last of them is what was saved last.
InOrder ==
  calm =>
    /\ \A c, d \in Calls : Pending(c) /\ Pending(d) => c = d
    /\ \A c \in Calls, i \in Checkpoints : Pending(c) => events[i].at < call[c].at
    /\ \A i, j \in Checkpoints : i < j => events[i].at < events[j].at
    /\ \A i \in Checkpoints : (\A j \in Checkpoints : j <= i) => events[i].content = saved

IInv ==
  /\ JournalOK /\ AnswerIsOwn /\ CalmResume
  /\ (\A c \in Calls : HoldsOK(call[c])) /\ InOrder
=============================================================================
