---------------------------- MODULE WikiValidation ----------------------------
(***************************************************************************)
(* Validation signals about a wiki (internal/knowledge/wiki_validation.go, *)
(* wiki_validation_repo.go): what a signal is attributed to, on the        *)
(* evidence of the query log of the moment it is reported; the sweep for   *)
(* sources that nobody queries; and what many signals say of a skill.      *)
(***************************************************************************)
EXTENDS Integers, Sequences, FiniteSets

CONSTANTS
  SourceIds,  \* sources of one account
  Builds,     \* builds of their wikis
  Texts,      \* texts of queries; equal texts, equal query_hash
  PagePaths,  \* pages
  IdleDays,   \* the idle window of the sweep
  None        \* nothing

Positives == {"answer_adopted", "citation_verified", "reused_for_similar"}
Recurring == {"question_repeated", "query_rephrased", "answer_rewritten"}
Reported  == Positives \cup Recurring \cup {"citation_abandoned"}

\* What happens to an account, one event after the other.
Layers    == {"wiki", "knowledge", "other"}  \* namespaces: the raw layer, and all others
Queries   == [kind : {"query"}, layer : Layers, text : Texts, candidates : Nat, selected : Nat]
Activates == [kind : {"activate"}, source : SourceIds, build : Builds]
Signals   == [kind : {"signal"}, signal : Reported \cup {"never_retrieved"},
              source : SourceIds, build : Builds \cup {None}, page : PagePaths \cup {None},
              query : Nat]  \* its event; any other number names no query
Others    == [kind : {"day", "sweep"}]
Events    == Queries \cup Activates \cup Signals \cup Others

\* The rows: the log of queries by event, the active build of each source and when
\* it changed, and the signals.
Empty == [log |-> {}, active |-> [i \in SourceIds |-> None], updated |-> [i \in SourceIds |-> 0],
          updatedOn |-> [i \in SourceIds |-> 0], day |-> 0, signals |-> <<>>]

Largest(S) == IF S = {} THEN 0 ELSE CHOOSE m \in S : \A n \in S : n <= m

-----------------------------------------------------------------------------
\* Mutant: only what the reported query saw.
SignalEvidenceOwn(s, n) ==
  LET Q == {x \in s.log : x.at = n}
  IN [known |-> Q # {},
      wiki |-> Largest({x.selected : x \in {y \in Q : y.layer = "wiki"}}),
      raw  |-> Largest({x.candidates : x \in {y \in Q : y.layer # "wiki"}})]

\* Where the other view of a query is: a query of the wiki has it in the raw layer, any
\* other in the wiki.
Across(layer) == IF layer = "wiki" THEN "knowledge" ELSE "wiki"

\* SignalEvidence: the query's own counts, and the best of the other layer on the
\* same text; nothing there and never asked there are one.
SignalEvidence(s, n) ==
  LET Q     == {x \in s.log : x.at = n}
      other == {x \in s.log : \E y \in Q : x.layer = Across(y.layer) /\ x.text = y.text}
  IN [known |-> Q # {},
      wiki |-> Largest({x.selected : x \in {y \in Q \cup other : y.layer = "wiki"}}),
      raw  |-> Largest({x.candidates : x \in {y \in Q \cup other : y.layer # "wiki"}})]

\* attribute.
Attribute(e, found) ==
  CASE e.signal \in Positives -> "unattributed"
    [] e.signal = "citation_abandoned" ->
         IF e.page # None THEN "wiki_synthesis" ELSE "unattributed"
    [] e.signal \in Recurring /\ ~found.known -> "unattributed"
    [] e.signal \in Recurring /\ found.known /\ found.wiki = 0 ->
         IF found.raw = 0 THEN "source_gap" ELSE "retrieval_miss"
    [] e.signal \in Recurring /\ found.known /\ found.wiki > 0 ->
         IF e.page # None THEN "wiki_synthesis" ELSE "unattributed"

Row(s, e, origin, build, cause) ==
  [signal |-> e.signal, positive |-> e.signal \in Positives, origin |-> origin,
   source |-> e.source, build |-> build, page |-> e.page, query |-> e.query,
   cause |-> cause, day |-> s.day]

\* RecordSignal: a build that is not named is the active one; never_retrieved is
\* derived and cannot be reported.
RecordSignal(s, e) ==
  IF e.signal \notin Reported THEN s
  ELSE [s EXCEPT !.signals =
          Append(@, Row(s, e, "reported", IF e.build = None THEN s.active[e.source] ELSE e.build,
                        Attribute(e, SignalEvidence(s, e.query))))]

\* SweepNeverRetrieved, and the unique index of derived signals by source and day.
Idle(s) ==
  {i \in SourceIds : /\ s.active[i] # None /\ s.updatedOn[i] < s.day - IdleDays
                     /\ \A x \in s.log : x.at <= s.updated[i]}
Swept(s) ==
  {i \in SourceIds : \E j \in DOMAIN s.signals :
     /\ s.signals[j].origin = "derived" /\ s.signals[j].source = i
     /\ s.signals[j].day = s.day}

Derived(s, i) ==
  Row(s, [signal |-> "never_retrieved", source |-> i, page |-> None, query |-> 0],
      "derived", s.active[i], "unattributed")

SweepNeverRetrieved(s) ==
  LET unused == Idle(s) \ Swept(s)
      order  == CHOOSE o \in [1 .. Cardinality(unused) -> unused] :
                  \A j, k \in DOMAIN o : o[j] = o[k] => j = k
  IN [s EXCEPT !.signals = @ \o [k \in DOMAIN order |-> Derived(s, order[k])]]

After(s, e, n) ==
  CASE e.kind = "query" ->
         [s EXCEPT !.log = @ \cup {[at |-> n, layer |-> e.layer, text |-> e.text,
                                    candidates |-> e.candidates, selected |-> e.selected]}]
    [] e.kind = "activate" ->
         [s EXCEPT !.active[e.source] = e.build, !.updated[e.source] = n,
                   !.updatedOn[e.source] = s.day]
    [] e.kind = "day" -> [s EXCEPT !.day = @ + 1]
    [] e.kind = "signal" -> RecordSignal(s, e)
    [] e.kind = "sweep" -> SweepNeverRetrieved(s)

Rows(events) ==
  LET s[n \in 0 .. Len(events)] ==
        IF n = 0 THEN Empty ELSE After(s[n - 1], events[n], n)
  IN s

\* SkillSignalPatterns and interpretSkillPattern, of the signals of one skill.
Interpret(s) ==
  LET bad     == {i \in DOMAIN s.signals : ~s.signals[i].positive}
      sources == {s.signals[i].source : i \in bad}
      pages   == {s.signals[i].page : i \in bad} \ {None}
  IN CASE Cardinality(sources) >= 2 -> "skill"
       [] Cardinality(sources) < 2 /\ Cardinality(pages) >= 3 -> "source or skill"
       [] Cardinality(sources) < 2 /\ Cardinality(pages) < 3 -> "unclear"

-----------------------------------------------------------------------------
Asked(events, n, layer) == events[n].kind = "query" /\ events[n].layer = layer

\* A fault of retrieval or of the sources is placed only on what the log of that moment
\* has of the very query that was named and of the same question at the other layer (the
\* knowledge namespace for a query of the wiki, the wiki for any other), where a layer
\* that was never asked counts as one that has nothing; a success and a source nobody
\* used place none.  A signal is kept as it was judged and counts for the build that
\* served when it came; and a source that stays unused counts once a day, only if
\* nothing was asked since it last changed.
AttributionIsEvidenced(events) ==
  LET s == Rows(events)
  IN \A n \in DOMAIN events : LET old == s[n - 1].signals new == s[n].signals IN
       /\ SubSeq(new, 1, Len(old)) = old
       /\ \A i \in Len(old) + 1 .. Len(new) :
            LET row  == new[i]
                same(layer) == {m \in 1 .. n - 1 : /\ Asked(events, m, layer)
                                                   /\ events[m].text = events[row.query].text}
            IN /\ row.cause # "unattributed" => ~row.positive /\ row.origin = "reported"
               /\ row.cause \in {"source_gap", "retrieval_miss"} =>
                    /\ row.query \in 1 .. n - 1 /\ events[row.query].kind = "query"
                    /\ events[row.query].layer = "wiki"
                         => /\ events[row.query].selected = 0
                            /\ row.cause = "source_gap"
                                 <=> \A m \in same("knowledge") : events[m].candidates = 0
                    /\ events[row.query].layer # "wiki"
                         => /\ \A m \in same("wiki") : events[m].selected = 0
                            /\ row.cause = "source_gap" <=> events[row.query].candidates = 0
               /\ row.cause = "wiki_synthesis" => row.page # None
               /\ row.origin = "reported" /\ events[n].build = None =>
                    row.build = s[n].active[row.source]
               /\ row.origin = "derived" =>
                    /\ row.build # None
                    /\ \A j \in 1 .. i - 1 :
                         new[j].origin = "derived" /\ new[j].source = row.source
                           => new[j].day # row.day
                    /\ \E m \in 1 .. n : events[m].kind = "activate" /\ events[m].source = row.source
                         /\ \A k \in m .. n : events[k].kind # "query"
       /\ Interpret(s[n]) = "skill" =>
            \E i, j \in DOMAIN new : /\ new[i].source # new[j].source
                                     /\ ~new[i].positive /\ ~new[j].positive
=============================================================================
