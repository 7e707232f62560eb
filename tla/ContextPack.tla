------------------------------ MODULE ContextPack ------------------------------
(* internal/contextpack: a pack of context for an agent. Each layer asked for *)
(* gets a share of a character budget and is gathered from its own providers, *)
(* under the scopes of the caller. A text is its length and the places where  *)
(* it may be cut.                                                            *)
EXTENDS Integers, Sequences, FiniteSets, SequencesExt, FiniteSetsExt, Functions, Selections

CONSTANTS None,
          MinItem,   \* minItemChars
          MaxLines   \* lines of a session a pack carries

Layers     == {"SKILL", "KNOWLEDGE", "MEMORY", "FACTS", "TASK"}
LayerOrder == <<"SKILL", "KNOWLEDGE", "MEMORY", "FACTS", "TASK">>
Share      == [SKILL |-> 30, KNOWLEDGE |-> 35, MEMORY |-> 20, FACTS |-> 10, TASK |-> 5]

\* Which resource a provider reads: its scope is that resource's ":r".
Resource == [skills |-> "skills", knowledge |-> "knowledge", entries |-> "memory",
             todos |-> "todos", notes |-> "notes", session |-> "memory"]
Providers == DOMAIN Resource
Of == [SKILL |-> {"skills"}, KNOWLEDGE |-> {"knowledge"}, MEMORY |-> {"entries"},
       FACTS |-> {"todos", "notes"}, TASK |-> {"session"}]

\* What is said of a layer that has nothing to show, or of a session.
Notes == {"insufficient scope", "failed", "no match", "resumed", "journal"}

\* An item; that of a session's journal is the lines it is made of.
Items == [from : Providers \cup {"task"}, size : Nat, breaks : Seq(SUBSET Nat)]
           \cup [from : {"session"}, size : Nat, breaks : {<<>>}, lines : Seq(STRING)]

\* A request, its size between MinMaxChars and MaxMaxChars; what each provider has and
\* which of them fail; the layers whose quotient loses one; and two sizes to compare.
Inputs ==
  [layers : Seq(Layers), chars : {c \in Nat : 500 <= c /\ c <= 200000}, short : SUBSET Layers,
   scopes : SUBSET ({Resource[v] : v \in Providers} \X {"r", "rw"}),
   failing : SUBSET Providers, session : BOOLEAN, lines : Seq(STRING),
   goal : {item \in Items : item.from = "task"}, room : {r \in Nat \X Nat : r[1] <= r[2]},
   has : {h \in [Providers -> Seq(Items)] :
            \A v \in Providers : \A i \in DOMAIN h[v] : h[v][i].from = v}]

-----------------------------------------------------------------------------
\* A key grants <<resource, "r">> or <<resource, "rw">>; no grant at all is every grant.
HasScope(scopes, resource) ==
  scopes = {} \/ \E mode \in {"r", "rw"} : <<resource, mode>> \in scopes

Permits(scopes, provider) == HasScope(scopes, Resource[provider])

-----------------------------------------------------------------------------
\* What is asked for, once, in the canonical order; no layer means every layer.
ResolveLayers(requested) ==
  IF requested = <<>> THEN LayerOrder
  ELSE Picked(LayerOrder, {i \in DOMAIN LayerOrder : LayerOrder[i] \in Range(requested)})

\* The quotient is computed in floating point, which loses one in the layers of short.
Quotient(chars, layers, short, l) ==
  LET total == FoldFunctionOnSet(+, 0, Share, Range(layers))
      exact == chars * Share[l]
  IN IF l \in short /\ exact % total = 0 THEN exact \div total - 1 ELSE exact \div total

Allocate(chars, layers, short) ==
  LET floor   == [l \in Range(layers) |-> Quotient(chars, layers, short, l)]
      largest == CHOOSE l \in Range(layers) : \A m \in Range(layers) : Share[m] <= Share[l]
  IN [floor EXCEPT ![largest] = @ + chars - FoldFunction(+, 0, floor)]

-----------------------------------------------------------------------------
\* An item: its length, and by preference the sets of ends of its separators.
Window(ends, limit) == {e \in ends : e <= limit}

\* The last separator of the first kind that keeps half of what fits.
TruncateAtBoundary(item, limit) ==
  LET useful == {k \in DOMAIN item.breaks :
                   \E e \in Window(item.breaks[k], limit) : e >= limit \div 2}
  IN IF useful = {} THEN limit ELSE Max(Window(item.breaks[Min(useful)], limit))

\* Mutant: an item that does not fit is passed over, and the next one tried.
FitSkipping(items, budget) ==
  LET step(r, item) == IF r.used + item.size <= budget
                       THEN [r EXCEPT !.kept = Append(@, [of |-> item, size |-> item.size]),
                                      !.used = @ + item.size]
                       ELSE [r EXCEPT !.dropped = @ + 1]
  IN FoldLeft(step, [kept |-> <<>>, used |-> 0, dropped |-> 0, truncated |-> 0], items)

\* The first n items whole, and of the next one a beginning if enough room remains.
FitFrom(items, n, used, remaining) ==
  LET kept == [i \in 1 .. n |-> [of |-> items[i], size |-> items[i].size]]
      last == TruncateAtBoundary(items[n + 1], remaining)
  IN IF n < Len(items) /\ remaining > 0 /\ remaining >= MinItem
     THEN [kept |-> Append(kept, [of |-> items[n + 1], size |-> last]),
           used |-> used + last, dropped |-> Len(items) - n - 1, truncated |-> 1]
     ELSE [kept |-> kept, used |-> used, dropped |-> Len(items) - n, truncated |-> 0]

\* What the first n of the items come to, for each n.
Sizes(items) ==
  LET sum[n \in 0 .. Len(items)] == IF n = 0 THEN 0 ELSE sum[n - 1] + items[n].size IN sum

\* The ranked items from the first, as long as they fit and there is room.
Fit(items, budget) ==
  LET size == Sizes(items)
      n == Max({m \in 0 .. Len(items) :
                  size[m] <= budget /\ \A i \in 0 .. m - 1 : size[i] < budget})
  IN FitFrom(items, n, size[n], budget - size[n])

-----------------------------------------------------------------------------
\* What a provider answers: whether it fails, and the items it has otherwise.
Reads(x, provider) ==
  IF Permits(x.scopes, provider) /\ provider \notin x.failing THEN x.has[provider] ELSE <<>>

Result(fit, note) == [kept |-> fit.kept, used |-> fit.used, dropped |-> fit.dropped,
                      truncated |-> fit.truncated, note |-> note]
Nothing(note) == Result([kept |-> <<>>, used |-> 0, dropped |-> 0, truncated |-> 0], note)

\* A retrieval layer has one provider: without it there is only a note.
GatherFound(x, layer, provider, budget) ==
  LET fit == Fit(Reads(x, provider), budget)
  IN CASE ~Permits(x.scopes, provider) -> Nothing("insufficient scope")
       [] provider \in x.failing       -> Nothing("failed")
       [] layer = "SKILL" /\ x.has[provider] = <<>> -> Nothing("no match")
       [] OTHER -> Result(fit, IF layer # "SKILL" /\ fit.kept = <<>> THEN "no match" ELSE None)

\* Todos before notes, each under its own scope; one that fails leaves the other.
GatherFacts(x, budget) ==
  LET fit    == Fit(Reads(x, "todos") \o Reads(x, "notes"), budget)
      failed == {v \in Of["FACTS"] : Permits(x.scopes, v)} \cap x.failing
  IN IF \A v \in Of["FACTS"] : ~Permits(x.scopes, v) THEN Nothing("insufficient scope")
     ELSE Result(fit, IF failed # {} THEN "failed"
                      ELSE IF fit.kept = <<>> THEN "no match" ELSE None)

\* The last of the session's lines, observations left out, are one item.
TimelineLines(lines) ==
  LET told == Picked(lines, {i \in DOMAIN lines : lines[i] # "observation"})
  IN SubSeq(told, Max({1, Len(told) - MaxLines + 1}), Len(told))
TailItem(lines) ==
  LET kept == TimelineLines(lines)
  IN IF kept = <<>> THEN <<>> ELSE <<[from |-> "session", size |-> Len(kept), breaks |-> <<>>, lines |-> kept]>>

\* The goal, then what the session left: a checkpoint and what followed, or only that.
GatherTask(x, budget) ==
  LET known == x.session /\ Permits(x.scopes, "session")
      state == IF "session" \in x.failing THEN <<>>
               ELSE x.has["session"] \o TailItem(x.lines)
  IN IF ~known THEN Result(Fit(<<x.goal>>, budget), None)
     ELSE Result(Fit(<<x.goal>> \o state, budget),
                 CASE "session" \in x.failing  -> "failed"
                   [] x.has["session"] # <<>>  -> "resumed"
                   [] OTHER                    -> "journal")

Gather(x, layer, budget) ==
  CASE layer = "FACTS" -> GatherFacts(x, budget)
    [] layer = "TASK"  -> GatherTask(x, budget)
    [] OTHER -> GatherFound(x, layer, CHOOSE v \in Of[layer] : TRUE, budget)

\* The answer: each layer's result, in order, and what is said of those without items.
Assemble(layers, budgets, results) ==
  [order |-> layers, budgets |-> budgets, results |-> results,
   used |-> FoldFunction(+, 0, [l \in Range(layers) |-> results[l].used]),
   warned |-> {l \in Range(layers) : results[l].note # None /\ results[l].kept = <<>>}]

GatherAll(x, layers, budgets) ==
  Assemble(layers, budgets, [l \in Range(layers) |-> Gather(x, l, budgets[l])])

Pack(x) ==
  LET layers == ResolveLayers(x.layers)
  IN GatherAll(x, layers, Allocate(x.chars, layers, x.short))

-----------------------------------------------------------------------------
(* Properties *)

\* The budgets of the layers spend the request exactly, and no layer and no pack uses
\* more than it has; what is asked of fewer layers leaves none of them less room.
PackFits(x, r) ==
  LET all == Allocate(x.chars, LayerOrder, x.short)
  IN /\ FoldFunction(+, 0, r.budgets) = x.chars
     /\ r.used <= x.chars
     /\ \A l \in Range(r.order) :
          /\ r.results[l].used <= r.budgets[l]
          /\ r.budgets[l] >= all[l]

\* Whatever a layer reads, it shows nothing of a provider whose scope the caller lacks,
\* and what it shows is a beginning of what it ranked, the goal before the session.
PackIsPermitted(x, r) ==
  \A l \in Range(r.order) :
    LET kept == r.results[l].kept
    IN /\ \A i \in DOMAIN kept : kept[i].of.from = "task" \/ Permits(x.scopes, kept[i].of.from)
       /\ l = "TASK" /\ kept # <<>> => kept[1].of = x.goal
       /\ l \in {"SKILL", "KNOWLEDGE", "MEMORY"} =>
            \E v \in Of[l] : IsPrefix([i \in DOMAIN kept |-> kept[i].of], x.has[v])

\* A provider that fails takes nothing from the other layers, nor from the other half of
\* its own, and a layer never comes back empty without saying why.
FailureStaysInItsLayer(x, r, well) ==
  LET Shown(s, l, v) == {i \in DOMAIN s.results[l].kept : s.results[l].kept[i].of.from = v}
  IN \A l \in Range(r.order) :
       /\ Of[l] \cap x.failing = {} => r.results[l] = well.results[l]
       /\ \A v \in Of[l] \ x.failing : Cardinality(Shown(r, l, v)) >= Cardinality(Shown(well, l, v))
       /\ r.results[l].kept = <<>> => r.results[l].note # None \/ r.results[l].dropped > 0

\* A layer given more room shows no less: the same items, each at least as long.
ShowsNoLess(k, m) ==
  /\ Len(k) <= Len(m)
  /\ \A i \in DOMAIN k : k[i].of = m[i].of /\ k[i].size <= m[i].size

RoomIsUsed(items, budget, more) == ShowsNoLess(Fit(items, budget).kept, Fit(items, more).kept)

AnswerIsSound(x, r, well) ==
  PackFits(x, r) /\ PackIsPermitted(x, r) /\ FailureStaysInItsLayer(x, r, well)

PackIsSound(x) ==
  /\ AnswerIsSound(x, Pack(x), Pack([x EXCEPT !.failing = {}]))
  /\ \A v \in Providers : RoomIsUsed(x.has[v], x.room[1], x.room[2])
=============================================================================
