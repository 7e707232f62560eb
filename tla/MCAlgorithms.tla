----------------------------- MODULE MCAlgorithms -----------------------------
(* Bounded arguments for Algorithms: a step gives one of the modules without  *)
(* a state its argument.                                                     *)
EXTENDS Algorithms

CONSTANTS a0, b0, p0, q0

-----------------------------------------------------------------------------
\* Pages that cite, or need not; two documents of which one may come only later, and
\* anything after.
CitingPages(t) == [cites : {{}, {a0}, {b0}, {a0, b0}}, links : {{}, {t}}]
Wikis   == UNION {[P -> CitingPages(p0) \cup CitingPages(q0)] : P \in SUBSET {p0, q0}}
Written == UNION {[P -> CitingPages(p0)] : P \in SUBSET {p0, q0}}

IncrementalInputs ==
  UNION {[old : {r}, new : [{a0, b0} -> {1, 2, Nil}], same : {TRUE}, strict : {strict},
          parent : {w \in Wikis : /\ \A x \in DOMAIN w : x \notin w[x].links
                                  /\ Incremental!IsWiki(w, r, strict)},
          written : Written, deleted : SUBSET {p0, q0}] :
           r \in {[d \in {a0, b0} |-> IF d = a0 THEN 1 ELSE v] : v \in {1, Nil}},
           strict \in BOOLEAN}

-----------------------------------------------------------------------------
Answer(ok, F) == [ok |-> ok, findings |-> F]
Answers == {Answer(FALSE, {}), Answer(TRUE, {}), Answer(TRUE, {"usable"}),
            Answer(TRUE, {"unusable"}), Answer(TRUE, {"usable", "unusable"})}
AnReview(auto, limit, reviewer, X) ==
  {[auto |-> auto, reviewer |-> reviewer, same |-> FALSE, limit |-> limit,
    answers |-> x] : x \in [1 .. 2 -> X]}
NoReview == [auto |-> FALSE, reviewer |-> q0, same |-> TRUE, limit |-> 1,
             answers |-> [i \in 1 .. 2 |-> Answer(FALSE, {})]]

FirstReviews == UNION {AnReview(auto, n, q0, Answers) : auto \in BOOLEAN, n \in 1 .. 2}
LaterReviews == AnReview(FALSE, 2, q0, {Answer(FALSE, {}), Answer(TRUE, {})})
                  \cup AnReview(TRUE, 2, p0, {Answer(TRUE, {})})
                  \cup AnReview(TRUE, 2, Nil, {Answer(TRUE, {})}) \cup {NoReview}
ReviewedPages == [generated : BOOLEAN, cites : {{}, {a0}, {a0, b0}}, written : BOOLEAN]

ReviewInputs ==
  [pages : [generated : {FALSE}, cites : {{a0}, {a0, b0}}, written : {TRUE}] \X ReviewedPages,
   docs : {{a0, b0}, {b0}}, compiler : {p0}, configured : {p0, Nil}, succeeded : {TRUE},
   reviews : FirstReviews \X LaterReviews]
  \cup
  {[pages |-> <<v, v>>, docs |-> {a0, b0}, compiler |-> p0, configured |-> q0,
    succeeded |-> FALSE, reviews |-> <<r>>] : v \in ReviewedPages, r \in {t \in FirstReviews : ~t.auto}}

-----------------------------------------------------------------------------
LinkAt(e, t) == [from |-> e[1], to |-> e[2], type |-> t]
LinkSets(E, T) == {UNION {IF f[e] = "none" THEN {} ELSE {LinkAt(e, f[e])} : e \in E} :
                     f \in [E -> T \cup {"none"}]}
Cites(y, z) == [d \in {a0, b0} |-> IF d = a0 THEN y ELSE z]

\* Chains and cycles of four pages, one of which may be the index.
LintInputs ==
  {[kind |-> <<"concept", "concept", "entity", k>>, links |-> L \cup M,
    cites |-> <<Cites(1, Nil), Cites(Nil, y), Cites(Nil, Nil), Cites(Nil, Nil)>>,
    current |-> c, labelled |-> {}] :
     k \in {"concept", "index"}, y \in {Nil, 2},
     L \in LinkSets({<<2, 1>>, <<3, 2>>, <<4, 3>>}, {"references", "supersedes"}),
     M \in LinkSets({<<1, 2>>, <<1, 3>>, <<1, 4>>, <<4, 2>>}, {"elaborates"}),
     c \in {Cites(1, 1), Cites(2, 1), Cites(2, Nil)}}
  \cup
  {[kind |-> <<"concept", "concept", "entity", "overview">>, links |-> L,
    cites |-> [i \in 1 .. 4 |-> Cites(1, Nil)], current |-> Cites(1, 1), labelled |-> S] :
     L \in LinkSets({<<2, 1>>, <<1, 2>>, <<1, 3>>},
                    {"supersedes", "mentions_entity", "contradicts"}),
     S \in SUBSET {1, 2}}

-----------------------------------------------------------------------------
Need(caps, domains, max, required, nomatch, ambig) ==
  [required |-> required, caps |-> caps, langs |-> {}, domains |-> domains, max |-> max,
   nomatch |-> nomatch, ambig |-> ambig, pinned |-> <<>>, purpose |-> TRUE]
Pin(s, n) == [source |-> s, name |-> n]
Pinned(ps) == [Need({}, {}, 0, TRUE, Nil, Nil) EXCEPT !.pinned = ps]

Asked ==
  {[mode |-> "discover", asked |-> r, again |-> [r EXCEPT !.purpose = FALSE]] :
     r \in {Need(c, d, m, q2[1], q2[2], q2[3]) :
              c \in {{a0}, {a0, b0}}, d \in {{}, {2}}, m \in 0 .. 1,
              q2 \in {<<TRUE, Nil, Nil>>, <<TRUE, "proceed", Nil>>,
                      <<FALSE, Nil, "fail">>}}}
  \cup
  {[mode |-> "pinned", asked |-> Pinned(<<v, w>>), again |-> Pinned(<<w, v>>)] :
     v \in {Pin(1, Nil), Pin(Nil, 1)}, w \in {Pin(2, Nil), Pin(Nil, 2)}}

Manifests == {[name |-> 1, caps |-> {a0}, langs |-> {}], [name |-> 2, caps |-> {a0}, langs |-> {}],
              [name |-> 2, caps |-> {a0, b0}, langs |-> {}], Nil}
WorldPairs ==
  {[now   |-> [packages |-> w, domain |-> <<c, d, 1>>],
    later |-> [packages |-> [w EXCEPT ![n] = v], domain |-> <<c, d, 1>>]] :
     w \in [1 .. 3 -> Manifests], v \in Manifests, n \in {1, 3}, c \in 1 .. 2, d \in {1}}
DiscoveryInputs ==
  {[mode |-> x.mode, asked |-> x.asked, again |-> x.again, now |-> w.now, later |-> w.later] :
     x \in Asked, w \in WorldPairs}

Runs(k) == [1 .. k -> [key : {1, Nil}, content : {a0, b0}, selected : {{}, {1}, {2}}]]
ResolutionInputs == {[owned |-> {1}, runs |-> x] : x \in Runs(2) \cup Runs(3)}

-----------------------------------------------------------------------------
Ask(layer, t, c, n) == [kind |-> "query", layer |-> layer, text |-> t, candidates |-> c, selected |-> n]
Serve(i, v)        == [kind |-> "activate", source |-> i, build |-> v]
Tell(w, i, x, n)   == [kind |-> "signal", signal |-> w, source |-> i, build |-> Nil,
                       page |-> x, query |-> n]
Happens(k)         == [kind |-> k]

Asks == {Ask(w, t, c[1], c[2]) : w \in Validation!Layers, t \in {a0, b0},
                                 c \in {<<0, 0>>, <<1, 0>>, <<2, 1>>}}
Tells == {Tell(w, 1, x, n) : w \in {"answer_adopted", "question_repeated", "citation_abandoned"},
                             x \in {p0, Nil}, n \in {0, 1, 2}}
ValidationInputs ==
  {<<x, y, z>> : x \in Asks, y \in Asks, z \in Tells}
  \cup {<<Serve(1, p0)>> \o x : x \in [1 .. 4 -> {Happens("day"), Happens("sweep"), Serve(1, q0),
                                                  Serve(2, p0), Ask("wiki", a0, 0, 0)}]}
  \cup [1 .. 3 -> {Tell(w, i, x, 0) : w \in {"answer_adopted", "answer_rewritten"},
                                      i \in {1, 2}, x \in {p0, q0}}]

-----------------------------------------------------------------------------
Entry(path, type, c) == [path |-> path, type |-> type, content |-> c]
Placed(e, package) == [e EXCEPT !.path = <<"r">> \o package \o e.path]
RelativeEntries ==
  {Entry(y, "file", c) : y \in {<<"f">>, <<"d", "f">>, <<"d", "g">>}, c \in {a0, b0}}
    \cup {Entry(<<"f">>, "link", a0), Entry(<<>>, "dir", a0), Entry(<<"..", "f">>, "file", a0)}
StrayEntries == {Entry(<<"r", "g">>, "file", q0), Entry(<<"s">>, "meta", a0), Entry(<<"s", "f">>, "file", a0)}
Selections == {[include |-> {}, exclude |-> {}], [include |-> {<<"*", "f">>}, exclude |-> {}],
               [include |-> {<<"**", "f">>, <<"g">>}, exclude |-> {<<"d", "**">>}]}

\* Two archives that differ in an entry, in the manifest, or in neither.
Archives(package, v, w, u, rules) ==
  LET P(e) == IF e \in StrayEntries THEN e ELSE Placed(e, package)
      manifest(r) == P(Entry(<<ManifestName>>, "file", r))
  IN [package |-> package, entries |-> <<manifest(rules), P(v), P(w)>>,
      others |-> <<P(u), P(w), manifest([include |-> {}, exclude |-> {}])>>]
FilesInputs ==
  {Archives(package, v, w, u, rules) :
     package \in {<<>>, <<"d">>}, v \in RelativeEntries, w \in RelativeEntries \cup StrayEntries,
     u \in RelativeEntries \cup StrayEntries, rules \in Selections}

GlobInputs == {[glob |-> g, path |-> y] : g \in UNION {[1 .. n -> {"f", "*", "**"}] : n \in 1 .. 3},
                                          y \in UNION {[1 .. n -> {"f", "g"}] : n \in 1 .. 4}}
SizeInputs == {[digits |-> y, base |-> 8, max |-> 2^7 - 1] : y \in UNION {[1 .. n -> 0 .. 7] : n \in 1 .. 3}}
                \cup {[digits |-> y, base |-> 3, max |-> 15] : y \in [1 .. 4 -> 0 .. 2]}

\* The limits on chunks are small, so that a document of a few lines is cut in several ways.
Line(is, level, size, mark) ==
  [is |-> is, level |-> level, size |-> size, mark |-> mark, links |-> <<>>]
TextLines == {Line("text", 1, n, "ticks") : n \in {1, 3, 7}} \cup {Line("blank", 1, 1, "ticks")}
HeadLines == {Line("heading", n, 1, "ticks") : n \in 1 .. 2}
FenceLines == {Line("fence", 1, 1, m) : m \in {"ticks", "tildes"}}
ChunkInputs == [doc : [1 .. 4 -> TextLines \cup HeadLines \cup FenceLines]
                        \cup [1 .. 6 -> HeadLines \cup {Line("text", 1, 3, "ticks")}],
                markdown : BOOLEAN]

Link(scheme, path) == [scheme |-> scheme, path |-> path]
LinkInputs ==
  [path : {<<"d", "f">>},
   doc : [1 .. 3 -> {[Line("text", 1, 1, "ticks") EXCEPT !.links = <<Link(z, y)>>] : z \in BOOLEAN,
                       y \in UNION {[1 .. n -> {"d", "f", ".."}] : n \in 1 .. 2}}
                    \cup {Line("fence", 1, 1, "ticks")}]]

-----------------------------------------------------------------------------
\* Four rows, of which two are chunks of one page; limits small enough to be met.
Leg(D) == UNION {{s \in [1 .. n -> D] : \A i, j \in 1 .. n : s[i] = s[j] => i = j} : n \in 0 .. 3}
Row(i, v, w, z, u, h) ==
  [source |-> i, build |-> v, page |-> w, live |-> z, useful |-> u, harmful |-> h]
Rowings == {<<Row(1, 1, 1, TRUE, 0, 3), Row(1, 1, 1, TRUE, 0, 0), Row(2, 1, 2, TRUE, 3, 0),
              Row(3, 2, 3, z, 0, 1)>> : z \in BOOLEAN}
NoFailure == [text |-> FALSE, vector |-> FALSE]
SearchInputs ==
  [text : Leg(1 .. 4), vector : Leg({1, 3, 4, 9}), failed : {NoFailure}, topK : {1, 3},
   sources : {{1}, {1, 2}}, active : {{1}}, about : Rowings]
  \cup [text : {<<1, 2, 3, 4>>, <<4, 2, 3, 1>>}, vector : Leg({1, 2, 3, 4, 9}), failed : {NoFailure},
         topK : {1, 3}, sources : {{1}, {1, 2}}, active : {{1}}, about : Rowings]
  \cup [text : Leg(1 .. 4), vector : Leg({1, 2, 9}), failed : [text : BOOLEAN, vector : BOOLEAN],
        topK : 1 .. 3, sources : {{}}, active : {{1, 2}}, about : {CHOOSE r \in Rowings : r[4].live}]

-----------------------------------------------------------------------------
Body(front) == [front |-> front, rest |-> a0]
Front(routed, c) == [form |-> "fields", name |-> TRUE, described |-> TRUE, routed |-> routed, repeats |-> FALSE,
                     self |-> ~routed, contract |-> c]
NoFront(form) == [Front(TRUE, Nil) EXCEPT !.form = form]
SkillBodies == {Body(NoFront("absent")), Body(NoFront("malformed")), Body(Front(TRUE, Nil)), Body(Front(FALSE, {"purpose"})),
                Body(Front(TRUE, {"invalid"}))}
StoredAs(t) == [sha |-> t, text |-> t, sized |-> TRUE, own |-> TRUE]
Published(y, r) ==
  LET files == IF r = Nil THEN <<>> ELSE [f \in {"SKILL.md", "r"} |-> StoredAs(IF f = "r" THEN r ELSE y)]
      bare == [content |-> y, revision |-> r = a0, files |-> files, hash |-> Nil, artifact |-> Nil,
               quotes |-> FALSE]
      hashed == [bare EXCEPT !.hash = Quality!Hash(bare)]
  IN [hashed EXCEPT !.artifact = Quality!Compile(hashed)]
AllPublished == {Published(y, r) : y \in SkillBodies, r \in {a0, b0, Nil}}

\* Packages with one thing about them changed since they were published.
Changed(p1) ==
  {p1, [p1 EXCEPT !.quotes = TRUE], [p1 EXCEPT !.artifact = Nil], [p1 EXCEPT !.hash = Nil], [p1 EXCEPT !.content = Nil]}
  \cup {[p1 EXCEPT !.content = y] : y \in {Body(Front(TRUE, Nil)), Body(NoFront("malformed"))}}
  \cup {[p1 EXCEPT !.artifact = Published(Body(Front(TRUE, Nil)), r).artifact] : r \in {a0, Nil}}
  \cup (IF DOMAIN p1.files = {} THEN {} ELSE
        {[p1 EXCEPT !.files["r"] = v] : v \in {[StoredAs(a0) EXCEPT !.text = Nil],
           [StoredAs(a0) EXCEPT !.own = FALSE], [StoredAs(a0) EXCEPT !.text = b0], StoredAs(b0)}}
        \cup {[p1 EXCEPT !.artifact = [Published(p1.content, b0).artifact EXCEPT !.hash = p1.hash, !.contract = {}]] :
                 n \in {x \in {1} : Quality!Compile(p1) # Nil}})
Compared == UNION {Changed(p1) : p1 \in AllPublished}
QualityInputs == [current : Compared, baseline : Compared]

Log(v, t, i, c) == [version |-> v, at |-> t, id |-> i, outcome |-> c]
ReportInputs ==
  [version : {2, 3}, cutoff : {2}, versions : [1 .. 3 -> [skill : 1 .. 2, at : 1 .. 2]],
   logs : {{Log(2, 1, 1, c), Log(2, 1, 2, "failure"), Log(2, 2, 3, d), Log(2, 2, 4, "success"),
            Log(w, t, 5, "failure")} : c \in {"bypass", "failure"}, d \in {"bypass", "partial"},
                                      w \in 2 .. 3, t \in {1, 3}}]

-----------------------------------------------------------------------------
Item(from, size, breaks) == [from |-> from, size |-> size, breaks |-> breaks]
Ranked == {<<Item("x", n, B), Item("x", m, <<>>), Item("x", 90, <<{50}, {20}>>)>> :
             n \in {60, 175, 400}, B \in {<<>>, <<{70}, {60, 130}>>}, m \in {0, 30, 300}}
          \cup {<<>>}
Found(v, s, t) ==
  LET r == IF v = "notes" THEN t ELSE s
      n == IF v \in {"skills", "session"} THEN 1 ELSE 3
  IN [i \in DOMAIN r \cap 1 .. n |-> [r[i] EXCEPT !.from = v]]
LayersAsked == {<<>>, <<"FACTS", "TASK">>, <<"TASK", "KNOWLEDGE", "TASK">>, <<"SKILL", "MEMORY", "FACTS">>}
Granted == {{}, {<<"todos", "r">>, <<"memory", "rw">>},
            {<<"skills", "r">>, <<"notes", "rw">>, <<"knowledge", "r">>}}
PackInputs ==
  {[layers |-> l, chars |-> c, short |-> {"TASK", "MEMORY"}, scopes |-> g, failing |-> f,
    session |-> TRUE, goal |-> Item("task", 30, <<>>),
    lines |-> <<"outcome", "observation", "goal", "outcome">>, room |-> <<c \div 5, c \div 4>>,
    has |-> [v \in Packing!Providers |-> Found(v, s, t)]] :
     l \in LayersAsked, c \in {500, 607, 1600}, g \in Granted,
     f \in {{}, {"session"}, {"todos"}, {"knowledge", "notes"}}, s \in Ranked,
     t \in {r \in Ranked : r # <<>> => r[1].size = 60 /\ r[2].size = 30 /\ r[1].breaks = <<>>}}

-----------------------------------------------------------------------------
\* The bounded arguments are among those that the theorems are about (TLC cannot tell of
\* the packages of QualityInputs: it would list all packages).
ASSUME ArgumentsAssumption ==
  /\ \A x \in IncrementalInputs : x \in Incremental!Inputs
  /\ \A x \in ReviewInputs : x \in Review!Inputs
  /\ \A x \in LintInputs : x \in Lint!Inputs
  /\ \A x \in DiscoveryInputs :
       /\ x.mode \in Discovery!Modes /\ {x.asked, x.again} \subseteq Discovery!Requirements
       /\ {x.now, x.later} \subseteq Discovery!Worlds /\ x.now.domain = x.later.domain
  /\ \A x \in ResolutionInputs : x.runs \in Seq(Discovery!Requests)
  /\ \A x \in ValidationInputs : x \in Seq(Validation!Events)
  /\ \A x \in FilesInputs : /\ x.package \in Seq(Segments)
                            /\ x.entries \in Seq(Files!Entries) /\ x.others \in Seq(Files!Entries)
  /\ \A x \in GlobInputs : /\ x.glob \in Seq(Segments \cup {"*", "**"})
                           /\ x.path \in Seq(Segments \cup {".."})
  /\ \A x \in ChunkInputs : x.doc \in Chunks!Documents
  /\ \A x \in LinkInputs : x.doc \in Chunks!Documents /\ x.path \in Seq(STRING) \ {<<>>}
  /\ \A x \in SearchInputs : x \in Searching!Inputs
  /\ \A x \in SizeInputs : x.digits \in Seq(0 .. x.base - 1)
  /\ \A x \in ReportInputs : x \in Quality!Reports
  /\ \A x \in PackInputs : x \in Packing!Inputs

Questions == {"incremental", "review", "lint", "discovery", "resolution", "validation",
              "package", "glob", "size", "chunks", "links", "search",
              "quality", "report", "pack"}

Init == input \in [of : Questions, x : {Nil}]

Give(of, X) == input = [of |-> of, x |-> Nil] /\ \E x \in X : input' = [of |-> of, x |-> x]

Next ==
  \/ Give("incremental", IncrementalInputs)
  \/ Give("review", ReviewInputs)
  \/ Give("lint", LintInputs)
  \/ Give("discovery", DiscoveryInputs)
  \/ Give("resolution", ResolutionInputs)
  \/ Give("validation", ValidationInputs)
  \/ Give("package", FilesInputs)
  \/ Give("glob", GlobInputs)
  \/ Give("size", SizeInputs)
  \/ Give("chunks", ChunkInputs)
  \/ Give("links", LinkInputs)
  \/ Give("search", SearchInputs)
  \/ Give("quality", QualityInputs)
  \/ Give("report", ReportInputs)
  \/ Give("pack", PackInputs)
  \/ input.x # Nil /\ UNCHANGED input

Spec == Init /\ [][Next]_input
=============================================================================
