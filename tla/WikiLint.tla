------------------------------- MODULE WikiLint -------------------------------
(***************************************************************************)
(* The lint of a wiki that is serving (internal/knowledge/wiki_lint.go,    *)
(* wiki_lint_repo.go): seven queries over its pages, links and citations   *)
(* and the active revision of its source.                                  *)
(***************************************************************************)
EXTENDS Naturals, FiniteSets

CONSTANTS
  Pages,     \* pages of the build
  Docs,      \* document paths
  Hashes,    \* contents of a document
  MaxDepth,  \* lintCascadeMaxDepth
  None       \* no document

Kinds     == {"index", "log", "overview", "entity", "concept"}
LinkTypes == {"references", "elaborates", "contradicts", "supersedes",
              "mentions_entity"}
Links     == [from : Pages, to : Pages, type : LinkTypes]

\* cites: what each document said when the page cited it.  current: the documents
\* of the active revision, all indexable.  labelled: a superseded_by that is not
\* empty.
Inputs == [kind : [Pages -> Kinds], links : SUBSET Links,
           cites : [Pages -> [Docs -> Hashes \cup {None}]],
           current : [Docs -> Hashes \cup {None}], labelled : SUBSET Pages]

\* contentPageKinds, entryPointKinds, dependencyLinkKinds.
Generated(x, p)  == x.kind[p] \in {"index", "log"}
EntryPoint(x, p) == x.kind[p] \in {"index", "log", "overview"}

\* Mutant: what replaces a page depends on it.
DependencySuperseding(l) == l.type \in {"references", "elaborates", "supersedes"}

Dependency(l) == l.type \in {"references", "elaborates"}

-----------------------------------------------------------------------------
\* orphan_page.
Orphans(x) ==
  {p \in Pages : /\ ~EntryPoint(x, p)
                 /\ ~\E l \in x.links : l.to = p /\ l.from # p /\ ~Generated(x, l.from)}

\* stale_citation: removed, or rewritten.
StaleCitations(x) ==
  {c \in Pages \X Docs : /\ x.cites[c[1]][c[2]] # None
                         /\ x.current[c[2]] # x.cites[c[1]][c[2]]}

Stale(x) == {c[1] : c \in StaleCitations(x)}

\* The recursive query: the pages that are met after n links.
Walk(x) ==
  LET walk[n \in 0 .. MaxDepth] ==
        IF n = 0 THEN Stale(x)
        ELSE {l.from : l \in {k \in x.links : /\ Dependency(k) /\ k.to \in walk[n - 1]
                                              /\ ~Generated(x, k.from)}}
  IN walk

\* stale_cascade: a page and how far it is.
Cascade(x) ==
  {c \in Pages \X (1 .. MaxDepth) :
     /\ c[1] \in Walk(x)[c[2]] \ Stale(x) /\ ~Generated(x, c[1])
     /\ \A n \in 1 .. c[2] - 1 : c[1] \notin Walk(x)[n]}

\* recorded_contradiction, unlabelled_supersede, entity_link_kind.
Typed(x, t) == {l \in x.links : l.type = t}

Pairs(L) == {<<l.from, l.to>> : l \in L}

Contradictions(x) == Pairs(Typed(x, "contradicts"))

Unlabelled(x) ==
  {<<l.to, l.from>> : l \in {k \in Typed(x, "supersedes") :
     /\ k.to \notin x.labelled
     /\ <<k.to, k.from>> \notin Pairs(Typed(x, "references") \cup Typed(x, "supersedes"))}}

MistakenEntities(x) ==
  Pairs({l \in Typed(x, "mentions_entity") : x.kind[l.to] # "entity"})

\* uncovered_document.
Uncovered(x) ==
  {d \in Docs : x.current[d] # None /\ \A p \in Pages : x.cites[p][d] = None}

\* RecordLintRun: what it counts as a warning, and as an information.
Warnings(x) == Cardinality(Orphans(x)) + Cardinality(StaleCitations(x))
               + Cardinality(Contradictions(x)) + Cardinality(Unlabelled(x))
Infos(x)    == Cardinality(Cascade(x)) + Cardinality(MistakenEntities(x))
               + Cardinality(Uncovered(x))

\* LintActiveWiki: the wiki is the active build's, the documents the active
\* revision's; without either it refuses.
Lint(x) == [orphan |-> Orphans(x), stale |-> StaleCitations(x), cascade |-> Cascade(x),
            contradiction |-> Contradictions(x), unlabelled |-> Unlabelled(x),
            entity |-> MistakenEntities(x), uncovered |-> Uncovered(x),
            warnings |-> Warnings(x), infos |-> Infos(x)]

-----------------------------------------------------------------------------
\* A path of n links from a page into a set of pages, each saying that a content page builds
\* on the next one.
Builds(x, p, q) ==
  /\ ~Generated(x, p)
  /\ \E l \in x.links : l.from = p /\ l.to = q /\ l.type \in {"references", "elaborates"}
RestsIn(x, p, S, n) ==
  \E path \in [1 .. n -> Pages] :
    /\ path[n] \in S /\ Builds(x, p, path[1])
    /\ \A i \in 1 .. n - 1 : Builds(x, path[i], path[i + 1])

\* "A page reachable from a page with stale citations" rests on text that moved: up
\* to the depth of the walk, the report names every page that does and no other, one
\* way or the other and not both, at the distance of its nearest stale page, cycles
\* or not.  A wiki without a stale citation has no cascade, and a document is not
\* both uncovered and the cause of a stale citation.
LintIsExact(x) ==
  LET moved    == {p \in Pages : \E d \in Docs : x.cites[p][d] \notin {None, x.current[d]}}
      cascaded == {c[1] : c \in Lint(x).cascade}
  IN /\ moved = {c[1] : c \in Lint(x).stale} /\ cascaded \cap moved = {}
     /\ \A p \in Pages \ moved, n \in 1 .. MaxDepth :
          <<p, n>> \in Lint(x).cascade <=>
            RestsIn(x, p, moved, n) /\ \A m \in 1 .. n - 1 : ~RestsIn(x, p, moved, m)
     /\ moved = {} => cascaded = {}
     /\ \A c \in Lint(x).stale : c[2] \notin Lint(x).uncovered
=============================================================================
