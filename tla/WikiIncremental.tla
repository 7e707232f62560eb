--------------------------- MODULE WikiIncremental ---------------------------
(***************************************************************************)
(* The incremental compile of a wiki (internal/knowledge: runIncremental   *)
(* and what it calls, compileWithModel, runChecks) as functions of the two *)
(* revisions, the parent's pages and what the model answers.               *)
(***************************************************************************)
CONSTANTS
  Paths,     \* page paths
  Docs,      \* document paths
  Hashes,    \* contents of a document
  Reserved,  \* pages that the platform writes: the index and the log
  None       \* no document

\* The indexable documents of a revision that have text.
Revisions == [Docs -> Hashes \cup {None}]

\* A page: what it cites and where it links.
Pages == [cites : SUBSET Docs, links : SUBSET (Paths \cup Reserved)]

\* A wiki, without the pages of the platform: a function on some of the paths.
Wikis == UNION {[P -> Pages] : P \in SUBSET Paths}

\* A wiki that passed its check: it cites documents of its revision, if strict on
\* every page, and links to pages of its own.
IsWiki(w, r, strict) ==
  \A p \in DOMAIN w :
    /\ w[p].links \subseteq DOMAIN w \cup Reserved
    /\ \A d \in w[p].cites : r[d] # None
    /\ strict => w[p].cites # {}

\* An increment: old and new are revisions, parent a wiki built from old; same says
\* whether its compiler, prompt, model and profile are those of the build, strict
\* whether the citation policy of the profile is "required"; the model writes pages,
\* deletes some, and may try to do so with reserved ones.
Inputs == {x \in [old : Revisions, new : Revisions, parent : Wikis, same : BOOLEAN,
                  strict : BOOLEAN, written : Wikis, deleted : SUBSET (Paths \cup Reserved)] :
             IsWiki(x.parent, x.old, x.strict)}

-----------------------------------------------------------------------------
\* DiffRevisionDocuments.
Added(x)   == {d \in Docs : x.old[d] = None /\ x.new[d] # None}
Removed(x) == {d \in Docs : x.old[d] # None /\ x.new[d] = None}
Changed(x) == {d \in Docs : None \notin {x.old[d], x.new[d]} /\ x.old[d] # x.new[d]}

\* Mutant: only what went.
TouchedGone(x) == Removed(x)

\* RevisionDiff.Touched: nothing cites what was added.
Touched(x) == Changed(x) \cup Removed(x)

\* RevisionDiff.IsEmpty.
Unchanged(x) == Added(x) \cup Changed(x) \cup Removed(x) = {}

\* ImpactedPagePaths: what cites a touched document, and what links there.
Scheduled(x) ==
  LET cited == {p \in DOMAIN x.parent : x.parent[p].cites \cap Touched(x) # {}}
  IN cited \cup {p \in DOMAIN x.parent : x.parent[p].links \cap cited # {}}

\* The documents whose text buildIncrementalPrompt shows: those added or changed,
\* and those collectCitedContext takes from the pages to rewrite.
Shown(x) ==
  LET cited == UNION {x.parent[p].cites : p \in Scheduled(x)}
  IN {d \in Added(x) \cup Changed(x) \cup cited : x.new[d] # None}

\* What compileIncrementalWithModel returns, less what is out of the plan: a new
\* page may be written, an old one only if it is scheduled, and only such a one
\* deleted.
Recompiled(x) ==
  {p \in DOMAIN x.written : p \in Scheduled(x) \/ p \notin DOMAIN x.parent}
Deleted(x)  == x.deleted \cap Scheduled(x)
Rejected(x) == (DOMAIN x.written \ Recompiled(x)) \cup (x.deleted \ (Scheduled(x) \cup Reserved))

Reused(x) == DOMAIN x.parent \ Scheduled(x)

\* mergeIncremental: what is recompiled wins, and a deletion over both.
Merged(x) ==
  [p \in (Reused(x) \cup Recompiled(x)) \ Deleted(x) |->
     IF p \in Recompiled(x) THEN x.written[p] ELSE x.parent[p]]

\* runIncremental: refused (also by parseCompilerOutput, if the model has nothing to
\* say), all reused without a call of the model, or merged.
Refused(x) == ~x.same \/ (~Unchanged(x) /\ DOMAIN x.written \cup x.deleted = {})
Result(x) == IF Unchanged(x) THEN x.parent ELSE Merged(x)

\* buildIndexPage links to every page.
IndexLinks(w) == DOMAIN w

-----------------------------------------------------------------------------
\* runChecks: citations there if the policy requires them, and resolvable, links closed,
\* the index complete.  The other rules of the profile (sizes, kinds, drift, tokens) only
\* refuse more.
CheckFailures(w, r, strict) ==
  {p \in DOMAIN w :
     \/ strict /\ w[p].cites = {}
     \/ \E d \in w[p].cites : r[d] = None
     \/ ~(w[p].links \subseteq DOMAIN w \cup Reserved)
     \/ p \notin IndexLinks(w)}

\* checkIncrementalPlan: coverage and scope.
PlanFailures(x) == (Scheduled(x) \ (Recompiled(x) \cup Deleted(x))) \cup Rejected(x)

Accepted(x) ==
  /\ ~Refused(x)
  /\ CheckFailures(Result(x), x.new, x.strict) = {}
  /\ Unchanged(x) \/ PlanFailures(x) = {}

-----------------------------------------------------------------------------
\* The pages of the result that the model wrote for this build.
Fresh(x) == IF Unchanged(x) THEN {} ELSE Recompiled(x) \ Deleted(x)

\* A page of an accepted increment is either from this build or rests on documents
\* that say what they said when it was written; none of the parent's is lost unless
\* the model deleted it, none it was not asked for is touched; and the result is
\* again a wiki, fit to be a parent.
IncrementIsFaithful(x) ==
  Accepted(x) =>
    /\ \A p \in DOMAIN Result(x) \ Fresh(x) :
         /\ p \in DOMAIN x.parent /\ Result(x)[p] = x.parent[p]
         /\ \A d \in x.parent[p].cites : x.new[d] = x.old[d]
    /\ DOMAIN x.parent \ DOMAIN Result(x) \subseteq x.deleted
    /\ \A p \in DOMAIN x.parent \cap Fresh(x) :
         \/ \E d \in x.parent[p].cites : x.new[d] # x.old[d]
         \/ \E q \in x.parent[p].links \cap DOMAIN x.parent :
              \E d \in x.parent[q].cites : x.new[d] # x.old[d]
    /\ IsWiki(Result(x), x.new, x.strict)

\* Rewriting a page, the model has the text of every document it cites that exists.
RewriteSeesSources(x) ==
  \A p \in Scheduled(x) : \A d \in x.parent[p].cites : x.new[d] # None => d \in Shown(x)
=============================================================================
