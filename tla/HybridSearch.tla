----------------------------- MODULE HybridSearch -----------------------------
(***************************************************************************)
(* From the two legs of a search to what its caller is served              *)
(* (internal/retrieval/service.go and its callers in internal/knowledge    *)
(* and internal/memory).  The legs are given: Postgres and Qdrant rank.    *)
(***************************************************************************)
EXTENDS Integers, Sequences, FiniteSets, SequencesExt, Selections

CONSTANTS
  Docs,        \* retrieval_documents, by age: of two with one score the later goes first
  Dead,        \* points of Qdrant that no row owns, or whose row is not indexed
  MaxRequest,  \* the most a request may ask of the retrieval service: 50
  DefaultTopK, \* and what it gets if it asks for more: 8
  OverFetch,   \* wikiSearchOverFetch
  MemoryFetch  \* a search of memories fetches so many times what it was asked for

\* What a row says of itself: its source, the wiki page it is of and that page's
\* build; of an entry of memory, whether it is live and matches the request, and
\* what was said of its use.
About == [source : Nat, build : Nat, page : Nat, live : BOOLEAN, useful : Nat, harmful : Nat]

\* A ranking has a document or a point once; a caller asks for no more than its own limit.
Rankings(D) == {s \in Seq(D) : \A i, j \in DOMAIN s : s[i] = s[j] => i = j}
Inputs == [text : Rankings(Docs), vector : Rankings(Docs \cup Dead),
           failed : [text : BOOLEAN, vector : BOOLEAN], topK : 1 .. MaxRequest,
           sources : {S \in SUBSET Nat : IsFiniteSet(S)}, active : SUBSET Nat,
           about : [Docs -> About]]

LeastOf(m, n) == IF m < n THEN m ELSE n
MostOf(m, n)  == IF m > n THEN m ELSE n
Cut(s, n)     == SubSeq(s, 1, LeastOf(n, Len(s)))

\* Reciprocal ranks scaled to whole numbers, and the highest sum of two.
Reciprocal(i) == 1000000000 \div (60 + i)
Highest       == 2 * Reciprocal(1)

-----------------------------------------------------------------------------
\* The limits of SearchHybridLogged.
TopK(n)       == IF n <= 0 \/ n > MaxRequest THEN DefaultTopK ELSE n
Candidates(n) == LeastOf(MostOf(4 * n, 20), MaxRequest)

\* fuseSearchCandidates: a point without a row takes a rank and is left out.
Rank(leg, d)  == {i \in DOMAIN leg : leg[i] = d}
Share(leg, d) == IF Rank(leg, d) = {} THEN 0
                 ELSE Reciprocal(CHOOSE i \in Rank(leg, d) : \A j \in Rank(leg, d) : i <= j)
Rrf(legs, d)  == Share(legs.vector, d) + Share(legs.text, d)

Precedes(score, d, e) == score[d] > score[e] \/ (score[d] = score[e] /\ d > e)

Found(legs) == (ToSet(legs.text) \cup ToSet(legs.vector)) \cap Docs
Fused(legs) ==
  LET found == Found(legs)
      score == [d \in found |-> Rrf(legs, d)]
      before == {p \in found \X found : Precedes(score, p[1], p[2])}
  IN InOrder(found, before)

\* A leg that failed has nothing; the search fails if both did.
Legs(x, k) == [text   |-> IF x.failed.text THEN <<>> ELSE Cut(x.text, Candidates(k)),
               vector |-> IF x.failed.vector THEN <<>> ELSE Cut(x.vector, Candidates(k))]

SearchHybrid(x, asked) ==
  LET k == TopK(asked)
      legs == Legs(x, k)
      best == Cut(Fused(legs), k)
  IN [n \in DOMAIN best |-> [doc |-> best[n], score |-> Rrf(legs, best[n])]]

Fails(x) == x.failed.text /\ x.failed.vector

-----------------------------------------------------------------------------
\* Search, of raw chunks: several sources are looked for in what all sources gave,
\* one is asked for by the legs themselves.
Own(x, leg) ==
  Picked(leg, {i \in DOMAIN leg : leg[i] \in Docs => x.about[leg[i]].source \in x.sources})
Asked(x) == IF Cardinality(x.sources) = 1 THEN [x EXCEPT !.text = Own(x, @), !.vector = Own(x, @)] ELSE x

SearchKnowledge(x) ==
  LET S == x.sources
      wide == IF Cardinality(S) > 1 THEN LeastOf(x.topK * Cardinality(S), MaxRequest) ELSE x.topK
      hits == SearchHybrid(Asked(x), wide)
  IN Cut(Picked(hits, {n \in DOMAIN hits : Cardinality(S) <= 1 \/ x.about[hits[n].doc].source \in S}),
         x.topK)

\* SearchWiki: the pages of active builds, each once, with its best chunk first.
PageAt(x, served, n) == x.about[served[n].doc].page
PagesOf(x, served) ==
  LET first(n) == \A m \in 1 .. n - 1 : PageAt(x, served, m) # PageAt(x, served, n)
      pages == Picked(served, {n \in DOMAIN served : first(n)})
  IN Cut([n \in DOMAIN pages |->
            [page |-> PageAt(x, pages, n), score |-> pages[n].score,
             matched |-> Cardinality({m \in DOMAIN served :
                                        PageAt(x, served, m) = PageAt(x, pages, n)})]], x.topK)

SearchWiki(x) ==
  LET hits == SearchHybrid(x, x.topK * OverFetch)
  IN PagesOf(x, Picked(hits, {n \in DOMAIN hits : x.about[hits[n].doc].build \in x.active}))

\* Mutant: each signal counts in full.
FeedbackAdjustmentRaw(a) == (Highest \div 100) * 15 * (a.useful - a.harmful)

\* feedbackAdjustment, clampScore.
FeedbackAdjustment(a) ==
  ((Highest \div 100) * 15 * (a.useful - a.harmful)) \div (a.useful + a.harmful + 3)
Clamp(v) == LeastOf(MostOf(v, 0), Highest)

\* SearchEntries: the entry is read again, adjusted, and only then is the list cut.
Adjusted(x, live) ==
  LET score == [n \in DOMAIN live |-> Clamp(live[n].score + FeedbackAdjustment(x.about[live[n].doc]))]
      before == {p \in (DOMAIN live) \X (DOMAIN live) :
                   score[p[1]] > score[p[2]] \/ (score[p[1]] = score[p[2]] /\ p[1] < p[2])}
      order == InOrder(DOMAIN live, before)
  IN Cut([n \in DOMAIN order |-> [doc |-> live[order[n]].doc, score |-> score[order[n]]]], x.topK)

SearchEntries(x) ==
  LET hits == SearchHybrid(x, LeastOf(x.topK * MemoryFetch, MaxRequest))
  IN Adjusted(x, Picked(hits, {n \in DOMAIN hits : x.about[hits[n].doc].live}))

-----------------------------------------------------------------------------
Hydrated(leg) == ToSet(leg) \cap Docs
Placed(leg, d, e) == \* d is found by this leg no later than e
  e \in Hydrated(leg) => \E i \in Rank(leg, d) : \A j \in Rank(leg, e) : i <= j
Better(x, d, e) == /\ d # e
                   /\ x.failed.text \/ Placed(x.text, d, e)
                   /\ x.failed.vector \/ Placed(x.vector, d, e)
                   /\ \/ ~x.failed.text /\ d \in Hydrated(x.text)
                      \/ ~x.failed.vector /\ d \in Hydrated(x.vector)
Before(hits, d, e) == \A j \in DOMAIN hits : hits[j].doc = e =>
                        \E i \in 1 .. j - 1 : hits[i].doc = d

\* What the legs of a search of so many gave it.
Fetched(x, asked) == Found(Legs(x, TopK(asked)))

\* What either leg ranks no worse comes no later, one that failed aside: no chunk is
\* served twice, and none is passed over for one that both legs like less.
HybridIsFair(x) ==
  LET hits == SearchHybrid(x, x.topK)
      pool == Fetched(x, x.topK)
  IN /\ {hits[n].doc : n \in DOMAIN hits} \subseteq pool
     /\ Len(hits) = LeastOf(x.topK, Cardinality(pool))
     /\ \A m, n \in DOMAIN hits : hits[m].doc = hits[n].doc => m = n
     /\ \A d, e \in Docs : Better(x, d, e) => Before(hits, d, e)

\* A search of one source, or of all, misses nothing that the legs found; a search of
\* several never shows another source and is the first of its hits.  (It may miss:
\* other sources may fill what was fetched.)
SourcesAreKept(x) ==
  LET hits == SearchKnowledge(x)
      own == {d \in Docs : x.sources = {} \/ x.about[d].source \in x.sources}
      pool == Fetched(Asked(x), x.topK)
  IN /\ \A n \in DOMAIN hits : hits[n].doc \in own
     /\ Cardinality(x.sources) <= 1 => /\ Len(hits) = LeastOf(x.topK, Cardinality(pool))
                                       /\ Fetched(x, x.topK) \cap own \subseteq pool
     /\ \A d, e \in own : Better(x, d, e) => Before(hits, d, e)

\* A wiki is searched by pages of the active build, whatever else the index holds.  The
\* over-fetch is there so that what the filter takes away is not missed: while it fits
\* the limit, the request is served whole, or as much of it as there is, if it sees all
\* that was found, and it serves something if it sees more than there is to take away.
\* Nothing of the kind holds beyond the limit, where TopK makes the request a small one.
WikiServes(x, pages) ==
  LET asked == x.topK * OverFetch
      pool == Fetched(x, asked)
      right == {d \in pool : x.about[d].build \in x.active}
      wrong == Cardinality(pool) - Cardinality(right)
  IN /\ \A n \in DOMAIN pages : \E d \in right : x.about[d].page = pages[n].page
     /\ \A m, n \in DOMAIN pages : m < n => /\ pages[m].page # pages[n].page
                                            /\ pages[m].score >= pages[n].score
     /\ asked <= MaxRequest =>
          /\ asked >= Cardinality(pool) =>
               Len(pages) = LeastOf(x.topK, Cardinality({x.about[d].page : d \in right}))
          /\ asked > wrong /\ right # {} => pages # <<>>

WikiIsServed(x) == WikiServes(x, SearchWiki(x))

\* Feedback moves an entry by less than what a second leg is worth, however much of
\* it there is: an entry both legs put first stays before one that only one leg
\* found.  Entries that are no longer live are never served, whatever the index says.
FeedbackMoves(x, hits) ==
  LET first(d) == ~Fails(x) /\ ~x.failed.text /\ ~x.failed.vector /\ x.about[d].live
                    /\ x.text # <<>> /\ x.vector # <<>> /\ Head(x.text) = d /\ Head(x.vector) = d
  IN /\ \A n \in DOMAIN hits : x.about[hits[n].doc].live
     /\ \A m, n \in DOMAIN hits : m < n => hits[m].doc # hits[n].doc /\ hits[m].score >= hits[n].score
     /\ \A d, e \in Docs :
          first(d) /\ (e \notin ToSet(x.text) \/ e \notin ToSet(x.vector)) => Before(hits, d, e)

FeedbackIsBounded(x) == FeedbackMoves(x, SearchEntries(x))
=============================================================================
