-------------------------- MODULE KnowledgeDiscovery --------------------------
(***************************************************************************)
(* What a Skill's knowledge contract finds in an account's catalog         *)
(* (internal/skills/knowledge_contract.go, internal/knowledge/discovery.go *)
(* and resolution.go): the contract as it is normalised, validated and     *)
(* identified, the discovery and its fingerprint, and the runs that are    *)
(* recorded under it.  Values of a list hold no comma (ContractIdentity    *)
(* joins them with one) and differ in more than their case.                *)
(***************************************************************************)
EXTENDS Integers, Sequences, FiniteSets

CONSTANTS
  Sources,   \* ids of sources, numbers in their order, which is that of their names
  Names,     \* names in manifests, numbers in their order
  Values,    \* capabilities and languages
  Domains,   \* domains of sources, numbers in their order
  MaxCards,  \* maxDiscoveryCatalogCards
  Ceiling,   \* maxContractKnowledgeBases
  None       \* nothing

Fallbacks == {"ask_user", "search_multiple", "proceed", "fail", None}

\* A pin names a source, or else the name in its manifest.
Pins == [source : Sources \cup {None}, name : Names \cup {None}]

\* A requirement as an author writes it.
Requirements == [required : BOOLEAN, caps : SUBSET Values, langs : SUBSET Values,
                 domains : SUBSET Domains, max : Nat, nomatch : Fallbacks,
                 ambig : Fallbacks, pinned : Seq(Pins), purpose : BOOLEAN]
Modes == {"discover", "scoped_discover", "pinned"}

\* A package is what its manifest declares; equal packages, equal package_hash.
Packages == [name : Names, caps : SUBSET Values, langs : SUBSET Values]

\* The sources with an active revision, and the domain of each source, which comes
\* from its package path and never changes.
Worlds == [packages : [Sources -> Packages \cup {None}], domain : [Sources -> Domains]]

-----------------------------------------------------------------------------
\* normaliseContract.
Normalised(r) ==
  [r EXCEPT !.max     = IF @ = 0 THEN 3 ELSE @,
            !.nomatch = IF @ = None THEN IF r.required THEN "ask_user" ELSE "proceed" ELSE @,
            !.ambig   = IF @ = None THEN "search_multiple" ELSE @]

\* ValidateKnowledgeContract, of a requirement; the lengths are left out.
Valid(mode, r) ==
  /\ r.max \in 1 .. Ceiling
  /\ r.nomatch # "search_multiple" /\ r.ambig # "proceed"
  /\ ~(r.required /\ r.nomatch = "proceed")
  /\ IF mode = "pinned"
     THEN r.pinned # <<>> /\ \A i \in DOMAIN r.pinned : {r.pinned[i].source, r.pinned[i].name} # {None}
     ELSE r.pinned = <<>> /\ {} # r.caps \cup r.langs \cup r.domains

\* ContractIdentity: in any order, and without the purpose.
ContractIdentity(mode, r) ==
  [mode |-> mode, required |-> r.required, caps |-> r.caps, langs |-> r.langs,
   domains |-> r.domains, max |-> r.max, nomatch |-> r.nomatch, ambig |-> r.ambig,
   pinned |-> [x \in {r.pinned[i] : i \in DOMAIN r.pinned} |->
                 Cardinality({i \in DOMAIN r.pinned : r.pinned[i] = x})]]

-----------------------------------------------------------------------------
Active(w) == {s \in Sources : w.packages[s] # None}

\* ListCatalog's ORDER BY and LIMIT.
Listed(w, s, t) == w.domain[s] < w.domain[t] \/ (w.domain[s] = w.domain[t] /\ s < t)
Cards(w) == {s \in Active(w) : Cardinality({t \in Active(w) : Listed(w, t, s)}) < MaxCards}

\* matchRequirementCandidates.
Overlaps(wanted, declared) == wanted = {} \/ wanted \cap declared # {}
Matches(w, r) ==
  {s \in Cards(w) : /\ Overlaps(r.caps, w.packages[s].caps)
                    /\ Overlaps(r.langs, w.packages[s].langs)
                    /\ Overlaps(r.domains, {w.domain[s]})}
Score(w, r, s) == Cardinality(r.caps \cap w.packages[s].caps)
                  + Cardinality(r.langs \cap w.packages[s].langs)
                  + Cardinality(r.domains \cap {w.domain[s]})
Above(w, r, s, t) ==
  \/ Score(w, r, s) > Score(w, r, t)
  \/ Score(w, r, s) = Score(w, r, t)
     /\ \/ w.packages[s].name < w.packages[t].name
        \/ w.packages[s].name = w.packages[t].name /\ s < t
Rank(w, r, s) == 1 + Cardinality({t \in Matches(w, r) : Above(w, r, t, s)})

\* resolvePinnedCandidates: by id, or the first card of that name.
Resolved(w, pin) ==
  IF pin.source # None THEN {pin.source} \cap Cards(w)
  ELSE {s \in Cards(w) : /\ w.packages[s].name = pin.name
                         /\ \A t \in Cards(w) : w.packages[t].name = pin.name => ~Listed(w, t, s)}

\* discoverRequirement: a status, the candidates with their rank, and the fallback.
Answer(status, candidates, fallback) ==
  [status |-> status, candidates |-> candidates, fallback |-> fallback]

DiscoverPinned(w, r) ==
  LET found == {i \in DOMAIN r.pinned : Resolved(w, r.pinned[i]) # {}}
      C == UNION {Resolved(w, r.pinned[i]) \X {Cardinality(found \cap (1 .. i))} : i \in found}
  IN IF found = DOMAIN r.pinned THEN Answer("pinned_resolved", C, None)
     ELSE Answer("pinned_missing", C, r.nomatch)

Discover(mode, w, r) ==
  LET ranked == {<<s, Rank(w, r, s)>> : s \in Matches(w, r)}
  IN CASE mode = "pinned" -> DiscoverPinned(w, r)
       [] mode # "pinned" /\ Cards(w) = {} -> Answer("no_authorized_knowledge", {}, r.nomatch)
       [] mode # "pinned" /\ Cards(w) # {} /\ ranked = {} ->
            Answer("no_metadata_match", {}, r.nomatch)
       [] mode # "pinned" /\ Cardinality(ranked) > r.max ->
            Answer("ambiguous", {c \in ranked : c[2] <= r.max}, r.ambig)
       [] mode # "pinned" /\ Cardinality(ranked) \in 1 .. r.max -> Answer("matched", ranked, None)

\* Mutant: the state of the catalog is which sources it has.
FingerprintOfSources(mode, w, r) == <<ContractIdentity(mode, r), Cards(w)>>

\* discoveryFingerprint.
Fingerprint(mode, w, r) ==
  <<ContractIdentity(mode, r), {<<s, w.packages[s]>> : s \in Cards(w)}>>

\* DiscoverForSkill: a contract that does not compile has no version, and a scope
\* is not executable.
Refuses(mode, r) == mode = "scoped_discover" \/ ~Valid(mode, Normalised(r))

-----------------------------------------------------------------------------
\* RecordResolution over an append-only table: a request has an idempotency key or
\* none, a content (its requirement spelt as in the contract) and the bases it
\* selects; a run is refused if one of them is not the account's.
Requests == [key : Nat \cup {None}, content : Values, selected : SUBSET Sources]

SameRun(u, v) == u.content = v.content /\ u.selected = v.selected

\* InsertResolutionRun: ON CONFLICT (key) DO NOTHING.
InsertResolutionRun(runs, q) ==
  IF q.key # None /\ \E i \in DOMAIN runs : runs[i].key = q.key THEN runs
  ELSE Append(runs, q)

RecordResolution(runs, owned, q) ==
  IF q.selected \subseteq owned THEN InsertResolutionRun(runs, q) ELSE runs

Replies(runs, owned, q) ==
  CASE ~(q.selected \subseteq owned) -> "refused"
    [] q.selected \subseteq owned /\ \E i \in DOMAIN runs :
         q.key # None /\ runs[i].key = q.key /\ ~SameRun(runs[i], q) -> "conflict"
    [] OTHER -> "recorded"

RunsAfter(owned, qs) ==
  LET runs[n \in 0 .. Len(qs)] ==
        IF n = 0 THEN <<>> ELSE RecordResolution(runs[n - 1], owned, qs[n])
  IN runs

-----------------------------------------------------------------------------
\* "Two discoveries with one fingerprint saw the same question and the same world":
\* they get one answer, down to the ranks (those of pins, up to their order), whatever
\* else there is in the catalog and however the contract was written.  No answer to
\* a required need is to do without, nor to one where several fit; a base is offered
\* if and only if it fits, the best first and within the budget.
DiscoveryIsReproducible(x) ==
  LET r == Normalised(x.asked)
      s == Normalised(x.again)
      a == Discover(x.mode, x.now, r)
      b == Discover(x.mode, x.later, s)
      offered == {c[1] : c \in a.candidates}
      fits(t) == /\ r.caps = {} \/ \E v \in r.caps : v \in x.now.packages[t].caps
                 /\ r.langs = {} \/ \E v \in r.langs : v \in x.now.packages[t].langs
                 /\ r.domains = {} \/ x.now.domain[t] \in r.domains
  IN ~Refuses(x.mode, x.asked) /\ ~Refuses(x.mode, x.again) =>
       /\ Fingerprint(x.mode, x.now, r) = Fingerprint(x.mode, x.later, s)
          => /\ a.status = b.status /\ a.fallback = b.fallback
             /\ offered = {c[1] : c \in b.candidates}
             /\ x.mode # "pinned" => a.candidates = b.candidates
       /\ r.required /\ (offered = {} \/ a.status = "pinned_missing")
            => a.fallback \in {"ask_user", "fail"}
       /\ a.status = "ambiguous" => a.fallback # "proceed"
       /\ x.mode = "discover" =>
            /\ Cardinality(offered) <= r.max /\ \A t \in offered : fits(t)
            /\ {c[2] : c \in a.candidates} = 1 .. Cardinality(offered)
            /\ a.status # "ambiguous" => \A t \in Cards(x.now) \ offered : ~fits(t)

\* "The original run is evidence": a key has one run for ever, whose content is that
\* of every request it was recorded for; a replay adds nothing and a run rests on
\* sources of the account only.
ResolutionIsEvidence(owned, qs) ==
  LET runs == RunsAfter(owned, qs)
      last == runs[Len(qs)]
  IN /\ \A i \in DOMAIN last : last[i].selected \subseteq owned
     /\ \A n \in DOMAIN qs :
          LET recorded == Replies(runs[n - 1], owned, qs[n]) = "recorded"
          IN /\ recorded <=> \E i \in DOMAIN runs[n] :
                               runs[n][i].key = qs[n].key /\ SameRun(runs[n][i], qs[n])
                               /\ qs[n].selected \subseteq owned
                               /\ (qs[n].key = None => i > Len(runs[n - 1]))
             /\ SubSeq(last, 1, Len(runs[n])) = runs[n]
     /\ \A i, j \in DOMAIN last : last[i].key = last[j].key /\ last[i].key # None => i = j
=============================================================================
