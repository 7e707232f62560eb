----------------------------- MODULE SkillQuality -----------------------------
(***************************************************************************)
(* The quality report on a version of a skill                              *)
(* (internal/skills/quality_engine.go, compiler.go, quality_service.go,    *)
(* quality_repo.go): checks of one stored package, a comparison with a     *)
(* baseline, and what the logs say.  A hash is the content it is of.       *)
(***************************************************************************)
EXTENDS Integers, Sequences, FiniteSets

CONSTANTS Paths,         \* of resources; a package has its SKILL.md besides
          Texts,         \* what a resource may hold
          MaxLogs,       \* maxTelemetryLogs
          MinTriggered,  \* minTelemetryTriggered
          MinCount,      \* signals that make a suggestion: 3, and one in MinRate: 10
          MinRate,
          None

Advice == {"citations", "freshness", "headroom", "discriminates", "names_build", "purpose"}

\* What a SKILL.md says: no front matter, one that does not parse, or its fields; the
\* contract is what LintKnowledgeContract has to say of it, if there is one.
Contracts == (SUBSET Advice) \cup {{"unparsable"}, {"invalid"}, None}
Fronts == [form : {"absent", "malformed", "fields"}, name : BOOLEAN, described : BOOLEAN,
           routed : BOOLEAN, repeats : BOOLEAN, self : BOOLEAN, contract : Contracts]
Bodies == [front : Fronts, rest : Texts]

\* A file as it is stored: sha is what its hash is of, text its snapshot if it has one.
Stored == [sha : Texts \cup Bodies, text : Texts \cup Bodies \cup {None}, sized : BOOLEAN, own : BOOLEAN]
Manifests == UNION {[P -> [sha : Texts \cup Bodies, text : BOOLEAN]] : P \in SUBSET Paths}

\* A version with its files, the hash it was given and its artifact, as they are found;
\* quotes, if what a compile takes from it (its name, a trigger, a path) has a value that
\* reads content or instructions, or holds the whole of a body of one line.
PackageHashes == SUBSET ((Paths \cup {"SKILL.md", ""}) \X (Texts \cup Bodies))
Artifacts == [hash : PackageHashes \cup {None}, routing : Fronts \cup {None},
              contract : Contracts, manifest : Manifests]
Packages  == [content : Bodies \cup {None}, revision : BOOLEAN, hash : PackageHashes \cup {None},
              files : UNION {[P -> Stored] : P \in SUBSET (Paths \cup {"SKILL.md"})},
              artifact : Artifacts \cup {None}, quotes : BOOLEAN]

\* A log of a use, and a report: on one version of those of all skills, up to a moment.
Logs    == [version : Nat, at : Nat, id : Nat, outcome : STRING]
Reports == {x \in [version : Nat, cutoff : Nat, versions : Seq([skill : Nat, at : Nat]),
                   logs : SUBSET Logs] :
              /\ x.version \in DOMAIN x.versions
              /\ IsFiniteSet(x.logs) /\ \A k, m \in x.logs : k.id = m.id => k = m}

-----------------------------------------------------------------------------
\* parseSkillFrontmatter, validateSkillFrontmatter: a contract that does not parse takes
\* all of the front matter with it.
HasFront(b) == b # None /\ b.front.form # "absent"
Parsed(b)   == HasFront(b) /\ b.front.form # "malformed" /\ b.front.contract # {"unparsable"}
Contract(b) == IF Parsed(b) THEN b.front.contract ELSE None
Routing(b)  == IF Parsed(b) THEN [b.front EXCEPT !.contract = None] ELSE None

\* resourceManifestFromFiles.
Manifest(files) == [p \in DOMAIN files \ {"SKILL.md"} |->
                      [sha |-> files[p].sha, text |-> files[p].text # None]]

\* CompileSkillVersion; a body without front matter compiles.
Compiles(b) == (HasFront(b) => Parsed(b)) /\ Contract(b) # {"invalid"}
Compile(pkg) == IF ~Compiles(pkg.content) THEN None
                ELSE [hash |-> pkg.hash, routing |-> Routing(pkg.content),
                      contract |-> Contract(pkg.content), manifest |-> Manifest(pkg.files)]

\* computePackageHash, or the hash of a body that is all there is.
Hash(pkg) == IF DOMAIN pkg.files = {} THEN {<<"", pkg.content>>}
             ELSE {<<p, pkg.files[p].sha>> : p \in DOMAIN pkg.files}

-----------------------------------------------------------------------------
Check(applicable, passed) == [applicable |-> applicable, passed |-> passed]
Together(f, g) == [c \in DOMAIN f \cup DOMAIN g |-> IF c \in DOMAIN f THEN f[c] ELSE g[c]]

\* The blockers: is what is stored what was published?
Blockers(pkg) ==
  [root |-> Check(TRUE, pkg.content # None /\ (pkg.revision \/ DOMAIN pkg.files # {} => "SKILL.md" \in DOMAIN pkg.files)),
   own |-> Check(DOMAIN pkg.files # {}, \A p \in DOMAIN pkg.files : pkg.files[p].own),
   hash |-> Check(TRUE, pkg.hash = Hash(pkg)),
   snapshots |-> Check(\E p \in DOMAIN pkg.files : pkg.files[p].text # None,
                       \A p \in DOMAIN pkg.files :
                         pkg.files[p].text # None =>
                           /\ pkg.files[p].text = pkg.files[p].sha /\ pkg.files[p].sized
                           /\ p = "SKILL.md" => pkg.files[p].text = pkg.content)]

\* What the text says of itself.
TextChecks(b) ==
  LET fields(P) == Check(Parsed(b), Parsed(b) => P)
      bound == Contract(b) \notin {None, {"invalid"}}
      advised(r) == Check(bound, bound => r \notin Contract(b))
  IN Together(
       [frontmatter |-> Check(HasFront(b), HasFront(b) => Parsed(b)),
        contract |-> Check(Contract(b) # None, Contract(b) # {"invalid"}),
        name |-> fields(Parsed(b) /\ b.front.name), described |-> fields(Parsed(b) /\ b.front.described),
        routed |-> fields(Parsed(b) /\ b.front.routed), repeats |-> fields(Parsed(b) /\ ~b.front.repeats),
        self |-> fields(Parsed(b) /\ ~b.front.self)],
       [r \in Advice |-> advised(r)])

\* Mutant: an artifact is current if it is of this package.
CompiledArtifactCurrentByHash(pkg) == pkg.artifact # None /\ pkg.artifact.hash = pkg.hash

\* The contract is not compared.
CompiledArtifactCurrent(pkg) ==
  /\ pkg.artifact # None /\ pkg.artifact.hash = pkg.hash /\ Compile(pkg) # None
  /\ pkg.artifact.routing = Compile(pkg).routing /\ pkg.artifact.manifest = Compile(pkg).manifest

Lint(pkg) ==
  Together(Together(Blockers(pkg), TextChecks(pkg.content)),
    [artifact |-> Check(TRUE, CompiledArtifactCurrent(pkg)),
     manifest |-> Check(pkg.artifact # None, pkg.artifact # None /\ pkg.artifact.manifest = Manifest(pkg.files))])

\* The compiler is a function, so its repeatability and the order of the files are
\* one question, whether it compiles at all; excludes looks for a body in the text of
\* what it compiles to (l0_excludes_instruction_and_resource_body).
Eval(pkg) ==
  [compiles |-> Check(TRUE, Compile(pkg) # None),
   excludes |-> Check(Compile(pkg) # None, Compile(pkg) # None /\ ~pkg.quotes),
   stable |-> Check(Compile(pkg) # None, Compile(pkg) # None),
   selected |-> Check(DOMAIN Manifest(pkg.files) # {},
                      \A p \in DOMAIN pkg.files \ {"SKILL.md"} :
                        pkg.files[p].text \in {None, pkg.files[p].sha})]

Blocked(pkg) == \E c \in DOMAIN Blockers(pkg) :
                  Blockers(pkg)[c].applicable /\ ~Blockers(pkg)[c].passed

\* regressions.
Regressions(now, before) ==
  {c \in DOMAIN now : /\ before[c].applicable /\ before[c].passed
                      /\ now[c].applicable /\ ~now[c].passed}

\* compareFiles, compareResourceManifestBehavior, compareRouting.
FilesDiffer(p, q) == Hash([p EXCEPT !.content = None]) # Hash([q EXCEPT !.content = None])
ComparisonArtifact(pkg) == IF Compile(pkg) # None THEN Compile(pkg) ELSE pkg.artifact
Behaviour(a) == [routing |-> a.routing, texts |-> [p \in DOMAIN a.manifest |-> a.manifest[p].text]]
ArtifactsDiffer(p, q) ==
  LET now == ComparisonArtifact(p)  before == ComparisonArtifact(q)
  IN now # None /\ before # None /\ Behaviour(now) # Behaviour(before)

\* comparePackages.
Status(p, base) ==
  IF base = None THEN "not_available"
  ELSE IF Blocked(p) \/ Blocked(base) THEN "blocked"
  ELSE IF Regressions(Lint(p), Lint(base)) \cup Regressions(Eval(p), Eval(base)) # {}
  THEN "static_regression_detected"
  ELSE IF p.hash # base.hash \/ FilesDiffer(p, base) \/ ArtifactsDiffer(p, base)
  THEN "review_required" ELSE "no_static_regression_detected"

-----------------------------------------------------------------------------
\* The default baseline: the version published last before this one.  RunQuality takes
\* one that is named if it is another of the same skill.
Baseline(versions, v, named) ==
  LET older == {w \in DOMAIN versions : /\ versions[w].skill = versions[v].skill
                                        /\ \/ versions[w].at < versions[v].at
                                           \/ versions[w].at = versions[v].at /\ w < v}
  IN IF named # None THEN IF named # v /\ versions[named].skill = versions[v].skill THEN named ELSE None
     ELSE IF older = {} THEN None
     ELSE CHOOSE w \in older : \A u \in older : \/ versions[u].at < versions[w].at
                                                \/ versions[u].at = versions[w].at /\ u <= w

\* buildQualityTelemetry: a log is [version, at, id, outcome], where "bypass" was not triggered.
Considered(v, cutoff, logs) ==
  LET mine  == {k \in logs : k.version = v /\ k.at <= cutoff}
      newer(k, m) == k.at > m.at \/ (k.at = m.at /\ k.id > m.id)
  IN {k \in mine : Cardinality({m \in mine : newer(m, k)}) < MaxLogs}

Suggestions(v, cutoff, logs) ==
  LET all == Considered(v, cutoff, logs)
      of(c) == {k \in all : k.outcome = c}
      triggered == all \ of("bypass")
      among(c) == IF c = "bypass" THEN all ELSE triggered
  IN IF Cardinality(triggered) < MinTriggered THEN {}
     ELSE {<<c, of(c)>> : c \in {d \in {"bypass", "user_corrected", "failure", "partial"} :
             Cardinality(of(d)) >= MinCount /\ Cardinality(of(d)) * MinRate >= Cardinality(among(d))}}

-----------------------------------------------------------------------------
\* As CreateVersion, IngestSourceRevision and a compile leave a package.
Genuine(pkg) ==
  /\ pkg.content # None /\ pkg.hash = Hash(pkg) /\ pkg.artifact = Compile(pkg)
  /\ DOMAIN pkg.files # {} => "SKILL.md" \in DOMAIN pkg.files /\ pkg.files["SKILL.md"].text = pkg.content
  /\ pkg.revision => DOMAIN pkg.files # {}
  /\ \A p \in DOMAIN pkg.files : /\ pkg.files[p].own /\ pkg.files[p].sized
                                 /\ pkg.files[p].text \in {None, pkg.files[p].sha}

Failing(checks) == {c \in DOMAIN checks : checks[c].applicable /\ ~checks[c].passed}

\* A package as it was published and compiled is blamed for its own text and nothing
\* else, and the lint blames its text if it does not compile; the evaluation blames a text
\* that compiles only for a value that quotes what it looks for (a trigger named content
\* is taken for a body); an artifact that passes is the one a compile would give, its
\* contract apart, which no check compares.  Packages that are not blocked and have one
\* hash hold the same files, and what may be read of them is the same as it was published.
\* No verdict that nothing regressed hides a change of a file or of the routing, or a
\* check that failed where it passed before; a package that is compared with itself has
\* not changed.
QualityIsEarned(x) ==
  LET p == x.current  base == x.baseline  text == DOMAIN TextChecks(p.content) IN
  /\ Genuine(p) => /\ ~Blocked(p)
                   /\ Failing(Lint(p)) \subseteq text \cup (IF Compile(p) = None THEN {"artifact"} ELSE {})
                   /\ Failing(Eval(p)) = IF Compile(p) = None THEN {"compiles"}
                                         ELSE IF p.quotes THEN {"excludes"} ELSE {}
                   /\ Compile(p) = None => Failing(Lint(p)) \cap {"frontmatter", "contract"} # {}
  /\ ~Blocked(p) /\ "artifact" \notin Failing(Lint(p)) =>
       p.artifact = [Compile(p) EXCEPT !.contract = p.artifact.contract]
  /\ ~Blocked(p) /\ ~Blocked(base) /\ p.hash = base.hash =>
       /\ {<<f, p.files[f].sha>> : f \in DOMAIN p.files} = {<<f, base.files[f].sha>> : f \in DOMAIN base.files}
       /\ \A f \in DOMAIN p.files : {p.files[f].text, base.files[f].text} \subseteq {None, p.files[f].sha}
  /\ Status(p, p) \in {"blocked", "no_static_regression_detected"}
  /\ Status(p, base) = "no_static_regression_detected" =>
       /\ p.hash = base.hash
       /\ Compile(p) # None /\ Compile(base) # None => Compile(p).routing = Compile(base).routing
       /\ Failing(Lint(p)) \ Failing(Lint(base)) \subseteq
            {c \in DOMAIN Lint(base) : ~Lint(base)[c].applicable}
       /\ Failing(Eval(p)) \ Failing(Eval(base)) \subseteq
            {c \in DOMAIN Eval(base) : ~Eval(base)[c].applicable}

\* A report is about the past it names: logs after the cutoff, of other versions or older
\* than the newest MaxLogs change nothing, a suggestion rests on signals of its own sort,
\* and a default baseline is an older version with none of its skill in between.
ReportIsOfItsPast(x) ==
  LET seen == Considered(x.version, x.cutoff, x.logs)
      s == Suggestions(x.version, x.cutoff, x.logs)
      b == Baseline(x.versions, x.version, None)
  IN /\ Suggestions(x.version, x.cutoff, seen) = s
     /\ Cardinality(seen) <= MaxLogs
     /\ \A k \in x.logs \ seen : \/ k.version # x.version \/ k.at > x.cutoff
                                 \/ \A m \in seen : m.at >= k.at
     /\ \A t \in s : t[2] \subseteq {k \in seen : k.outcome = t[1]} /\ Cardinality(t[2]) >= MinCount
     /\ b # None =>
          /\ b # x.version /\ x.versions[b].at <= x.versions[x.version].at
          /\ \A w \in DOMAIN x.versions : x.versions[w].skill = x.versions[x.version].skill =>
               x.versions[w].at <= x.versions[b].at \/ x.versions[w].at >= x.versions[x.version].at
=============================================================================
