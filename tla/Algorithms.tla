------------------------------ MODULE Algorithms ------------------------------
(***************************************************************************)
(* The algorithms of wikis, the catalog, packages and quality runs, beside *)
(* those of documents, searches and packs.                                 *)
(***************************************************************************)
EXTENDS Documents, Searches, Packs

CONSTANTS
  Paths, Docs, Hashes, Reserved, Reviewed, Linted,    \* of wikis; the last two
  Models, MaxDepth,                                   \* are the pages of one wiki
  Bases, Names, Values, Domains, MaxCards,            \* of the catalog
  Ceiling,
  WikiBuilds, Texts, IdleDays,                        \* of validation
  Segments, Contents, EmptyFile, ManifestName,        \* of packages
  MaxEntries, MaxFiles,
  Resources, MaxLogs, MinTriggered, MinCount, MinRate \* of skills

ASSUME NilAssumption ==
  /\ Nil \notin Hashes /\ Nil \notin Models
ASSUME NumbersAssumption == Nil \notin Nat
ASSUME PagesAssumption ==
  /\ Reviewed \subseteq Nat /\ IsFiniteSet(Reviewed)
ASSUME CatalogAssumption ==
  Bases \subseteq Nat /\ IsFiniteSet(Bases) /\ Names \subseteq Nat
ASSUME DepthAssumption == MaxDepth \in Nat
ASSUME BuildsAssumption == Nil \notin WikiBuilds

-----------------------------------------------------------------------------
Incremental == INSTANCE WikiIncremental WITH None <- Nil

Review == INSTANCE WikiReview WITH Paths <- Reviewed, None <- Nil

Lint == INSTANCE WikiLint WITH Pages <- Linted, None <- Nil

Discovery == INSTANCE KnowledgeDiscovery WITH Sources <- Bases, None <- Nil

Validation == INSTANCE WikiValidation WITH
  SourceIds <- Bases, Builds <- WikiBuilds, PagePaths <- Paths, None <- Nil

Files == INSTANCE PackageFiles WITH
  Empty <- EmptyFile, Manifest <- <<ManifestName>>, None <- Nil

Quality == INSTANCE SkillQuality WITH Paths <- Resources, None <- Nil

\* What is not there is no package and no artifact, and a resource has a name of its own.
ASSUME PackagesAssumption ==
  /\ Nil \notin Quality!Packages \cup Quality!Artifacts \cup {{"invalid"}}
  /\ {"", "SKILL.md"} \cap Resources = {}
ASSUME LogsAssumption == MaxLogs \in Nat
\* An empty file has a content, and what a package leaves out is none.
ASSUME FilesAssumption ==
  EmptyFile \in Contents /\ Nil \notin Contents \cup Files!Rules /\ MaxFiles \in Nat

-----------------------------------------------------------------------------
\* An accepted increment keeps only pages whose sources did not change, loses and touches
\* none that the model was not asked for, and is a wiki again; the model saw every source
\* of a page that it rewrites (runIncremental, runChecks).
IncrementIsFaithful ==
  Given("incremental") => /\ Incremental!IncrementIsFaithful(input.x)
                          /\ Incremental!RewriteSeesSources(input.x)

\* What several reviews leave on a build's row claims no more than they saw (runReview,
\* RecordReviewResult).
VerdictIsEarned == Given("review") => Review!VerdictIsEarned(input.x)

\* The lint names exactly the pages that rest on text that moved, at their distance, and
\* ends on cycles (RunWikiLint).
LintIsExact == Given("lint") => Lint!LintIsExact(input.x)

\* Discovery gives one contract and one catalog one answer, which its fingerprint stands
\* for; a recorded resolution is never replaced by another (DiscoverForSkill,
\* RecordResolution).
DiscoveryIsReproducible ==
  /\ Given("discovery") => Discovery!DiscoveryIsReproducible(input.x)
  /\ Given("resolution") => Discovery!ResolutionIsEvidence(input.x.owned, input.x.runs)

\* A signal is blamed on a layer only by what its query is known to have found, and a
\* sweep speaks once of an idle wiki (RecordSignal, SweepNeverRetrieved).
AttributionIsEvidenced == Given("validation") => Validation!AttributionIsEvidenced(input.x)

\* A package is its selected files whatever way it came, a glob matches what it is written
\* to match, and sizes are read without overflow (ExtractPackage, matchGlob,
\* parseTarEntrySize).
PackageIsRead ==
  /\ Given("package") => Files!PackageIsItsSelection(input.x)
  /\ Given("glob") => Files!GlobIsExact(input.x.glob, input.x.path)
  /\ Given("size") => Files!SizeIsExact(input.x.digits, input.x.base, input.x.max)

\* A quality run blames a version as it was published for its own text alone, no verdict
\* that nothing regressed hides a change or a check that failed since, and its telemetry
\* counts only what was logged before its cutoff (EvaluateSkillQuality,
\* buildQualityTelemetry).
QualityIsEarned ==
  /\ Given("quality") => Quality!QualityIsEarned(input.x)
  /\ Given("report") => Quality!ReportIsOfItsPast(input.x)
=============================================================================
