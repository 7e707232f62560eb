----------------------------- MODULE PackageFiles -----------------------------
(***************************************************************************)
(* From a Git archive or a client's push to the files of a package         *)
(* (internal/gitfetch/archive.go, internal/knowledge/manifest.go and       *)
(* service.go, internal/skills/git_archive.go and service.go): what of an  *)
(* archive belongs to the package, which documents its manifest selects,   *)
(* and the hash that identifies it.  Paths are sequences of segments, as   *)
(* path.Clean leaves them.                                                 *)
(***************************************************************************)
EXTENDS Integers, Sequences, FiniteSets

CONSTANTS
  Segments,    \* names in paths
  Contents,    \* contents of files other than a manifest; equal contents, equal sha256
  Empty,       \* the content of an empty file
  Manifest,    \* the path of KNOWLEDGE.yaml (of SKILL.md, for a skill)
  MaxEntries,  \* limits on the entries of an archive
  MaxFiles,    \* and on the files of a package; those in bytes are left out
  None         \* nothing

\* A glob is a sequence of segments, two of which are special.
Globs == Seq(Segments \cup {"*", "**"})

\* A manifest is what it says.
Rules == [include : SUBSET Globs, exclude : SUBSET Globs]

Entries == [path : Seq(Segments \cup {".."}), type : {"file", "dir", "link", "meta"},
            content : Contents \cup Rules]

\* The files of a package: from paths to contents.
Tail1(s) == SubSeq(s, 2, Len(s))
IsPrefixOf(s, t) == Len(s) <= Len(t) /\ SubSeq(t, 1, Len(s)) = s

-----------------------------------------------------------------------------
\* parseTarEntrySize: digits of a base, within a width.
WrapTo(n, max) == n % (max + 1)

ParseTarEntrySize(digits, base, max) ==
  LET v[n \in 0 .. Len(digits)] ==
        IF n = 0 THEN 0
        ELSE IF v[n - 1] = None \/ v[n - 1] > (max - digits[n]) \div base THEN None
             ELSE WrapTo(v[n - 1] * base + digits[n], max)
  IN v[Len(digits)]

\* isTarMetadataEntry, normalizeArchiveEntryPath, archivePackagePath.
Content(e)         == e.type # "meta"
ArchiveRoot(e)     == e.path[1]
Inside(e, package) == Len(e.path) > 1 /\ IsPrefixOf(package, Tail1(e.path))
PackagePath(e, package) == SubSeq(e.path, Len(package) + 2, Len(e.path))

\* ExtractPackage, extractGitPackage, after validateTarLimits.
Taken(entries, package) ==
  {i \in DOMAIN entries : /\ Content(entries[i]) /\ Inside(entries[i], package)
                          /\ entries[i].type # "dir"}

ExtractRefuses(entries, package) ==
  LET C == {i \in DOMAIN entries : Content(entries[i])}
      T == Taken(entries, package)
  IN \/ Len(entries) > MaxEntries \/ T = {} \/ Cardinality(T) > MaxFiles
     \/ \E i \in C : \E n \in DOMAIN entries[i].path : entries[i].path[n] = ".."
     \/ Cardinality({ArchiveRoot(entries[i]) : i \in C}) > 1
     \/ \E i \in T : entries[i].type = "link"
     \/ \E i, j \in T : i # j /\ entries[i].path = entries[j].path

ExtractPackage(entries, package) ==
  LET T == Taken(entries, package)
  IN [f \in {PackagePath(entries[i], package) : i \in T} |->
        (CHOOSE e \in {entries[i] : i \in T} : PackagePath(e, package) = f).content]

-----------------------------------------------------------------------------
SegmentMatches(g, s) == g = "*" \/ g = s

\* Mutant: a trailing ** selects its prefix too.
ReachesBare(g, path, n, R) ==
  CASE g[n] = "**" -> {j \in 0 .. Len(path) : \E i \in R : i <= j}
    [] g[n] # "**" -> {i + 1 : i \in {k \in R : k < Len(path) /\ SegmentMatches(g[n], path[k + 1])}}

\* A row of matchGlob: how much of the path the first n segments of a glob can take.
Reaches(g, path, n, R) ==
  CASE g[n] = "**" /\ n = Len(g) -> IF \E i \in R : i < Len(path) THEN {Len(path)} ELSE {}
    [] g[n] = "**" /\ n < Len(g) -> {j \in 0 .. Len(path) : \E i \in R : i <= j}
    [] g[n] # "**" -> {i + 1 : i \in {k \in R : k < Len(path) /\ SegmentMatches(g[n], path[k + 1])}}

MatchGlob(g, path) ==
  LET reachable[n \in 0 .. Len(g)] ==
        IF n = 0 THEN {0} ELSE Reaches(g, path, n, reachable[n - 1])
  IN Len(path) \in reachable[Len(g)]

\* SelectsDocument.
Selects(rules, path) ==
  /\ path # Manifest
  /\ rules.include = {} \/ \E g \in rules.include : MatchGlob(g, path)
  /\ \A g \in rules.exclude : ~MatchGlob(g, path)

\* selectDocuments: the documents, and with the manifest what computePackageHash
\* hashes: paths and hashes in one order.
Documents(files) == {f \in DOMAIN files : Selects(files[Manifest], f)}
Identity(files)  == {<<f, files[f]>> : f \in Documents(files) \cup {Manifest}}

\* normalizeGitPackageFiles; an empty path is that of a package that is a file.
GitRefuses(files) ==
  \/ <<>> \in DOMAIN files \/ Manifest \notin DOMAIN files \/ files[Manifest] \in Contents
  \/ Documents(files) = {}

\* normalizeSnapshotFiles: a push names each file once, with its content or, if that
\* is omitted or empty, its hash; hashes it declares are those of what it holds.
Pushes == [path : Seq(Segments), content : Contents \cup Rules \cup {None},
           sha : Contents \cup Rules \cup {None}]

Sha(u) == IF u.content \in {None, Empty} THEN u.sha ELSE u.content
Pushed(pushes) ==
  [f \in {pushes[i].path : i \in DOMAIN pushes} |->
     Sha(CHOOSE u \in {pushes[i] : i \in DOMAIN pushes} : u.path = f)]

SnapshotRefuses(pushes, declared) ==
  LET files == Pushed(pushes)
  IN \/ pushes = <<>> \/ Len(pushes) > MaxFiles
     \/ \E i \in DOMAIN pushes :
          \/ Sha(pushes[i]) = None \/ pushes[i].path = <<>>
          \/ pushes[i].content \notin {None, Empty} /\ pushes[i].sha \notin {None, pushes[i].content}
     \/ Cardinality(DOMAIN files) < Len(pushes)
     \/ ~\E i \in DOMAIN pushes : pushes[i].path = Manifest /\ pushes[i].content \notin {None, Empty}
     \/ files[Manifest] \in Contents \/ Documents(files) = {}
     \/ declared # None /\ declared # Identity(files)

\* A skill is all of its files, and its contract is in its own text.
SkillIdentity(files) == {<<f, files[f]>> : f \in DOMAIN files}
SkillRefuses(pushes, declared) ==
  LET files == Pushed(pushes)
  IN \/ pushes = <<>> \/ Len(pushes) > MaxFiles
     \/ \E i \in DOMAIN pushes :
          \/ Sha(pushes[i]) = None \/ pushes[i].path = <<>>
          \/ pushes[i].content \notin {None, Empty} /\ pushes[i].sha \notin {None, pushes[i].content}
     \/ Cardinality(DOMAIN files) < Len(pushes)
     \/ ~\E i \in DOMAIN pushes : pushes[i].path = Manifest /\ pushes[i].content \notin {None, Empty}
     \/ declared # None /\ declared # SkillIdentity(files)

-----------------------------------------------------------------------------
\* What a glob means: a way to lay its segments on the path, one on one, ** on any
\* number of them, at least one if it comes last.
Means(g, path) ==
  \E at \in [0 .. Len(g) -> 0 .. Len(path)] :
    /\ at[0] = 0 /\ at[Len(g)] = Len(path)
    /\ \A n \in 1 .. Len(g) :
         IF g[n] = "**" THEN at[n] >= at[n - 1] + (IF n = Len(g) THEN 1 ELSE 0)
         ELSE at[n] = at[n - 1] + 1 /\ (g[n] = "*" \/ g[n] = path[at[n]])

Wanted(rules, path) ==
  /\ rules.include = {} \/ \E g \in rules.include : Means(g, path)
  /\ ~\E g \in rules.exclude : Means(g, path)

\* The documents are the regular files below the package path that the manifest
\* selects, with their contents, whatever else the archive holds; the same tree
\* pushed by a client is the same package, and is accepted when the archive is; and
\* the package changes its identity if and only if its manifest or one of its
\* documents does.
PackageIsItsSelection(x) ==
  LET files  == ExtractPackage(x.entries, x.package)
      others == ExtractPackage(x.others, x.package)
      push(fs) == LET order == CHOOSE o \in [1 .. Cardinality(DOMAIN fs) -> DOMAIN fs] :
                                 \A i, j \in DOMAIN o : o[i] = o[j] => i = j
                  IN [i \in DOMAIN order |-> [path |-> order[i], content |-> fs[order[i]],
                                              sha |-> fs[order[i]]]]
      below(es) == {<<PackagePath(e, x.package), e.content>> :
                      e \in {es[i] : i \in {j \in DOMAIN es : /\ es[j].type = "file"
                                                               /\ Inside(es[j], x.package)}}}
      chosen(es) == {c \in below(es) : /\ c[1] # Manifest
                                       /\ \A m \in below(es) : m[1] = Manifest => Wanted(m[2], c[1])}
      accepted(es) == ~ExtractRefuses(es, x.package) /\ ~GitRefuses(ExtractPackage(es, x.package))
  IN accepted(x.entries) =>
       /\ {<<f, files[f]>> : f \in Documents(files)} = chosen(x.entries)
       /\ ~SnapshotRefuses(push(files), None) /\ Pushed(push(files)) = files
       /\ ~SkillRefuses(push(files), SkillIdentity(files))
       /\ accepted(x.others) =>
            (Identity(files) = Identity(others)
               <=> chosen(x.entries) = chosen(x.others) /\ files[Manifest] = others[Manifest])

\* A glob takes a path just as it is meant to, however its wildcards fall.
GlobIsExact(g, path) == MatchGlob(g, path) <=> Means(g, path)

\* A size is read exactly or refused, and never wraps.
SizeIsExact(digits, base, max) ==
  LET exact[n \in 0 .. Len(digits)] == IF n = 0 THEN 0 ELSE exact[n - 1] * base + digits[n]
      v == ParseTarEntrySize(digits, base, max)
  IN v = IF exact[Len(digits)] <= max THEN exact[Len(digits)] ELSE None
=============================================================================
