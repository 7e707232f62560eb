CONSTANTS
  a0 = a0
  b0 = b0
  p0 = p0
  q0 = q0
  Nil = Nil
  Paths = {p0, q0}
  Docs = {a0, b0}
  Hashes = {1, 2}
  Reserved = {"index"}
  Reviewed = {1, 2}
  Linted = {1, 2, 3, 4}
  Models = {p0, q0}
  MaxDepth = 2
  Bases = {1, 2, 3}
  Names = {1, 2}
  Values = {a0, b0}
  Domains = {1, 2}
  MaxCards = 2
  Ceiling = 3
  WikiBuilds = {p0, q0}
  Texts = {a0, b0}
  IdleDays = 1
  Segments = {"d", "f", "g", "k", "r", "s"}
  Contents = {a0, b0, q0}
  EmptyFile = q0
  ManifestName = "k"
  MaxEntries = 4
  MaxFiles = 3
  MaxRunes = 5
  MaxChunks = 3
  MaxLinks = 2
  ChunkRows = {1, 2, 3, 4}
  Dead = {9}
  MaxRequest = 3
  DefaultTopK = 2
  OverFetch = 2
  MemoryFetch = 2
  Resources = {"r"}
  MaxLogs = 4
  MinTriggered = 2
  MinCount = 2
  MinRate = 2
  MinItem = 80
  MaxLines = 2
SPECIFICATION Spec
INVARIANTS
  IncrementIsFaithful
  VerdictIsEarned
  LintIsExact
  DiscoveryIsReproducible
  AttributionIsEvidenced
  PackageIsRead
  DocumentIsCarried
  SearchServesBest
  QualityIsEarned
  PackIsSound
