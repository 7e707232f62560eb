CONSTANTS
  Packages = {p1}
  Profile <- MCProfile
  Compilers = {k1, k2}
  Fleets = {{k1, k2}}
  Clients = {c1}
  Asks <- MCAsks
  Room <- MCRoom
  MaxBuilds = 3
  None = None
SPECIFICATION Spec
INVARIANT ProvenanceIsTrue
