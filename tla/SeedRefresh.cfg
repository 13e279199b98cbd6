SPECIFICATION FairSpec
CONSTANTS
  Calls = {c1, c2}
  Releases <- ThreeReleases
  MaxFaults = 1
  MaxMisreads = 1
INVARIANT VersionTruthful
PROPERTIES NoDowngrade RefreshHeals
