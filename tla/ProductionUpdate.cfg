CONSTANTS
  Releases <- MCReleases
  Rank <- MCRank
  HalfBundle = HalfBundle
  NONE = NONE
SPECIFICATION ProductionSpec
INVARIANT BundleKept
PROPERTY NeverOlder
