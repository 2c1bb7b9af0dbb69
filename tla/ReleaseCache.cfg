CONSTANTS
  Requests = {1, 2}
  CacheTTL = 3
  NegativeCacheTTL = 2
  Timeout = 1
  MaxReleases = 2
SPECIFICATION FairSpec
INVARIANTS
  TypeOK
  FreshIsRecent
  ForcedIsCurrent
  KnownResultBeatsError
PROPERTIES
  GitHubIsSpared
  NewestIsSeen
