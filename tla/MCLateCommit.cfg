CONSTANTS
  Artifact = {a1}
  RequestedTtl = {1, 2}
  MaxTtl = 2
  Undeletable = {}
  MaxClock = 3
  MaxCrashes = 0
SPECIFICATION FairSpec
PROPERTIES LateCommitRemoved
