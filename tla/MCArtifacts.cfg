CONSTANTS
  Artifact = {a1, a2}
  RequestedTtl <- MCTtl
  MaxTtl = 2
  Undeletable = {a1}
  MaxClock = 3
  MaxCrashes = 1
SPECIFICATION FairSpec
INVARIANTS KeptUntilExpiry CleanupOnlyExpired
PROPERTIES ExpiredFileRemoved
