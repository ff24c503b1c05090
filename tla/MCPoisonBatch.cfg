CONSTANTS
  Profile = {1}
  MaxPending = 4
  MaxStored = 2
  MaxRecorded = 2
  MaxSampled = 2
  MaxMetrics = 2
  MetricBucketMs = 2
  MaxCount = 2
  MaxClock = 1
SPECIFICATION FairSpec
PROPERTIES NoBatchStuck
