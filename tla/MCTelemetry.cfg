CONSTANTS
  Profile = {1}
  MaxPending = 2
  MaxStored = 2
  MaxRecorded = 3
  MaxSampled = 3
  MaxMetrics = 1
  MetricBucketMs = 2
  MaxCount = 1
  MaxClock = 2
SPECIFICATION FairSpec
INVARIANTS StoredOnce RecordingOrder
PROPERTIES HandedOver DeliveredWhileFresh CountedOnce GaugeNeverOlder
