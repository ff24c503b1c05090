CONSTANTS
  Profile = {p}
  LeaseId = {1, 2}
  Session = {s1, s2}
  Machine = m
  Ttl = 1
  HandTtl = 2
  MaxClock = 4
SPECIFICATION Spec
INVARIANTS KeptWhileRunning EnsuredStaysUp OneLateOperation
PROPERTIES OperationsFenced
