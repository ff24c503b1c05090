CONSTANTS
  m1 = m1
  m2 = m2
  p1 = p1
  p2 = p2
  a1 = a1
  NoMachine = NoMachine
  NoProfile = NoProfile
  AnyAccount = AnyAccount
  Machine = {m1}
  Profile = {p1}
  Account = {a1}
  LeaseId = {l1, l2}
  Reports <- SoloReports
  MachineReports = {"Online"}
  RequestedTtl = {0, 5}
  DefaultTtl = 1
  MaxTtl = 2
  OfflineAfter = 1
  MaxLockWait = 1
  MaxClock = 4
SPECIFICATION Spec
PROPERTIES OfflineMachineNotLeased
