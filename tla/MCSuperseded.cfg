CONSTANTS
  m1 = m1
  p1 = p1
  NoMachine = NoMachine
  NoProfile = NoProfile
  AnyAccount = AnyAccount
  Machine = {m1}
  Profile = {p1}
  Account = {}
  LeaseId = {l1, l2}
  Reports <- MCReports
  MachineReports = {"Online"}
  RequestedTtl = {0, 2}
  DefaultTtl = 1
  MaxTtl = 2
  OfflineAfter = 1
  MaxLockWait = 1
  MaxClock = 3
SPECIFICATION SysSpec
PROPERTIES SupersededStaysOut
