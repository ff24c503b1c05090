CONSTANTS
  m1 = m1
  m2 = m2
  p1 = p1
  p2 = p2
  a1 = a1
  NoMachine = NoMachine
  NoProfile = NoProfile
  AnyAccount = AnyAccount
  Machine = {m1, m2}
  Profile = {p1, p2}
  Account = {a1}
  LeaseId = {l1, l2}
  Reports <- MCReports
  MachineReports = {"Unspecified", "Degraded"}
  RequestedTtl = {0, 5}
  DefaultTtl = 1
  MaxTtl = 2
  OfflineAfter = 1
  MaxLockWait = 1
  MaxClock = 4
SYMMETRY Symmetry
SPECIFICATION Spec
INVARIANTS ExclusiveLease LeasedIffLease LeasesRoutable LeaseDeadlineBounded LookupTruthful BindingsMatchAccounts IInv LoopMatchesClosedForm
PROPERTIES QuarantineHolds RevocationAnnounced ImplementsLock
