CONSTANTS
  Operation = {o1}
  Script = {s1}
  Keeper = {k1}
  Steps = 2
  MaxFaults = 1
SPECIFICATION FairSpec
INVARIANTS OneBrowser AnsweredOnce
PROPERTIES SelfHeals
