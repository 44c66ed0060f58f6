SPECIFICATION FairSpec
CONSTANTS
  Durations <- MCDurations
  Environments <- MCEnvironments
  Placeholder = "XXXXXXXX-XXXX-XXXX-XXXX-XXXXXXXXXXXX"
  Volume = "/data/config"
  Absent = Absent
  Torn = Torn
  MaxStarts = 3
CHECK_DEADLOCK FALSE
INVARIANTS
  LifecycleTypeOK
  AccountKept
  ExitCutsOnlyOverdueRuns
  ServerStaysShut
  TargetsCoverList
PROPERTIES
  ShutdownEnds
  ChecksGoOn
