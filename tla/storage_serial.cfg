SPECIFICATION StorageSpec
CONSTANTS
  Savers = {s1}
  Kinds = {"cert", "privkey", "chain"}
  Optional = {"chain"}
  Absent = Absent
  Torn = Torn
  StatErrors = TRUE
  ClockSetBack = FALSE
  MaxIssued = 3
  MaxFaults = 2
CHECK_DEADLOCK FALSE
INVARIANTS
  StorageTypeOK
  SavedIsServed
PROPERTIES
  LivePromise
