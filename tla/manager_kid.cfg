SPECIFICATION Spec
CONSTANTS
  Savers = {main, sched}
  Main = main
  Scheduler = sched
  Kinds = {"cert", "privkey"}
  Optional = {}
  Absent = Absent
  Torn = Torn
  StatErrors = FALSE
  ClockSetBack = FALSE
  MaxIssued = 2
  MaxFaults = 0
INVARIANTS
  RegistersAfresh
