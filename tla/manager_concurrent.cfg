SPECIFICATION Spec
CONSTANTS
  Savers = {main, sched, api}
  Main = main
  Scheduler = sched
  Kinds = {"cert", "privkey"}
  Optional = {}
  Absent = Absent
  Torn = Torn
  StatErrors = FALSE
  ClockSetBack = TRUE
  MaxIssued = 2
  MaxFaults = 0
SYMMETRY Symmetry
VIEW Unremarked
INVARIANTS
  OkHasFiles
  LinksResolve
  SuccessLeavesFullSet
PROPERTIES
  ImplementsRuns
