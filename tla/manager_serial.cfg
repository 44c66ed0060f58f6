SPECIFICATION FairSpec
CONSTANTS
  Savers = {main, sched}
  Main = main
  Scheduler = sched
  Kinds = {"cert", "privkey"}
  Optional = {}
  Absent = Absent
  Torn = Torn
  StatErrors = TRUE
  ClockSetBack = FALSE
  MaxIssued = 3
  MaxFaults = 1
INVARIANTS
  ManagerTypeOK
  StatusReflectsLastRun
  OkHasCertificate
PROPERTIES
  OrdersOnlyWhenDue
  CertificateStaysFresh
