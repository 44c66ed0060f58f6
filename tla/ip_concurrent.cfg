SPECIFICATION Spec
CONSTANTS
  Callers = {sched, api1, api2}
  Scheduler = sched
  Addrs = {a1, a2}
  NoAddr = NoAddr
  Domains = {"none", "duckdns", "other"}
  DuckDNSToken = t1
  DuckDNSIPUpdateToken = t1
  OwnerToken = t1
  ReplyLoss = TRUE
SYMMETRY Symmetry
INVARIANTS
  TypeOK
  StatusReflectsLastCheck
  OkMeansPublished
PROPERTIES
  ImplementsRuns
