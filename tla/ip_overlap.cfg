SPECIFICATION Spec
CONSTANTS
  Callers = {sched, api1}
  Scheduler = sched
  Addrs = {a1, a2}
  NoAddr = NoAddr
  Domains = {"duckdns"}
  DuckDNSToken = t1
  DuckDNSIPUpdateToken = t1
  OwnerToken = t1
  ReplyLoss = FALSE
INVARIANTS
  RememberedIsPublished
