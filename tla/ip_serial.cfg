SPECIFICATION FairSpec
CONSTANTS
  Callers = {sched}
  Scheduler = sched
  Addrs = {a1, a2, a3}
  NoAddr = NoAddr
  Domains = {"duckdns"}
  DuckDNSToken = t1
  DuckDNSIPUpdateToken = t1
  OwnerToken = t1
  ReplyLoss = FALSE
INVARIANTS
  RememberedIsPublished
PROPERTIES
  RecordFollowsAddress
