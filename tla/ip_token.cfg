SPECIFICATION FairSpec
CONSTANTS
  Callers = {sched}
  Scheduler = sched
  Addrs = {a1, a2}
  NoAddr = NoAddr
  Domains = {"duckdns"}
  DuckDNSToken = t1
  DuckDNSIPUpdateToken = t2
  OwnerToken = t2
  ReplyLoss = FALSE
PROPERTIES
  RecordFollowsAddress
