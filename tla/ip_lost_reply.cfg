SPECIFICATION FairSpec
CONSTANTS
  Callers = {sched}
  Scheduler = sched
  Addrs = {a1, a2}
  NoAddr = NoAddr
  Domains = {"duckdns"}
  DuckDNSToken = t1
  DuckDNSIPUpdateToken = t1
  OwnerToken = t1
  ReplyLoss = TRUE
PROPERTIES
  RecordFollowsAddress
