SPECIFICATION FairSpec
CONSTANTS
  Durations <- MCDurations
  Environments <- MCEnvironments
  Requests <- MCRequests
  Placeholder = "XXXXXXXX-XXXX-XXXX-XXXX-XXXXXXXXXXXX"
  Clients = {checker, client}
  Checker = checker
  Worker = worker
  Free = Free
INVARIANTS
  HttpTypeOK
  ReportedStatusWasTrue
  ExitCodeIsJustified
PROPERTIES
  ProtectedPathsNeedToken
  HealthAnswers
