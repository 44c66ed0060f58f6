---------------------------- MODULE HttpApiProofs ----------------------------
(***************************************************************************)
(* What HttpApi keeps true for any clients, requests and environments.     *)
(***************************************************************************)
EXTENDS HttpApi, TLAPS

(***************************************************************************)
(* Types.                                                                  *)
(***************************************************************************)

CertTypes ==
  /\ lastError \in BOOLEAN /\ lastSuccess \in BOOLEAN
  /\ certRun \in [Runners -> {"off", "spawned", "running"}]

IPTypes ==
  /\ ipStatus \in Statuses
  /\ ipRun \in [Runners -> {"off", "spawned", "out", "locked"}]
  /\ mu \in Runners \cup {Free}
  /\ \A r \in Runners : mu = r <=> ipRun[r] = "locked"

HandlerTypes ==
  /\ request \in [Clients -> Requests \cup {Check}]
  /\ stage \in [Clients ->
                   {"idle", "arrived", "success", "ip", "fetching"}]
  /\ acme \in [Clients -> {"unread", "initializing", "ok", "error"}]
  /\ awaited \in BOOLEAN

HistoryTypes ==
  /\ sawCerts \subseteq Statuses /\ ipInError \subseteq BOOLEAN
  /\ overlapped \in BOOLEAN

LEMMA FreeIsNobody == Free \notin Runners /\ Checker \notin Runners
BY ClientsAssumption DEF Runners

LEMMA CertTypeStep == CertTypes /\ Step => CertTypes'
<1>. SUFFICES ASSUME CertTypes, Step PROVE CertTypes'
  OBVIOUS
<1>. USE DEF CertTypes
<1>1. ASSUME NEW r \in Runners, BeginRun(r) \/ EndRun(r) PROVE CertTypes'
  BY <1>1 DEF BeginRun, EndRun, Certs!Begin, Certs!End, Certs!EndUpToDate,
              Certs!EndSaved, Certs!EndFailed
<1>2. ASSUME NEW c \in Runners \ {Worker}, Renew(c) PROVE CertTypes'
  BY <1>2 DEF Renew
<1>3. CASE Killed
  BY <1>3 DEF Killed, Quiet, Certs!Killed
<1>4. ASSUME NEW c \in Clients, Ask(c) \/ Handle(c) PROVE CertTypes'
  BY <1>4 DEF Ask, Handle, Reject, Health, ReadError, ReadSuccess, AnswerHealth,
              CurrentIP, CurrentIPEnds, certs
<1>5. ASSUME NEW r \in Runners, BeginCheck(r) \/ Lock(r) \/ Unlock(r)
      PROVE  CertTypes'
  BY <1>5 DEF BeginCheck, Lock, Unlock, certs
<1>6. ASSUME NEW c \in Runners, UpdateIP(c) PROVE CertTypes'
  BY <1>6 DEF UpdateIP, certs
<1>7. CASE GiveUp
  BY <1>7 DEF GiveUp, certs
<1>. HIDE DEF CertTypes
<1>. QED
  BY <1>1, <1>2, <1>3, <1>4, <1>5, <1>6, <1>7 DEF Step

LEMMA IPTypeStep == IPTypes /\ Step => IPTypes'
<1>. SUFFICES ASSUME IPTypes, Step PROVE IPTypes'
  OBVIOUS
<1>. USE FreeIsNobody DEF IPTypes
<1>1. ASSUME NEW r \in Runners, BeginCheck(r) PROVE IPTypes'
  BY <1>1 DEF BeginCheck, MayBegin, IP!Begin
<1>2. ASSUME NEW r \in Runners, Lock(r) PROVE IPTypes'
  BY <1>2 DEF Lock
<1>3. ASSUME NEW r \in Runners, Unlock(r) PROVE IPTypes'
  BY <1>3 DEF Unlock, IP!Section, Statuses
<1>4. ASSUME NEW c \in Runners \ {Worker}, UpdateIP(c) PROVE IPTypes'
  BY <1>4 DEF UpdateIP
<1>5. CASE Killed
  BY <1>5 DEF Killed, Quiet, IP!Killed, Statuses
<1>6. ASSUME NEW r \in Runners, BeginRun(r) \/ EndRun(r) \/ Renew(r)
      PROVE  IPTypes'
  BY <1>6 DEF BeginRun, EndRun, Renew, ip
<1>7. ASSUME NEW c \in Clients, Ask(c) \/ Handle(c) PROVE IPTypes'
  BY <1>7 DEF Ask, Handle, Reject, Health, ReadError, ReadSuccess, AnswerHealth,
              CurrentIP, CurrentIPEnds, ip
<1>8. CASE GiveUp
  BY <1>8 DEF GiveUp, ip
<1>. HIDE DEF IPTypes
<1>. QED
  BY <1>1, <1>2, <1>3, <1>4, <1>5, <1>6, <1>7, <1>8 DEF Step

LEMMA HandlerTypeStep == HandlerTypes /\ Step => HandlerTypes'
<1>. SUFFICES ASSUME HandlerTypes, Step PROVE HandlerTypes'
  OBVIOUS
<1>. USE DEF HandlerTypes
<1>1. ASSUME NEW c \in Clients, Ask(c) PROVE HandlerTypes'
  BY <1>1 DEF Ask
<1>2. ASSUME NEW c \in Clients, Answer(c) PROVE HandlerTypes'
  BY <1>2 DEF Answer
<1>3. ASSUME NEW c \in Clients, Handle(c) PROVE HandlerTypes'
  BY <1>2, <1>3 DEF Handle, Reject, Health, ReadError, ReadSuccess,
                    AnswerHealth, CurrentIP, CurrentIPEnds
<1>4. ASSUME NEW c \in Runners \ {Worker}, Renew(c) \/ UpdateIP(c)
      PROVE  HandlerTypes'
  BY <1>2, <1>4 DEF Renew, UpdateIP, Runners
<1>5. CASE Killed
  BY <1>5 DEF Killed
<1>6. ASSUME NEW r \in Runners, BeginRun(r) \/ EndRun(r) \/ BeginCheck(r)
      PROVE  HandlerTypes'
  BY <1>6 DEF BeginRun, EndRun, BeginCheck, handlers
<1>7. ASSUME NEW r \in Runners, Lock(r) \/ Unlock(r) PROVE HandlerTypes'
  BY <1>7 DEF Lock, Unlock, handlers
<1>8. CASE GiveUp
  BY <1>8 DEF GiveUp
<1>. HIDE DEF HandlerTypes
<1>. QED
  BY <1>1, <1>3, <1>4, <1>5, <1>6, <1>7, <1>8 DEF Step

LEMMA HistoryTypeStep ==
  HistoryTypes /\ Observe => HistoryTypes'
<1>. SUFFICES ASSUME HistoryTypes, Observe PROVE HistoryTypes'
  OBVIOUS
<1>1. ipInError' \subseteq BOOLEAN
  <2>1. ipInError' \in {ipInError \cup {ipStatus' = "error"}, {}}
    BY Zenon DEF Observe
  <2>2. (ipStatus' = "error") \in BOOLEAN
    OBVIOUS
  <2>. DEFINE inError == ipStatus' = "error"
  <2>3. ipInError' \in {ipInError \cup {inError}, {}} /\ inError \in BOOLEAN
    BY <2>1, <2>2
  <2>. HIDE DEF inError
  <2>. QED
    BY ONLY <2>3, HistoryTypes, Zenon DEF HistoryTypes
<1>2. sawCerts' \subseteq Statuses
  <2>1. Certs!Status' \in Statuses
    BY DEF Certs!Status, Statuses
  <2>2. sawCerts' \in {sawCerts \cup {Certs!Status'}, {}}
    BY Zenon DEF Observe
  <2>. QED
    BY <2>1, <2>2 DEF HistoryTypes
<1>3. overlapped' \in BOOLEAN
  <2>. DEFINE seen == \/ \E r, s \in Runners :
                             r # s /\ certRun'[r] = "running" /\ certRun'[s] = "running"
                      \/ overlapped
  <2>1. overlapped' \in {seen, FALSE}
    BY Zenon DEF Observe
  <2>2. seen \in BOOLEAN
    OBVIOUS
  <2>. HIDE DEF seen
  <2>. QED
    BY ONLY <2>1, <2>2, Zenon
<1>. QED
  BY <1>1, <1>2, <1>3 DEF HistoryTypes

LEMMA ConfigurationKept == Step => UNCHANGED cfg
BY DEF Step, BeginRun, EndRun, BeginCheck, Lock, Unlock, Ask, Handle, Reject,
       Health, ReadError, ReadSuccess, AnswerHealth, CurrentIP, CurrentIPEnds,
       Renew, UpdateIP, GiveUp, Killed

LEMMA TypesHold ==
  Spec => [](CertTypes /\ IPTypes /\ HandlerTypes /\ HistoryTypes
             /\ cfg \in Configurations)
<1>. DEFINE Types == /\ CertTypes /\ IPTypes /\ HandlerTypes /\ HistoryTypes
                     /\ cfg \in Configurations
<1>1. ASSUME Init PROVE Types
  <2>1. CertTypes /\ HandlerTypes /\ HistoryTypes
    BY <1>1 DEF Init, Quiet, Certs!Init, CertTypes, HandlerTypes, HistoryTypes
  <2>2. IPTypes
    BY <1>1, FreeIsNobody DEF Init, Quiet, IPTypes, Statuses
  <2>. QED
    BY <1>1, <2>1, <2>2 DEF Init
<1>2. Types /\ [Next]_vars => Types'
  <2>1. ASSUME Types, Next PROVE Types'
    BY <2>1, CertTypeStep, IPTypeStep, HandlerTypeStep, HistoryTypeStep,
       ConfigurationKept DEF Next
  <2>2. ASSUME Types, UNCHANGED vars PROVE Types'
    BY <2>2 DEF vars, certs, ip, handlers, history, CertTypes, IPTypes,
                HandlerTypes, HistoryTypes
  <2>. QED
    BY <2>1, <2>2
<1>. QED
  BY <1>1, <1>2, PTL DEF Spec

\* For any clients and requests: types, and Service.mu is held exactly by the
\* one check that is in a critical section.
THEOREM HttpTypeCorrect == Spec => []HttpTypeOK
<1>1. CertTypes /\ IPTypes /\ HandlerTypes /\ HistoryTypes /\ cfg \in Configurations
        => HttpTypeOK
  BY DEF CertTypes, IPTypes, HandlerTypes, HistoryTypes, HttpTypeOK
<1>. QED
  BY <1>1, TypesHold, PTL

(***************************************************************************)
(* Health checks.                                                          *)
(***************************************************************************)

Running == {r \in Runners : certRun[r] = "running"}

AtMostOne == \A r, s \in Running : r = s

Seen == Certs!Status \in sawCerts /\ (ipStatus = "error") \in ipInError

SawGood == \E status \in sawCerts : status # "error"

\* What the checker's handler has read was so since the request was sent.
ReadsWereTrue ==
  /\ stage[Checker] = "success" => SawGood
  /\ stage[Checker] = "ip" =>
       /\ acme[Checker] # "unread"
       /\ acme[Checker] = "error" => "error" \in sawCerts
       /\ acme[Checker] # "error" => SawGood

\* While runs do not overlap, the second read cannot complete a pair of values
\* that never were together: only the run that cleared lastError is there to
\* set lastSuccess.
PairsWereTrue ==
  ~overlapped =>
    /\ stage[Checker] = "success" =>
         /\ Running # {} => ~lastError
         /\ lastSuccess => "ok" \in sawCerts
         /\ ~lastSuccess => "initializing" \in sawCerts
    /\ stage[Checker] = "ip" => acme[Checker] \in sawCerts

HealthInv ==
  awaited =>
    Seen /\ (~overlapped => AtMostOne) /\ ReadsWereTrue /\ PairsWereTrue

\* With a domain configured, the updater is never disabled.
UpdaterEnabled == cfg.DuckDNSIPUpdateDomain # <<>> => ipStatus # "disabled"

LEMMA UpdaterEnabledStep == UpdaterEnabled /\ Step => UpdaterEnabled'
<1>. SUFFICES ASSUME UpdaterEnabled, Step PROVE UpdaterEnabled'
  OBVIOUS
<1>1. UNCHANGED cfg
  BY ConfigurationKept
<1>2. ASSUME NEW r \in Runners, Unlock(r)
      PROVE  ipStatus' \in {ipStatus, "ok", "error"}
  BY <1>2 DEF Unlock, IP!Section
<1>3. CASE Killed
  BY <1>1, <1>3 DEF Killed, IP!Killed, UpdaterEnabled
<1>4. ASSUME NEW r \in Runners, BeginRun(r) \/ EndRun(r) \/ BeginCheck(r) \/ Lock(r)
      PROVE  UNCHANGED ipStatus
  BY <1>4 DEF BeginRun, EndRun, BeginCheck, Lock, IP!Begin, ip
<1>5. ASSUME NEW c \in Runners, Renew(c) \/ UpdateIP(c) PROVE UNCHANGED ipStatus
  BY <1>5 DEF Renew, UpdateIP, ip
<1>6. ASSUME NEW c \in Clients, Ask(c) \/ Handle(c) PROVE UNCHANGED ipStatus
  BY <1>6 DEF Ask, Handle, Reject, Health, ReadError, ReadSuccess, AnswerHealth,
              CurrentIP, CurrentIPEnds, ip
<1>7. CASE GiveUp
  BY <1>7 DEF GiveUp, UpdaterEnabled, ip
<1>8. ipStatus' \in {ipStatus, "ok", "error"} => UpdaterEnabled'
  BY <1>1 DEF UpdaterEnabled
<1>. QED
  BY <1>2, <1>3, <1>4, <1>5, <1>6, <1>7, <1>8 DEF Step

\* What a step does to the runs, and what it does to the checker's handler.
CertMove ==
  \/ UNCHANGED <<lastError, lastSuccess, Running>>
  \/ /\ UNCHANGED handlers
     /\ \E r \in Runners : Certs!Begin(r) \/ Certs!End(r)
  \/ stage'[Checker] = "idle"

CheckMove ==
  \/ UNCHANGED <<stage[Checker], acme[Checker]>> /\ (awaited' => awaited)
  \/ stage'[Checker] \in {"idle", "arrived", "fetching"}
  \/ ReadError(Checker)
  \/ ReadSuccess(Checker)

LEMMA CertMoves == CertTypes /\ Step => CertMove
<1>. SUFFICES ASSUME CertTypes, Step PROVE CertMove
  OBVIOUS
<1>1. ASSUME NEW r \in Runners, BeginRun(r) \/ EndRun(r) PROVE CertMove
  BY <1>1 DEF BeginRun, EndRun, CertMove
<1>2. ASSUME NEW c \in Runners \ {Worker}, Renew(c)
      PROVE  UNCHANGED <<lastError, lastSuccess, Running>>
  BY <1>2 DEF Renew, Running, CertTypes
<1>3. CASE Killed
  BY <1>3, ClientsAssumption DEF Killed, CertMove
<1>4. ASSUME UNCHANGED certs PROVE CertMove
  BY <1>4 DEF certs, CertMove, Running
<1>5. ASSUME NEW c \in Clients, Ask(c) \/ Handle(c) PROVE UNCHANGED certs
  BY <1>5 DEF Ask, Handle, Reject, Health, ReadError, ReadSuccess, AnswerHealth,
              CurrentIP, CurrentIPEnds
<1>6. ASSUME NEW r \in Runners, BeginCheck(r) \/ Lock(r) \/ Unlock(r) \/ UpdateIP(r)
      PROVE  UNCHANGED certs
  BY <1>6 DEF BeginCheck, Lock, Unlock, UpdateIP
<1>7. GiveUp => UNCHANGED certs
  BY DEF GiveUp
<1>. QED
  BY <1>1, <1>2, <1>3, <1>4, <1>5, <1>6, <1>7 DEF Step, CertMove

LEMMA CheckMoves == HandlerTypes /\ Step => CheckMove
<1>. SUFFICES ASSUME HandlerTypes, Step PROVE CheckMove
  OBVIOUS
<1>1. ASSUME NEW c \in Clients, Answer(c) PROVE CheckMove
  BY <1>1, ClientsAssumption DEF Answer, CheckMove, HandlerTypes
<1>2. ASSUME NEW c \in Clients, Ask(c) PROVE CheckMove
  BY <1>2, ClientsAssumption DEF Ask, CheckMove, HandlerTypes
<1>3. ASSUME NEW c \in Clients, Handle(c) PROVE CheckMove
  <2>1. CASE CurrentIP(c)
    BY <2>1, ClientsAssumption DEF CurrentIP, CheckMove, HandlerTypes
  <2>2. CASE Health(c)
    BY <2>2, ClientsAssumption
    DEF Health, ReadError, ReadSuccess, CheckMove, HandlerTypes
  <2>. QED
    BY <1>1, <1>3, <2>1, <2>2 DEF Handle, Reject, AnswerHealth, CurrentIPEnds
<1>4. ASSUME NEW c \in Runners \ {Worker}, Renew(c) \/ UpdateIP(c) PROVE CheckMove
  BY <1>1, <1>4 DEF Renew, UpdateIP, Runners
<1>5. CASE Killed
  BY <1>5, ClientsAssumption DEF Killed, CheckMove
<1>6. ASSUME NEW r \in Runners, BeginRun(r) \/ EndRun(r) \/ BeginCheck(r)
      PROVE  CheckMove
  BY <1>6 DEF BeginRun, EndRun, BeginCheck, handlers, CheckMove
<1>7. ASSUME NEW r \in Runners, Lock(r) \/ Unlock(r) PROVE CheckMove
  BY <1>7 DEF Lock, Unlock, handlers, CheckMove
<1>8. CASE GiveUp
  BY <1>8 DEF GiveUp, CheckMove
<1>. QED
  BY <1>2, <1>3, <1>4, <1>5, <1>6, <1>7, <1>8 DEF Step

\* The history after a step with an answer awaited.
LEMMA Observed ==
  ASSUME Observe, awaited'
  PROVE  /\ sawCerts' = sawCerts \cup {Certs!Status'}
         /\ Seen'
         /\ ~overlapped' => AtMostOne' /\ ~overlapped
<1>1. ~overlapped' => AtMostOne'
  BY DEF Observe, AtMostOne, Running
<1>. QED
  BY <1>1 DEF Observe, Seen

\* What a run does to the fields while the checker's handler is between its
\* two reads.
LEMMA RunsKeepPairs ==
  ASSUME CertTypes, AtMostOne, Observe, awaited',
         Running # {} => ~lastError,
         lastSuccess => "ok" \in sawCerts,
         ~lastSuccess => "initializing" \in sawCerts,
         NEW r \in Runners, Certs!Begin(r) \/ Certs!End(r)
  PROVE  /\ Running' # {} => ~lastError'
         /\ lastSuccess' => "ok" \in sawCerts'
         /\ ~lastSuccess' => "initializing" \in sawCerts'
<1>. SUFFICES ASSUME sawCerts' = sawCerts \cup {Certs!Status'}
              PROVE  /\ Running' # {} => ~lastError'
                     /\ lastSuccess' => "ok" \in sawCerts'
                     /\ ~lastSuccess' => "initializing" \in sawCerts'
  BY Observed
<1>1. CASE Certs!Begin(r)
  BY <1>1 DEF Certs!Begin
<1>2. ASSUME Certs!End(r) PROVE ~lastError /\ Running' = {}
  BY <1>2 DEF Certs!End, Certs!EndUpToDate, Certs!EndSaved, Certs!EndFailed,
              Running, AtMostOne
<1>3. CASE Certs!EndUpToDate(r) \/ Certs!EndSaved(r)
  <2>1. ~lastError
    BY <1>2, <1>3 DEF Certs!End
  <2>2. lastSuccess' = TRUE /\ (lastError' = FALSE \/ lastError' = lastError)
    BY <1>3 DEF Certs!EndUpToDate, Certs!EndSaved
  <2>3. lastSuccess' /\ ~lastError'
    BY <2>1, <2>2
  <2>4. Certs!Status' = "ok"
    BY <2>3 DEF Certs!Status
  <2>. QED
    BY <2>3, <2>4
<1>4. CASE Certs!EndFailed(r)
  BY <1>2, <1>4 DEF Certs!End, Certs!EndFailed
<1>. QED
  BY <1>1, <1>3, <1>4 DEF Certs!End

LEMMA HealthStep ==
  ASSUME HealthInv, CertTypes, HandlerTypes, Step, Observe
  PROVE  HealthInv'
<1>. SUFFICES ASSUME awaited' PROVE ReadsWereTrue' /\ PairsWereTrue'
  BY Observed DEF HealthInv
<1>. DEFINE NoRead == UNCHANGED <<stage[Checker], acme[Checker]>> /\ awaited
<1>1. /\ sawCerts' = sawCerts \cup {Certs!Status'}
      /\ ~overlapped' => AtMostOne' /\ ~overlapped
  BY Observed
<1>2. CheckMove /\ CertMove
  BY CheckMoves, CertMoves
<1>3. CASE stage'[Checker] \in {"idle", "arrived", "fetching"}
  BY <1>3 DEF ReadsWereTrue, PairsWereTrue
<1>4. CASE ReadError(Checker)
  <2>1. /\ UNCHANGED <<lastError, lastSuccess>>
        /\ stage'[Checker] = IF lastError THEN "ip" ELSE "success"
        /\ lastError => acme'[Checker] = "error"
    BY <1>4, ClientsAssumption DEF ReadError, HandlerTypes, certs
  <2>2. /\ lastError => "error" \in sawCerts'
        /\ ~lastError /\ lastSuccess => "ok" \in sawCerts'
        /\ ~lastError /\ ~lastSuccess => "initializing" \in sawCerts'
    BY <1>1, <2>1 DEF Certs!Status
  <2>. QED
    BY <2>1, <2>2 DEF ReadsWereTrue, PairsWereTrue, SawGood
<1>5. CASE ReadSuccess(Checker)
  <2>1. /\ stage[Checker] = "success" /\ stage'[Checker] = "ip"
        /\ acme'[Checker] = IF lastSuccess THEN "ok" ELSE "initializing"
    BY <1>5, ClientsAssumption DEF ReadSuccess, HandlerTypes
  <2>2. ReadsWereTrue /\ PairsWereTrue
    BY <1>5 DEF HealthInv, ReadSuccess
  <2>. QED
    BY <1>1, <2>1, <2>2 DEF ReadsWereTrue, PairsWereTrue, SawGood
<1>6. CASE NoRead
  <2>2. ReadsWereTrue /\ PairsWereTrue /\ (~overlapped => AtMostOne)
    BY <1>6 DEF HealthInv
  <2>3. ReadsWereTrue'
    BY <1>1, <1>6, <2>2 DEF ReadsWereTrue, SawGood
  <2>4. ASSUME ~overlapped', stage[Checker] = "success"
        PROVE  /\ Running' # {} => ~lastError'
               /\ lastSuccess' => "ok" \in sawCerts'
               /\ ~lastSuccess' => "initializing" \in sawCerts'
    <3>1. /\ AtMostOne
          /\ Running # {} => ~lastError
          /\ lastSuccess => "ok" \in sawCerts
          /\ ~lastSuccess => "initializing" \in sawCerts
      BY <1>1, <2>2, <2>4 DEF PairsWereTrue
    <3>2. CASE UNCHANGED <<lastError, lastSuccess, Running>>
      BY <1>1, <3>1, <3>2
    <3>3. ASSUME NEW r \in Runners, Certs!Begin(r) \/ Certs!End(r)
          PROVE  /\ Running' # {} => ~lastError'
                 /\ lastSuccess' => "ok" \in sawCerts'
                 /\ ~lastSuccess' => "initializing" \in sawCerts'
      BY <3>1, <3>3, RunsKeepPairs
    <3>. QED
      BY <1>2, <1>6, <2>4, <3>2, <3>3 DEF CertMove
  <2>5. ASSUME ~overlapped', stage[Checker] = "ip"
        PROVE  acme[Checker] \in sawCerts'
    BY <1>1, <2>2, <2>5 DEF PairsWereTrue
  <2>. QED
    BY <1>6, <2>3, <2>4, <2>5 DEF PairsWereTrue
<1>. QED
  BY <1>2, <1>3, <1>4, <1>5, <1>6 DEF CheckMove

LEMMA HealthHolds == Spec => [](HealthInv /\ UpdaterEnabled)
<1>1. Init => HealthInv /\ UpdaterEnabled
  BY ClientsAssumption DEF Init, HealthInv, UpdaterEnabled
<1>2. /\ HealthInv /\ UpdaterEnabled /\ CertTypes /\ HandlerTypes
      /\ [Next]_vars
      => (HealthInv /\ UpdaterEnabled)'
  <2>1. ASSUME HealthInv, UpdaterEnabled, CertTypes, HandlerTypes, Next
        PROVE  (HealthInv /\ UpdaterEnabled)'
    BY <2>1, HealthStep, UpdaterEnabledStep DEF Next
  <2>2. ASSUME HealthInv, UpdaterEnabled, UNCHANGED vars
        PROVE  (HealthInv /\ UpdaterEnabled)'
    BY <2>2 DEF vars, certs, ip, handlers, history, HealthInv, Seen,
                AtMostOne, Running, ReadsWereTrue, PairsWereTrue, SawGood,
                UpdaterEnabled, Certs!Status
  <2>. QED
    BY <2>1, <2>2
<1>. QED
  BY <1>1, <1>2, TypesHold, PTL DEF Spec

\* For any clients: the ACME status that a health check reports was the status
\* at one instant of its request, unless two runs overlapped during it.
THEOREM ReportedStatusCorrect == Spec => []ReportedStatusWasTrue
<1>1. HealthInv => ReportedStatusWasTrue
  BY DEF HealthInv, PairsWereTrue, ReportedStatusWasTrue
<1>. QED
  BY <1>1, HealthHolds, PTL

\* For any clients, requests and environments: the health-check command fails
\* only if a component was in error during the check, and never passes one that
\* was in error all that time.
THEOREM ExitCodeCorrect == Spec => []ExitCodeIsJustified
<1>1. HealthInv /\ UpdaterEnabled /\ HandlerTypes => ExitCodeIsJustified
  <2>. SUFFICES ASSUME HealthInv, UpdaterEnabled, HandlerTypes,
                       awaited, stage[Checker] = "ip"
                PROVE  LET exit == ExitCode(HealthCode(Checker))
                       IN  /\ "error" \notin sawCerts /\ TRUE \notin ipInError
                              => exit = 0
                           /\ sawCerts = {"error"} \/ ipInError = {TRUE}
                              => exit = 1
    BY DEF ExitCodeIsJustified
  <2>1. /\ (ipStatus = "error") \in ipInError
        /\ acme[Checker] = "error" => "error" \in sawCerts
        /\ acme[Checker] # "error" => SawGood
        /\ acme[Checker] \in {"initializing", "ok", "error"}
    BY ClientsAssumption
    DEF HealthInv, Seen, ReadsWereTrue, HandlerTypes
  <2>2. "error" \notin sawCerts /\ TRUE \notin ipInError
          => Healthy(acme[Checker], ipStatus)
    BY <2>1 DEF Healthy, UpdaterEnabled
  <2>3. sawCerts = {"error"} \/ ipInError = {TRUE}
          => ~Healthy(acme[Checker], ipStatus)
    BY <2>1 DEF Healthy, SawGood
  <2>4. Healthy(acme[Checker], ipStatus) => ExitCode(HealthCode(Checker)) = 0
    BY DEF HealthCode, ExitCode
  <2>5. ~Healthy(acme[Checker], ipStatus) => ExitCode(HealthCode(Checker)) = 1
    BY DEF HealthCode, ExitCode
  <2>. QED
    BY <2>2, <2>3, <2>4, <2>5
<1>. QED
  BY <1>1, HealthHolds, TypesHold, PTL
(***************************************************************************)
(* The token.                                                              *)
(***************************************************************************)

LEMMA TwoWords ==
  ASSUME NEW header \in Seq(STRING), Len(header) = 2
  PROVE  header = <<header[1], header[2]>>
OBVIOUS

LEMMA BearsToken ==
  ASSUME NEW q \in Requests \cup {Check}, q.path # "/healthz", Refused(q) = 0
  PROVE  cfg.APIAuthToken = "" \/ q.header = <<"bearer", cfg.APIAuthToken>>
<1>1. q.header \in Seq(STRING)
  BY RequestsAssumption DEF Check
<1>2. CASE Protected(q)
  <2>. DEFINE token == cfg.APIAuthToken
  <2>1. Len(q.header) = 2 /\ q.header[1] = "bearer" /\ q.header[2] = token
    <3>. HIDE DEF token
    <3>. QED
      BY <1>2 DEF Refused, token
  <2>. QED
    BY <1>1, <2>1, TwoWords, Zenon
<1>3. CASE ~Protected(q)
  BY <1>3, Zenon DEF Protected
<1>. QED
  BY <1>2, <1>3

\* For any clients, requests and environments: with a token set, no request
\* that does not bear it starts a run or asks for the address, whatever it
\* carries instead.
THEOREM TokenNeeded == Spec => ProtectedPathsNeedToken
<1>1. ASSUME HandlerTypes, NEW c \in Clients,
             Renew(c) \/ UpdateIP(c) \/ CurrentIP(c)
      PROVE  cfg.APIAuthToken = "" \/ request[c].header = <<"bearer", cfg.APIAuthToken>>
  <2>1. request[c] \in Requests \cup {Check}
    BY <1>1 DEF HandlerTypes
  <2>2. request[c].path # "/healthz" /\ Refused(request[c]) = 0
    BY <1>1 DEF Renew, UpdateIP, CurrentIP, Serves
  <2>. QED
    BY <2>1, <2>2, BearsToken
<1>. DEFINE Guarded ==
       \A c \in Clients :
         Renew(c) \/ UpdateIP(c) \/ CurrentIP(c) =>
           cfg.APIAuthToken = "" \/ request[c].header = <<"bearer", cfg.APIAuthToken>>
<1>2. HandlerTypes => Guarded
  BY <1>1
<1>. QED
  BY <1>2, TypesHold, PTL DEF ProtectedPathsNeedToken
=============================================================================
