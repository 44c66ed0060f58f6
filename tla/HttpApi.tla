------------------------------ MODULE HttpApi ------------------------------
(***************************************************************************)
(* The HTTP server, internal/httpapi/server.go, one goroutine per request, *)
(* with its clients: the health-check command (cmd/healthcheck/main.go),   *)
(* and others that start runs and ask for the address.  It is composed     *)
(* with what it knows of the two components it calls, CertRuns and IPRuns; *)
(* that AcmeManager and IPUpdater implement these is checked with them.    *)
(*                                                                         *)
(* Of an answer only what a property is about is kept: which request is    *)
(* refused, and the code of a health check.                                *)
(***************************************************************************)
EXTENDS Config

CONSTANTS Environments, \* the environments to consider
          Clients,      \* one request of each at a time
          Checker,      \* the client that is the health-check command
          Worker,       \* the schedulers' goroutines, and the ones main starts
          Requests,     \* what clients may send: path, method, Authorization
          Free          \* nobody holds Service.mu

ASSUME ClientsAssumption ==
  Checker \in Clients /\ Worker \notin Clients /\ Free \notin Clients \cup {Worker}

ASSUME RequestsAssumption == \A q \in Requests : q.header \in Seq(STRING)

\* Who runs ManageCertificates, or CheckAndPerformIPUpdate: the schedulers,
\* and a goroutine for each client (bound: one of each kind).
Runners == (Clients \ {Checker}) \cup {Worker}

VARIABLES
  cfg,                             \* Server.config, once loaded
  lastError, lastSuccess, certRun, \* Manager, and where its runs are
  ipStatus, ipRun, mu,             \* Service, where its checks are, its mutex
  request, stage,                  \* each client's request, and its handler
  acme,                            \* ... and its local acmeStatus.Status
  awaited,                         \* the health-check command waits
  sawCerts, ipInError, overlapped  \* history, since it sent its request: the
                                   \* statuses of the manager, whether the one
                                   \* of the updater was "error", and were there
                                   \* two runs of ManageCertificates at a time

certs    == <<lastError, lastSuccess, certRun>>
ip       == <<ipStatus, ipRun, mu>>
handlers == <<request, stage, acme, awaited>>
history  == <<sawCerts, ipInError, overlapped>>
vars     == <<cfg, certs, ip, handlers, history>>

Configurations == {LoadConfig(env) : env \in Environments}

Certs == INSTANCE CertRuns
           WITH running <- {r \in Runners : certRun[r] = "running"}
IP    == INSTANCE IPRuns
           WITH Callers <- Runners, status <- ipStatus,
                running <- {r \in Runners : ipRun[r] \in {"out", "locked"}}

-----------------------------------------------------------------------------
(***************************************************************************)
(* The runs that others are, seen from here.                               *)
(***************************************************************************)

\* The schedulers begin runs by themselves, a client's goroutine when spawned.
MayBegin(r, run) == run[r] = "spawned" \/ (r = Worker /\ run[r] = "off")

BeginRun(r) ==
  /\ MayBegin(r, certRun)
  /\ certRun' = [certRun EXCEPT ![r] = "running"]
  /\ Certs!Begin(r)
  /\ UNCHANGED <<cfg, ip, handlers>>

EndRun(r) ==
  /\ certRun' = [certRun EXCEPT ![r] = "off"]
  /\ Certs!End(r)
  /\ UNCHANGED <<cfg, ip, handlers>>

BeginCheck(r) ==
  /\ MayBegin(r, ipRun)
  /\ ipRun' = [ipRun EXCEPT ![r] = "out"]
  /\ IP!Begin(r)
  /\ UNCHANGED <<cfg, certs, mu, handlers>>

\* Outside its critical sections a check is on the network, or wants the mutex.
Lock(r) ==
  /\ ipRun[r] = "out" /\ mu = Free
  /\ mu' = r /\ ipRun' = [ipRun EXCEPT ![r] = "locked"]
  /\ UNCHANGED <<cfg, certs, ipStatus, handlers>>

UnlockAtEnd(r) ==
  /\ ipRun[r] = "locked"
  /\ \E next \in {"out", "off"} :
       /\ ipRun' = [ipRun EXCEPT ![r] = next]
       /\ mu' = IF next = "off" THEN Free ELSE mu
  /\ IP!Section(r)
  /\ UNCHANGED <<cfg, certs, handlers>>

Unlock(r) ==
  /\ ipRun[r] = "locked"
  /\ mu' = Free
  /\ \E next \in {"out", "off"} : ipRun' = [ipRun EXCEPT ![r] = next]
  /\ IP!Section(r)
  /\ UNCHANGED <<cfg, certs, handlers>>

-----------------------------------------------------------------------------
(***************************************************************************)
(* Requests.                                                               *)
(***************************************************************************)

Check == [path |-> "/healthz", method |-> "GET", header |-> <<>>]

Handling(c) == stage[c] # "idle"

\* (Bound: the command is run again when the handler of its last request has
\* ended.  Handlers of health checks only read.)
Ask(c) ==
  /\ ~Handling(c)
  /\ \E q \in IF c = Checker THEN {Check} ELSE Requests :
       request' = [request EXCEPT ![c] = q]
  /\ stage' = [stage EXCEPT ![c] = "arrived"]
  /\ awaited' = (awaited \/ c = Checker)
  /\ UNCHANGED <<cfg, certs, ip, acme>>

\* The handler ends, whether or not anybody waits for its answer.
Answer(c) ==
  /\ stage' = [stage EXCEPT ![c] = "idle"]
  /\ request' = [request EXCEPT ![c] = Check]
  /\ acme' = [acme EXCEPT ![c] = "unread"]
  /\ awaited' = (awaited /\ c # Checker)

MethodOf(path) ==
  IF path \in {"/healthz", "/api/v1/ip/current"} THEN "GET" ELSE "POST"

RefusedBeforeMethod(q) ==
  CASE q.method # MethodOf(q.path)                             -> 405
    [] cfg.APIAuthToken # "" /\ q.header = <<>>                -> 401
    [] OTHER                                                   -> 0

Protected(q) == q.path # "/healthz" /\ cfg.APIAuthToken # ""

\* authMiddleware, then the handler's own check.  A header is the sequence of
\* its words, the first in lower case.
Refused(q) ==
  LET bearer == Len(q.header) = 2 /\ q.header[1] = "bearer"
  IN  CASE Protected(q) /\ ~bearer                                   -> 401
        [] Protected(q) /\ bearer /\ q.header[2] # cfg.APIAuthToken  -> 403
        [] OTHER -> IF q.method # MethodOf(q.path) THEN 405 ELSE 0

Reject(c) ==
  /\ stage[c] = "arrived" /\ Refused(request[c]) # 0
  /\ Answer(c)
  /\ UNCHANGED <<cfg, certs, ip>>

Serves(c, path) ==
  stage[c] = "arrived" /\ request[c].path = path /\ Refused(request[c]) = 0

Renew(c) ==
  /\ Serves(c, "/api/v1/certificates/renew")
  /\ certRun[c] = "off"
  /\ certRun' = [certRun EXCEPT ![c] = "spawned"]
  /\ Answer(c)
  /\ UNCHANGED <<cfg, lastError, lastSuccess, ip>>

UpdateIP(c) ==
  /\ Serves(c, "/api/v1/duckdns/update-ip")
  /\ ipRun[c] = "off"
  /\ ipRun' = [ipRun EXCEPT ![c] = "spawned"]
  /\ Answer(c)
  /\ UNCHANGED <<cfg, certs, ipStatus, mu>>

\* GetCurrentPublicIPs takes no lock and changes nothing.  Past the server's
\* WriteTimeout its answer is lost.
CurrentIP(c) ==
  /\ Serves(c, "/api/v1/ip/current")
  /\ stage' = [stage EXCEPT ![c] = "fetching"]
  /\ UNCHANGED <<cfg, certs, ip, request, acme, awaited>>

CurrentIPEnds(c) ==
  /\ stage[c] = "fetching"
  /\ Answer(c)
  /\ UNCHANGED <<cfg, certs, ip>>

\* healthzHandler.  Manager.GetStatus reads lastError ...
ReadError(c) ==
  /\ Serves(c, "/healthz")
  /\ stage' = [stage EXCEPT ![c] = IF lastError THEN "ip" ELSE "success"]
  /\ acme' = [acme EXCEPT ![c] = IF lastError THEN "error" ELSE @]
  /\ UNCHANGED <<cfg, certs, ip, request, awaited>>

\* ... and then, with no lock between, lastSuccess.
ReadSuccess(c) ==
  /\ stage[c] = "success"
  /\ stage' = [stage EXCEPT ![c] = "ip"]
  /\ acme' = [acme EXCEPT ![c] = IF lastSuccess THEN "ok" ELSE "initializing"]
  /\ UNCHANGED <<cfg, certs, ip, request, awaited>>

HealthyIfSaved(acmeStatus, status) == acmeStatus = "ok" /\ status # "error"

Healthy(acmeStatus, status) ==
  /\ acmeStatus \in {"ok", "initializing"}
  /\ status # "error"
  /\ cfg.DuckDNSIPUpdateDomain # <<>> => status # "disabled"

\* Service.GetStatus, all of it under the mutex, and HealthCode is sent.
HealthCode(c) == IF Healthy(acme[c], ipStatus) THEN 200 ELSE 503

AnswerHealth(c) ==
  /\ stage[c] = "ip" /\ mu = Free
  /\ Answer(c)
  /\ UNCHANGED <<cfg, certs, ip>>

\* The command's own deadline: it exits with 1.  The handler goes on, and its
\* answer is lost.
GiveUp ==
  /\ awaited
  /\ awaited' = FALSE
  /\ UNCHANGED <<cfg, certs, ip, request, stage, acme>>

\* The exit code of the health-check command, when it is answered.
ExitCode(code) == IF code \in 200..299 THEN 0 ELSE 1

-----------------------------------------------------------------------------
Quiet == [r \in Runners |-> "off"]

\* The process dies, and what it was doing; it is started again.
Killed ==
  /\ certRun' = Quiet /\ Certs!Killed
  /\ ipRun' = Quiet /\ IP!Killed /\ mu' = Free
  /\ stage' = [c \in Clients |-> "idle"]
  /\ acme' = [c \in Clients |-> "unread"]
  /\ request' = [c \in Clients |-> Check]
  /\ awaited' = FALSE
  /\ UNCHANGED cfg

\* The history of a health check, while the command waits for its answer.
Observe ==
  LET two == \E r, s \in Runners :
               r # s /\ certRun'[r] = "running" /\ certRun'[s] = "running"
  IN  IF awaited'
        THEN /\ sawCerts' = sawCerts \cup {Certs!Status'}
             /\ ipInError' = ipInError \cup {ipStatus' = "error"}
             /\ overlapped' = (two \/ overlapped)
        ELSE sawCerts' = {} /\ ipInError' = {} /\ overlapped' = FALSE

Init ==
  /\ cfg \in Configurations /\ ValidateRequired(cfg)
  /\ certRun = Quiet /\ Certs!Init
  /\ ipRun = Quiet /\ IP!Init /\ mu = Free
  /\ ipStatus = IF cfg.DuckDNSIPUpdateDomain = <<>> THEN "disabled"
                                                   ELSE "initializing"
  /\ request = [c \in Clients |-> Check]
  /\ stage = [c \in Clients |-> "idle"]
  /\ acme = [c \in Clients |-> "unread"]
  /\ awaited = FALSE
  /\ sawCerts = {} /\ ipInError = {} /\ overlapped = FALSE

Health(c) == ReadError(c) \/ ReadSuccess(c)

Handle(c) == \/ Reject(c) \/ Health(c) \/ AnswerHealth(c)
             \/ CurrentIP(c) \/ CurrentIPEnds(c)

Step ==
  \/ \E r \in Runners : \/ BeginRun(r) \/ EndRun(r)
                         \/ BeginCheck(r) \/ Lock(r) \/ Unlock(r)
  \/ \E c \in Clients : Ask(c) \/ Handle(c)
  \/ \E c \in Runners \ {Worker} : Renew(c) \/ UpdateIP(c)
  \/ GiveUp \/ Killed

Next == Step /\ Observe

Spec == Init /\ [][Next]_vars

(***************************************************************************)
(* Fairness.  Goroutines are scheduled, and sync.Mutex hands itself to one *)
(* that has waited long.  No run ends and no network answers for certain.  *)
(***************************************************************************)
Fairness ==
  /\ WF_vars((\E r \in Runners : Unlock(r)) /\ Observe)
  /\ SF_vars(Handle(Checker) /\ Observe)

FairSpec == Spec /\ Fairness

-----------------------------------------------------------------------------
(***************************************************************************)
(* Properties.                                                             *)
(***************************************************************************)

Statuses == {"disabled", "initializing", "ok", "error"}

\* Types; and Service.mu is held exactly by a check in a critical section.
HttpTypeOK ==
  /\ cfg \in Configurations
  /\ lastError \in BOOLEAN /\ lastSuccess \in BOOLEAN
  /\ certRun \in [Runners -> {"off", "spawned", "running"}]
  /\ ipStatus \in Statuses
  /\ ipRun \in [Runners -> {"off", "spawned", "out", "locked"}]
  /\ mu \in Runners \cup {Free}
  /\ request \in [Clients -> Requests \cup {Check}]
  /\ stage \in [Clients ->
                   {"idle", "arrived", "success", "ip", "fetching"}]
  /\ acme \in [Clients -> {"unread", "initializing", "ok", "error"}]
  /\ awaited \in BOOLEAN /\ overlapped \in BOOLEAN
  /\ sawCerts \subseteq Statuses /\ ipInError \subseteq BOOLEAN
  /\ \A r \in Runners : mu = r <=> ipRun[r] = "locked"

\* The ACME status in the answer that the health-check command waits for was the
\* status at some instant of its request, although GetStatus reads two fields
\* with no lock, unless two runs overlapped then.
ReportedStatusWasTrue ==
  awaited /\ stage[Checker] = "ip" /\ ~overlapped => acme[Checker] \in sawCerts

\* The answer the health-check command waits for fails a container only if one
\* of its components was in error during the check, and never passes one whose
\* component was in error all that time.
ExitCodeIsJustified ==
  LET exit == ExitCode(HealthCode(Checker))
  IN  awaited /\ stage[Checker] = "ip" /\ mu = Free =>
        /\ "error" \notin sawCerts /\ TRUE \notin ipInError => exit = 0
        /\ sawCerts = {"error"} \/ ipInError = {TRUE} => exit = 1

\* With a token set, a run is started and the address asked for only by a
\* request that bears it.
ProtectedPathsNeedToken ==
  [][\A c \in Clients :
       Renew(c) \/ UpdateIP(c) \/ CurrentIP(c) =>
         cfg.APIAuthToken = "" \/ request[c].header = <<"bearer", cfg.APIAuthToken>>
    ]_vars

\* The handler of a health check comes to its end, whether or not the command
\* still waits, although runs and the network may hang for ever and checks of
\* the address go on: Service.mu is never held across a call.
HealthAnswers == Handling(Checker) ~> ~Handling(Checker)
=============================================================================
