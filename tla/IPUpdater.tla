----------------------------- MODULE IPUpdater -----------------------------
(***************************************************************************)
(* The DuckDNS address updater, internal/ipupdater/duckdns_ip_updater.go:  *)
(* any number of goroutines inside CheckAndPerformIPUpdate at once (the    *)
(* one main starts, the scheduler's worker, one per API request), sharing  *)
(* one Service.  A critical section of Service.mu is one action; between   *)
(* two of them, and around every network call, the others may run.         *)
(*                                                                         *)
(* Times are kept only as "zero or not", which is all GetStatus asks of    *)
(* them, and errors as "nil or not".  lastIPv6 is left out: the IPv6 fetch *)
(* is commented out in the source, so it is "" for ever.                   *)
(***************************************************************************)

CONSTANTS
  Callers,              \* goroutines that may run CheckAndPerformIPUpdate
  Scheduler,            \* the caller that is the scheduler's worker
  Addrs,                \* public IPv4 addresses
  NoAddr,               \* the empty string
  Domains,              \* shapes of DuckDNSIPUpdateDomain to consider
  DuckDNSToken,         \* DUCKDNS_TOKEN
  DuckDNSIPUpdateToken, \* DUCKDNS_IP_UPDATE_TOKEN, or its default
  OwnerToken,           \* the token DuckDNS accepts for the domain
  ReplyLoss             \* may an update that was applied look failed?

ASSUME CallersAssumption == Scheduler \in Callers
ASSUME AddrsAssumption   == NoAddr \notin Addrs /\ Addrs # {}
ASSUME DomainsAssumption == Domains \subseteq {"none", "duckdns", "other"}
ASSUME LossAssumption    == ReplyLoss \in BOOLEAN

VARIABLES
  domain,                 \* config.DuckDNSIPUpdateDomain, fixed by LoadConfig
  lastIPv4, lastError, lastSuccess, lastCheckAttempt, initialUpdatePerformed,
  pc, cur,                \* where each caller is, and its currentIPv4
  publicIP, record,       \* the host's address, and the domain's A record
  outcome                 \* history: result of the last check to return

memory == <<lastIPv4, lastError, lastSuccess, lastCheckAttempt,
            initialUpdatePerformed>>
vars   == <<domain, memory, pc, cur, publicIP, record, outcome>>

\* Inside UpdateDuckDNSIP, or past it and not yet committed.
UpdateStages == {"wire", "accepted", "refused", "failed", "updated"}
Stages       == {"idle", "fetch", "decide", "update"} \cup UpdateStages

AtRest      == \A c \in Callers : pc[c] = "idle"
Updating(c) == pc[c] \in UpdateStages

Goto(c, stage) == pc' = [pc EXCEPT ![c] = stage]

\* The check returns; only the history variable remembers how.
Return(c, result) == Goto(c, "idle") /\ outcome' = result

-----------------------------------------------------------------------------
(***************************************************************************)
(* CheckAndPerformIPUpdate, up to its decision.                            *)
(***************************************************************************)

SkipCheck(c) ==
  /\ pc[c] = "idle" /\ domain = "none"
  /\ lastCheckAttempt' = TRUE
  /\ UNCHANGED <<domain, lastIPv4, lastError, lastSuccess,
                 initialUpdatePerformed, pc, cur, publicIP, record, outcome>>

StartCheck(c) ==
  /\ pc[c] = "idle" /\ domain # "none"
  /\ lastCheckAttempt' = TRUE
  /\ Goto(c, "fetch")
  /\ UNCHANGED <<domain, lastIPv4, lastError, lastSuccess,
                 initialUpdatePerformed, cur, publicIP, record, outcome>>

FetchFails(c) ==
  /\ pc[c] = "fetch"
  /\ lastError' = TRUE
  /\ Return(c, "failed")
  /\ UNCHANGED <<domain, lastIPv4, lastSuccess, lastCheckAttempt,
                 initialUpdatePerformed, cur, publicIP, record>>

\* ipify answers with the address of the moment, or 200 with an empty body.
FetchAnswers(c, addr) ==
  /\ pc[c] = "fetch"
  /\ cur' = [cur EXCEPT ![c] = addr]
  /\ Goto(c, "decide")
  /\ UNCHANGED <<domain, memory, publicIP, record, outcome>>

Fetched(c)   == FetchAnswers(c, publicIP)
EmptyBody(c) == FetchAnswers(c, NoAddr)

HasAddressAlways(c) == TRUE
HasAddress(c)       == cur[c] # NoAddr

NoAddress(c) ==
  /\ pc[c] = "decide" /\ ~HasAddress(c)
  /\ lastError' = TRUE
  /\ Return(c, "failed")
  /\ UNCHANGED <<domain, lastIPv4, lastSuccess, lastCheckAttempt,
                 initialUpdatePerformed, cur, publicIP, record>>

NeedsUpdateOnce(c)       == ~initialUpdatePerformed
NeedsUpdateIfKnown(c)    == \/ ~initialUpdatePerformed
                            \/ lastIPv4 # NoAddr /\ cur[c] # lastIPv4
NeedsUpdate(c)           == ~initialUpdatePerformed \/ cur[c] # lastIPv4

NoChange(c) ==
  /\ pc[c] = "decide" /\ HasAddress(c) /\ ~NeedsUpdate(c)
  /\ lastError' = FALSE
  /\ Return(c, "ok")
  /\ UNCHANGED <<domain, lastIPv4, lastSuccess, lastCheckAttempt,
                 initialUpdatePerformed, cur, publicIP, record>>

ChangeFound(c) ==
  /\ pc[c] = "decide" /\ HasAddress(c) /\ NeedsUpdate(c)
  /\ initialUpdatePerformed' = TRUE
  /\ Goto(c, "update")
  /\ UNCHANGED <<domain, lastIPv4, lastError, lastSuccess, lastCheckAttempt,
                 cur, publicIP, record, outcome>>

-----------------------------------------------------------------------------
(***************************************************************************)
(* UpdateDuckDNSIP.  It clears lastError first, then refuses a domain that *)
(* is not under duckdns.org, then sends one request.                       *)
(***************************************************************************)

\* The token CheckAndPerformIPUpdate hands to UpdateDuckDNSIP.
SentToken == DuckDNSToken

BeginUpdate(c) ==
  /\ pc[c] = "update"
  /\ lastError' = FALSE
  /\ Goto(c, IF domain = "duckdns" THEN "wire" ELSE "failed")
  /\ UNCHANGED <<domain, lastIPv4, lastSuccess, lastCheckAttempt,
                 initialUpdatePerformed, cur, publicIP, record, outcome>>

\* DuckDNS applies the request and answers OK.
Accept(c) ==
  /\ pc[c] = "wire" /\ SentToken = OwnerToken
  /\ record' = cur[c]
  /\ Goto(c, "accepted")
  /\ UNCHANGED <<domain, memory, cur, publicIP, outcome>>

\* KO, a status other than 200, or no connection: nothing was applied.
Refuse(c) ==
  /\ pc[c] = "wire"
  /\ Goto(c, "refused")
  /\ UNCHANGED <<domain, memory, cur, publicIP, record, outcome>>

\* The request was applied, but the answer never arrives (the client's 30 s
\* timeout, a reset connection, an unreadable body).
LoseReply(c) ==
  /\ ReplyLoss /\ pc[c] = "accepted"
  /\ Goto(c, "refused")
  /\ UNCHANGED <<domain, memory, cur, publicIP, record, outcome>>

ReplyError(c) ==
  /\ pc[c] = "refused"
  /\ lastError' = TRUE
  /\ Goto(c, "failed")
  /\ UNCHANGED <<domain, lastIPv4, lastSuccess, lastCheckAttempt,
                 initialUpdatePerformed, cur, publicIP, record, outcome>>

ReplyOK(c) ==
  /\ pc[c] = "accepted"
  /\ lastSuccess' = TRUE
  /\ Goto(c, "updated")
  /\ UNCHANGED <<domain, lastIPv4, lastError, lastCheckAttempt,
                 initialUpdatePerformed, cur, publicIP, record, outcome>>

-----------------------------------------------------------------------------
(***************************************************************************)
(* The end of CheckAndPerformIPUpdate, under the mutex again.              *)
(***************************************************************************)

CommitFailureSilently(c) ==
  /\ pc[c] = "failed"
  /\ Return(c, "failed")
  /\ UNCHANGED <<domain, memory, cur, publicIP, record>>

CommitFailureRemembers(c) ==
  /\ pc[c] = "failed"
  /\ lastError' = TRUE /\ lastIPv4' = cur[c]
  /\ Return(c, "failed")
  /\ UNCHANGED <<domain, lastSuccess, lastCheckAttempt,
                 initialUpdatePerformed, cur, publicIP, record>>

CommitFailureForgets(c) ==
  /\ pc[c] = "failed"
  /\ lastError' = TRUE /\ initialUpdatePerformed' = FALSE
  /\ Return(c, "failed")
  /\ UNCHANGED <<domain, lastIPv4, lastSuccess, lastCheckAttempt, cur,
                 publicIP, record>>

CommitFailure(c) ==
  /\ pc[c] = "failed"
  /\ lastError' = TRUE
  /\ Return(c, "failed")
  /\ UNCHANGED <<domain, lastIPv4, lastSuccess, lastCheckAttempt,
                 initialUpdatePerformed, cur, publicIP, record>>

CommitSuccess(c) ==
  /\ pc[c] = "updated"
  /\ lastIPv4' = cur[c] /\ lastSuccess' = TRUE /\ lastError' = FALSE
  /\ Return(c, "ok")
  /\ UNCHANGED <<domain, lastCheckAttempt, initialUpdatePerformed, cur,
                 publicIP, record>>

-----------------------------------------------------------------------------
(***************************************************************************)
(* The rest of the world.                                                  *)
(***************************************************************************)

\* The provider gives the host another address.
AddressChanges ==
  /\ publicIP' \in Addrs \ {publicIP}
  /\ UNCHANGED <<domain, memory, pc, cur, record, outcome>>

\* NewService: everything at its zero value, no goroutine running.
FreshService ==
  [lastIPv4 |-> NoAddr, lastError |-> FALSE, lastSuccess |-> FALSE,
   lastCheckAttempt |-> FALSE, initialUpdatePerformed |-> FALSE]

\* The container dies at any point and is started again.
Restart ==
  /\ lastIPv4' = FreshService.lastIPv4
  /\ lastError' = FreshService.lastError
  /\ lastSuccess' = FreshService.lastSuccess
  /\ lastCheckAttempt' = FreshService.lastCheckAttempt
  /\ initialUpdatePerformed' = FreshService.initialUpdatePerformed
  /\ pc' = [c \in Callers |-> "idle"]
  /\ cur' = [c \in Callers |-> NoAddr]
  /\ outcome' = "none"
  /\ UNCHANGED <<domain, publicIP, record>>

Init ==
  /\ domain \in Domains
  /\ lastIPv4 = NoAddr /\ lastError = FALSE /\ lastSuccess = FALSE
  /\ lastCheckAttempt = FALSE /\ initialUpdatePerformed = FALSE
  /\ pc = [c \in Callers |-> "idle"]
  /\ cur = [c \in Callers |-> NoAddr]
  /\ publicIP \in Addrs
  /\ record \in Addrs \cup {NoAddr}
  /\ outcome = "none"

Internal(c) ==
  \/ FetchFails(c) \/ Fetched(c) \/ EmptyBody(c)
  \/ NoAddress(c) \/ NoChange(c) \/ ChangeFound(c)
  \/ BeginUpdate(c) \/ Accept(c) \/ Refuse(c) \/ LoseReply(c)
  \/ ReplyError(c) \/ ReplyOK(c)
  \/ CommitFailure(c) \/ CommitSuccess(c)

Step(c) == SkipCheck(c) \/ StartCheck(c) \/ Internal(c)

\* What happens while one process stays up.
Running == AddressChanges \/ \E c \in Callers : Step(c)
Next    == Running \/ Restart

Spec == Init /\ [][Next]_vars

(***************************************************************************)
(* Fairness.  A goroutine that can run does; the scheduler's ticker fires  *)
(* for ever; and each remote service, asked for ever, answers for ever.    *)
(***************************************************************************)
Fairness ==
  /\ WF_vars(StartCheck(Scheduler))
  /\ \A c \in Callers : /\ WF_vars(Internal(c))
                        /\ SF_vars(Fetched(c))
                        /\ SF_vars(Accept(c))
                        /\ SF_vars(ReplyOK(c))

FairSpec == Init /\ [][Running]_vars /\ Fairness

-----------------------------------------------------------------------------
(***************************************************************************)
(* What the service reports.                                               *)
(***************************************************************************)

Status ==
  CASE domain = "none"                       -> "disabled"
    [] domain # "none" /\ lastError          -> "error"
    [] domain # "none" /\ ~lastError /\ ~lastSuccess
         /\ ~initialUpdatePerformed          -> "initializing"
    [] OTHER                                 -> "ok"

\* What the rest of the program sees.
Runs == INSTANCE IPRuns
          WITH status <- Status, running <- {c \in Callers : pc[c] # "idle"}

-----------------------------------------------------------------------------
(***************************************************************************)
(* Properties.                                                             *)
(***************************************************************************)

\* Types; and a caller past its decision always has an address to send, so
\* that the record is never overwritten with an empty one
\* (CheckAndPerformIPUpdate gives up when both families are empty).
TypeOK ==
  /\ domain \in {"none", "duckdns", "other"}
  /\ lastIPv4 \in Addrs \cup {NoAddr}
  /\ lastError \in BOOLEAN /\ lastSuccess \in BOOLEAN
  /\ lastCheckAttempt \in BOOLEAN /\ initialUpdatePerformed \in BOOLEAN
  /\ pc \in [Callers -> Stages]
  /\ cur \in [Callers -> Addrs \cup {NoAddr}]
  /\ publicIP \in Addrs /\ record \in Addrs \cup {NoAddr}
  /\ outcome \in {"none", "ok", "failed"}
  /\ \A c \in Callers : pc[c] \in {"update"} \cup UpdateStages =>
                          cur[c] \in Addrs

\* Whatever the callers' interleaving, while none of them is inside an update
\* lastError is set exactly when the last check to return failed: no caller's
\* clearing of the field hides another's failure, and no old error survives
\* a later success.
StatusReflectsLastCheck ==
  (\A c \in Callers : ~Updating(c)) => (lastError <=> outcome = "failed")

\* Once all callers are done, "ok" is reported only if this process did
\* publish an address: a failed first update, which has already set
\* initialUpdatePerformed, is tried again and is not taken for "no change".
OkMeansPublished ==
  AtRest /\ Status = "ok" => lastIPv4 # NoAddr

\* The status changes only by a check in progress, never returns to
\* "initializing" while the process lives, and is "disabled" for ever or never:
\* what other components assume of the service (IPRuns).
ImplementsRuns == Runs!Spec

\* Once all callers are done, the address the service remembers, the one it
\* compares the next fetch with, is the address DuckDNS holds.
RememberedIsPublished ==
  AtRest /\ lastIPv4 # NoAddr => record = lastIPv4

\* If the host keeps its address from some time on, the record ends up with
\* that address and keeps it.
RecordFollowsAddress ==
  \A a \in Addrs : <>[](publicIP = a) => <>[](record = a)
=============================================================================
