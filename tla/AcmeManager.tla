---------------------------- MODULE AcmeManager ----------------------------
(***************************************************************************)
(* ManageCertificates, internal/acme/manager.go, run by main before        *)
(* anything else, then by the renewal scheduler's worker and by one        *)
(* goroutine per API request, over the disk of CertStorage (a runner is a  *)
(* saver).  Manager has no mutex, and runners overlap freely between any   *)
(* two actions; an action joins at most a read with the writes that follow *)
(* it with no call in between.                                             *)
(*                                                                         *)
(* Errors are kept as "nil or not", lastSuccess as "zero or not", and a    *)
(* certificate's age as "near expiry or not".                              *)
(***************************************************************************)
EXTENDS CertStorage

CONSTANTS Main,      \* the runner that is main's initial attempt
          Scheduler  \* the runner that is the renewal scheduler's worker

ASSUME RunnersAssumption == {Main, Scheduler} \subseteq Savers
                            /\ Main # Scheduler

VARIABLES
  lastError, lastSuccess,
  registration, \* user.Registration # nil
  serving,      \* main is past its initial attempt
  pc,           \* where each runner is
  kid,          \* its lego client was built with a registered account
  earliest,     \* the first second in which it can have its order
  unread,       \* history: it could not read live/cert.pem
  expiring,     \* bundles within 30 days of their expiry
  result        \* history: how the last run to return ended

runnerVars  == <<pc, kid, earliest, unread>>
worldVars   == <<expiring, serving>>
managerVars == <<lastError, lastSuccess, registration, runnerVars, worldVars,
                 result>>
vars        == <<storageVars, managerVars>>

AtRest == \A r \in Savers : pc[r] = "idle"

Goto(r, step) == pc' = [pc EXCEPT ![r] = step]

\* The run needs its client, and what it knows of its check, no more.
Forget(r) ==
  /\ kid' = [kid EXCEPT ![r] = FALSE]
  /\ earliest' = [earliest EXCEPT ![r] = 1]
  /\ unread' = [unread EXCEPT ![r] = FALSE]

\* The run returns.  main starts the servers after its own, whatever it gave.
Return(r, how) ==
  /\ Goto(r, "idle") /\ result' = how
  /\ serving' = (serving \/ r = Main)
  /\ Forget(r)
  /\ UNCHANGED expiring

\* An error is recorded and returned.  (It is first recorded where it occurs,
\* and in most cases again here, with nothing but log lines in between; this
\* last write is the one that stays.)
Fail(r) ==
  /\ lastError' = TRUE
  /\ Return(r, "failed")
  /\ UNCHANGED <<lastSuccess, registration>>

-----------------------------------------------------------------------------
(***************************************************************************)
(* ManageCertificates.                                                     *)
(***************************************************************************)

\* An order takes more than a second, so if something was already saved in
\* this one, the run's own save comes in a later one.
SecondAfterStart ==
  IF \E s \in Savers : version[s] = clock THEN clock + 1 ELSE clock

Start(r) ==
  /\ pc[r] = "idle" /\ (serving <=> r # Main)
  /\ lastError' = FALSE
  /\ Goto(r, "check")
  /\ earliest' = [earliest EXCEPT ![r] = SecondAfterStart]
  /\ UNCHANGED <<storageVars, lastSuccess, registration, kid, unread, worldVars,
                 result>>

Fresh == Bundles \ expiring

UpToDateIfMissing(r) ==
  /\ pc[r] = "check" /\ View("cert") \notin expiring
  /\ lastSuccess' = TRUE
  /\ Return(r, "ok")
  /\ UNCHANGED <<storageVars, lastError, registration>>

\* checkAndLogExistingCertStatus: live/cert.pem parses and is not near expiry.
\* A file still being written may or may not hold the leaf already.
UpToDate(r) ==
  /\ pc[r] = "check" /\ View("cert") \in Fresh \cup {Torn}
  /\ lastSuccess' = TRUE
  /\ Return(r, "ok")
  /\ UNCHANGED <<storageVars, lastError, registration>>

RenewalDueAlways(r) ==
  /\ pc[r] = "check"
  /\ Goto(r, "client")
  /\ UNCHANGED <<storageVars, lastError, lastSuccess, registration, kid,
                 earliest, unread, worldVars, result>>

RenewalDue(r) ==
  /\ pc[r] = "check" /\ View("cert") \notin Fresh
  /\ Goto(r, "client")
  /\ UNCHANGED <<storageVars, lastError, lastSuccess, registration, kid,
                 earliest, unread, worldVars, result>>

\* os.ReadFile or the parser fails although the file is there: only logged.
ReadFails(r) ==
  /\ pc[r] = "check" /\ View("cert") # Absent
  /\ unread' = [unread EXCEPT ![r] = TRUE]
  /\ Goto(r, "client")
  /\ UNCHANGED <<storageVars, lastError, lastSuccess, registration, kid,
                 earliest, worldVars, result>>

\* createLegoClient.  lego.NewClient takes the account URL, with which it will
\* sign every request, from user.Registration ...
NewClient(r) ==
  /\ pc[r] = "client"
  /\ kid' = [kid EXCEPT ![r] = registration]
  /\ Goto(r, "register")
  /\ UNCHANGED <<storageVars, lastError, lastSuccess, registration, earliest,
                 unread, worldVars, result>>

ClientFails(r) == pc[r] = "client" /\ Fail(r) /\ UNCHANGED storageVars

\* ... which is reset only afterwards.
ResetRegistrationSkipped(r) ==
  /\ pc[r] = "register"
  /\ Goto(r, "registering")
  /\ UNCHANGED <<storageVars, lastError, lastSuccess, registration, kid,
                 earliest, unread, worldVars, result>>

ResetRegistration(r) ==
  /\ pc[r] = "register"
  /\ registration' = FALSE
  /\ Goto(r, "registering")
  /\ UNCHANGED <<storageVars, lastError, lastSuccess, kid, earliest, unread,
                 worldVars, result>>

\* The CA takes a new-account request only if it is signed with the account
\* key itself, not with the URL of an account.
Registered(r) ==
  /\ pc[r] = "registering" /\ ~kid[r]
  /\ registration' = TRUE
  /\ Goto(r, "obtain")
  /\ UNCHANGED <<storageVars, lastError, lastSuccess, kid, earliest, unread,
                 worldVars, result>>

RegistrationFails(r) ==
  pc[r] = "registering" /\ Fail(r) /\ UNCHANGED storageVars

\* obtainOrRenewWithClient: the order fails, or yields a new bundle that
\* SaveCertificateResource is called with at once.
ObtainFails(r) == pc[r] = "obtain" /\ Fail(r) /\ UNCHANGED storageVars

Obtain(r) ==
  /\ pc[r] = "obtain" /\ (ClockSetBack \/ clock >= earliest[r])
  /\ \E fs \in Resources : BeginSave(r, fs)
  /\ Goto(r, "save") /\ Forget(r)
  /\ UNCHANGED <<lastError, lastSuccess, registration, worldVars, result>>

Save(r) == pc[r] = "save" /\ SaveStep(r) /\ UNCHANGED managerVars

SavedBeforeWrite(r) ==
  /\ pc[r] = "save"
  /\ lastSuccess' = TRUE /\ lastError' = FALSE
  /\ Return(r, "ok")
  /\ UNCHANGED <<storageVars, registration>>

Saved(r) ==
  /\ pc[r] = "save" /\ stage[r] = "done"
  /\ lastSuccess' = TRUE /\ lastError' = FALSE
  /\ Return(r, "ok")
  /\ UNCHANGED <<storageVars, registration>>

SaveFailsQuietly(r) ==
  /\ pc[r] = "save" /\ stage[r] = "failed"
  /\ Return(r, "failed")
  /\ UNCHANGED <<storageVars, lastError, lastSuccess, registration>>

SaveFails(r) ==
  pc[r] = "save" /\ stage[r] = "failed" /\ Fail(r) /\ UNCHANGED storageVars

-----------------------------------------------------------------------------
(***************************************************************************)
(* Time and crashes.                                                       *)
(***************************************************************************)

\* Every bundle whose save is over comes within 30 days of its expiry.  The
\* last one of the behaviour never does.
Expire ==
  LET old == {b \in 1..issued : \A r \in Savers : Saving(r) => b < bundle[r]}
  IN  /\ issued < MaxIssued /\ expiring # expiring \cup old
      /\ expiring' = expiring \cup old
      /\ UNCHANGED <<storageVars, lastError, lastSuccess, registration, serving,
                     runnerVars, result>>

\* The container dies and is started again: NewManager, then main again.
Restart ==
  /\ Crash
  /\ lastError' = FALSE /\ lastSuccess' = FALSE /\ registration' = FALSE
  /\ serving' = FALSE /\ result' = "none"
  /\ pc' = [r \in Savers |-> "idle"]
  /\ kid' = [r \in Savers |-> FALSE]
  /\ earliest' = [r \in Savers |-> 1]
  /\ unread' = [r \in Savers |-> FALSE]
  /\ UNCHANGED expiring

Init ==
  /\ StorageInit
  /\ lastError = FALSE /\ lastSuccess = FALSE /\ registration = FALSE
  /\ serving = FALSE /\ result = "none" /\ expiring = {}
  /\ pc = [r \in Savers |-> "idle"]
  /\ kid = [r \in Savers |-> FALSE]
  /\ earliest = [r \in Savers |-> 1]
  /\ unread = [r \in Savers |-> FALSE]

Internal(r) ==
  \/ UpToDate(r) \/ RenewalDue(r) \/ ReadFails(r)
  \/ NewClient(r) \/ ClientFails(r) \/ ResetRegistration(r)
  \/ Registered(r) \/ RegistrationFails(r)
  \/ Obtain(r) \/ ObtainFails(r)
  \/ Save(r) \/ Saved(r) \/ SaveFails(r)

Passes == Expire \/ (TimePasses /\ UNCHANGED managerVars)

Next == Passes \/ Restart \/ \E r \in Savers : Start(r) \/ Internal(r)

Spec == Init /\ [][Next]_vars

(***************************************************************************)
(* Fairness.  Goroutines run, time passes, the scheduler's ticker fires    *)
(* for ever, and a CA that is asked for ever answers for ever.             *)
(***************************************************************************)
Fairness ==
  /\ WF_vars(Start(Main)) /\ WF_vars(Start(Scheduler))
  /\ WF_vars(Tick /\ UNCHANGED managerVars)
  /\ \A r \in Savers : /\ WF_vars(Internal(r))
                       /\ SF_vars(NewClient(r))
                       /\ SF_vars(Registered(r))
                       /\ SF_vars(Obtain(r))

FairSpec == Spec /\ Fairness

\* What the rest of the program sees.
Runs == INSTANCE CertRuns
          WITH Runners <- Savers, running <- {r \in Savers : pc[r] # "idle"}

\* What GetStatus reports.
Status == Runs!Status

-----------------------------------------------------------------------------
(***************************************************************************)
(* Properties.                                                             *)
(***************************************************************************)

Steps == {"idle", "check", "client", "register", "registering", "obtain", "save"}

\* Types; and a save is under way exactly for the runners that wait for one.
ManagerTypeOK ==
  /\ StorageTypeOK
  /\ lastError \in BOOLEAN /\ lastSuccess \in BOOLEAN
  /\ registration \in BOOLEAN /\ serving \in BOOLEAN
  /\ pc \in [Savers -> Steps] /\ kid \in [Savers -> BOOLEAN]
  /\ earliest \in [Savers -> 1..MaxIssued + 1] /\ unread \in [Savers -> BOOLEAN]
  /\ expiring \subseteq 1..issued
  /\ result \in {"none", "ok", "failed"}
  /\ \A r \in Savers : /\ Saving(r) => pc[r] = "save"
                       /\ pc[r] = "save" => stage[r] # "idle"

\* When runs never overlap, what is reported between two runs is how the last
\* one ended: no error path forgets lastError and no success leaves an old one.
StatusReflectsLastRun == AtRest => (lastError <=> result = "failed")

\* While no run is in progress, "ok" means a complete certificate is in live/,
\* even if a later save failed half-way or the disk was left by a crash.
OkHasCertificate ==
  AtRest /\ Status = "ok" => View("cert") \in Bundles

\* However runs overlap, as long as the file system fails no call and nothing
\* dies, once all have returned "ok" means that a certificate and a key are in
\* live/: no interleaving of the unsynchronised error field with the removal and
\* relinking of names reports "ok" over a missing file.
OkHasFiles ==
  AtRest /\ Status = "ok" => Absent \notin {View("cert"), View("privkey")}

\* While no run is in progress, "ok" means that the private key in live/ is
\* the one of the certificate in live/.
OkHasPair ==
  AtRest /\ Status = "ok" => View("privkey") = View("cert")

\* A certificate is ordered only when live/ shows none, or one near expiry, or
\* one that the run could not read.
OrdersOnlyWhenDue ==
  [][\A r \in Savers : Obtain(r) => View("cert") \notin Fresh \/ unread[r]]_vars

\* However runs overlap, every run marks its beginning and its end in the status
\* as CertRuns promises: none ends unreported.
ImplementsRuns == Runs!Spec

\* Registration is always attempted without an account URL, as the reset
\* before it intends.
RegistersAfresh == \A r \in Savers : pc[r] = "registering" => ~kid[r]

\* Whatever the CA refuses and whatever fails or dies on the way, live/ gets
\* back to a certificate that is not near expiry, again and again, as long as
\* the behaviour has a bundle left to issue.
CertificateStaysFresh == []<>(View("cert") \in Fresh \/ issued = MaxIssued)
=============================================================================
