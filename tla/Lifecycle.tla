----------------------------- MODULE Lifecycle -----------------------------
(***************************************************************************)
(* The life of the process: main (cmd/docker-cert/main.go) from the        *)
(* environment to its exit, the account key it loads or makes              *)
(* (internal/acme/user.go), the goroutines of the HTTP server and of the   *)
(* two schedulers it spawns, and the shutdown that races with them.  A     *)
(* statement of main that only spawns is joined with the next; a goroutine *)
(* starts whenever it is scheduled.                                        *)
(*                                                                         *)
(* What a run of a scheduler does is in AcmeManager and IPUpdater; here it *)
(* begins and ends.                                                        *)
(***************************************************************************)
EXTENDS Config

CONSTANTS Environments, \* what may be in the container's environment
          Volume,       \* the path the data volume is mounted at
          Absent,       \* no such file; no key
          Torn,         \* content of a file not completely written
          MaxStarts     \* bound: starts of the process in a behaviour

ASSUME StartsAssumption == MaxStarts \in Nat \ {0}
ASSUME ListsAssumption  ==
  \A e \in Environments : getEnv(e, "LETSENCRYPT_DOMAIN", <<>>)
                            \in Seq([star : BOOLEAN, name : STRING])
ASSUME KeysAssumption   == Absent \notin Nat /\ Torn \notin Nat /\ Absent # Torn

VARIABLES
  env, starts,   \* the environment, and starts so far
  kept,          \* what the volume holds while the process's files are elsewhere
  main,          \* where main is
  keyFile, key,  \* accounts/default/account.key, and the key in memory
  account,       \* history: the key of the starts before
  server,        \* where the goroutine of Server.Start is
  inShutdown,    \* http.Server.Shutdown was called
  conn,          \* a request is in progress
  missed,        \* history: Server.Shutdown saw no server
  expired,       \* the deadline of shutdownCtx is past
  worker,        \* where each scheduler's goroutines are
  wg, stopChan,  \* its wait group's counter, and whether stopChan is closed
  doneWaiting,   \* ... and where the goroutine is that waits for the counter
  counted        \* history: the counter's value when stopChan was closed

boot    == <<env, starts, kept>>
keys    == <<keyFile, key, account>>
http    == <<server, inShutdown, conn, missed>>
workers == <<worker, wg, stopChan, doneWaiting, counted>>
vars    == <<boot, main, keys, http, expired, workers>>

Schedulers == {"renewal", "ip"}

cfg == LoadConfig(env)

\* The conditions under which main starts, and later stops, a scheduler.
Enabled(s) ==
  IF s = "renewal"
    THEN cfg.RenewalCheckInterval > 0
    ELSE cfg.DuckDNSIPUpdateDomain # <<>> /\ cfg.DuckDNSIPUpdateInterval > 0

Ended == main \in {"down", "exited"}

-----------------------------------------------------------------------------
(***************************************************************************)
(* Start-up: LoadConfig, NewManager with NewUser, the initial run.         *)
(***************************************************************************)

LoadsConfig ==
  /\ main = "config"
  /\ main' = IF ValidateRequired(cfg) THEN "user" ELSE "down"
  /\ UNCHANGED <<boot, keys, http, expired, workers>>

\* The manager has its user: main makes the initial run.
HasUser(k) ==
  /\ main' = "initial" /\ key' = k
  /\ account' = IF account = Absent THEN k ELSE account

LoadKey ==
  /\ main = "user" /\ keyFile \notin {Absent, Torn}
  /\ HasUser(keyFile)
  /\ UNCHANGED <<boot, keyFile, http, expired, workers>>

CreateKeyAlways ==
  /\ main = "user"
  /\ keyFile' = Torn /\ main' = "key"
  /\ UNCHANGED <<boot, key, account, http, expired, workers>>

\* os.WriteFile creates the file empty ...
CreateKey ==
  /\ main = "user" /\ keyFile = Absent
  /\ keyFile' = Torn /\ main' = "key"
  /\ UNCHANGED <<boot, key, account, http, expired, workers>>

\* ... and writes the new key into it.
WriteKey ==
  /\ main = "key"
  /\ keyFile' = starts
  /\ HasUser(starts)
  /\ UNCHANGED <<boot, http, expired, workers>>

\* What is in the file does not parse: logger.Fatalf, at this and every start.
KeyUnusable ==
  /\ main = "user" /\ keyFile = Torn
  /\ main' = "down"
  /\ UNCHANGED <<boot, keys, http, expired, workers>>

\* ManageCertificates returns, and main spawns all that runs from then on.
InitialRunEnds ==
  /\ main = "initial"
  /\ main' = "serving" /\ server' = "spawned"
  /\ worker' = [s \in Schedulers |-> IF Enabled(s) THEN "spawned" ELSE "off"]
  /\ UNCHANGED <<boot, keys, inShutdown, conn, missed, expired,
                 wg, stopChan, doneWaiting, counted>>

-----------------------------------------------------------------------------
(***************************************************************************)
(* The goroutine of Server.Start, and requests.                            *)
(***************************************************************************)

CreateServer ==
  /\ ~Ended /\ server = "spawned"
  /\ server' = "created"
  /\ UNCHANGED <<boot, main, keys, inShutdown, conn, missed, expired, workers>>

\* ListenAndServe returns at once if Shutdown came before it.
Listen ==
  /\ ~Ended /\ server = "created"
  /\ server' = IF inShutdown THEN "closed" ELSE "listening"
  /\ UNCHANGED <<boot, main, keys, inShutdown, conn, missed, expired, workers>>

\* A port that is taken ends the process, from within this goroutine.
ListenFails ==
  /\ ~Ended /\ server = "created" /\ ~inShutdown
  /\ main' = "down"
  /\ UNCHANGED <<boot, keys, http, expired, workers>>

Connect ==
  /\ ~Ended /\ server = "listening" /\ ~conn
  /\ conn' = TRUE
  /\ UNCHANGED <<boot, main, keys, server, inShutdown, missed, expired, workers>>

Respond ==
  /\ ~Ended /\ conn
  /\ conn' = FALSE
  /\ UNCHANGED <<boot, main, keys, server, inShutdown, missed, expired, workers>>

-----------------------------------------------------------------------------
(***************************************************************************)
(* A scheduler: Start and its worker.                                      *)
(***************************************************************************)

\* The worker is counted when its launcher runs, not when main spawns it.
\* StartScheduler makes its first check before it looks at ticker and stopChan.
StartWorker(s) ==
  /\ ~Ended /\ worker[s] = "spawned"
  /\ wg' = [wg EXCEPT ![s] = @ + 1]
  /\ worker' = [worker EXCEPT ![s] = IF s = "ip" THEN "running" ELSE "waiting"]
  /\ UNCHANGED <<boot, main, keys, http, expired, stopChan, doneWaiting, counted>>

\* The worker's select, which may take a tick although stopChan is closed.
Tick(s) ==
  /\ ~Ended /\ worker[s] = "waiting"
  /\ worker' = [worker EXCEPT ![s] = "running"]
  /\ UNCHANGED <<boot, main, keys, http, expired, wg, stopChan, doneWaiting,
                 counted>>

QuitWorkerUncounted(s) ==
  /\ ~Ended /\ worker[s] = "waiting" /\ stopChan[s]
  /\ worker' = [worker EXCEPT ![s] = "stopped"]
  /\ UNCHANGED <<boot, main, keys, http, expired, wg, stopChan, doneWaiting,
                 counted>>

QuitWorker(s) ==
  /\ ~Ended /\ worker[s] = "waiting" /\ stopChan[s]
  /\ worker' = [worker EXCEPT ![s] = "stopped"]
  /\ wg' = [wg EXCEPT ![s] = @ - 1]
  /\ UNCHANGED <<boot, main, keys, http, expired, stopChan, doneWaiting, counted>>

EndRun(s) ==
  /\ ~Ended /\ worker[s] = "running"
  /\ worker' = [worker EXCEPT ![s] = "waiting"]
  /\ UNCHANGED <<boot, main, keys, http, expired, wg, stopChan, doneWaiting,
                 counted>>

-----------------------------------------------------------------------------
(***************************************************************************)
(* Shutdown: the server, then the schedulers one after the other, within   *)
(* one deadline.                                                           *)
(***************************************************************************)

Stopping == {"server", "drain", "renewal", "await renewal", "ip", "await ip"}

Await(s) == IF s = "renewal" THEN "await renewal" ELSE "await ip"
After(s) == IF s = "renewal" THEN "ip" ELSE "exited"

\* SIGTERM or SIGINT.  Before main listens for it, it kills (Die).
Signal ==
  /\ main = "serving"
  /\ main' = "server"
  /\ UNCHANGED <<boot, keys, http, expired, workers>>

Expire ==
  /\ main \in Stopping /\ ~expired
  /\ expired' = TRUE
  /\ UNCHANGED <<boot, main, keys, http, workers>>

\* Server.Shutdown reads s.server, which Start sets without a lock: while that
\* is recent, main may see the old value.
MissServer ==
  /\ main = "server" /\ server \in {"spawned", "created"}
  /\ main' = "renewal" /\ missed' = TRUE
  /\ UNCHANGED <<boot, keys, server, inShutdown, conn, expired, workers>>

CloseServerIfListening ==
  /\ main = "server" /\ server # "spawned"
  /\ main' = "drain"
  /\ inShutdown' = (server = "listening")
  /\ server' = IF server = "listening" THEN "closed" ELSE server
  /\ UNCHANGED <<boot, keys, conn, missed, expired, workers>>

CloseServer ==
  /\ main = "server" /\ server # "spawned"
  /\ main' = "drain"
  /\ inShutdown' = TRUE
  /\ server' = IF server = "listening" THEN "closed" ELSE server
  /\ UNCHANGED <<boot, keys, conn, missed, expired, workers>>

\* http.Server.Shutdown waits for the requests in progress.
Drain ==
  /\ main = "drain" /\ (~conn \/ expired)
  /\ main' = "renewal"
  /\ UNCHANGED <<boot, keys, http, expired, workers>>

\* Stop, or StopScheduler; main leaves out what it did not start.
BeginStop(s) ==
  /\ main = s
  /\ main' = IF Enabled(s) THEN Await(s) ELSE After(s)
  /\ stopChan' = [stopChan EXCEPT ![s] = Enabled(s)]
  /\ counted' = [counted EXCEPT ![s] = wg[s]]
  /\ doneWaiting' = [doneWaiting EXCEPT ![s] = IF Enabled(s) THEN "waiting" ELSE "off"]
  /\ UNCHANGED <<boot, keys, http, expired, worker, wg>>

WaitReturnsAtOnce(s) ==
  /\ ~Ended /\ doneWaiting[s] = "waiting"
  /\ doneWaiting' = [doneWaiting EXCEPT ![s] = "closed"]
  /\ UNCHANGED <<boot, main, keys, http, expired, worker, wg, stopChan, counted>>

\* wg.Wait returns once it finds the counter at zero.
WaitReturns(s) ==
  /\ ~Ended /\ doneWaiting[s] = "waiting" /\ wg[s] = 0
  /\ doneWaiting' = [doneWaiting EXCEPT ![s] = "closed"]
  /\ UNCHANGED <<boot, main, keys, http, expired, worker, wg, stopChan, counted>>

EndStopWhenDone(s) ==
  /\ main = Await(s) /\ doneWaiting[s] = "closed"
  /\ main' = After(s)
  /\ UNCHANGED <<boot, keys, http, expired, workers>>

\* "Stopped gracefully", or "timed out".
EndStop(s) ==
  /\ main = Await(s) /\ (doneWaiting[s] = "closed" \/ expired)
  /\ main' = After(s)
  /\ UNCHANGED <<boot, keys, http, expired, workers>>

-----------------------------------------------------------------------------
(***************************************************************************)
(* The end of a process, and the next one.                                 *)
(***************************************************************************)

\* Killed, or ended by log.Fatalf (NewUser's other errors, for instance).
Die ==
  /\ ~Ended
  /\ main' = "down"
  /\ UNCHANGED <<boot, keys, http, expired, workers>>

FreshProcess ==
  /\ main' = "config" /\ key' = Absent
  /\ server' = "off" /\ inShutdown' = FALSE /\ conn' = FALSE /\ missed' = FALSE
  /\ expired' = FALSE
  /\ worker' = [s \in Schedulers |-> "off"]
  /\ wg' = [s \in Schedulers |-> 0]
  /\ stopChan' = [s \in Schedulers |-> FALSE]
  /\ doneWaiting' = [s \in Schedulers |-> "off"]
  /\ counted' = [s \in Schedulers |-> 0]

\* The container is started again.
Restart ==
  /\ Ended /\ starts < MaxStarts
  /\ starts' = starts + 1
  /\ FreshProcess
  /\ UNCHANGED <<env, kept, keyFile, account>>

\* It is replaced by a new one, perhaps with another environment; of the files,
\* those on the volume stay, and are there again when CERTS_BASE_PATH is.
Nothing == [keyFile |-> Absent, account |-> Absent]

OnVolume(e) == BasePath(e) = Volume

Recreate ==
  /\ Ended /\ starts < MaxStarts
  /\ starts' = starts + 1
  /\ FreshProcess
  /\ \E e \in Environments :
       LET held  == IF OnVolume(env)
                      THEN [keyFile |-> keyFile, account |-> account] ELSE kept
           found == IF OnVolume(e) THEN held ELSE Nothing
       IN  /\ env' = e
           /\ keyFile' = found.keyFile /\ account' = found.account
           /\ kept' = IF OnVolume(e) THEN Nothing ELSE held

Init ==
  /\ env \in Environments /\ starts = 1 /\ kept = Nothing
  /\ main = "config"
  /\ keyFile = Absent /\ key = Absent /\ account = Absent
  /\ server = "off" /\ inShutdown = FALSE /\ conn = FALSE /\ missed = FALSE
  /\ expired = FALSE
  /\ worker = [s \in Schedulers |-> "off"]
  /\ wg = [s \in Schedulers |-> 0]
  /\ stopChan = [s \in Schedulers |-> FALSE]
  /\ doneWaiting = [s \in Schedulers |-> "off"]
  /\ counted = [s \in Schedulers |-> 0]

StartUp == LoadsConfig \/ LoadKey \/ CreateKey \/ WriteKey \/ KeyUnusable
ShutDown == \/ MissServer \/ CloseServer \/ Drain
            \/ \E s \in Schedulers : BeginStop(s) \/ EndStop(s)

Next ==
  \/ StartUp \/ InitialRunEnds \/ Signal \/ Expire \/ ShutDown
  \/ CreateServer \/ Listen \/ ListenFails \/ Connect \/ Respond
  \/ \E s \in Schedulers : \/ StartWorker(s) \/ Tick(s) \/ EndRun(s)
                           \/ QuitWorker(s) \/ WaitReturns(s)
  \/ Die \/ Restart \/ Recreate

Spec == Init /\ [][Next]_vars

(***************************************************************************)
(* Fairness.  Goroutines are scheduled, tickers tick and deadlines pass.   *)
(* No run of a scheduler and no request is assumed to end.                 *)
(***************************************************************************)
Fairness ==
  /\ WF_vars(ShutDown) /\ WF_vars(Expire)
  /\ \A s \in Schedulers : WF_vars(StartWorker(s)) /\ WF_vars(Tick(s))

FairSpec == Spec /\ Fairness

-----------------------------------------------------------------------------
(***************************************************************************)
(* Properties.                                                             *)
(***************************************************************************)

MainStages == {"config", "user", "key", "initial", "serving", "down", "exited"}
              \cup Stopping

\* Types; and a wait group counts exactly the worker that is there.
LifecycleTypeOK ==
  /\ env \in Environments /\ starts \in 1..MaxStarts
  /\ main \in MainStages
  /\ keyFile \in 1..MaxStarts \cup {Absent, Torn}
  /\ key \in 1..MaxStarts \cup {Absent} /\ account \in 1..MaxStarts \cup {Absent}
  /\ kept \in [keyFile : 1..MaxStarts \cup {Absent, Torn},
               account : 1..MaxStarts \cup {Absent}]
  /\ server \in {"off", "spawned", "created", "listening", "closed"}
  /\ inShutdown \in BOOLEAN /\ conn \in BOOLEAN /\ missed \in BOOLEAN
  /\ expired \in BOOLEAN
  /\ worker \in [Schedulers ->
                   {"off", "spawned", "waiting", "running", "stopped"}]
  /\ wg \in [Schedulers -> {0, 1}] /\ counted \in [Schedulers -> {0, 1}]
  /\ stopChan \in [Schedulers -> BOOLEAN]
  /\ doneWaiting \in [Schedulers -> {"off", "waiting", "closed"}]
  /\ \A s \in Schedulers : wg[s] = 1 <=> worker[s] \in {"waiting", "running"}

\* However starts, crashes and errors alternate, a process uses the account key
\* of the processes before it, and a file left torn by a crash or an error was
\* never an account in use.  (An account whose files are not on the volume ends
\* with its container; one on the volume is in use again once its path is.)
AccountKept ==
  /\ key # Absent => key = account
  /\ account # Absent => keyFile = account

\* The end of the process cuts off a scheduler's run only when the deadline is
\* past or the worker was not counted yet when it was to stop: Stop does not
\* report a worker gone that it could have waited for.
ExitCutsOnlyOverdueRuns ==
  \A s \in Schedulers :
    main = "exited" /\ worker[s] = "running" => expired \/ counted[s] = 0

\* Once Shutdown has returned, no request is accepted any more, and one is
\* still in progress only after the deadline, unless Shutdown came before the
\* server was there.
ServerStaysShut ==
  main \in Stopping \ {"server", "drain"} /\ ~missed
    => server # "listening" /\ (conn => expired)

\* Certificates are ordered for the domains the environment lists and, with a
\* wildcard, for the first one with and without it; each once, however the list
\* repeats, has blanks or overlaps with the wildcard.
TargetsCoverList ==
  main = "initial" =>
    LET targets == TargetDomains(cfg)
        list    == getEnv(env, "LETSENCRYPT_DOMAIN", <<>>)
        listed  == {domain \in ToSet(list) : ~IsBlank(domain)}
        first   == Base(cfg.LetsEncryptDomains[1])
    IN  /\ ToSet(targets) =
             listed \cup IF cfg.UseWildcard THEN {first, Star(first)} ELSE {}
        /\ \A i, j \in DOMAIN targets : targets[i] = targets[j] => i = j

\* A shutdown comes to its end, also while a run, or a request, never does.
ShutdownEnds == main \in Stopping ~> Ended

\* In a process that serves, each scheduler comes to a first run and, whenever
\* one has ended, to another, also if its interval is empty, negative or not a
\* duration.  (What zero should mean config.go leaves open; see MCLifecycle.)
ChecksGoOn ==
  \A s \in Schedulers :
    main = "serving" /\ worker[s] # "running"
      ~> worker[s] = "running" \/ main # "serving"
=============================================================================
