--------------------------- MODULE LifecycleProofs ---------------------------
(***************************************************************************)
(* What Lifecycle keeps true for any environments and any number of        *)
(* starts.                                                                 *)
(***************************************************************************)
EXTENDS Lifecycle, ConfigProofs

(***************************************************************************)
(* Types.  A wait group counts right because its worker starts at zero:    *)
(* until main is past its initial run there is none.                       *)
(***************************************************************************)

StartStages == {"config", "user", "key", "initial"}

NoWorkerYet ==
  main \in StartStages => \A s \in Schedulers : worker[s] = "off"

Starts == 1..MaxStarts

ProcessTypes ==
  /\ env \in Environments /\ starts \in Starts
  /\ main \in MainStages
  /\ keyFile \in Starts \cup {Absent, Torn}
  /\ key \in Starts \cup {Absent} /\ account \in Starts \cup {Absent}
  /\ kept \in [keyFile : Starts \cup {Absent, Torn},
               account : Starts \cup {Absent}]
  /\ server \in {"off", "spawned", "created", "listening", "closed"}
  /\ inShutdown \in BOOLEAN /\ conn \in BOOLEAN /\ missed \in BOOLEAN
  /\ expired \in BOOLEAN

WorkerTypes ==
  /\ worker \in [Schedulers ->
                   {"off", "spawned", "waiting", "running", "stopped"}]
  /\ wg \in [Schedulers -> {0, 1}] /\ counted \in [Schedulers -> {0, 1}]
  /\ stopChan \in [Schedulers -> BOOLEAN]
  /\ doneWaiting \in [Schedulers -> {"off", "waiting", "closed"}]
  /\ \A s \in Schedulers : wg[s] = 1 <=> worker[s] \in {"waiting", "running"}

TypeInv == ProcessTypes /\ WorkerTypes /\ NoWorkerYet

\* Whatever an environment says, an interval is a number.
LEMMA DurationIsNumber ==
  ASSUME NEW str, NEW default \in Int PROVE parseDuration(str, default) \in Int
BY DurationsAssumption DEF parseDuration

LEMMA EnabledIsBoolean == ASSUME NEW s \in Schedulers PROVE Enabled(s) \in BOOLEAN
<1>1. cfg.RenewalCheckInterval
        = parseDuration(getEnv(env, "RENEWAL_CHECK_INTERVAL_HOURS", "12h"),
                        TwelveHours)
  BY DEF cfg, LoadConfig
<1>2. cfg.DuckDNSIPUpdateInterval
        = parseDuration(getEnv(env, "DUCKDNS_IP_UPDATE_INTERVAL_SECONDS", "300s"),
                        FiveMinutes)
  BY DEF cfg, LoadConfig
<1>3. cfg.RenewalCheckInterval \in Int /\ cfg.DuckDNSIPUpdateInterval \in Int
  BY <1>1, <1>2, DurationIsNumber DEF TwelveHours, FiveMinutes
<1>4. Enabled("renewal") \in BOOLEAN
  BY <1>3 DEF Enabled
<1>5. Enabled("ip") \in BOOLEAN
  BY <1>3 DEF Enabled
<1>. QED
  BY <1>4, <1>5 DEF Schedulers

\* Of the process, everything but main changes in a few actions each.
LEMMA ProcessStep == ProcessTypes /\ [Next]_vars => ProcessTypes'
<1>. SUFFICES ASSUME ProcessTypes, [Next]_vars PROVE ProcessTypes'
  OBVIOUS
<1>. DEFINE process == <<boot, main, keys, http, expired>>
<1>1. ASSUME UNCHANGED process PROVE ProcessTypes'
  <2>1. /\ env' = env /\ starts' = starts /\ kept' = kept
        /\ main' = main /\ expired' = expired
        /\ keyFile' = keyFile /\ key' = key /\ account' = account
        /\ server' = server /\ inShutdown' = inShutdown /\ conn' = conn
        /\ missed' = missed
    BY <1>1 DEF boot, keys, http
  <2>. QED
    BY <2>1 DEF ProcessTypes
<1>2. ASSUME NEW s \in Schedulers,
             \/ StartWorker(s) \/ Tick(s) \/ EndRun(s) \/ QuitWorker(s)
             \/ WaitReturns(s)
      PROVE  ProcessTypes'
  BY <1>1, <1>2 DEF StartWorker, Tick, EndRun, QuitWorker, WaitReturns
<1>3. CASE Restart \/ Recreate
  <2>1. starts \in Starts
    BY DEF ProcessTypes
  <2>2. starts' \in Starts
    BY <1>3, <2>1, StartsAssumption DEF Restart, Recreate, Starts
  <2>. DEFINE Files == [keyFile : Starts \cup {Absent, Torn},
                        account : Starts \cup {Absent}]
  <2>3. /\ env' \in Environments /\ kept' \in Files /\ FreshProcess
        /\ keyFile' \in Starts \cup {Absent, Torn}
        /\ account' \in Starts \cup {Absent}
    <3>1. CASE Restart
      BY <3>1 DEF Restart, ProcessTypes
    <3>2. CASE Recreate
      <4>1. PICK e \in Environments :
              LET held  == IF OnVolume(env)
                             THEN [keyFile |-> keyFile, account |-> account]
                             ELSE kept
                  found == IF OnVolume(e) THEN held ELSE Nothing
              IN  /\ env' = e
                  /\ keyFile' = found.keyFile /\ account' = found.account
                  /\ kept' = IF OnVolume(e) THEN Nothing ELSE held
        BY <3>2, Zenon DEF Recreate
      <4>2. Nothing \in Files
        BY DEF Nothing
      <4>3. [keyFile |-> keyFile, account |-> account] \in Files /\ kept \in Files
        BY DEF ProcessTypes
      <4>4. FreshProcess
        BY <3>2 DEF Recreate
      <4>. HIDE DEF Nothing, OnVolume
      <4>. QED
        BY <4>1, <4>2, <4>3, <4>4
    <3>. QED
      BY <1>3, <3>1, <3>2
  <2>4. main' \in MainStages /\ key' = Absent
    BY <2>3 DEF FreshProcess, MainStages
  <2>5. /\ server' = "off" /\ inShutdown' \in BOOLEAN /\ conn' \in BOOLEAN
        /\ missed' \in BOOLEAN /\ expired' \in BOOLEAN
    BY <2>3 DEF FreshProcess
  <2>. QED
    BY <2>2, <2>3, <2>4, <2>5 DEF ProcessTypes
<1>. USE DEF ProcessTypes, MainStages, Stopping, boot, keys, http, Ended
<1>4. CASE LoadsConfig \/ KeyUnusable \/ InitialRunEnds
  BY <1>4 DEF LoadsConfig, KeyUnusable, InitialRunEnds
<1>5. CASE LoadKey
  BY <1>5 DEF LoadKey, HasUser
<1>6. CASE CreateKey \/ WriteKey
  BY <1>6 DEF CreateKey, WriteKey, HasUser
<1>7. CASE CreateServer \/ Listen
  BY <1>7 DEF CreateServer, Listen
<1>8. CASE Connect \/ Respond
  <2>1. UNCHANGED <<boot, main, keys, server, inShutdown, missed, expired>>
        /\ conn' \in BOOLEAN
    BY ONLY <1>8 DEF Connect, Respond
  <2>. HIDE DEF MainStages, Stopping
  <2>. QED
    BY <2>1, Zenon DEF ProcessTypes, boot, keys
<1>a. ASSUME UNCHANGED <<boot, keys, http>>, main' \in MainStages,
             expired' \in BOOLEAN
      PROVE  ProcessTypes'
  BY <1>a, Zenon DEF ProcessTypes, boot, keys, http
<1>9. ASSUME NEW s \in Schedulers, BeginStop(s) \/ EndStop(s)
      PROVE  ProcessTypes'
  <2>1. UNCHANGED <<boot, keys, http, expired>> /\ main' \in {Await(s), After(s)}
    BY ONLY <1>9 DEF BeginStop, EndStop
  <2>2. Await(s) \in MainStages /\ After(s) \in MainStages
    BY DEF Await, After
  <2>3. main' \in MainStages /\ expired' \in BOOLEAN
    BY <2>1, <2>2
  <2>. QED
    BY <1>a, <2>1, <2>3, Zenon
<1>10. CASE Signal \/ Expire \/ Die
  <2>1. UNCHANGED <<boot, keys, http>> /\ main' \in MainStages /\ expired' \in BOOLEAN
    BY <1>10 DEF Signal, Expire, Die
  <2>. QED
    BY <1>a, <2>1, Zenon
<1>11. CASE ListenFails
  BY <1>11 DEF ListenFails
<1>b. CASE MissServer
  BY <1>b DEF MissServer
<1>c. CASE CloseServer
  BY <1>c DEF CloseServer
<1>d. CASE Drain
  BY <1>d DEF Drain
<1>12. CASE UNCHANGED vars
  BY <1>1, <1>12 DEF vars
<1>. HIDE DEF ProcessTypes
<1>. QED
  BY <1>2, <1>3, <1>4, <1>5, <1>6, <1>7, <1>8, <1>9, <1>10, <1>11, <1>12,
     <1>b, <1>c, <1>d DEF Next, StartUp, ShutDown

LEMMA WorkerStep ==
  WorkerTypes /\ NoWorkerYet /\ [Next]_vars => WorkerTypes' /\ NoWorkerYet'
<1>. SUFFICES ASSUME WorkerTypes, NoWorkerYet, [Next]_vars
              PROVE  WorkerTypes' /\ NoWorkerYet'
  OBVIOUS
<1>. USE DEF WorkerTypes, NoWorkerYet, StartStages
<1>1. CASE StartUp
  BY <1>1
     DEF StartUp, LoadsConfig, LoadKey, KeyUnusable, CreateKey, WriteKey,
         HasUser, workers
<1>2. CASE InitialRunEnds
  BY <1>2 DEF InitialRunEnds
<1>3. CASE CreateServer \/ Listen \/ ListenFails \/ Connect \/ Respond
  BY <1>3 DEF CreateServer, Listen, ListenFails, Connect, Respond, workers
<1>4. ASSUME NEW s \in Schedulers, StartWorker(s) \/ QuitWorker(s)
      PROVE  WorkerTypes' /\ NoWorkerYet'
  BY <1>4 DEF StartWorker, QuitWorker
<1>5. ASSUME NEW s \in Schedulers, Tick(s) \/ EndRun(s)
      PROVE  WorkerTypes' /\ NoWorkerYet'
  BY <1>5 DEF Tick, EndRun
<1>6. ASSUME NEW s \in Schedulers, BeginStop(s)
      PROVE  WorkerTypes' /\ NoWorkerYet'
  BY <1>6, EnabledIsBoolean DEF BeginStop, Await, After, Schedulers
<1>7. ASSUME NEW s \in Schedulers, WaitReturns(s) \/ EndStop(s)
      PROVE  WorkerTypes' /\ NoWorkerYet'
  BY <1>7 DEF WaitReturns, EndStop, Await, After, workers
<1>8. CASE Signal \/ Expire \/ Die
  BY <1>8 DEF Signal, Expire, Die, workers
<1>9. CASE MissServer \/ CloseServer \/ Drain
  BY <1>9 DEF MissServer, CloseServer, Drain, workers
<1>10. CASE Restart \/ Recreate
  <2>1. FreshProcess
    BY <1>10 DEF Restart, Recreate
  <2>. QED
    BY <2>1 DEF FreshProcess
<1>11. CASE UNCHANGED vars
  BY <1>11 DEF vars, workers
<1>. HIDE DEF WorkerTypes, NoWorkerYet
<1>. QED
  BY <1>1, <1>2, <1>3, <1>4, <1>5, <1>6, <1>7, <1>8, <1>9, <1>10, <1>11
     DEF Next, ShutDown

LEMMA TypesHold == Spec => []TypeInv
<1>1. ASSUME Init PROVE ProcessTypes
  <2>1. starts \in Starts
    BY <1>1, StartsAssumption DEF Init, Starts
  <2>. QED
    BY <1>1, <2>1 DEF Init, Nothing, ProcessTypes, MainStages
<1>2. Init => WorkerTypes /\ NoWorkerYet
  BY DEF Init, WorkerTypes, NoWorkerYet
<1>. QED
  BY <1>1, <1>2, ProcessStep, WorkerStep, PTL DEF Spec, TypeInv

\* In every life of the process, a wait group counts exactly its worker, so
\* that Done never finds the counter at zero and Wait never hangs on a worker
\* that has gone.
THEOREM LifecycleTypeCorrect == Spec => []LifecycleTypeOK
<1>1. TypeInv => LifecycleTypeOK
  BY DEF TypeInv, ProcessTypes, WorkerTypes, LifecycleTypeOK, Starts
<1>. QED
  BY <1>1, TypesHold, PTL

-----------------------------------------------------------------------------
(***************************************************************************)
(* The account key.  A file that NewUser finds missing or torn belongs to  *)
(* no account, so that the key it writes becomes the first.                *)
(***************************************************************************)

KeyInv ==
  /\ AccountKept
  /\ main = "key" => keyFile = Torn
  /\ kept.account # Absent => kept.keyFile = kept.account

LEMMA KeyStep == ProcessTypes /\ KeyInv /\ [Next]_vars => KeyInv'
<1>. SUFFICES ASSUME ProcessTypes, KeyInv, [Next]_vars PROVE KeyInv'
  OBVIOUS
<1>. USE DEF KeyInv, AccountKept
<1>0. account # Torn /\ Torn # Absent /\ starts # Absent
  BY KeysAssumption, StartsAssumption DEF ProcessTypes, Starts
<1>1. CASE LoadKey
  BY <1>1 DEF LoadKey, HasUser, boot
<1>2. CASE CreateKey
  BY <1>0, <1>2 DEF CreateKey, boot
<1>3. CASE WriteKey
  BY <1>0, <1>3 DEF WriteKey, HasUser, boot
<1>4. CASE \/ LoadsConfig \/ KeyUnusable \/ Signal \/ Die \/ ListenFails
           \/ MissServer \/ CloseServer \/ Drain
  BY <1>4 DEF LoadsConfig, KeyUnusable, Signal, Die, ListenFails, MissServer,
              CloseServer, Drain, keys, boot
<1>5. CASE \/ InitialRunEnds \/ CreateServer \/ Listen \/ Connect \/ Respond
           \/ Expire
  BY <1>5 DEF InitialRunEnds, CreateServer, Listen, Connect, Respond, Expire,
              keys, boot
<1>6. ASSUME NEW s \in Schedulers, BeginStop(s) \/ EndStop(s) PROVE KeyInv'
  BY <1>6 DEF BeginStop, EndStop, Await, After, keys, boot
<1>7. ASSUME NEW s \in Schedulers,
             \/ StartWorker(s) \/ Tick(s) \/ EndRun(s) \/ QuitWorker(s)
             \/ WaitReturns(s)
      PROVE  KeyInv'
  BY <1>7 DEF StartWorker, Tick, EndRun, QuitWorker, WaitReturns, keys, boot
<1>8. CASE Restart
  BY <1>8 DEF Restart, FreshProcess
<1>a. CASE Recreate
  <2>. DEFINE held == IF OnVolume(env)
                        THEN [keyFile |-> keyFile, account |-> account] ELSE kept
              Sound(files) == files.account # Absent => files.keyFile = files.account
  <2>1. Sound(held) /\ Sound(Nothing)
    BY DEF Nothing
  <2>2. key' = Absent /\ main' = "config"
    BY <1>a DEF Recreate, FreshProcess
  <2>3. PICK e \in Environments :
          LET found == IF OnVolume(e) THEN held ELSE Nothing
          IN  /\ keyFile' = found.keyFile /\ account' = found.account
              /\ kept' = IF OnVolume(e) THEN Nothing ELSE held
    BY <1>a, Zenon DEF Recreate
  <2>. HIDE DEF held, Nothing, OnVolume
  <2>. QED
    BY <2>1, <2>2, <2>3
<1>9. CASE UNCHANGED vars
  BY <1>9 DEF vars, keys, boot
<1>. HIDE DEF KeyInv
<1>. QED
  BY <1>1, <1>2, <1>3, <1>4, <1>5, <1>6, <1>7, <1>8, <1>9, <1>a
     DEF Next, StartUp, ShutDown

\* Whatever the environment, and however starts, crashes inside the write of
\* the key and changes of the container alternate, a process that gets past
\* NewUser has the account of those before it.
THEOREM AccountCorrect == Spec => []AccountKept
<1>1. Init => KeyInv
  BY DEF Init, Nothing, KeyInv, AccountKept
<1>2. KeyInv => AccountKept
  BY DEF KeyInv
<1>. QED
  BY <1>1, <1>2, TypesHold, KeyStep, PTL DEF Spec, TypeInv

-----------------------------------------------------------------------------
(***************************************************************************)
(* What the end of the process cuts off.  A worker that was counted when   *)
(* its stop began can only wait, run or be gone; once the counter has been *)
(* seen at zero it is gone.  Past a scheduler's stop, the deadline is      *)
(* past, or the counter was seen at zero, or the scheduler had never been  *)
(* enabled.                                                                *)
(***************************************************************************)

PastStop(s) ==
  main \in (IF s = "renewal" THEN {"ip", "await ip", "exited"} ELSE {"exited"})

StopInv ==
  \A s \in Schedulers :
    /\ worker[s] # "off" => Enabled(s)
    /\ counted[s] = 1 => worker[s] \in {"waiting", "running", "stopped"}
    /\ counted[s] = 1 /\ doneWaiting[s] = "closed" => worker[s] = "stopped"
    /\ PastStop(s) => \/ expired \/ doneWaiting[s] = "closed"
                      \/ worker[s] = "off"

LEMMA EnabledKept == UNCHANGED env => \A s : Enabled(s)' = Enabled(s)
BY DEF Enabled, cfg, LoadConfig

LEMMA StopStep == TypeInv /\ StopInv /\ [Next]_vars => StopInv'
<1>. SUFFICES ASSUME TypeInv, StopInv, [Next]_vars PROVE StopInv'
  OBVIOUS
<1>. USE DEF StopInv, PastStop, Schedulers, Ended
<1>0. WorkerTypes /\ NoWorkerYet
  BY DEF TypeInv
<1>1. ASSUME UNCHANGED workers, UNCHANGED env, UNCHANGED expired,
             \A s \in Schedulers : PastStop(s)' => PastStop(s)
      PROVE  StopInv'
  BY <1>1, EnabledKept DEF workers
<1>2. CASE StartUp
  BY <1>1, <1>2
     DEF StartUp, LoadsConfig, LoadKey, CreateKey, WriteKey, KeyUnusable,
         HasUser, boot
<1>3. CASE InitialRunEnds
  BY <1>0, <1>3, EnabledKept DEF InitialRunEnds, boot, NoWorkerYet, StartStages
<1>4. CASE \/ CreateServer \/ Listen \/ ListenFails \/ Connect \/ Respond
           \/ Signal \/ Die \/ MissServer \/ CloseServer \/ Drain
  BY <1>1, <1>4
     DEF CreateServer, Listen, ListenFails, Connect, Respond, Signal, Die,
         MissServer, CloseServer, Drain, boot
<1>5. CASE Expire
  BY <1>5, EnabledKept DEF Expire, boot, workers
<1>6. ASSUME NEW s \in Schedulers, StartWorker(s) PROVE StopInv'
  BY <1>0, <1>6, EnabledKept DEF StartWorker, boot, WorkerTypes
<1>7. ASSUME NEW s \in Schedulers, Tick(s) \/ EndRun(s) PROVE StopInv'
  <2>1. /\ worker[s] \in {"waiting", "running"}
        /\ \E next \in {"waiting", "running"} :
             worker' = [worker EXCEPT ![s] = next]
        /\ UNCHANGED <<env, main, expired, doneWaiting, counted>>
    BY <1>7 DEF Tick, EndRun, boot
  <2>. QED
    BY <1>0, <2>1, EnabledKept DEF WorkerTypes
<1>8. ASSUME NEW s \in Schedulers, QuitWorker(s) PROVE StopInv'
  BY <1>0, <1>8, EnabledKept DEF QuitWorker, boot, WorkerTypes
<1>9. ASSUME NEW s \in Schedulers, WaitReturns(s) PROVE StopInv'
  <2>1. worker[s] \notin {"waiting", "running"}
    <3>. HIDE DEF StopInv
    <3>. QED
      BY <1>0, <1>9 DEF WaitReturns, WorkerTypes
  <2>2. /\ doneWaiting' = [doneWaiting EXCEPT ![s] = "closed"]
        /\ UNCHANGED <<env, main, expired, worker, counted>>
    BY <1>9 DEF WaitReturns, boot
  <2>. QED
    BY <1>0, <2>1, <2>2, EnabledKept DEF WorkerTypes
<1>10. ASSUME NEW s \in Schedulers, BeginStop(s) PROVE StopInv'
  BY <1>0, <1>10, EnabledKept DEF BeginStop, Await, After, boot, WorkerTypes
<1>11. ASSUME NEW s \in Schedulers, EndStop(s) PROVE StopInv'
  BY <1>0, <1>11, EnabledKept DEF EndStop, Await, After, boot, workers
<1>12. CASE Restart \/ Recreate
  <2>1. FreshProcess
    BY <1>12 DEF Restart, Recreate
  <2>2. \A s \in Schedulers : worker'[s] = "off" /\ counted'[s] = 0
    BY <2>1 DEF FreshProcess
  <2>3. \A s \in Schedulers : ~PastStop(s)'
    BY <2>1 DEF FreshProcess
  <2>. HIDE DEF PastStop, Schedulers
  <2>. QED
    BY <2>2, <2>3
<1>13. CASE UNCHANGED vars
  BY <1>1, <1>13 DEF vars, boot
<1>. HIDE DEF StopInv
<1>. QED
  BY <1>2, <1>3, <1>4, <1>5, <1>6, <1>7, <1>8, <1>9, <1>10, <1>11, <1>12,
     <1>13 DEF Next, ShutDown

\* For any environment: if a process ends by itself while a scheduler's run is
\* under way, the 15 s are over or the worker did not exist when Stop looked.
THEOREM ExitCorrect == Spec => []ExitCutsOnlyOverdueRuns
<1>1. Init => StopInv
  BY DEF Init, StopInv, PastStop, Schedulers
<1>2. TypeInv /\ StopInv => ExitCutsOnlyOverdueRuns
  BY DEF TypeInv, WorkerTypes, StopInv, PastStop, ExitCutsOnlyOverdueRuns,
         Schedulers
<1>. QED
  BY <1>1, <1>2, TypesHold, StopStep, PTL DEF Spec

-----------------------------------------------------------------------------
(***************************************************************************)
(* The server.                                                             *)
(***************************************************************************)

ServerInv ==
  /\ inShutdown => server # "listening"
  /\ main \in Stopping \ {"server"} /\ ~missed => inShutdown
  /\ main \in Stopping \ {"server", "drain"} /\ ~missed => (conn => expired)

LEMMA ServerStep == ProcessTypes /\ ServerInv /\ [Next]_vars => ServerInv'
<1>. SUFFICES ASSUME ProcessTypes, ServerInv, [Next]_vars PROVE ServerInv'
  OBVIOUS
<1>. USE DEF ServerInv, Stopping, Ended, http
<1>1. ASSUME UNCHANGED http, UNCHANGED expired,
             main' \in Stopping \ {"server"} => main' = main
      PROVE  ServerInv'
  BY <1>1
<1>2. CASE StartUp \/ Signal \/ Die \/ ListenFails
  <2>1. UNCHANGED http /\ UNCHANGED expired /\ main' \notin Stopping \ {"server"}
    <3>. HIDE DEF http, ServerInv
    <3>. QED
      BY <1>2 DEF StartUp, LoadsConfig, LoadKey, CreateKey, WriteKey,
                  KeyUnusable, HasUser, Signal, Die, ListenFails
  <2>. QED
    BY <1>1, <2>1
<1>3. CASE InitialRunEnds
  BY <1>3 DEF InitialRunEnds
<1>4. CASE Expire
  BY <1>4 DEF Expire
<1>5. CASE CreateServer
  BY <1>5 DEF CreateServer
<1>6. CASE Listen
  BY <1>6 DEF Listen
<1>7. CASE Connect
  BY <1>7 DEF Connect
<1>8. CASE Respond
  BY <1>8 DEF Respond
<1>9. CASE MissServer
  BY <1>9 DEF MissServer
<1>10. CASE CloseServer
  BY <1>10 DEF CloseServer
<1>11. CASE Drain
  BY <1>11 DEF Drain
<1>12. ASSUME NEW s \in Schedulers, BeginStop(s) PROVE ServerInv'
  BY <1>12 DEF BeginStop, Await, After, Schedulers
<1>13. ASSUME NEW s \in Schedulers, EndStop(s) PROVE ServerInv'
  BY <1>13 DEF EndStop, Await, After, Schedulers
<1>14. ASSUME NEW s \in Schedulers,
              \/ StartWorker(s) \/ Tick(s) \/ EndRun(s) \/ QuitWorker(s)
              \/ WaitReturns(s)
       PROVE  ServerInv'
  BY <1>1, <1>14 DEF StartWorker, Tick, EndRun, QuitWorker, WaitReturns
<1>15. CASE Restart \/ Recreate
  <2>1. FreshProcess
    BY <1>15 DEF Restart, Recreate
  <2>. QED
    BY <2>1 DEF FreshProcess
<1>16. CASE UNCHANGED vars
  BY <1>1, <1>16 DEF vars
<1>. HIDE DEF ServerInv
<1>. QED
  BY <1>2, <1>3, <1>4, <1>5, <1>6, <1>7, <1>8, <1>9, <1>10, <1>11, <1>12,
     <1>13, <1>14, <1>15, <1>16 DEF Next, ShutDown

\* However Start and Shutdown race, a server that Shutdown saw accepts nothing
\* afterwards, and outlives its requests unless the deadline passed.
THEOREM ServerCorrect == Spec => []ServerStaysShut
<1>1. Init => ServerInv
  BY DEF Init, ServerInv, Stopping
<1>2. ServerInv => ServerStaysShut
  BY DEF ServerInv, ServerStaysShut
<1>. QED
  BY <1>1, <1>2, TypesHold, ServerStep, PTL DEF Spec, TypeInv

-----------------------------------------------------------------------------
(***************************************************************************)
(* The names a certificate is ordered for.  A process that makes its       *)
(* initial run has had its configuration accepted, so that its list has a  *)
(* first name; what the loop makes of the list is TakenCovers.             *)
(***************************************************************************)

Accepted == main \in {"user", "key", "initial"} => ValidateRequired(cfg)

LEMMA AcceptedStep == Accepted /\ [Next]_vars => Accepted'
<1>. SUFFICES ASSUME Accepted, [Next]_vars PROVE Accepted'
  OBVIOUS
<1>0. ASSUME UNCHANGED boot PROVE cfg' = cfg
  BY <1>0 DEF boot, cfg
<1>. DEFINE Early == {"user", "key", "initial"}
<1>1. ASSUME UNCHANGED boot, main' \in Early => ValidateRequired(cfg)
      PROVE  Accepted'
  BY <1>0, <1>1 DEF Accepted
<1>2. CASE LoadsConfig
  <2>1. UNCHANGED boot /\ main' = IF ValidateRequired(cfg) THEN "user" ELSE "down"
    BY <1>2 DEF LoadsConfig
  <2>. QED
    BY <1>1, <2>1
<1>3. CASE LoadKey \/ CreateKey \/ WriteKey
  BY <1>1, <1>3 DEF LoadKey, CreateKey, WriteKey, HasUser, Accepted, boot
<1>4. CASE \/ KeyUnusable \/ InitialRunEnds \/ Signal \/ Die \/ ListenFails
           \/ MissServer \/ CloseServer \/ Drain
  BY <1>1, <1>4 DEF KeyUnusable, InitialRunEnds, Signal, Die, ListenFails,
                    MissServer, CloseServer, Drain, boot
<1>5. CASE CreateServer \/ Listen \/ Connect \/ Respond \/ Expire
  BY <1>1, <1>5 DEF CreateServer, Listen, Connect, Respond, Expire, boot,
                    Accepted
<1>6. ASSUME NEW s \in Schedulers, BeginStop(s) \/ EndStop(s) PROVE Accepted'
  BY <1>1, <1>6 DEF BeginStop, EndStop, Await, After, boot
<1>7. ASSUME NEW s \in Schedulers,
             \/ StartWorker(s) \/ Tick(s) \/ EndRun(s) \/ QuitWorker(s)
             \/ WaitReturns(s)
      PROVE  Accepted'
  BY <1>1, <1>7 DEF StartWorker, Tick, EndRun, QuitWorker, WaitReturns, boot,
                    Accepted
<1>8. CASE Restart \/ Recreate
  <2>1. main' = "config"
    BY <1>8 DEF Restart, Recreate, FreshProcess
  <2>. QED
    BY <2>1 DEF Accepted
<1>9. CASE UNCHANGED vars
  BY <1>1, <1>9 DEF vars, boot, Accepted
<1>. QED
  BY <1>2, <1>3, <1>4, <1>5, <1>6, <1>7, <1>8, <1>9 DEF Next, StartUp, ShutDown

\* The list of an accepted environment has a first name, and none is blank.
LEMMA ListHasFirst ==
  ASSUME env \in Environments, ValidateRequired(cfg)
  PROVE  /\ cfg.LetsEncryptDomains \in Seq([star : BOOLEAN, name : STRING])
         /\ ToSet(cfg.LetsEncryptDomains)
              = {domain \in ToSet(getEnv(env, "LETSENCRYPT_DOMAIN", <<>>)) :
                   ~IsBlank(domain)}
         /\ cfg.LetsEncryptDomains[1] \in [star : BOOLEAN, name : STRING]
         /\ cfg.UseWildcard \in BOOLEAN
<1>. DEFINE D == [star : BOOLEAN, name : STRING]
            list == getEnv(env, "LETSENCRYPT_DOMAIN", <<>>)
<1>1. cfg.LetsEncryptDomains = parseStringSlice(list)
  BY DEF cfg, LoadConfig
<1>2. cfg.UseWildcard \in BOOLEAN
  <2>1. cfg.UseWildcard
          = parseBool(getEnv(env, "LETSENCRYPT_WILDCARD", "false"))
    BY DEF cfg, LoadConfig
  <2>2. ASSUME NEW str PROVE parseBool(str) \in BOOLEAN
    <3>1. PICK true : parseBool(str) = (str \in true)
      BY Zenon DEF parseBool
    <3>2. (str \in true) \in BOOLEAN
      OBVIOUS
    <3>. QED
      BY <3>1, <3>2, Zenon
  <2>. QED
    BY <2>1, <2>2, Zenon
<1>3. list \in Seq(D)
  BY ListsAssumption
<1>4. cfg.LetsEncryptDomains # <<>>
  BY Zenon DEF ValidateRequired
<1>. HIDE DEF list, D
<1>5. cfg.LetsEncryptDomains \in Seq(D)
  BY <1>1, <1>3, KeptItems
<1>6. cfg.LetsEncryptDomains[1] \in D
  BY <1>4, <1>5
<1>7. ToSet(cfg.LetsEncryptDomains) = {domain \in ToSet(list) : ~IsBlank(domain)}
  BY <1>1, <1>3, KeptItems
<1>. QED
  BY <1>2, <1>5, <1>6, <1>7 DEF D, list

\* For every list of domains, the names of the order are those of the list
\* and, with a wildcard, the first one with and without it, and none of them
\* is there twice.
LEMMA TargetsRight ==
  ASSUME env \in Environments, ValidateRequired(cfg)
  PROVE  LET targets == TargetDomains(cfg)
             first   == Base(cfg.LetsEncryptDomains[1])
         IN  /\ ToSet(targets) = ToSet(cfg.LetsEncryptDomains) \cup
                  IF cfg.UseWildcard THEN {first, Star(first)} ELSE {}
             /\ NoRepeats(targets)
<1>. DEFINE D      == [star : BOOLEAN, name : STRING]
            list   == cfg.LetsEncryptDomains
            first  == Base(list[1])
            before == IF cfg.UseWildcard THEN <<Star(first), first>> ELSE <<>>
<1>1. list \in Seq(D) /\ list[1] \in D /\ cfg.UseWildcard \in BOOLEAN
  BY ListHasFirst
<1>. HIDE DEF list
<1>2. first \in D /\ Star(first) \in D /\ first # Star(first)
  BY <1>1 DEF Base, Star
<1>3. /\ before \in Seq(D) /\ NoRepeats(before)
      /\ ToSet(before) = IF cfg.UseWildcard THEN {first, Star(first)} ELSE {}
  <2>. HIDE DEF first, D
  <2>1. <<>> \in Seq(D) /\ NoRepeats(<<>>) /\ ToSet(<<>>) = {}
    BY DEF NoRepeats, ToSet
  <2>2. /\ <<Star(first), first>> \in Seq(D)
        /\ NoRepeats(<<Star(first), first>>)
        /\ ToSet(<<Star(first), first>>) = {first, Star(first)}
    BY <1>2 DEF NoRepeats, ToSet
  <2>. QED
    BY <1>1, <2>1, <2>2
<1>4. TargetDomains(cfg) = Taken(before, list)
  BY DEF TargetDomains, list
<1>5. /\ ToSet(Taken(before, list)) = ToSet(before) \cup ToSet(list)
      /\ NoRepeats(Taken(before, list))
  <2>. HIDE DEF before, D
  <2>. QED
    BY <1>1, <1>3, TakenCovers
<1>. HIDE DEF before, first
<1>6. /\ ToSet(TargetDomains(cfg)) = ToSet(list) \cup
           IF cfg.UseWildcard THEN {first, Star(first)} ELSE {}
      /\ NoRepeats(TargetDomains(cfg))
  BY <1>3, <1>4, <1>5
<1>. QED
  BY <1>6 DEF list, first

\* However long the list and however often it names a domain, the certificate
\* is ordered for each of its names, and for the wildcard, once.
THEOREM TargetsCorrect == Spec => []TargetsCoverList
<1>1. Init => Accepted
  BY DEF Init, Accepted
<1>2. ProcessTypes /\ Accepted => TargetsCoverList
  <2>1. ASSUME main = "initial", ProcessTypes, Accepted
        PROVE  env \in Environments /\ ValidateRequired(cfg)
    BY <2>1 DEF ProcessTypes, Accepted
  <2>. QED
    BY <2>1, TargetsRight, ListHasFirst DEF TargetsCoverList, NoRepeats
<1>. QED
  BY <1>1, <1>2, TypesHold, AcceptedStep, PTL DEF Spec, TypeInv
=============================================================================
