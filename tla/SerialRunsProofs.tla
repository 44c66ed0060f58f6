-------------------------- MODULE SerialRunsProofs --------------------------
(***************************************************************************)
(* ManageCertificates when only main and the renewal scheduler run it, on  *)
(* a clock that is never set back: what the theorems about saves that do   *)
(* not overlap say of live/, and of what is ordered and reported, whatever *)
(* fails or dies.                                                          *)
(***************************************************************************)
EXTENDS AcmeManagerProofs

\* A run is main's before the servers start, and the scheduler's afterwards.
LEMMA OnlyRun ==
  ASSUME Savers = {Main, Scheduler}, InTurn,
         NEW r \in Savers, pc[r] # "idle", NEW s \in Savers, s # r
  PROVE  pc[s] = "idle"
BY DEF InTurn

-----------------------------------------------------------------------------
(***************************************************************************)
(* What is ordered.  Nothing happens on the disk between a run's check and *)
(* its order, since no other run is in progress.                           *)
(***************************************************************************)

Ordering == {"client", "register", "registering", "obtain"}

DueStill ==
  \A r \in Savers : pc[r] \in Ordering => View("cert") \notin Fresh \/ unread[r]

LEMMA DueStep ==
  ASSUME Savers = {Main, Scheduler}, ManagerTypeOK, InTurn, DueStill, [Next]_vars
  PROVE  DueStill'
<1>. USE DEF Ordering, Goto
<1>1. /\ pc \in [Savers -> Steps] /\ unread \in [Savers -> BOOLEAN]
  BY DEF ManagerTypeOK
<1>2. ASSUME UNCHANGED disk PROVE View("cert")' = View("cert")
  BY <1>2 DEF View, disk
<1>3. ASSUME UNCHANGED disk, UNCHANGED expiring,
             NEW r \in Savers,
             \A s \in Savers \ {r} : pc'[s] = pc[s] /\ unread'[s] = unread[s],
             pc'[r] \in Ordering =>
               \/ View("cert") \notin Fresh \/ unread'[r]
               \/ pc[r] \in Ordering /\ unread'[r] = unread[r]
      PROVE  DueStill'
  BY <1>2, <1>3 DEF DueStill, Fresh
<1>4. ASSUME NEW r \in Savers, OffDisk(r) PROVE DueStill'
  <2>1. UNCHANGED disk
    BY <1>4, OffDiskKeepsDisk DEF storageVars
  <2>2. CASE RenewalDue(r) \/ ReadFails(r)
    BY <1>1, <1>3, <2>1, <2>2 DEF RenewalDue, ReadFails, worldVars
  <2>3. CASE NewClient(r) \/ ResetRegistration(r) \/ Registered(r)
    BY <1>1, <1>3, <2>1, <2>3
       DEF NewClient, ResetRegistration, Registered, worldVars
  <2>4. CASE Start(r)
    BY <1>1, <1>3, <2>1, <2>4 DEF Start, worldVars
  <2>5. ASSUME NEW how, Return(r, how) PROVE DueStill'
    BY <1>1, <1>3, <2>1, <2>5 DEF Return, Forget
  <2>. QED
    BY <1>4, <2>2, <2>3, <2>4, <2>5
       DEF OffDisk, UpToDate, ClientFails, RegistrationFails, ObtainFails, Saved,
           SaveFails, Fail
<1>5. ASSUME NEW r \in Savers, Obtain(r) PROVE DueStill'
  <2>1. UNCHANGED disk
    BY <1>5 DEF Obtain, BeginSave
  <2>. QED
    BY <1>1, <1>3, <1>5, <2>1 DEF Obtain, Forget, worldVars
<1>6. ASSUME NEW r \in Savers, Save(r) PROVE DueStill'
  <2>1. \A s \in Savers : pc'[s] \notin Ordering
    BY <1>6, OnlyRun DEF Save, managerVars, runnerVars
  <2>. QED
    BY <2>1 DEF DueStill
<1>7. CASE Passes
  <2>1. UNCHANGED <<disk, pc, unread>> /\ expiring \subseteq expiring'
    BY <1>7 DEF Passes, Expire, TimePasses, Clock, storageVars, managerVars,
                runnerVars, worldVars
  <2>. QED
    BY <1>2, <2>1 DEF DueStill, Fresh
<1>8. CASE Restart
  BY <1>8 DEF Restart, DueStill
<1>9. CASE UNCHANGED vars
  <2>1. UNCHANGED <<disk, pc, unread, expiring>>
    BY <1>9 DEF vars, storageVars, managerVars, runnerVars, worldVars
  <2>. QED
    BY <1>2, <2>1 DEF DueStill, Fresh
<1>. QED
  BY <1>4, <1>5, <1>6, <1>7, <1>8, <1>9 DEF Next, Internal, OffDisk

\* Main's runs and the scheduler's order a certificate only when live/ shows
\* none, one near expiry, or one the run could not read, even if the clock is
\* set back.
THEOREM OrdersCorrect ==
  ASSUME Savers = {Main, Scheduler} PROVE Spec => OrdersOnlyWhenDue
<1>. DEFINE DueInv == ManagerTypeOK /\ SerialInv /\ DueStill
<1>1. Init => DueInv
  <2>1. Init => DueStill
    BY DEF Init, DueStill, Ordering
  <2>. QED
    BY <2>1, ManagerTypeInitially, TurnInitially
<1>2. DueInv /\ [Next]_vars => DueInv'
  BY ManagerTypeStep, TurnStep, DueStep DEF SerialInv
<1>3. DueInv => \A r \in Savers : Obtain(r) => View("cert") \notin Fresh \/ unread[r]
  BY DEF DueStill, Obtain, Ordering
<1>. QED
  BY <1>1, <1>2, <1>3, PTL DEF Spec, OrdersOnlyWhenDue
-----------------------------------------------------------------------------
(***************************************************************************)
(* The disk.  No second passes unnoticed between a save and the next run's *)
(* order, so saves neither overlap nor share a timestamp.                  *)
(***************************************************************************)

\* The order of a run comes in a later second than every save before it.
OrdersLater ==
  \A r \in Savers : pc[r] \notin {"idle", "save"} =>
    \A s \in Savers : version[s] < earliest[r]

\* Who is in a save, or has just ended it, has the newest bundle.
SavesNewest == \A r \in Savers : pc[r] = "save" => bundle[r] = issued /\ issued # 0

SerialSaves == /\ ManagerTypeOK /\ SerialInv /\ SerialDisk
               /\ OrdersLater /\ SavesNewest

LEMMA OrderIsAlone ==
  ASSUME Savers = {Main, Scheduler}, ~ClockSetBack, SerialSaves,
         NEW r \in Savers, Obtain(r)
  PROVE  Alone
<1>1. pc[r] = "obtain" /\ clock >= earliest[r]
  BY DEF Obtain
<1>2. ASSUME NEW t \in Savers PROVE ~Saving(t)
  BY <1>1, <1>2, OnlyRun DEF SerialSaves, SerialInv, ManagerTypeOK
<1>3. ASSUME NEW t \in Savers PROVE version[t] < clock
  <2>1. version[t] < earliest[r]
    BY <1>1 DEF SerialSaves, OrdersLater
  <2>2. version[t] \in Nat /\ clock \in Nat /\ earliest[r] \in Nat
    BY BoundsAssumption DEF SerialSaves, ManagerTypeOK, StorageTypeOK, Versions
  <2>. QED
    BY <1>1, <2>1, <2>2
<1>. QED
  BY <1>2, <1>3 DEF Alone

LEMMA OnlyOrdersIssue ==
  ASSUME ManagerTypeOK, [Next]_vars, issued' # issued
  PROVE  \E r \in Savers : Obtain(r)
<1>1. ASSUME NEW r \in Savers, OffDisk(r) PROVE issued' = issued
  BY <1>1, OffDiskKeepsDisk DEF storageVars
<1>2. ASSUME NEW r \in Savers, Save(r) PROVE issued' = issued
  BY <1>2, SaveKeepsStages DEF Save, ManagerTypeOK
<1>3. CASE Passes \/ Restart \/ UNCHANGED vars
  BY <1>3 DEF Passes, Expire, TimePasses, Clock, Restart, Crash, vars, storageVars
<1>. QED
  BY <1>1, <1>2, <1>3 DEF Next, Internal, OffDisk

LEMMA SaveKeepsJob ==
  ASSUME NEW s \in Savers, SaveStep(s) PROVE UNCHANGED <<clock, issued, job>>
BY DEF SaveStep, OpenArchive, DropLink, RemoveLink, RemoveFails, StatFails,
       WriteArchive, StartLinks, CreateLink, LinkExists, FinishSave, CallFails

LEMMA LaterStep ==
  ASSUME Savers = {Main, Scheduler}, SerialSaves, [Next]_vars
  PROVE  OrdersLater' /\ SavesNewest'
<1>. USE DEF Goto
<1>1. /\ pc \in [Savers -> Steps] /\ earliest \in [Savers -> 1..MaxIssued + 1]
      /\ \A s \in Savers : version[s] \in Nat /\ version[s] <= clock
      /\ bundle \in [Savers -> 0..MaxIssued] /\ version \in [Savers -> 0..MaxIssued]
      /\ clock \in Nat /\ issued \in Nat
  BY BoundsAssumption DEF SerialSaves, ManagerTypeOK, SerialDisk, Books,
                          StorageTypeOK, Versions
<1>2. OrdersLater /\ SavesNewest
  BY DEF SerialSaves
<1>3. ASSUME UNCHANGED <<version, bundle, issued>>,
             \A r \in Savers :
               /\ pc'[r] = "save" => pc[r] = "save"
               /\ pc'[r] \notin {"idle", "save"} =>
                    \/ pc[r] \notin {"idle", "save"} /\ earliest'[r] = earliest[r]
                    \/ \A s \in Savers : version[s] < earliest'[r]
      PROVE  OrdersLater' /\ SavesNewest'
  BY <1>2, <1>3 DEF OrdersLater, SavesNewest
<1>4. ASSUME NEW r \in Savers, OffDisk(r) PROVE OrdersLater' /\ SavesNewest'
  <2>1. UNCHANGED <<version, bundle, issued>>
    BY <1>4, OffDiskKeepsDisk DEF storageVars, job
  <2>2. CASE Start(r)
    <3>1. \A s \in Savers : version[s] < SecondAfterStart
      BY <1>1 DEF SecondAfterStart
    <3>2. /\ pc' = [pc EXCEPT ![r] = "check"]
          /\ earliest' = [earliest EXCEPT ![r] = SecondAfterStart]
      BY <2>2 DEF Start
    <3>. QED
      BY <1>1, <1>3, <2>1, <3>1, <3>2
  <2>3. CASE \/ RenewalDue(r) \/ ReadFails(r) \/ NewClient(r)
             \/ ResetRegistration(r) \/ Registered(r)
    <3>1. /\ pc[r] \notin {"idle", "save"} /\ UNCHANGED earliest
          /\ \E step \in Steps \ {"save"} : pc' = [pc EXCEPT ![r] = step]
      BY <2>3 DEF RenewalDue, ReadFails, NewClient, ResetRegistration, Registered,
                  Steps
    <3>. QED
      BY <1>1, <1>3, <2>1, <3>1
  <2>4. ASSUME NEW how, Return(r, how) PROVE OrdersLater' /\ SavesNewest'
    <3>1. /\ pc' = [pc EXCEPT ![r] = "idle"]
          /\ earliest' = [earliest EXCEPT ![r] = 1]
      BY <2>4 DEF Return, Forget
    <3>. QED
      BY <1>1, <1>3, <2>1, <3>1
  <2>. QED
    BY <1>4, <2>2, <2>3, <2>4
       DEF OffDisk, UpToDate, ClientFails, RegistrationFails, ObtainFails, Saved,
           SaveFails, Fail
<1>5. ASSUME NEW r \in Savers, Obtain(r) PROVE OrdersLater' /\ SavesNewest'
  <2>1. \A s \in Savers \ {r} : pc[s] = "idle"
    BY <1>5, OnlyRun DEF Obtain, SerialSaves, SerialInv
  <2>2. /\ pc' = [pc EXCEPT ![r] = "save"] /\ issued' = issued + 1
        /\ bundle' = [bundle EXCEPT ![r] = issued']
    BY <1>5 DEF Obtain, BeginSave
  <2>. QED
    BY <1>1, <2>1, <2>2 DEF OrdersLater, SavesNewest
<1>6. ASSUME NEW r \in Savers, Save(r) PROVE OrdersLater' /\ SavesNewest'
  <2>1. UNCHANGED <<version, bundle, issued, pc, earliest>>
    BY <1>6, SaveKeepsJob DEF Save, job, managerVars, runnerVars
  <2>. QED
    BY <1>3, <2>1
<1>7. CASE Passes \/ UNCHANGED vars
  <2>1. UNCHANGED <<version, bundle, issued, pc, earliest>>
    BY <1>7 DEF Passes, Expire, TimePasses, Clock, storageVars, job, managerVars,
                runnerVars, vars
  <2>. QED
    BY <1>3, <2>1
<1>8. CASE Restart
  BY <1>8 DEF Restart, OrdersLater, SavesNewest
<1>. QED
  BY <1>4, <1>5, <1>6, <1>7, <1>8 DEF Next, Internal, OffDisk

LEMMA SerialSavesStep ==
  ASSUME Savers = {Main, Scheduler}, ~ClockSetBack, SerialSaves, [Next]_vars
  PROVE  SerialSaves'
<1>1. issued' # issued => Alone
  BY OnlyOrdersIssue, OrderIsAlone DEF SerialSaves
<1>2. SerialDisk'
  BY <1>1, DiskStep, SerialStep DEF SerialSaves
<1>3. ManagerTypeOK' /\ SerialInv'
  BY ManagerTypeStep, TurnStep DEF SerialSaves
<1>. QED
  BY <1>2, <1>3, LaterStep DEF SerialSaves

LEMMA SerialSavesInitially ==
  ASSUME Savers = {Main, Scheduler}, Init PROVE SerialSaves
<1>1. SerialDisk
  BY SerialInitially DEF Init
<1>2. OrdersLater /\ SavesNewest
  BY DEF Init, OrdersLater, SavesNewest
<1>. QED
  BY <1>1, <1>2, ManagerTypeInitially, TurnInitially DEF SerialSaves

\* Under main and the scheduler, across failures of every kind and restarts,
\* the live directory implements LiveDirectory: no file of the newest bundle is
\* taken away, none of an older one comes back, and none is shown half written.
THEOREM ManagedPromiseKept ==
  ASSUME Savers = {Main, Scheduler}, ~ClockSetBack PROVE Spec => LivePromise
<1>1. Init => SerialSaves
  BY SerialSavesInitially
<1>2. SerialSaves /\ [Next]_vars => SerialSaves'
  BY SerialSavesStep
<1>3. Init => Promise!Init
  BY DEF Init, StorageInit, Promise!Init, View
<1>4. SerialSaves /\ [Next]_vars => [Promise!Next]_Promise!vars
  BY DiskStep, PromiseStep DEF SerialSaves
<1>. QED
  BY <1>1, <1>2, <1>3, <1>4, PTL DEF Spec, LivePromise, Promise!Spec
-----------------------------------------------------------------------------
(***************************************************************************)
(* What "ok" says of live/: while no run is in progress nobody touches the *)
(* disk, so it is as the run that reported "ok" found it or left it.       *)
(***************************************************************************)

OkIsTrue == /\ lastSuccess => result # "none"
            /\ AtRest /\ result = "ok" => View("cert") \in Bundles

LEMMA SavedShows ==
  ASSUME SerialSaves, NEW s \in Savers, pc[s] = "save", stage[s] = "done",
         NEW k \in Mandatory
  PROVE  View(k) = issued /\ issued \in Bundles
<1>. USE DEF SerialSaves, SerialDisk
<1>1. bundle[s] = issued /\ issued # 0
  BY DEF SavesNewest
<1>2. k \in Kinds /\ k \in files[s]
  BY DEF Books, Mandatory, Resources
<1>3. Served(s, k)
  BY <1>1, <1>2 DEF ServedByNow, LinkedByNow
<1>4. version[s] # Absent /\ issued \in Bundles
  BY <1>1, SentinelsAssumption DEF StorageTypeOK, Bundles
<1>. QED
  BY <1>1, <1>2, <1>3, <1>4 DEF Served, View, File

LEMMA FreshIsWhole ==
  ASSUME SerialDisk, View("cert") \in Fresh \cup {Torn}
  PROVE  View("cert") \in Bundles
<1>1. Torn # Absent /\ Torn \notin Bundles
  BY SentinelsAssumption DEF Bundles
<1>2. live["cert"] # Absent => View("cert") \in Bundles \cup {Absent}
  BY KindsAssumption DEF SerialDisk, LinksArePast, View
<1>. QED
  BY <1>1, <1>2 DEF Fresh, View

LEMMA OkIsTrueStep ==
  ASSUME Savers = {Main, Scheduler}, SerialSaves, OkIsTrue, [Next]_vars
  PROVE  OkIsTrue'
<1>. USE DEF Goto
<1>1. pc \in [Savers -> Steps] /\ "cert" \in Mandatory
  BY KindsAssumption DEF SerialSaves, ManagerTypeOK, Mandatory
<1>2. ASSUME UNCHANGED disk PROVE View("cert")' = View("cert")
  BY <1>2 DEF View, disk
<1>3. ASSUME NEW r \in Savers, pc'[r] # "idle", UNCHANGED <<lastSuccess, result>>
      PROVE  OkIsTrue'
  BY <1>3 DEF OkIsTrue, AtRest
<1>4. ASSUME NEW r \in Savers,
             \/ Start(r) \/ RenewalDue(r) \/ ReadFails(r) \/ NewClient(r)
             \/ ResetRegistration(r) \/ Registered(r) \/ Obtain(r)
      PROVE  OkIsTrue'
  <2>1. pc'[r] # "idle" /\ UNCHANGED <<lastSuccess, result>>
    BY <1>1, <1>4 DEF Start, RenewalDue, ReadFails, NewClient, ResetRegistration,
                      Registered, Obtain
  <2>. QED
    BY <1>3, <2>1
<1>5. ASSUME NEW r \in Savers, Save(r) PROVE OkIsTrue'
  BY <1>3, <1>5 DEF Save, managerVars, runnerVars
<1>6. ASSUME NEW r \in Savers,
             \/ ClientFails(r) \/ RegistrationFails(r) \/ ObtainFails(r)
             \/ SaveFails(r)
      PROVE  OkIsTrue'
  <2>1. result' = "failed"
    BY <1>6 DEF ClientFails, RegistrationFails, ObtainFails, SaveFails, Fail, Return
  <2>. QED
    BY <2>1 DEF OkIsTrue
<1>7. ASSUME NEW r \in Savers, UpToDate(r) PROVE OkIsTrue'
  <2>1. View("cert") \in Bundles
    BY <1>7, FreshIsWhole DEF UpToDate, SerialSaves
  <2>2. result' = "ok" /\ UNCHANGED disk
    BY <1>7 DEF UpToDate, Return, storageVars
  <2>. QED
    BY <1>2, <2>1, <2>2 DEF OkIsTrue, Bundles
<1>8. ASSUME NEW r \in Savers, Saved(r) PROVE OkIsTrue'
  <2>1. View("cert") \in Bundles
    BY <1>1, <1>8, SavedShows DEF Saved
  <2>2. result' = "ok" /\ UNCHANGED disk
    BY <1>8 DEF Saved, Return, storageVars
  <2>. QED
    BY <1>2, <2>1, <2>2 DEF OkIsTrue, Bundles
<1>9. CASE Passes \/ UNCHANGED vars
  <2>1. UNCHANGED <<disk, pc, lastSuccess, result>>
    BY <1>9 DEF Passes, Expire, TimePasses, Clock, storageVars, managerVars,
                runnerVars, vars
  <2>. QED
    BY <1>2, <2>1 DEF OkIsTrue, AtRest, Bundles
<1>10. CASE Restart
  BY <1>10 DEF Restart, OkIsTrue
<1>. QED
  BY <1>4, <1>5, <1>6, <1>7, <1>8, <1>9, <1>10 DEF Next, Internal

\* Under main and the scheduler, whatever failed before or the process died of:
\* while no run is in progress, "ok" means that a whole certificate is in live/.
THEOREM CertificateCorrect ==
  ASSUME Savers = {Main, Scheduler}, ~ClockSetBack
  PROVE  Spec => []OkHasCertificate
<1>. DEFINE CertInv == SerialSaves /\ OkIsTrue
<1>1. Init => CertInv
  <2>1. Init => OkIsTrue
    BY DEF Init, OkIsTrue
  <2>. QED
    BY <2>1, SerialSavesInitially
<1>2. CertInv /\ [Next]_vars => CertInv'
  BY SerialSavesStep, OkIsTrueStep
<1>3. CertInv => OkHasCertificate
  <2>. SUFFICES ASSUME CertInv, AtRest, Status = "ok" PROVE View("cert") \in Bundles
    BY DEF OkHasCertificate
  <2>1. lastSuccess /\ ~lastError
    BY DEF Status, Runs!Status, SerialSaves, ManagerTypeOK
  <2>2. result = "ok"
    BY <2>1 DEF SerialSaves, SerialInv, StatusReflectsLastRun, ManagerTypeOK, OkIsTrue
  <2>. QED
    BY <2>2 DEF OkIsTrue
<1>. QED
  BY <1>1, <1>2, <1>3, PTL DEF Spec
-----------------------------------------------------------------------------
(***************************************************************************)
(* When no file-system call fails and the process does not die, no save    *)
(* that began is given up, so that key and certificate go together.        *)
(***************************************************************************)

NothingLost ==
  /\ issued = 0 => \A k \in Kinds : live[k] = Absent
  /\ \A s \in Savers :
       /\ bundle[s] = issued /\ issued # 0 => Saving(s) \/ stage[s] = "done"
       /\ stage[s] = "link" /\ cur[s] # Absent => live[cur[s]] = Absent

LEMMA NothingLostStep ==
  ASSUME MaxFaults = 0, SerialDisk, NothingLost, [StorageNext]_storageVars,
         issued' # issued => Alone
  PROVE  NothingLost'
<1>. USE KindsAssumption, SentinelsAssumption, BoundsAssumption
<1>1. StorageTypeOK
  BY DEF SerialDisk
<1>2. \A s, t \in Savers : Saving(s) /\ t # s => ~Saving(t) /\ bundle[t] # issued
  BY OnlySaver
<1>3. \A s \in Savers : /\ bundle[s] <= issued /\ bundle[s] \in Nat
                        /\ Saving(s) => issued # 0
  BY DEF SerialDisk, Books, StorageTypeOK, Progress, HasNewest
<1>4. ~Fault
  BY <1>1, NoFault
<1>. USE <1>1, <1>2, <1>3
     DEF StorageTypeOK, NothingLost, Saving, Versions, disk, job, loop
<1>5. ASSUME NEW s \in Savers, NEW fs \in Resources, BeginSave(s, fs)
      PROVE  NothingLost'
  <2>1. /\ issued' = issued + 1 /\ issued \in Nat /\ UNCHANGED live
        /\ bundle' = [bundle EXCEPT ![s] = issued']
        /\ stage' = [stage EXCEPT ![s] = "archive"]
        /\ cur' = [cur EXCEPT ![s] = Absent]
    BY <1>5 DEF BeginSave
  <2>2. \A t \in Savers : ~Saving(t)
    BY <2>1 DEF Alone
  <2>. QED
    BY <2>1, <2>2
<1>6. ASSUME NEW s \in Savers, NEW k \in Kinds, OpenArchive(s, k)
      PROVE  NothingLost'
  BY <1>6 DEF OpenArchive
<1>7. ASSUME NEW s \in Savers, WriteArchive(s) \/ StartLinks(s)
      PROVE  NothingLost'
  BY <1>7 DEF WriteArchive, StartLinks
<1>8. ASSUME NEW s \in Savers, NEW k \in Kinds,
             DropLink(s, k) \/ RemoveLink(s, k)
      PROVE  NothingLost'
  BY <1>8 DEF DropLink, RemoveLink
<1>9. ASSUME NEW s \in Savers, CreateLink(s) PROVE NothingLost'
  BY <1>9 DEF CreateLink
<1>10. ASSUME NEW s \in Savers PROVE ~LinkExists(s)
  BY <1>10 DEF LinkExists
<1>11. ASSUME NEW s \in Savers, FinishSave(s) PROVE NothingLost'
  BY <1>11 DEF FinishSave
<1>12. ~Crash /\ \A s \in Savers : /\ ~CallFails(s)
                                   /\ \A k \in Kinds : /\ ~StatFails(s, k)
                                                       /\ ~RemoveFails(s, k)
  BY <1>4 DEF Crash, CallFails, StatFails, RemoveFails
<1>13. ASSUME TimePasses \/ UNCHANGED storageVars PROVE NothingLost'
  BY <1>13 DEF TimePasses, Clock, storageVars
<1>. HIDE DEF NothingLost
<1>. QED
  BY <1>5, <1>6, <1>7, <1>8, <1>9, <1>10, <1>11, <1>12, <1>13
     DEF StorageNext, SaveStep

\* Between two saves every mandatory name shows the newest bundle.
LEMMA SettledShows ==
  ASSUME SerialDisk, NothingLost, \A s \in Savers : ~Saving(s),
         NEW k \in Mandatory
  PROVE  View(k) = IF issued = 0 THEN Absent ELSE issued
<1>. USE DEF SerialDisk
<1>1. k \in Kinds
  BY DEF Mandatory
<1>2. CASE issued = 0
  BY <1>1, <1>2 DEF NothingLost, View
<1>3. CASE issued # 0
  <2>1. PICK s \in Savers : bundle[s] = issued
    BY DEF Books
  <2>2. stage[s] = "done"
    BY <1>3, <2>1 DEF NothingLost
  <2>3. k \in files[s]
    BY <1>1, <2>2 DEF Books, Mandatory, Resources
  <2>4. Served(s, k)
    BY <1>1, <2>1, <2>2 DEF ServedByNow, LinkedByNow
  <2>5. version[s] # Absent
    BY SentinelsAssumption DEF StorageTypeOK
  <2>. QED
    BY <1>3, <2>1, <2>3, <2>4, <2>5 DEF Served, View, File
<1>. QED
  BY <1>2, <1>3

\* Under main and the scheduler, if the file system fails no call and the
\* process does not die, the key in live/ is the certificate's whenever no run
\* is in progress, and so whenever "ok" is reported between two runs.  (One
\* failed call is enough to break this.)
THEOREM PairCorrect ==
  ASSUME Savers = {Main, Scheduler}, ~ClockSetBack, MaxFaults = 0
  PROVE  Spec => []OkHasPair
<1>. DEFINE PairInv == SerialSaves /\ NothingLost
<1>1. Init => PairInv
  <2>1. Init => NothingLost
    BY DEF Init, StorageInit, NothingLost
  <2>. QED
    BY <2>1, SerialSavesInitially
<1>2. PairInv /\ [Next]_vars => PairInv'
  <2>. SUFFICES ASSUME PairInv, [Next]_vars PROVE PairInv'
    OBVIOUS
  <2>1. issued' # issued => Alone
    BY OnlyOrdersIssue, OrderIsAlone DEF SerialSaves
  <2>2. NothingLost'
    BY <2>1, DiskStep, NothingLostStep DEF SerialSaves
  <2>. QED
    BY <2>2, SerialSavesStep
<1>3. PairInv => OkHasPair
  <2>. SUFFICES ASSUME PairInv, AtRest PROVE View("privkey") = View("cert")
    BY DEF OkHasPair
  <2>1. \A s \in Savers : ~Saving(s)
    BY DEF AtRest, SerialSaves, ManagerTypeOK
  <2>2. {"cert", "privkey"} \subseteq Mandatory
    BY KindsAssumption DEF Mandatory
  <2>. QED
    BY <2>1, <2>2, SettledShows DEF SerialSaves
<1>. QED
  BY <1>1, <1>2, <1>3, PTL DEF Spec
=============================================================================
