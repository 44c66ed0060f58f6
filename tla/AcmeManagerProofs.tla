------------------------- MODULE AcmeManagerProofs -------------------------
(***************************************************************************)
(* What AcmeManager keeps true for any runners, any kinds of file and any  *)
(* bounds: it touches the disk only as CertStorage says, it implements     *)
(* CertRuns, and what "ok" promises of live/.                              *)
(***************************************************************************)
EXTENDS AcmeManager, CertStorageProofs

(***************************************************************************)
(* The disk.                                                               *)
(***************************************************************************)

\* The actions that leave the disk, and every save, alone.
OffDisk(r) ==
  \/ Start(r) \/ UpToDate(r) \/ RenewalDue(r) \/ ReadFails(r)
  \/ NewClient(r) \/ ClientFails(r) \/ ResetRegistration(r)
  \/ Registered(r) \/ RegistrationFails(r) \/ ObtainFails(r)
  \/ Saved(r) \/ SaveFails(r)

LEMMA OffDiskKeepsDisk ==
  ASSUME NEW r \in Savers, OffDisk(r) PROVE UNCHANGED storageVars
BY DEF OffDisk, Start, UpToDate, RenewalDue, ReadFails, NewClient, ClientFails,
       ResetRegistration, Registered, RegistrationFails, ObtainFails, Saved,
       SaveFails

LEMMA DiskStep == [Next]_vars => [StorageNext]_storageVars
<1>. SUFFICES ASSUME [Next]_vars PROVE [StorageNext]_storageVars
  OBVIOUS
<1>1. ASSUME NEW r \in Savers, OffDisk(r) PROVE UNCHANGED storageVars
  BY <1>1, OffDiskKeepsDisk
<1>2. ASSUME NEW r \in Savers, Obtain(r) PROVE StorageNext
  BY <1>2 DEF Obtain, StorageNext
<1>3. ASSUME NEW r \in Savers, Save(r) PROVE StorageNext
  BY <1>3 DEF Save, StorageNext
<1>4. CASE Passes
  BY <1>4 DEF Passes, Expire, StorageNext
<1>5. CASE Restart
  BY <1>5 DEF Restart, StorageNext
<1>6. CASE UNCHANGED vars
  BY <1>6 DEF vars
<1>. QED
  BY <1>1, <1>2, <1>3, <1>4, <1>5, <1>6 DEF Next, Internal, OffDisk

\* The manager reaches the disk only through saves as CertStorage has them, so
\* that whatever is proved of those holds under it.
THEOREM SavesOnly == Spec => StorageSpec
<1>1. Init => StorageInit
  BY DEF Init
<1>. QED
  BY <1>1, DiskStep, PTL DEF Spec, StorageSpec

\* However runs overlap, fail and die, and wherever the clock goes, no link in
\* live/ dangles ...
THEOREM ManagedLinksCorrect ==
  ASSUME ~StatErrors PROVE Spec => []LinksResolve
BY SavesOnly, LinksCorrect, PTL

\* ... and saves that all succeeded leave no mandatory name missing.
THEOREM ManagedFullSetCorrect == Spec => []SuccessLeavesFullSet
BY SavesOnly, FullSetCorrect, PTL

-----------------------------------------------------------------------------
(***************************************************************************)
(* Types.                                                                  *)
(***************************************************************************)

LEMMA SaveKeepsStages ==
  ASSUME StorageTypeOK, NEW s \in Savers, SaveStep(s)
  PROVE  /\ Saving(s) /\ stage'[s] # "idle" /\ issued' = issued
         /\ \A r \in Savers \ {s} : stage'[r] = stage[r]
<1>. USE DEF StorageTypeOK, Saving, loop, job, disk
<1>1. ASSUME NEW k \in Kinds,
             \/ OpenArchive(s, k) \/ DropLink(s, k) \/ RemoveLink(s, k)
             \/ RemoveFails(s, k) \/ StatFails(s, k)
      PROVE  /\ Saving(s) /\ stage' = stage /\ issued' = issued
  BY <1>1 DEF OpenArchive, DropLink, RemoveLink, RemoveFails, StatFails
<1>2. ASSUME WriteArchive(s) \/ CreateLink(s)
      PROVE  /\ Saving(s) /\ stage' = stage /\ issued' = issued
  BY <1>2 DEF WriteArchive, CreateLink
<1>3. ASSUME StartLinks(s) \/ LinkExists(s) \/ FinishSave(s) \/ CallFails(s)
      PROVE  /\ Saving(s) /\ issued' = issued
             /\ \E next \in {"link", "failed", "done"} :
                  stage' = [stage EXCEPT ![s] = next]
  BY <1>3 DEF StartLinks, LinkExists, FinishSave, CallFails
<1>. QED
  BY <1>1, <1>2, <1>3 DEF SaveStep

LEMMA ManagerTypeStep == ManagerTypeOK /\ [Next]_vars => ManagerTypeOK'
<1>. SUFFICES ASSUME ManagerTypeOK, [Next]_vars PROVE ManagerTypeOK'
  OBVIOUS
<1>1. StorageTypeOK /\ StorageTypeOK'
  BY DiskStep, TypeStep DEF ManagerTypeOK
<1>. DEFINE Seconds == 1..MaxIssued + 1
            Rest == /\ lastError \in BOOLEAN /\ lastSuccess \in BOOLEAN
                    /\ registration \in BOOLEAN /\ serving \in BOOLEAN
                    /\ pc \in [Savers -> Steps] /\ kid \in [Savers -> BOOLEAN]
                    /\ earliest \in [Savers -> Seconds]
                    /\ unread \in [Savers -> BOOLEAN]
                    /\ expiring \subseteq 1..issued
                    /\ result \in {"none", "ok", "failed"}
            Waits == \A r \in Savers : /\ Saving(r) => pc[r] = "save"
                                       /\ pc[r] = "save" => stage[r] # "idle"
<1>2. Rest /\ Waits
  BY DEF ManagerTypeOK
<1>. SUFFICES Rest' /\ Waits'
  BY <1>1 DEF ManagerTypeOK
<1>0. 1 \in Seconds
  BY BoundsAssumption
<1>. HIDE DEF Seconds
<1>. USE <1>0, <1>2 DEF Steps, Goto, Return, Forget, Fail, worldVars,
              runnerVars, managerVars
<1>3. ASSUME NEW r \in Savers, OffDisk(r) PROVE Rest' /\ Waits'
  <2>1. UNCHANGED <<stage, issued>>
    BY <1>3, OffDiskKeepsDisk DEF storageVars, loop
  <2>2. SecondAfterStart \in Seconds
    BY <1>1, BoundsAssumption DEF Seconds, SecondAfterStart, StorageTypeOK, Versions
  <2>3. CASE Start(r)
    BY <2>1, <2>2, <2>3 DEF Start, Saving
  <2>4. CASE UpToDate(r) \/ RenewalDue(r) \/ ReadFails(r)
    BY <2>1, <2>4 DEF UpToDate, RenewalDue, ReadFails, Saving
  <2>5. CASE NewClient(r) \/ ClientFails(r) \/ ResetRegistration(r)
    BY <2>1, <2>5
       DEF NewClient, ClientFails, ResetRegistration, Saving
  <2>6. CASE Registered(r) \/ RegistrationFails(r) \/ ObtainFails(r)
    BY <2>1, <2>6
       DEF Registered, RegistrationFails, ObtainFails, Saving
  <2>7. CASE Saved(r) \/ SaveFails(r)
    BY <2>1, <2>7 DEF Saved, SaveFails, Saving
  <2>. QED
    BY <1>3, <2>3, <2>4, <2>5, <2>6, <2>7 DEF OffDisk
<1>4. ASSUME NEW r \in Savers, Obtain(r) PROVE Rest' /\ Waits'
  <2>1. stage' = [stage EXCEPT ![r] = "archive"] /\ issued' = issued + 1
    BY <1>4 DEF Obtain, BeginSave
  <2>. QED
    BY <1>1, <1>4, <2>1, BoundsAssumption DEF Obtain, Saving, StorageTypeOK
<1>5. ASSUME NEW r \in Savers, Save(r) PROVE Rest' /\ Waits'
  BY <1>1, <1>5, SaveKeepsStages DEF Save, Saving
<1>6. CASE Passes
  <2>1. UNCHANGED <<stage, issued>>
    BY <1>6 DEF Passes, Expire, TimePasses, Clock, Later, Earlier, storageVars, loop
  <2>2. CASE Expire
    BY <2>1, <2>2 DEF Expire, Saving
  <2>3. CASE TimePasses /\ UNCHANGED managerVars
    BY <2>1, <2>3 DEF Saving
  <2>. QED
    BY <1>6, <2>2, <2>3 DEF Passes
<1>7. CASE Restart
  BY <1>7 DEF Restart, Crash, Saving
<1>8. CASE UNCHANGED vars
  BY <1>8 DEF vars, storageVars, loop, Saving
<1>. HIDE DEF Rest, Waits
<1>. QED
  BY <1>3, <1>4, <1>5, <1>6, <1>7, <1>8 DEF Next, Internal, OffDisk

LEMMA ManagerTypeInitially == Init => ManagerTypeOK
<1>1. Init => StorageTypeOK
  BY StorageInitially DEF Init, Inv
<1>2. Init => earliest \in [Savers -> 1..MaxIssued + 1]
  BY BoundsAssumption DEF Init
<1>. QED
  BY <1>1, <1>2 DEF Init, StorageInit, ManagerTypeOK, Steps, Saving

\* Every state of the manager is well typed, and a save is under way exactly
\* for runs that wait for it.
THEOREM ManagerTypeCorrect == Spec => []ManagerTypeOK
BY ManagerTypeInitially, ManagerTypeStep, PTL DEF Spec

-----------------------------------------------------------------------------
(***************************************************************************)
(* CertRuns.                                                               *)
(***************************************************************************)

LEMMA RunsStep == ManagerTypeOK /\ [Next]_vars => [Runs!Next]_Runs!vars
<1>. SUFFICES ASSUME ManagerTypeOK, [Next]_vars PROVE [Runs!Next]_Runs!vars
  OBVIOUS
<1>. DEFINE busy    == {r \in Savers : pc[r] # "idle"}
            Stutter == UNCHANGED <<lastError, lastSuccess, busy>>
<1>0. pc \in [Savers -> Steps]
  BY DEF ManagerTypeOK
<1>. USE <1>0 DEF Goto
<1>1. ASSUME NEW r \in Savers, pc[r] # "idle", NEW step, step # "idle",
             pc' = [pc EXCEPT ![r] = step]
      PROVE  busy' = busy
  BY <1>1
<1>2. ASSUME NEW r \in Savers, Start(r) PROVE Runs!Begin(r)
  <2>1. busy' = busy \cup {r}
    BY <1>2 DEF Start
  <2>. QED
    BY <1>2, <2>1 DEF Start, Runs!Begin
<1>3. ASSUME NEW r \in Savers, NEW how, pc[r] # "idle", Return(r, how)
      PROVE  busy' = busy \ {r}
  BY <1>3 DEF Return
<1>4. ASSUME NEW r \in Savers, pc[r] # "idle", Fail(r) PROVE Runs!EndFailed(r)
  <2>1. busy' = busy \ {r}
    BY <1>3, <1>4 DEF Fail
  <2>. QED
    BY <1>4, <2>1 DEF Fail, Runs!EndFailed
<1>5. ASSUME NEW r \in Savers,
             \/ ClientFails(r) \/ RegistrationFails(r) \/ ObtainFails(r)
             \/ SaveFails(r)
      PROVE  Runs!EndFailed(r)
  BY <1>4, <1>5 DEF ClientFails, RegistrationFails, ObtainFails, SaveFails
<1>6. ASSUME NEW r \in Savers, UpToDate(r) PROVE Runs!EndUpToDate(r)
  <2>1. busy' = busy \ {r}
    BY <1>3, <1>6 DEF UpToDate
  <2>. QED
    BY <1>6, <2>1 DEF UpToDate, Runs!EndUpToDate
<1>7. ASSUME NEW r \in Savers, Saved(r) PROVE Runs!EndSaved(r)
  <2>1. busy' = busy \ {r}
    BY <1>3, <1>7 DEF Saved
  <2>. QED
    BY <1>7, <2>1 DEF Saved, Runs!EndSaved
<1>8. ASSUME NEW r \in Savers,
             \/ RenewalDue(r) \/ ReadFails(r) \/ NewClient(r)
             \/ ResetRegistration(r) \/ Registered(r) \/ Obtain(r)
      PROVE  Stutter
  <2>1. UNCHANGED <<lastError, lastSuccess>>
    BY <1>8 DEF RenewalDue, ReadFails, NewClient, ResetRegistration, Registered,
                Obtain
  <2>2. pc[r] # "idle" /\ \E step \in Steps \ {"idle"} :
                              pc' = [pc EXCEPT ![r] = step]
    BY <1>8 DEF RenewalDue, ReadFails, NewClient, ResetRegistration, Registered,
                Obtain, Steps
  <2>. QED
    BY <1>1, <2>1, <2>2
<1>9. ASSUME NEW r \in Savers, Save(r) PROVE Stutter
  BY <1>9 DEF Save, managerVars, runnerVars
<1>10. ASSUME Passes \/ UNCHANGED vars PROVE Stutter
  BY <1>10 DEF Passes, Expire, vars, managerVars, runnerVars
<1>11. ASSUME Restart PROVE Runs!Killed
  BY <1>11 DEF Restart, Runs!Killed
<1>12. Stutter \/ Runs!Next
  <2>. HIDE DEF Stutter
  <2>. QED
    BY <1>2, <1>5, <1>6, <1>7, <1>8, <1>9, <1>10, <1>11
       DEF Next, Internal, Runs!Next, Runs!End
<1>. QED
  BY <1>12 DEF Runs!vars

\* For any number of runners and whatever fails, ManageCertificates implements
\* CertRuns: every run leaves its mark on the status that GetStatus reports.
THEOREM ManagerImplementsRuns == Spec => ImplementsRuns
<1>1. Init => Runs!Init
  BY DEF Init, Runs!Init
<1>. QED
  BY <1>1, ManagerTypeCorrect, RunsStep, PTL DEF Spec, ImplementsRuns, Runs!Spec

-----------------------------------------------------------------------------
(***************************************************************************)
(* "ok" over overlapping saves, when the file system fails no call and     *)
(* nothing dies.  A saver gives up only if another has linked the name it  *)
(* removed.  A missing name that was once linked is in the hands of the    *)
(* saver that removed it last; one that never was is still to be linked by *)
(* every saver in its loop, and of those one is always free to go on: the  *)
(* last to have made a link.                                               *)
(***************************************************************************)

Linking(s) == stage[s] = "link"
Blocked(s) == cur[s] # Absent /\ live[cur[s]] # Absent

InHand(k)      == \E s \in Savers : Linking(s) /\ cur[s] = k
NeverLinked(k) == \A s \in Savers : /\ stage[s] # "done"
                                    /\ Linking(s) => k \in todo[s]
SomeoneFree    == \E s \in Savers : Linking(s) /\ ~Blocked(s)

Virgin == ~lastSuccess /\ \A k \in Mandatory : live[k] = Absent

Accounted(k) ==
  live[k] = Absent => InHand(k) \/ (NeverLinked(k) /\ (SomeoneFree \/ Virgin))

LEMMA NoFault == ASSUME StorageTypeOK, MaxFaults = 0 PROVE ~Fault
BY DEF StorageTypeOK, Fault

LEMMA AccountedStep ==
  ASSUME StorageTypeOK, MandatoryArchived, MaxFaults = 0,
         \A k \in Mandatory : Accounted(k),
         StorageNext, UNCHANGED lastSuccess,
         NEW k \in Mandatory
  PROVE  Accounted(k)'
<1>. USE KindsAssumption, SentinelsAssumption, NoFault
     DEF StorageTypeOK, Mandatory, Accounted, InHand, NeverLinked, SomeoneFree,
         Linking, Blocked, Virgin, Saving, disk, job, loop
<1>1. ASSUME NEW s \in Savers, NEW fs \in Resources, BeginSave(s, fs)
      PROVE  Accounted(k)'
  BY <1>1 DEF BeginSave
<1>2. ASSUME NEW s \in Savers, NEW j \in Kinds, OpenArchive(s, j)
      PROVE  Accounted(k)'
  BY <1>2 DEF OpenArchive
<1>3. ASSUME NEW s \in Savers, WriteArchive(s) PROVE Accounted(k)'
  BY <1>3 DEF WriteArchive
<1>4. ASSUME NEW s \in Savers, StartLinks(s) PROVE Accounted(k)'
  BY <1>4 DEF StartLinks
<1>5. ASSUME NEW s \in Savers, NEW j \in Kinds, DropLink(s, j)
      PROVE  Accounted(k)'
  <2>1. j \notin Mandatory
    BY <1>5 DEF DropLink, InArchive, MandatoryArchived
  <2>. QED
    BY <1>5, <2>1 DEF DropLink
<1>6. ASSUME NEW s \in Savers, NEW j \in Kinds, RemoveLink(s, j)
      PROVE  Accounted(k)'
  <2>1. /\ Linking(s) /\ cur[s] = Absent
        /\ live' = [live EXCEPT ![j] = Absent] /\ cur' = [cur EXCEPT ![s] = j]
        /\ UNCHANGED <<stage, todo>>
    BY <1>6 DEF RemoveLink
  <2>2. InHand(j)' /\ SomeoneFree'
    BY <2>1
  <2>3. ASSUME k # j, live'[k] = Absent PROVE InHand(k)' \/ NeverLinked(k)'
    <3>1. live[k] = Absent
      BY <2>1, <2>3
    <3>2. InHand(k) => InHand(k)'
      BY <2>1
    <3>3. NeverLinked(k) => NeverLinked(k)'
      BY <2>1
    <3>. QED
      BY <3>1, <3>2, <3>3
  <2>. QED
    BY <2>2, <2>3
<1>7. ASSUME NEW s \in Savers, CreateLink(s) PROVE Accounted(k)'
  <2>1. /\ Linking(s) /\ cur[s] \in Kinds /\ version[s] # Absent
        /\ live' = [live EXCEPT ![cur[s]] = version[s]] /\ UNCHANGED stage
        /\ todo' = [todo EXCEPT ![s] = @ \ {cur[s]}]
        /\ cur' = [cur EXCEPT ![s] = Absent]
    BY <1>7, BoundsAssumption DEF CreateLink
  <2>2. CASE k = cur[s]
    BY <2>1, <2>2
  <2>3. CASE k # cur[s] /\ live[k] = Absent
    <3>1. CASE InHand(k)
      BY <2>1, <2>3, <3>1
    <3>2. CASE NeverLinked(k)
      <4>1. NeverLinked(k)'
        BY <2>1, <2>3, <3>2
      <4>2. SomeoneFree'
        BY <2>1
      <4>. QED
        BY <4>1, <4>2
    <3>. QED
      BY <2>3, <3>1, <3>2
  <2>4. CASE k # cur[s] /\ live[k] # Absent
    BY <2>1, <2>4
  <2>. QED
    BY <2>2, <2>3, <2>4
<1>8. ASSUME NEW s \in Savers, LinkExists(s) PROVE Accounted(k)'
  <2>1. /\ Linking(s) /\ Blocked(s) /\ UNCHANGED <<live, todo, cur>>
        /\ stage' = [stage EXCEPT ![s] = "failed"]
    BY <1>8 DEF LinkExists
  <2>. QED
    BY <2>1
<1>9. ASSUME NEW s \in Savers, FinishSave(s) PROVE Accounted(k)'
  <2>1. /\ Linking(s) /\ todo[s] = {} /\ cur[s] = Absent
        /\ UNCHANGED <<live, todo, cur>>
        /\ stage' = [stage EXCEPT ![s] = "done"]
    BY <1>9 DEF FinishSave
  <2>. QED
    BY <2>1
<1>10. CASE TimePasses
  BY <1>10 DEF TimePasses, Clock, Later, Earlier
<1>11. ~Crash /\ \A s \in Savers : /\ ~CallFails(s)
                                   /\ \A j \in Kinds : /\ ~StatFails(s, j)
                                                       /\ ~RemoveFails(s, j)
  BY DEF Crash, CallFails, StatFails, RemoveFails
<1>. HIDE DEF Accounted
<1>. QED
  BY <1>1, <1>2, <1>3, <1>4, <1>5, <1>6, <1>7, <1>8, <1>9, <1>10, <1>11
     DEF StorageNext, SaveStep

\* An action off the disk sets lastSuccess only over a certificate or at the
\* end of a save.
LEMMA SuccessIsGrounded ==
  ASSUME NEW r \in Savers, OffDisk(r), lastSuccess' # lastSuccess
  PROVE  View("cert") # Absent \/ stage[r] = "done"
<1>1. Absent \notin Fresh \cup {Torn}
  BY SentinelsAssumption, BoundsAssumption DEF Fresh, Bundles
<1>. QED
  BY <1>1 DEF OffDisk, Start, UpToDate, RenewalDue, ReadFails, NewClient,
              ClientFails, ResetRegistration, Registered, RegistrationFails,
              ObtainFails, Saved, SaveFails, Fail

OkInv == /\ ManagerTypeOK /\ Inv /\ MandatoryArchived
         /\ \A k \in Mandatory : Accounted(k)

LEMMA OkStep ==
  ASSUME ~StatErrors, MaxFaults = 0, OkInv, [Next]_vars
  PROVE  OkInv'
<1>. USE DEF OkInv
<1>1. ManagerTypeOK' /\ Inv' /\ MandatoryArchived'
  BY ManagerTypeStep, DiskStep, TypeStep, LinksStep, MandatoryStep DEF Inv
<1>2. StorageTypeOK
  BY DEF Inv
<1>3. ASSUME NEW k \in Mandatory, StorageNext, UNCHANGED lastSuccess
      PROVE  Accounted(k)'
  BY <1>2, <1>3, AccountedStep
<1>4. ASSUME NEW k \in Mandatory, UNCHANGED <<storageVars, lastSuccess>>
      PROVE  Accounted(k)'
  BY <1>4 DEF Accounted, InHand, NeverLinked, SomeoneFree, Linking, Blocked,
              Virgin, storageVars, disk, loop
<1>5. ASSUME NEW k \in Mandatory, NEW r \in Savers, OffDisk(r)
      PROVE  Accounted(k)'
  <2>1. UNCHANGED storageVars
    BY <1>5, OffDiskKeepsDisk
  <2>2. CASE lastSuccess' = lastSuccess
    BY <1>4, <2>1, <2>2
  <2>3. CASE lastSuccess' # lastSuccess
    <3>1. View("cert") # Absent \/ stage[r] = "done"
      BY <1>5, <2>3, SuccessIsGrounded
    <3>2. live["cert"] # Absent \/ stage[r] = "done"
      BY <3>1 DEF View
    <3>3. ~(Virgin /\ NeverLinked(k))
      BY <3>2, KindsAssumption DEF Virgin, NeverLinked, Mandatory
    <3>. QED
      BY <2>1, <3>3 DEF Accounted, InHand, NeverLinked, SomeoneFree, Linking,
                        Blocked, storageVars, disk, loop
  <2>. QED
    BY <2>2, <2>3
<1>6. ASSUME NEW k \in Mandatory PROVE Accounted(k)'
  <2>1. ASSUME NEW r \in Savers, Obtain(r) PROVE Accounted(k)'
    BY <1>3, <2>1 DEF Obtain, StorageNext
  <2>2. ASSUME NEW r \in Savers, Save(r) PROVE Accounted(k)'
    BY <1>3, <2>2 DEF Save, StorageNext, managerVars
  <2>3. CASE Passes
    BY <1>3, <1>4, <2>3 DEF Passes, Expire, StorageNext, managerVars
  <2>4. ~Restart
    BY <1>2, NoFault DEF Restart, Crash
  <2>5. CASE UNCHANGED vars
    BY <1>4, <2>5 DEF vars, managerVars
  <2>. QED
    BY <1>5, <2>1, <2>2, <2>3, <2>4, <2>5 DEF Next, Internal, OffDisk
<1>. QED
  BY <1>1, <1>6

\* However many runs overlap and wherever the clock goes, as long as the file
\* system fails no call and nothing dies (MaxFaults = 0 excludes crashes and
\* restarts, too): when all runs have returned and the status is "ok", a
\* certificate and a key are in live/.
THEOREM OkFilesCorrect ==
  ASSUME ~StatErrors, MaxFaults = 0 PROVE Spec => []OkHasFiles
<1>1. Init => OkInv
  <2>1. Init => Inv
    BY StorageInitially DEF Init
  <2>2. Init => ManagerTypeOK
    BY ManagerTypeInitially
  <2>3. Init => MandatoryArchived /\ \A k \in Mandatory : Accounted(k)
    BY DEF Init, StorageInit, MandatoryArchived, Saving, Accounted, NeverLinked,
           Linking, Virgin, Mandatory
  <2>. QED
    BY <2>1, <2>2, <2>3 DEF OkInv
<1>2. OkInv /\ [Next]_vars => OkInv'
  BY OkStep
<1>3. OkInv => OkHasFiles
  <2>. SUFFICES ASSUME OkInv, AtRest, Status = "ok",
                       NEW k \in {"cert", "privkey"}
                PROVE  View(k) # Absent
    BY DEF OkHasFiles
  <2>1. lastSuccess
    BY DEF Status, Runs!Status, OkInv, ManagerTypeOK
  <2>2. \A s \in Savers : ~Linking(s)
    BY DEF AtRest, OkInv, ManagerTypeOK, Linking, Saving
  <2>3. k \in Mandatory
    BY KindsAssumption DEF Mandatory
  <2>4. live[k] # Absent
    BY <2>1, <2>2, <2>3 DEF OkInv, Accounted, InHand, SomeoneFree, Virgin
  <2>. QED
    BY <2>3, <2>4 DEF OkInv, Inv, LinksResolve, Mandatory
<1>. QED
  BY <1>1, <1>2, <1>3, PTL DEF Spec

-----------------------------------------------------------------------------
(***************************************************************************)
(* The status, when only main and the scheduler run ManageCertificates.    *)
(* main's run is over before the scheduler's first one begins, so a run    *)
(* that finds the certificate fresh also finds the error field as its own  *)
(* beginning left it.                                                      *)
(***************************************************************************)

InTurn == \A r \in Savers : pc[r] # "idle" => (serving <=> r # Main)

SerialInv == /\ InTurn /\ StatusReflectsLastRun
             /\ \A r \in Savers : pc[r] = "check" => ~lastError

\* A run that is not over yet, or is, and left the field as it reports.
LEMMA RunStep ==
  ASSUME ManagerTypeOK, SerialInv, Savers = {Main, Scheduler},
         NEW r \in Savers, Start(r) \/ Internal(r)
  PROVE  SerialInv'
<1>. USE RunnersAssumption DEF SerialInv, InTurn, StatusReflectsLastRun, AtRest,
                               Goto
<1>1. /\ pc \in [Savers -> Steps] /\ lastError \in BOOLEAN
      /\ serving \in BOOLEAN
  BY DEF ManagerTypeOK
<1>2. CASE Start(r)
  BY <1>1, <1>2 DEF Start, worldVars
<1>3. ASSUME \/ Return(r, "ok") /\ lastError' = FALSE
             \/ Return(r, "failed") /\ lastError' = TRUE,
             pc[r] # "idle"
      PROVE  SerialInv'
  BY <1>1, <1>3 DEF Return
<1>4. ASSUME NEW step \in Steps \ {"idle", "check"}, pc[r] # "idle",
             Goto(r, step), UNCHANGED <<lastError, serving, result>>
      PROVE  SerialInv'
  BY <1>1, <1>4
<1>5. CASE UpToDate(r)
  <2>1. Return(r, "ok") /\ lastError' = lastError /\ pc[r] = "check"
    BY <1>5 DEF UpToDate
  <2>2. lastError = FALSE
    BY <1>1, <2>1
  <2>. QED
    BY <1>3, <2>1, <2>2
<1>6. CASE RenewalDue(r) \/ ReadFails(r)
  BY <1>4, <1>6 DEF RenewalDue, ReadFails, worldVars, Steps
<1>7. CASE NewClient(r) \/ ResetRegistration(r) \/ Registered(r) \/ Obtain(r)
  BY <1>4, <1>7 DEF NewClient, ResetRegistration, Registered, Obtain, worldVars,
                    Steps
<1>8. CASE ClientFails(r) \/ RegistrationFails(r) \/ ObtainFails(r) \/ SaveFails(r)
  BY <1>3, <1>8 DEF ClientFails, RegistrationFails, ObtainFails, SaveFails, Fail
<1>9. CASE Saved(r)
  <2>1. Return(r, "ok") /\ lastError' = FALSE /\ pc[r] = "save"
    BY <1>9 DEF Saved
  <2>. QED
    BY <1>3, <2>1
<1>10. CASE Save(r)
  BY <1>10 DEF Save, managerVars, runnerVars, worldVars
<1>. QED
  BY <1>2, <1>5, <1>6, <1>7, <1>8, <1>9, <1>10 DEF Internal

LEMMA TurnStep ==
  ASSUME Savers = {Main, Scheduler}, ManagerTypeOK, SerialInv, [Next]_vars
  PROVE  SerialInv'
<1>1. ASSUME UNCHANGED <<lastError, serving, pc, result>> PROVE SerialInv'
  BY <1>1 DEF SerialInv, InTurn, StatusReflectsLastRun, AtRest
<1>2. CASE Passes
  BY <1>1, <1>2 DEF Passes, Expire, managerVars, runnerVars, worldVars
<1>3. CASE Restart
  BY <1>3 DEF Restart, SerialInv, InTurn, StatusReflectsLastRun
<1>4. CASE UNCHANGED vars
  BY <1>1, <1>4 DEF vars, managerVars, runnerVars, worldVars
<1>. QED
  BY <1>2, <1>3, <1>4, RunStep DEF Next

LEMMA TurnInitially == Init => SerialInv
BY DEF Init, SerialInv, InTurn, StatusReflectsLastRun

\* When only main and the scheduler run ManageCertificates, whatever fails or
\* dies, lastError between two runs tells how the last one ended.
THEOREM LastRunCorrect ==
  ASSUME Savers = {Main, Scheduler} PROVE Spec => []StatusReflectsLastRun
<1>1. ManagerTypeOK /\ SerialInv /\ [Next]_vars => SerialInv'
  BY TurnStep
<1>2. SerialInv => StatusReflectsLastRun
  BY DEF SerialInv
<1>. QED
  BY <1>1, <1>2, TurnInitially, ManagerTypeCorrect, PTL DEF Spec
=============================================================================
