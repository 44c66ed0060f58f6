------------------------- MODULE CertStorageProofs -------------------------
(***************************************************************************)
(* What CertStorage keeps true for any savers, any kinds of file and any   *)
(* bounds, and that one saver at a time keeps LiveDirectory's promise and  *)
(* serves what it reported saved.                                          *)
(***************************************************************************)
EXTENDS CertStorage, TLAPS

(***************************************************************************)
(* Any number of savers.                                                   *)
(***************************************************************************)

\* A saver about to link a name has a file to link it to.
LinksHaveTargets ==
  \A s \in Savers :
    stage[s] = "link" /\ cur[s] # Absent => archive[File(s, cur[s])] # Absent

Inv == StorageTypeOK /\ LinksResolve /\ LinksHaveTargets

LEMMA StorageInitially == StorageInit => Inv
<1>. SUFFICES ASSUME StorageInit PROVE Inv
  OBVIOUS
<1>. USE BoundsAssumption, SentinelsAssumption DEF StorageInit
<1>1. StorageTypeOK
  BY DEF StorageTypeOK, Contents, Versions, Bundles, Stages, Saving
<1>2. LinksResolve /\ LinksHaveTargets
  BY DEF LinksResolve, LinksHaveTargets
<1>. QED
  BY <1>1, <1>2 DEF Inv

LEMMA TypeStep == StorageTypeOK /\ [StorageNext]_storageVars => StorageTypeOK'
<1>. SUFFICES ASSUME StorageTypeOK, [StorageNext]_storageVars
              PROVE  StorageTypeOK'
  OBVIOUS
<1>. USE BoundsAssumption, KindsAssumption
     DEF StorageTypeOK, Stages, Saving, disk, job, loop, File
<1>1. ASSUME NEW s \in Savers, NEW fs \in Resources, BeginSave(s, fs)
      PROVE  StorageTypeOK'
  BY <1>1 DEF BeginSave, Resources, Versions
<1>2. ASSUME NEW s \in Savers, NEW k \in Kinds, OpenArchive(s, k)
      PROVE  StorageTypeOK'
  BY <1>2 DEF OpenArchive, Contents, Versions
<1>3. ASSUME NEW s \in Savers, WriteArchive(s) PROVE StorageTypeOK'
  <2>1. Written(s, cur[s]) \subseteq Contents
    BY <1>3 DEF WriteArchive, Written, Contents, Bundles
  <2>2. archive' \in [Versions \X Kinds -> Contents]
    BY <1>3, <2>1 DEF WriteArchive
  <2>. QED
    BY <1>3, <2>2 DEF WriteArchive
<1>4. ASSUME NEW s \in Savers, StartLinks(s) PROVE StorageTypeOK'
  BY <1>4 DEF StartLinks
<1>5. ASSUME NEW s \in Savers, NEW k \in Kinds,
             DropLink(s, k) \/ RemoveLink(s, k)
      PROVE  StorageTypeOK'
  BY <1>5 DEF DropLink, RemoveLink
<1>6. ASSUME NEW s \in Savers, CreateLink(s) PROVE StorageTypeOK'
  BY <1>6 DEF CreateLink, Versions
<1>7. ASSUME NEW s \in Savers, LinkExists(s) \/ FinishSave(s)
      PROVE  StorageTypeOK'
  BY <1>7 DEF LinkExists, FinishSave
<1>8. ASSUME NEW s \in Savers, CallFails(s) PROVE StorageTypeOK'
  BY <1>8 DEF CallFails, Fault
<1>9. ASSUME NEW s \in Savers, NEW k \in Kinds, RemoveFails(s, k)
      PROVE  StorageTypeOK'
  BY <1>9 DEF RemoveFails, Fault
<1>10. CASE Crash
  BY <1>10 DEF Crash, Fault
<1>13. ASSUME NEW s \in Savers, NEW k \in Kinds, StatFails(s, k)
       PROVE  StorageTypeOK'
  BY <1>13 DEF StatFails, Fault
<1>11. CASE TimePasses
  BY <1>11 DEF TimePasses, Clock, Later, Earlier, Versions
<1>12. CASE UNCHANGED storageVars
  BY <1>12 DEF storageVars
<1>. HIDE DEF StorageTypeOK
<1>. QED
  BY <1>1, <1>2, <1>3, <1>4, <1>5, <1>6, <1>7, <1>8, <1>9, <1>10, <1>11,
     <1>12, <1>13
     DEF StorageNext, SaveStep

LEMMA LinksStep ==
  ASSUME ~StatErrors, Inv, [StorageNext]_storageVars
  PROVE  LinksResolve' /\ LinksHaveTargets'
<1>. USE KindsAssumption, SentinelsAssumption
     DEF Inv, StorageTypeOK, LinksResolve, LinksHaveTargets, View, File,
         InArchive, Saving, disk, job, loop
<1>1. ASSUME NEW s \in Savers, NEW fs \in Resources, BeginSave(s, fs)
      PROVE  LinksResolve' /\ LinksHaveTargets'
  BY <1>1 DEF BeginSave
<1>2. ASSUME NEW s \in Savers, NEW k \in Kinds, OpenArchive(s, k)
      PROVE  LinksResolve' /\ LinksHaveTargets'
  BY <1>2 DEF OpenArchive, Versions
<1>3. ASSUME NEW s \in Savers, WriteArchive(s)
      PROVE  LinksResolve' /\ LinksHaveTargets'
  <2>1. PICK content \in Written(s, cur[s]) :
          archive' = [archive EXCEPT ![File(s, cur[s])] = content]
    BY <1>3 DEF WriteArchive
  <2>2. content # Absent
    BY <1>3 DEF WriteArchive, Written
  <2>3. \A f \in Versions \X Kinds : archive[f] # Absent => archive'[f] # Absent
    BY <2>1, <2>2
  <2>4. UNCHANGED <<live, stage, version>>
    BY <1>3 DEF WriteArchive
  <2>5. LinksResolve'
    BY <2>3, <2>4
  <2>6. LinksHaveTargets'
    <3>. SUFFICES ASSUME NEW t \in Savers, stage[t] = "link", cur'[t] # Absent
                  PROVE  archive'[<<version[t], cur'[t]>>] # Absent
      BY <2>4
    <3>1. cur'[t] = cur[t] /\ cur[t] \in Kinds /\ version[t] \in Versions
      BY <1>3 DEF WriteArchive, Versions
    <3>. QED
      BY <2>3, <3>1
  <2>. QED
    BY <2>5, <2>6
<1>4. ASSUME NEW s \in Savers, StartLinks(s)
      PROVE  LinksResolve' /\ LinksHaveTargets'
  <2>1. cur[s] = Absent
    BY <1>4 DEF StartLinks
  <2>. QED
    BY <1>4, <2>1 DEF StartLinks
<1>5. ASSUME NEW s \in Savers, NEW k \in Kinds,
             DropLink(s, k) \/ RemoveLink(s, k)
      PROVE  LinksResolve' /\ LinksHaveTargets'
  <2>1. CASE DropLink(s, k)
    BY <2>1 DEF DropLink
  <2>2. CASE RemoveLink(s, k)
    BY <2>2 DEF RemoveLink
  <2>. QED
    BY <1>5, <2>1, <2>2
<1>6. ASSUME NEW s \in Savers, CreateLink(s)
      PROVE  LinksResolve' /\ LinksHaveTargets'
  BY <1>6 DEF CreateLink
<1>7. ASSUME NEW s \in Savers, LinkExists(s) \/ FinishSave(s)
      PROVE  LinksResolve' /\ LinksHaveTargets'
  BY <1>7 DEF LinkExists, FinishSave
<1>8. ASSUME NEW s \in Savers, CallFails(s)
      PROVE  LinksResolve' /\ LinksHaveTargets'
  BY <1>8 DEF CallFails
<1>9. ASSUME NEW s \in Savers, NEW k \in Kinds, RemoveFails(s, k)
      PROVE  LinksResolve' /\ LinksHaveTargets'
  BY <1>9 DEF RemoveFails
<1>10. CASE Crash
  BY <1>10 DEF Crash
<1>11. CASE TimePasses
  BY <1>11 DEF TimePasses, Clock, Later, Earlier
<1>12. CASE UNCHANGED storageVars
  BY <1>12 DEF storageVars
<1>13. ASSUME NEW s \in Savers, NEW k \in Kinds PROVE ~StatFails(s, k)
  BY DEF StatFails
<1>. HIDE DEF Inv, LinksResolve, LinksHaveTargets
<1>. QED
  BY <1>1, <1>2, <1>3, <1>4, <1>5, <1>6, <1>7, <1>8, <1>9, <1>10, <1>11,
     <1>12, <1>13
     DEF StorageNext, SaveStep

\* For any number of savers that overlap, fail and die in any way, every state
\* is well typed ...
THEOREM StorageTypeCorrect == StorageSpec => []StorageTypeOK
<1>1. StorageInit => StorageTypeOK
  BY StorageInitially DEF Inv
<1>. QED
  BY <1>1, TypeStep, PTL DEF StorageSpec

\* ... and, if os.Stat fails for absence only, no link in live/ dangles.
THEOREM LinksCorrect ==
  ASSUME ~StatErrors PROVE StorageSpec => []LinksResolve
<1>1. Inv /\ [StorageNext]_storageVars => Inv'
  BY TypeStep, LinksStep DEF Inv
<1>2. Inv => LinksResolve
  BY DEF Inv
<1>. QED
  BY <1>1, <1>2, StorageInitially, PTL DEF StorageSpec

-----------------------------------------------------------------------------
(***************************************************************************)
(* Success of all leaves the full set of mandatory names.                  *)
(***************************************************************************)

Mandatory == Kinds \ Optional

\* A saver in its second loop has written every mandatory file.
MandatoryArchived ==
  \A s \in Savers : Saving(s) =>
    /\ Mandatory \subseteq files[s]
    /\ \A k \in Mandatory :
         (stage[s] = "link" \/ k \in files[s] \ todo[s])
           => archive[File(s, k)] # Absent

\* t still has name k to link, or will report that it could not.
Owes(t, k) == \/ stage[t] \in {"archive", "failed"}
              \/ stage[t] = "link" /\ k \in todo[t]

LinkedByNow(s, k) == \/ stage[s] = "done"
                     \/ stage[s] = "link" /\ k \notin todo[s]

\* A name that some saver has linked and that is gone again is owed by another.
MissingIsOwed ==
  \A s \in Savers, k \in Mandatory :
    LinkedByNow(s, k) /\ live[k] = Absent => \E t \in Savers : Owes(t, k)

LEMMA MandatoryStep ==
  ASSUME StorageTypeOK, MandatoryArchived, [StorageNext]_storageVars
  PROVE  MandatoryArchived'
<1>. USE KindsAssumption, SentinelsAssumption
     DEF StorageTypeOK, MandatoryArchived, Mandatory, File, Saving, disk, job,
         loop
<1>1. ASSUME NEW s \in Savers, NEW fs \in Resources, BeginSave(s, fs)
      PROVE  MandatoryArchived'
  BY <1>1 DEF BeginSave, Resources
<1>2. ASSUME NEW s \in Savers, NEW k \in Kinds, OpenArchive(s, k)
      PROVE  MandatoryArchived'
  BY <1>2 DEF OpenArchive, Versions
<1>3. ASSUME NEW s \in Savers, WriteArchive(s) PROVE MandatoryArchived'
  <2>1. PICK content \in Written(s, cur[s]) :
          archive' = [archive EXCEPT ![File(s, cur[s])] = content]
    BY <1>3 DEF WriteArchive
  <2>2. content # Absent
    BY <1>3 DEF WriteArchive, Written
  <2>3. /\ File(s, cur[s]) \in Versions \X Kinds
        /\ \A f \in Versions \X Kinds : archive[f] # Absent => archive'[f] # Absent
        /\ archive'[File(s, cur[s])] # Absent
    BY <1>3, <2>1, <2>2 DEF WriteArchive, Versions
  <2>4. UNCHANGED <<stage, files, version>>
        /\ todo' = [todo EXCEPT ![s] = @ \ {cur[s]}]
    BY <1>3 DEF WriteArchive
  <2>. SUFFICES ASSUME NEW t \in Savers, Saving(t), NEW k \in Mandatory,
                       stage[t] = "link" \/ k \in files[t] \ todo'[t]
                PROVE  archive'[<<version[t], k>>] # Absent
    BY <2>4
  <2>5. <<version[t], k>> \in Versions \X Kinds
    BY DEF Versions
  <2>6. CASE t = s /\ k = cur[s]
    BY <2>3, <2>6
  <2>7. CASE ~(t = s /\ k = cur[s])
    <3>1. stage[t] = "link" \/ k \in files[t] \ todo[t]
      BY <2>4, <2>7
    <3>. QED
      BY <2>3, <2>5, <3>1
  <2>. QED
    BY <2>6, <2>7
<1>4. ASSUME NEW s \in Savers, StartLinks(s) PROVE MandatoryArchived'
  BY <1>4 DEF StartLinks
<1>5. ASSUME NEW s \in Savers, NEW k \in Kinds, DropLink(s, k) \/ RemoveLink(s, k)
      PROVE  MandatoryArchived'
  BY <1>5 DEF DropLink, RemoveLink
<1>6. ASSUME NEW s \in Savers, CreateLink(s) PROVE MandatoryArchived'
  BY <1>6 DEF CreateLink
<1>7. ASSUME NEW s \in Savers,
             LinkExists(s) \/ FinishSave(s) \/ CallFails(s)
      PROVE  MandatoryArchived'
  BY <1>7 DEF LinkExists, FinishSave, CallFails
<1>8. ASSUME NEW s \in Savers, NEW k \in Kinds, RemoveFails(s, k) \/ StatFails(s, k)
      PROVE  MandatoryArchived'
  BY <1>8 DEF RemoveFails, StatFails
<1>9. CASE Crash
  BY <1>9 DEF Crash
<1>10. CASE TimePasses \/ UNCHANGED storageVars
  BY <1>10 DEF TimePasses, Clock, Later, Earlier, storageVars
<1>. HIDE DEF MandatoryArchived
<1>. QED
  BY <1>1, <1>2, <1>3, <1>4, <1>5, <1>6, <1>7, <1>8, <1>9, <1>10
     DEF StorageNext, SaveStep

LEMMA OwedStep ==
  ASSUME StorageTypeOK, MandatoryArchived, MissingIsOwed,
         [StorageNext]_storageVars
  PROVE  MissingIsOwed'
<1>. USE KindsAssumption, SentinelsAssumption
     DEF StorageTypeOK, MissingIsOwed, Owes, LinkedByNow, Mandatory, Saving,
         disk, job, loop
<1>1. ASSUME NEW s \in Savers, NEW fs \in Resources, BeginSave(s, fs)
      PROVE  MissingIsOwed'
  BY <1>1 DEF BeginSave
<1>2. ASSUME NEW s \in Savers, NEW k \in Kinds, OpenArchive(s, k)
      PROVE  MissingIsOwed'
  BY <1>2 DEF OpenArchive
<1>3. ASSUME NEW s \in Savers, WriteArchive(s) PROVE MissingIsOwed'
  <2>1. UNCHANGED <<live, stage>> /\ stage[s] = "archive"
        /\ todo' = [todo EXCEPT ![s] = @ \ {cur[s]}]
    BY <1>3 DEF WriteArchive
  <2>. QED
    BY <2>1
<1>4. ASSUME NEW s \in Savers, StartLinks(s) PROVE MissingIsOwed'
  BY <1>4 DEF StartLinks
<1>5. ASSUME NEW s \in Savers, NEW k \in Kinds, DropLink(s, k)
      PROVE  MissingIsOwed'
  <2>1. k \notin Mandatory
    BY <1>5 DEF DropLink, InArchive, MandatoryArchived
  <2>2. \A j \in Mandatory : /\ live'[j] = live[j]
                             /\ j \in todo'[s] <=> j \in todo[s]
    BY <1>5, <2>1 DEF DropLink
  <2>. QED
    BY <1>5, <2>2 DEF DropLink
<1>6. ASSUME NEW s \in Savers, NEW k \in Kinds,
             RemoveLink(s, k) \/ StatFails(s, k)
      PROVE  MissingIsOwed'
  <2>1. /\ stage[s] = "link" /\ k \in todo[s] /\ UNCHANGED <<stage, todo>>
        /\ live' = [live EXCEPT ![k] = Absent]
    BY <1>6 DEF RemoveLink, StatFails
  <2>. QED
    BY <2>1
<1>7. ASSUME NEW s \in Savers, CreateLink(s) PROVE MissingIsOwed'
  <2>1. /\ live' = [live EXCEPT ![cur[s]] = version[s]] /\ UNCHANGED stage
        /\ todo' = [todo EXCEPT ![s] = @ \ {cur[s]}]
        /\ version[s] # Absent /\ cur[s] \in Kinds
    BY <1>7, BoundsAssumption DEF CreateLink
  <2>. QED
    BY <2>1
<1>8. ASSUME NEW s \in Savers, LinkExists(s) \/ CallFails(s)
      PROVE  MissingIsOwed'
  <2>1. stage' = [stage EXCEPT ![s] = "failed"] /\ UNCHANGED <<live, todo>>
    BY <1>8 DEF LinkExists, CallFails
  <2>. QED
    BY <2>1
<1>9. ASSUME NEW s \in Savers, FinishSave(s) PROVE MissingIsOwed'
  BY <1>9 DEF FinishSave
<1>10. ASSUME NEW s \in Savers, NEW k \in Kinds, RemoveFails(s, k)
       PROVE  MissingIsOwed'
  <2>1. UNCHANGED <<live, stage>>
    BY <1>10 DEF RemoveFails
  <2>2. stage[s] = "link" /\ k \in Mandatory => UNCHANGED todo
    BY <1>10 DEF RemoveFails, InArchive, MandatoryArchived
  <2>3. UNCHANGED todo \/ todo' = [todo EXCEPT ![s] = @ \ {k}]
    BY <1>10 DEF RemoveFails
  <2>4. \A j \in Mandatory, t \in Savers : j \in todo'[t] <=> j \in todo[t]
    BY <1>10, <2>2, <2>3 DEF RemoveFails
  <2>. QED
    BY <2>1, <2>4
<1>11. CASE Crash
  BY <1>11 DEF Crash
<1>12. CASE TimePasses \/ UNCHANGED storageVars
  BY <1>12 DEF TimePasses, Clock, Later, Earlier, storageVars
<1>. HIDE DEF MissingIsOwed
<1>. QED
  BY <1>1, <1>2, <1>3, <1>4, <1>5, <1>6, <1>7, <1>8, <1>9, <1>10, <1>11, <1>12
     DEF StorageNext, SaveStep

\* However many savers overlap, and whatever fails on the way: when all of them
\* have returned and none reports an error, no mandatory name is missing.
THEOREM FullSetCorrect == StorageSpec => []SuccessLeavesFullSet
<1>. DEFINE FullInv == StorageTypeOK /\ MandatoryArchived /\ MissingIsOwed
<1>1. StorageInit => FullInv
  <2>1. StorageInit => StorageTypeOK
    BY StorageInitially DEF Inv
  <2>2. StorageInit => MandatoryArchived /\ MissingIsOwed
    BY DEF StorageInit, MandatoryArchived, MissingIsOwed, Saving, LinkedByNow
  <2>. QED
    BY <2>1, <2>2
<1>2. FullInv /\ [StorageNext]_storageVars => FullInv'
  BY TypeStep, MandatoryStep, OwedStep
<1>3. FullInv => SuccessLeavesFullSet
  BY DEF MissingIsOwed, SuccessLeavesFullSet, LinkedByNow, Owes, Mandatory
<1>. QED
  BY <1>1, <1>2, <1>3, PTL DEF StorageSpec

-----------------------------------------------------------------------------
(***************************************************************************)
(* Saves that do not overlap, each dated later than all before it, are     *)
(* served, and implement LiveDirectory, whichever goroutine makes them.    *)
(***************************************************************************)

\* What a save must find when it begins.
Alone == \A t \in Savers : ~Saving(t) /\ version[t] < clock

Reached(v) == \E s \in Savers : v <= version[s]

\* Bundles are numbered in the order they were issued in, and somebody has, or
\* had, the newest.
Books ==
  /\ \A s \in Savers : /\ version[s] <= clock /\ bundle[s] <= issued
                       /\ stage[s] # "idle" => files[s] \in Resources
  /\ \E s \in Savers : bundle[s] = issued
  /\ \A s, t \in Savers : bundle[s] = bundle[t] /\ bundle[s] # 0 => s = t

\* Nothing in archive/ is newer than the last save, or the newest bundle.
ArchiveIsPast ==
  \A v \in Versions, k \in Kinds :
    /\ archive[<<v, k>>] # Absent => Reached(v)
    /\ archive[<<v, k>>] \in Bundles => archive[<<v, k>>] <= issued

\* Links lead to whole files, or dangle.
LinksArePast ==
  \A k \in Kinds : live[k] # Absent =>
    Reached(live[k]) /\ archive[<<live[k], k>>] \in Bundles \cup {Absent}

\* The saver at work has the newest bundle, and nothing of it is elsewhere.
HasNewest(s) ==
  /\ bundle[s] = issued
  /\ stage[s] = "archive" => todo[s] \subseteq files[s]
  /\ \A v \in Versions, k \in Kinds :
       archive[<<v, k>>] = issued => v = version[s]

\* How far it has come with the file of kind k, and that its own files are
\* linked only in turn.
FileProgress(s, k) ==
  /\ stage[s] = "archive" /\ cur[s] = k => archive[File(s, k)] = Torn
  /\ k \notin files[s] => archive[File(s, k)] = Absent
  /\ k \in files[s] /\ (stage[s] = "link" \/ k \notin todo[s]) =>
       archive[File(s, k)] = issued
  /\ stage[s] = "archive" \/ k \in todo[s] => live[k] # version[s]

Progress ==
  \A s \in Savers : Saving(s) =>
    HasNewest(s) /\ \A k \in Kinds : FileProgress(s, k)

Served(s, k) ==
  IF k \in files[s]
    THEN live[k] = version[s] /\ archive[File(s, k)] = bundle[s]
    ELSE View(k) = Absent \/ k \in stuck

\* What the last save has linked stays linked.
ServedByNow ==
  \A s \in Savers, k \in Kinds :
    bundle[s] = issued /\ LinkedByNow(s, k) => Served(s, k)

SerialDisk == /\ StorageTypeOK /\ Books /\ ArchiveIsPast /\ LinksArePast
              /\ Progress /\ ServedByNow

\* At most one saver is at work, and none of the others has the newest bundle.
LEMMA OnlySaver ==
  ASSUME SerialDisk, NEW s \in Savers, Saving(s),
         NEW t \in Savers, t # s
  PROVE  ~Saving(t) /\ bundle[t] # issued
BY DEF SerialDisk, StorageTypeOK, Progress, HasNewest, Books

\* What one call does to a file of the save s is making.
LEMMA OneFile ==
  ASSUME StorageTypeOK
  PROVE  \A s \in Savers, k \in Kinds, content \in {Torn, issued} :
           Saving(s) /\ archive' = [archive EXCEPT ![File(s, k)] = content] =>
             \A v \in Versions, j \in Kinds :
               archive'[<<v, j>>] = IF v = version[s] /\ j = k
                                      THEN content ELSE archive[<<v, j>>]
BY BoundsAssumption DEF StorageTypeOK, Versions, File

LEMMA SerialStep ==
  ASSUME ~ClockSetBack, SerialDisk, [StorageNext]_storageVars,
         issued' # issued => Alone
  PROVE  SerialDisk'
<1>. DEFINE Kept == Books' /\ ArchiveIsPast' /\ LinksArePast' /\ Progress'
                    /\ ServedByNow'
<1>. USE KindsAssumption, SentinelsAssumption, BoundsAssumption
<1>1. StorageTypeOK /\ StorageTypeOK'
  BY TypeStep DEF SerialDisk
<1>2. Books /\ ArchiveIsPast /\ LinksArePast /\ Progress /\ ServedByNow
  BY DEF SerialDisk
<1>3. \A s, t \in Savers : Saving(s) /\ t # s => ~Saving(t) /\ bundle[t] # issued
  BY OnlySaver
<1>a. \A s \in Savers, k \in Kinds, content \in {Torn, issued} :
        Saving(s) /\ archive' = [archive EXCEPT ![File(s, k)] = content] =>
          \A v \in Versions, j \in Kinds :
            archive'[<<v, j>>] = IF v = version[s] /\ j = k
                                   THEN content ELSE archive[<<v, j>>]
  BY <1>1, OneFile
<1>. USE <1>1, <1>2, <1>3
     DEF StorageTypeOK, Books, ArchiveIsPast, LinksArePast, Progress, ServedByNow,
         Reached, HasNewest, FileProgress, Served, LinkedByNow, View,
         Saving, File, Versions, disk, job, loop
<1>4. ASSUME NEW s \in Savers, NEW fs \in Resources, BeginSave(s, fs) PROVE Kept
  <2>1. /\ issued' = issued + 1 /\ issued \in Nat
        /\ bundle' = [bundle EXCEPT ![s] = issued']
        /\ version' = [version EXCEPT ![s] = clock]
        /\ files' = [files EXCEPT ![s] = fs] /\ todo' = [todo EXCEPT ![s] = fs]
        /\ stage' = [stage EXCEPT ![s] = "archive"]
        /\ cur' = [cur EXCEPT ![s] = Absent]
        /\ UNCHANGED <<archive, live, stuck, clock>>
    BY <1>4 DEF BeginSave
  <2>2. Alone
    BY <2>1
  <2>3. \A v \in Versions : Reached(v) => v < clock /\ Reached(v)'
    BY <2>1, <2>2 DEF Alone
  <2>4. Books'
    BY <2>1, <2>2 DEF Alone
  <2>5. ArchiveIsPast' /\ LinksArePast'
    BY <2>1, <2>3 DEF Bundles
  <2>6. Progress'
    <3>. SUFFICES ASSUME NEW t \in Savers, Saving(t)'
                  PROVE  HasNewest(t)' /\ \A k \in Kinds : FileProgress(t, k)'
      OBVIOUS
    <3>1. t = s
      BY <2>1, <2>2 DEF Alone
    <3>2. HasNewest(s)'
      <4>1. ASSUME NEW v \in Versions, NEW k \in Kinds
            PROVE  archive[<<v, k>>] # issued'
        <5>1. issued' \in Bundles
          BY <2>1 DEF Bundles
        <5>2. archive[<<v, k>>] \in Bundles => archive[<<v, k>>] <= issued
          BY ONLY <1>2, <4>1 DEF ArchiveIsPast
        <5>. QED
          BY ONLY <2>1, <5>1, <5>2 DEF Bundles
      <4>2. bundle'[s] = issued' /\ files'[s] = fs /\ todo'[s] = fs
        BY <2>1
      <4>. QED
        BY ONLY <2>1, <4>1, <4>2 DEF HasNewest
    <3>3. \A k \in Kinds : FileProgress(s, k)'
      BY <2>1, <2>3
    <3>. QED
      BY <3>1, <3>2, <3>3
  <2>7. ServedByNow'
    BY <2>1
  <2>. QED
    BY <2>4, <2>5, <2>6, <2>7
<1>5. ASSUME NEW s \in Savers, NEW k \in Kinds, OpenArchive(s, k) PROVE Kept
  <2>1. /\ stage[s] = "archive" /\ k \in todo[s]
        /\ cur' = [cur EXCEPT ![s] = k]
        /\ archive' = [archive EXCEPT ![<<version[s], k>>] = Torn]
        /\ UNCHANGED <<live, stuck, clock, issued, stage, todo, bundle, files,
                       version>>
    BY <1>5 DEF OpenArchive
  <2>2. \A v \in Versions, j \in Kinds :
          archive'[<<v, j>>] = IF v = version[s] /\ j = k
                                 THEN Torn ELSE archive[<<v, j>>]
    BY ONLY <1>a, <2>1
  <2>3. Books' /\ ServedByNow'
    BY <2>1
  <2>4. ArchiveIsPast' /\ LinksArePast'
    BY <2>1, <2>2 DEF Bundles
  <2>5. Progress'
    BY <2>1, <2>2 DEF Bundles
  <2>. QED
    BY <2>3, <2>4, <2>5
<1>6. ASSUME NEW s \in Savers, WriteArchive(s) PROVE Kept
  <2>1. /\ stage[s] = "archive" /\ cur[s] \in Kinds
        /\ cur' = [cur EXCEPT ![s] = Absent]
        /\ todo' = [todo EXCEPT ![s] = @ \ {cur[s]}]
        /\ UNCHANGED <<live, stuck, clock, issued, stage, bundle, files, version>>
    BY <1>6 DEF WriteArchive
  <2>2. Written(s, cur[s]) = {issued}
    BY <2>1 DEF Written
  <2>3. archive' = [archive EXCEPT ![<<version[s], cur[s]>>] = issued]
    BY <1>6, <2>2 DEF WriteArchive
  <2>4. \A v \in Versions, j \in Kinds :
          archive'[<<v, j>>] = IF v = version[s] /\ j = cur[s]
                                 THEN issued ELSE archive[<<v, j>>]
    BY ONLY <1>a, <2>1, <2>3
  <2>5. Books' /\ ServedByNow'
    BY <2>1
  <2>6. ArchiveIsPast' /\ LinksArePast'
    <3>1. \A v \in Versions : Reached(v)' <=> Reached(v)
      BY <2>1
    <3>2. Reached(version[s]) /\ (issued # 0 => issued \in Bundles)
      BY <2>1 DEF Bundles
    <3>. HIDE DEF Reached
    <3>3. ArchiveIsPast'
      <4>1. ASSUME NEW v \in Versions, NEW k \in Kinds
            PROVE  /\ archive'[<<v, k>>] # Absent => Reached(v)'
                   /\ archive'[<<v, k>>] \in Bundles => archive'[<<v, k>>] <= issued'
        <5>1. CASE v = version[s] /\ k = cur[s]
          BY ONLY <1>1, <2>1, <2>4, <3>1, <3>2, <5>1 DEF StorageTypeOK
        <5>2. CASE ~(v = version[s] /\ k = cur[s])
          BY ONLY <1>2, <2>1, <2>4, <3>1, <5>2 DEF ArchiveIsPast
        <5>. QED
          BY <5>1, <5>2
      <4>. QED
        BY ONLY <4>1 DEF ArchiveIsPast
    <3>4. LinksArePast'
      BY <2>1, <2>4, <3>1, <3>2 DEF Bundles
    <3>. QED
      BY <3>3, <3>4
  <2>7. Progress'
    BY <2>1, <2>4 DEF Bundles
  <2>. QED
    BY <2>5, <2>6, <2>7
<1>7. ASSUME NEW s \in Savers, StartLinks(s) PROVE Kept
  BY <1>7 DEF StartLinks
<1>8. ASSUME NEW s \in Savers, NEW k \in Kinds, DropLink(s, k) PROVE Kept
  BY <1>8 DEF DropLink, InArchive
<1>9. ASSUME NEW s \in Savers, NEW k \in Kinds,
             RemoveLink(s, k) \/ StatFails(s, k)
      PROVE  Kept
  <2>1. /\ stage[s] = "link" /\ k \in todo[s] /\ cur' = [cur EXCEPT ![s] = k]
        /\ live' = [live EXCEPT ![k] = Absent] /\ stuck' = stuck \ {k}
        /\ UNCHANGED <<archive, clock, issued, stage, todo, bundle, files, version>>
    BY <1>9 DEF RemoveLink, StatFails
  <2>2. Books' /\ ArchiveIsPast' /\ LinksArePast'
    BY <2>1
  <2>3. Progress'
    BY <2>1
  <2>4. ServedByNow'
    BY <2>1
  <2>. QED
    BY <2>2, <2>3, <2>4
<1>10. ASSUME NEW s \in Savers, CreateLink(s) PROVE Kept
  <2>1. /\ stage[s] = "link" /\ cur[s] \in Kinds /\ version[s] \in Versions
        /\ live' = [live EXCEPT ![cur[s]] = version[s]]
        /\ todo' = [todo EXCEPT ![s] = @ \ {cur[s]}]
        /\ cur' = [cur EXCEPT ![s] = Absent]
        /\ UNCHANGED <<archive, stuck, clock, issued, stage, bundle, files,
                       version>>
    BY <1>10 DEF CreateLink
  <2>2. Books' /\ ArchiveIsPast' /\ LinksArePast'
    BY <2>1 DEF Bundles
  <2>3. Progress'
    BY <2>1
  <2>4. ServedByNow'
    BY <2>1
  <2>. QED
    BY <2>2, <2>3, <2>4
<1>11. ASSUME NEW s \in Savers,
              LinkExists(s) \/ FinishSave(s) \/ CallFails(s)
       PROVE  Kept
  BY <1>11 DEF LinkExists, FinishSave, CallFails, Fault
<1>12. ASSUME NEW s \in Savers, NEW k \in Kinds, RemoveFails(s, k) PROVE Kept
  BY <1>12 DEF RemoveFails, InArchive, Fault
<1>13. ASSUME Crash PROVE Kept
  <2>1. /\ stage' = [s \in Savers |-> "idle"]
        /\ UNCHANGED <<archive, live, stuck, clock, issued, bundle, files, version>>
    BY <1>13 DEF Crash
  <2>2. Books' /\ ArchiveIsPast' /\ LinksArePast'
    BY <2>1
  <2>3. Progress' /\ ServedByNow'
    BY <2>1
  <2>. QED
    BY <2>2, <2>3
<1>14. ASSUME TimePasses PROVE Kept
  <2>1. /\ clock <= clock' /\ clock' \in Nat
        /\ UNCHANGED <<archive, live, stuck, issued, stage, bundle, files, version,
                       todo, cur>>
    BY <1>14 DEF TimePasses, Clock, Later, Earlier
  <2>2. Books'
    BY <2>1
  <2>3. ArchiveIsPast' /\ LinksArePast' /\ Progress' /\ ServedByNow'
    BY <2>1
  <2>. QED
    BY <2>2, <2>3
<1>15. ASSUME UNCHANGED storageVars PROVE Kept
  <2>1. UNCHANGED <<archive, live, stuck, clock, issued, stage, bundle, files,
                    version, todo, cur>>
    BY <1>15 DEF storageVars
  <2>2. Books' /\ ArchiveIsPast' /\ LinksArePast'
    BY <2>1
  <2>3. Progress' /\ ServedByNow'
    BY <2>1
  <2>. QED
    BY <2>2, <2>3
<1>16. Kept
  <2>. HIDE <1>1, <1>2, <1>3
            DEF Kept, Saving, File, Versions, disk, job, loop
  <2>. QED
    BY <1>4, <1>5, <1>6, <1>7, <1>8, <1>9, <1>10, <1>11, <1>12, <1>13, <1>14,
       <1>15
       DEF StorageNext, SaveStep
<1>. QED
  BY <1>16, <1>1 DEF SerialDisk

LEMMA SerialInitially ==
  ASSUME Savers # {}, StorageInit PROVE SerialDisk
<1>1. StorageTypeOK
  BY StorageInitially DEF Inv
<1>2. Books /\ Progress
  BY DEF StorageInit, Books, Progress, Saving
<1>3. ArchiveIsPast /\ LinksArePast
  BY SentinelsAssumption
     DEF StorageInit, ArchiveIsPast, LinksArePast, Bundles, Versions
<1>4. ServedByNow
  BY DEF StorageInit, ServedByNow, LinkedByNow
<1>. QED
  BY <1>1, <1>2, <1>3, <1>4 DEF SerialDisk

\* A step that leaves every link, and every file linked to, as it was is not
\* seen by a reader of live/.
LEMMA ViewKept ==
  ASSUME StorageTypeOK, UNCHANGED live,
         \A k \in Kinds : live[k] # Absent =>
           archive'[<<live[k], k>>] = archive[<<live[k], k>>]
  PROVE  UNCHANGED [k \in Kinds |-> View(k)]
BY DEF View

LEMMA PromiseStep ==
  ASSUME SerialDisk, [StorageNext]_storageVars
  PROVE  [Promise!Next]_Promise!vars
<1>. DEFINE view == [k \in Kinds |-> View(k)]
            Stutter == UNCHANGED issued /\ UNCHANGED view
<1>. USE KindsAssumption, SentinelsAssumption, BoundsAssumption
<1>1. StorageTypeOK
  BY DEF SerialDisk
<1>2. ASSUME NEW s \in Savers, Saving(s)
      PROVE  HasNewest(s) /\ \A k \in Kinds : FileProgress(s, k)
  BY <1>2 DEF SerialDisk, Progress
<1>3. ASSUME NEW s \in Savers, Saving(s), NEW k \in Kinds, live[k] # version[s]
      PROVE  View(k) # issued
  BY <1>1, <1>2, <1>3 DEF HasNewest, View, StorageTypeOK
<1>4. ASSUME NEW s \in Savers, NEW fs \in Resources, BeginSave(s, fs)
      PROVE  Promise!Publish
  BY <1>4, <1>1, ViewKept DEF BeginSave, Promise!Publish, disk
<1>5. ASSUME NEW s \in Savers, NEW k \in Kinds, OpenArchive(s, k) PROVE Stutter
  <2>1. \A j \in Kinds : live[j] # Absent =>
          archive'[<<live[j], j>>] = archive[<<live[j], j>>]
    BY <1>5, <1>1, <1>2
       DEF OpenArchive, FileProgress, StorageTypeOK, Saving, File, Versions
  <2>2. UNCHANGED <<issued, live>>
    BY <1>5 DEF OpenArchive
  <2>. QED
    BY <2>1, <2>2, <1>1, ViewKept
<1>6. ASSUME NEW s \in Savers, WriteArchive(s) PROVE Stutter
  <2>1. \A j \in Kinds : live[j] # Absent =>
          archive'[<<live[j], j>>] = archive[<<live[j], j>>]
    BY <1>6, <1>1, <1>2
       DEF WriteArchive, FileProgress, StorageTypeOK, Saving, File, Versions
  <2>2. UNCHANGED <<issued, live>>
    BY <1>6 DEF WriteArchive
  <2>. QED
    BY <2>1, <2>2, <1>1, ViewKept
<1>7. ASSUME NEW s \in Savers, NEW k \in Kinds,
             DropLink(s, k) \/ RemoveLink(s, k) \/ StatFails(s, k)
      PROVE  Promise!Withdraw(k) \/ Stutter
  <2>1. /\ UNCHANGED <<archive, issued>> /\ Saving(s)
        /\ live' = [live EXCEPT ![k] = Absent] /\ live[k] # version[s]
    BY <1>7, <1>2 DEF DropLink, RemoveLink, StatFails, Saving, FileProgress
  <2>2. view' = [view EXCEPT ![k] = Absent]
    BY <2>1, <1>1 DEF View, StorageTypeOK
  <2>3. CASE view[k] = Absent
    <3>. QED
      BY <2>1, <2>2, <2>3
  <2>4. CASE view[k] # Absent
    <3>1. view[k] \notin {Absent, issued}
      BY <2>1, <2>4, <1>2, <1>3
    <3>. QED
      BY <3>1, <2>1, <2>2 DEF Promise!Withdraw
  <2>. QED
    BY <2>3, <2>4
<1>8. ASSUME NEW s \in Savers, CreateLink(s) PROVE Promise!Show(cur[s]) \/ Stutter
  <2>1. /\ UNCHANGED <<archive, issued>> /\ cur[s] \in Kinds
        /\ live[cur[s]] = Absent /\ version[s] \in Versions
        /\ live' = [live EXCEPT ![cur[s]] = version[s]]
        /\ issued > 0
    BY <1>8, <1>1, <1>2 DEF CreateLink, StorageTypeOK, HasNewest,
                           Saving, Versions
  <2>2. view' = [view EXCEPT ![cur[s]] = archive[<<version[s], cur[s]>>]]
    BY <2>1, <1>1 DEF View, StorageTypeOK, Versions
  <2>3. view[cur[s]] = Absent
    BY <2>1 DEF View
  <2>4. archive[<<version[s], cur[s]>>] \in {issued, Absent}
    BY <1>8, <1>2, <2>1 DEF CreateLink, FileProgress, File, Saving
  <2>5. CASE archive[<<version[s], cur[s]>>] = issued
    BY <2>1, <2>2, <2>3, <2>5 DEF Promise!Show
  <2>6. CASE archive[<<version[s], cur[s]>>] = Absent
    BY <2>1, <2>2, <2>3, <2>6
  <2>. QED
    BY <2>4, <2>5, <2>6
<1>9. ASSUME \/ \E s \in Savers : \/ StartLinks(s) \/ LinkExists(s) \/ FinishSave(s)
                                  \/ CallFails(s)
                                  \/ \E k \in Kinds : RemoveFails(s, k)
             \/ Crash \/ TimePasses \/ UNCHANGED storageVars
      PROVE  Stutter
  <2>1. UNCHANGED <<archive, live, issued>>
    BY <1>9 DEF StartLinks, LinkExists, FinishSave, CallFails, Crash,
                TimePasses, Clock, Later, Earlier,
                storageVars, RemoveFails, disk
  <2>. QED
    BY <2>1, <1>1, ViewKept
<1>10. \/ Promise!Publish \/ \E k \in Kinds : Promise!Withdraw(k)
       \/ Stutter
       \/ \E k \in Kinds : Promise!Show(k)
  <2>1. ASSUME NEW s \in Savers, CreateLink(s) PROVE cur[s] \in Kinds
    BY <2>1, <1>1 DEF CreateLink, StorageTypeOK
  <2>. HIDE DEF Stutter
  <2>2. CASE \E s \in Savers, k \in Kinds :
               \/ OpenArchive(s, k) \/ DropLink(s, k) \/ RemoveLink(s, k)
               \/ RemoveFails(s, k) \/ StatFails(s, k)
    BY <2>2, <1>5, <1>7, <1>9
  <2>3. CASE \E s \in Savers :
               \/ WriteArchive(s) \/ StartLinks(s) \/ CreateLink(s)
               \/ LinkExists(s) \/ FinishSave(s) \/ CallFails(s)
    BY <2>3, <1>6, <1>8, <1>9, <2>1
  <2>4. CASE \E s \in Savers, fs \in Resources : BeginSave(s, fs)
    BY <2>4, <1>4
  <2>5. CASE Crash \/ TimePasses \/ UNCHANGED storageVars
    BY <2>5, <1>9
  <2>. QED
    BY <2>2, <2>3, <2>4, <2>5 DEF StorageNext, SaveStep
<1>. QED
  BY <1>10 DEF Promise!Next, Promise!vars

\* A single goroutine that saves finds every second before it used up, and so
\* is always alone.
LEMMA SoleIsAlone ==
  ASSUME NEW s, Savers = {s}, ~ClockSetBack, SerialDisk,
         [StorageNext]_storageVars, issued' # issued
  PROVE  Alone
<1>1. PICK fs \in Resources : BeginSave(s, fs)
  BY DEF StorageNext, SaveStep, OpenArchive, DropLink, RemoveLink, RemoveFails,
         StatFails, WriteArchive, StartLinks, CreateLink, LinkExists,
         FinishSave, CallFails, Crash, TimePasses, Clock, storageVars
<1>2. version[s] # clock /\ ~Saving(s)
  BY <1>1 DEF BeginSave, SecondIsFree
<1>3. version[s] \in Nat /\ clock \in Nat /\ version[s] <= clock
  BY BoundsAssumption DEF SerialDisk, Books, StorageTypeOK, Versions
<1>. QED
  BY <1>2, <1>3 DEF Alone

\* With one saver and a clock that is never set back, whatever errors and
\* crashes meet it, the live directory implements LiveDirectory: only whole
\* files are shown, a file newly shown is of the newest bundle, and no file of
\* the newest bundle is taken away.
THEOREM LivePromiseKept ==
  ASSUME NEW s, Savers = {s}, ~ClockSetBack PROVE StorageSpec => LivePromise
<1>1. StorageInit => SerialDisk
  BY SerialInitially
<1>2. SerialDisk /\ [StorageNext]_storageVars => SerialDisk'
  BY SoleIsAlone, SerialStep
<1>3. StorageInit => Promise!Init
  BY DEF StorageInit, Promise!Init, View
<1>4. SerialDisk /\ [StorageNext]_storageVars => [Promise!Next]_Promise!vars
  BY PromiseStep
<1>. QED
  BY <1>1, <1>2, <1>3, <1>4, PTL DEF StorageSpec, LivePromise, Promise!Spec

\* Under the same assumptions a save that returned success, and was not
\* followed by another, is served: each name it had a part for shows that part,
\* and each other name shows nothing, unless the removal of that name failed.
THEOREM SavedCorrect ==
  ASSUME NEW s, Savers = {s}, ~ClockSetBack
  PROVE  StorageSpec => []SavedIsServed
<1>1. StorageInit => SerialDisk
  BY SerialInitially
<1>2. SerialDisk /\ [StorageNext]_storageVars => SerialDisk'
  BY SoleIsAlone, SerialStep
<1>3. SerialDisk => SavedIsServed
  <2>. SUFFICES ASSUME SerialDisk, stage[s] = "done", NEW k \in Kinds
                PROVE  IF k \in files[s] THEN View(k) = bundle[s]
                                         ELSE View(k) = Absent \/ k \in stuck
    BY DEF SavedIsServed, SerialDisk, StorageTypeOK
  <2>1. Served(s, k)
    BY DEF SerialDisk, Books, ServedByNow, LinkedByNow
  <2>2. version[s] # Absent
    BY SentinelsAssumption DEF SerialDisk, StorageTypeOK
  <2>. QED
    BY <2>1, <2>2 DEF Served, View, File
<1>. QED
  BY <1>1, <1>2, <1>3, PTL DEF StorageSpec
=============================================================================
