---------------------------- MODULE CertStorage ----------------------------
(***************************************************************************)
(* SaveCertificateResource, internal/storage/certificate_storage.go: the   *)
(* files of a bundle are written under archive/ with the second of the     *)
(* save in their names, then each name in live/ is removed and linked      *)
(* again.  One action per system call that another process can see the     *)
(* effect of; both loops run over a Go map, so in any order.               *)
(*                                                                         *)
(* A file's content is the number of the bundle it was written from, or    *)
(* Torn while it is truncated or partly written.                           *)
(***************************************************************************)
EXTENDS Naturals

CONSTANTS
  Savers,    \* goroutines that may run SaveCertificateResource
  Kinds,     \* cert, privkey, chain, fullchain
  Optional,  \* the kinds a bundle may come without (an empty issuer chain)
  Absent,    \* no such file or link; no file in hand
  Torn,      \* content of a file not completely written
  StatErrors, \* may os.Stat fail in archive/ for more than absence?
  ClockSetBack, \* may the wall clock be set back, or summer time end?
  MaxIssued, \* bound: bundles the CA issues in a behaviour
  MaxFaults  \* bound: file-system errors and crashes in a behaviour

ASSUME KindsAssumption  == /\ Optional \subseteq Kinds \ {"cert", "privkey"}
                           /\ {"cert", "privkey"} \subseteq Kinds
                           /\ Absent \notin Kinds
ASSUME StatAssumption   == StatErrors \in BOOLEAN /\ ClockSetBack \in BOOLEAN
ASSUME BoundsAssumption == MaxIssued \in Nat \ {0} /\ MaxFaults \in Nat

Bundles  == 1..MaxIssued
Versions == 1..MaxIssued

ASSUME SentinelsAssumption == /\ Absent \notin 0..MaxIssued
                              /\ Torn \notin 0..MaxIssued /\ Torn # Absent

VARIABLES
  archive,       \* content of each file kind-version.pem
  live,          \* the version each name in live/ links to
  stuck,         \* history: names that the last os.Remove of them failed for
  clock,         \* the wall clock, in seconds (see Tick)
  issued,        \* bundles issued so far
  faults,        \* faults so far
  stage,         \* where each saver is
  bundle, files, \* the certificate resource: its number, its nonempty parts
  version,       \* the save's timestamp
  todo, cur      \* kinds left in the loop; the one half done, or Absent

disk   == <<archive, live, stuck>>
job    == <<bundle, files, version>>
loop   == <<stage, todo, cur>>
storageVars == <<disk, clock, issued, faults, loop, job>>

Stages == {"idle", "archive", "link", "done", "failed"}
Saving(s) == stage[s] \in {"archive", "link"}

\* What a reader that follows a live link finds.
View(k) == IF live[k] = Absent THEN Absent ELSE archive[<<live[k], k>>]

-----------------------------------------------------------------------------
(***************************************************************************)
(* SaveCertificateResource.                                                *)
(***************************************************************************)

\* An ACME order, and a restart, take longer than a second: a save shares its
\* timestamp only with those of other goroutines of the same process, unless
\* the clock has been set back.
SecondIsFree(s) ==
  ClockSetBack \/ \A t \in Savers : version[t] = clock => t # s /\ stage[t] # "idle"

BeginSaveUnversioned(s, fs) ==
  /\ ~Saving(s) /\ SecondIsFree(s) /\ issued < MaxIssued
  /\ issued' = issued + 1
  /\ bundle' = [bundle EXCEPT ![s] = issued']
  /\ files' = [files EXCEPT ![s] = fs]
  /\ version' = [version EXCEPT ![s] = 1]
  /\ stage' = [stage EXCEPT ![s] = "archive"]
  /\ todo' = [todo EXCEPT ![s] = fs]
  /\ cur' = [cur EXCEPT ![s] = Absent]
  /\ UNCHANGED <<disk, clock, faults>>

\* The caller holds a new bundle with the nonempty parts fs.
BeginSave(s, fs) ==
  /\ ~Saving(s) /\ SecondIsFree(s) /\ issued < MaxIssued
  /\ issued' = issued + 1
  /\ bundle' = [bundle EXCEPT ![s] = issued']
  /\ files' = [files EXCEPT ![s] = fs]
  /\ version' = [version EXCEPT ![s] = clock]
  /\ stage' = [stage EXCEPT ![s] = "archive"]
  /\ todo' = [todo EXCEPT ![s] = fs]
  /\ cur' = [cur EXCEPT ![s] = Absent]
  /\ UNCHANGED <<disk, clock, faults>>

\* The archive file of kind k, named after the save's timestamp.
File(s, k) == <<version[s], k>>

\* os.WriteFile first truncates the file, or creates it empty ...
OpenArchive(s, k) ==
  /\ stage[s] = "archive" /\ cur[s] = Absent /\ k \in todo[s]
  /\ archive' = [archive EXCEPT ![File(s, k)] = Torn]
  /\ cur' = [cur EXCEPT ![s] = k]
  /\ UNCHANGED <<live, stuck, clock, issued, faults, stage, todo, job>>

\* ... then writes.  Over what another saver wrote since, the tail of the
\* longer content remains.
Written(s, k) ==
  IF archive[File(s, k)] = Torn THEN {bundle[s]} ELSE {bundle[s], Torn}

WriteArchiveKeepsFile(s) ==
  /\ stage[s] = "archive" /\ cur[s] # Absent
  /\ \E content \in Written(s, cur[s]) :
       archive' = [archive EXCEPT ![File(s, cur[s])] = content]
  /\ todo' = [todo EXCEPT ![s] = @ \ {cur[s]}]
  /\ UNCHANGED <<live, stuck, clock, issued, faults, stage, cur, job>>

WriteArchive(s) ==
  /\ stage[s] = "archive" /\ cur[s] # Absent
  /\ \E content \in Written(s, cur[s]) :
       archive' = [archive EXCEPT ![File(s, cur[s])] = content]
  /\ todo' = [todo EXCEPT ![s] = @ \ {cur[s]}]
  /\ cur' = [cur EXCEPT ![s] = Absent]
  /\ UNCHANGED <<live, stuck, clock, issued, faults, stage, job>>

StartLinks(s) ==
  /\ stage[s] = "archive" /\ todo[s] = {}
  /\ stage' = [stage EXCEPT ![s] = "link"]
  /\ todo' = [todo EXCEPT ![s] = Kinds]
  /\ UNCHANGED <<disk, clock, issued, faults, cur, job>>

InArchive(s, k) == archive[File(s, k)] # Absent

DropLinkKeepsOld(s, k) ==
  /\ stage[s] = "link" /\ cur[s] = Absent /\ k \in todo[s]
  /\ ~InArchive(s, k)
  /\ todo' = [todo EXCEPT ![s] = @ \ {k}]
  /\ UNCHANGED <<disk, clock, issued, faults, stage, cur, job>>

\* There is no such file to link to: an old link goes, none comes.
DropLink(s, k) ==
  /\ stage[s] = "link" /\ cur[s] = Absent /\ k \in todo[s]
  /\ ~InArchive(s, k)
  /\ live' = [live EXCEPT ![k] = Absent] /\ stuck' = stuck \ {k}
  /\ todo' = [todo EXCEPT ![s] = @ \ {k}]
  /\ UNCHANGED <<archive, clock, issued, faults, stage, cur, job>>

RemoveLink(s, k) ==
  /\ stage[s] = "link" /\ cur[s] = Absent /\ k \in todo[s]
  /\ InArchive(s, k)
  /\ live' = [live EXCEPT ![k] = Absent] /\ stuck' = stuck \ {k}
  /\ cur' = [cur EXCEPT ![s] = k]
  /\ UNCHANGED <<archive, clock, issued, faults, stage, todo, job>>

CreateLinkNow(s) ==
  /\ stage[s] = "link" /\ cur[s] # Absent /\ live[cur[s]] = Absent
  /\ live' = [live EXCEPT ![cur[s]] = clock]
  /\ todo' = [todo EXCEPT ![s] = @ \ {cur[s]}]
  /\ cur' = [cur EXCEPT ![s] = Absent]
  /\ UNCHANGED <<archive, stuck, clock, issued, faults, stage, job>>

CreateLink(s) ==
  /\ stage[s] = "link" /\ cur[s] # Absent /\ live[cur[s]] = Absent
  /\ live' = [live EXCEPT ![cur[s]] = version[s]]
  /\ todo' = [todo EXCEPT ![s] = @ \ {cur[s]}]
  /\ cur' = [cur EXCEPT ![s] = Absent]
  /\ UNCHANGED <<archive, stuck, clock, issued, faults, stage, job>>

LinkExistsRemoves(s) ==
  /\ stage[s] = "link" /\ cur[s] # Absent /\ live[cur[s]] # Absent
  /\ live' = [live EXCEPT ![cur[s]] = Absent]
  /\ todo' = [todo EXCEPT ![s] = @ \ {cur[s]}]
  /\ cur' = [cur EXCEPT ![s] = Absent]
  /\ UNCHANGED <<archive, stuck, clock, issued, faults, stage, job>>

\* os.Symlink finds the name taken again, or never removed.
LinkExists(s) ==
  /\ stage[s] = "link" /\ cur[s] # Absent /\ live[cur[s]] # Absent
  /\ stage' = [stage EXCEPT ![s] = "failed"]
  /\ UNCHANGED <<disk, clock, issued, faults, todo, cur, job>>

\* Ownership is set at the end; that it could not be is only logged.
FinishSave(s) ==
  /\ stage[s] = "link" /\ todo[s] = {}
  /\ stage' = [stage EXCEPT ![s] = "done"]
  /\ UNCHANGED <<disk, clock, issued, faults, todo, cur, job>>

-----------------------------------------------------------------------------
(***************************************************************************)
(* Faults.                                                                 *)
(***************************************************************************)

Fault == faults < MaxFaults /\ faults' = faults + 1

\* Creating a directory, opening or writing a file, or making a link fails;
\* a file that was already open stays torn.
CallFails(s) ==
  /\ Fault /\ Saving(s) /\ todo[s] # {}
  /\ stage' = [stage EXCEPT ![s] = "failed"]
  /\ UNCHANGED <<disk, clock, issued, todo, cur, job>>

\* Only os.IsNotExist skips a kind: after any other error of os.Stat the name
\* is relinked whether or not the file is there.
StatFails(s, k) ==
  /\ StatErrors /\ Fault
  /\ stage[s] = "link" /\ cur[s] = Absent /\ k \in todo[s]
  /\ live' = [live EXCEPT ![k] = Absent] /\ stuck' = stuck \ {k}
  /\ cur' = [cur EXCEPT ![s] = k]
  /\ UNCHANGED <<archive, clock, issued, stage, todo, job>>

\* A failed os.Remove is only logged, in either branch.
RemoveFails(s, k) ==
  /\ Fault /\ stage[s] = "link" /\ cur[s] = Absent /\ k \in todo[s]
  /\ live[k] # Absent
  /\ IF InArchive(s, k)
       THEN cur' = [cur EXCEPT ![s] = k] /\ UNCHANGED todo
       ELSE todo' = [todo EXCEPT ![s] = @ \ {k}] /\ UNCHANGED cur
  /\ stuck' = stuck \cup {k}
  /\ UNCHANGED <<archive, live, clock, issued, stage, job>>

\* The container dies; only the disk remains.  (What bundle, files and version
\* keep for a saver that is not saving is history.)
Crash ==
  /\ Fault
  /\ stage' = [s \in Savers |-> "idle"]
  /\ todo' = [s \in Savers |-> {}]
  /\ cur' = [s \in Savers |-> Absent]
  /\ UNCHANGED <<disk, clock, issued, job>>

\* The second after this one.  Seconds in which nothing is saved are not told
\* apart.
Later ==
  IF clock < MaxIssued /\ (ClockSetBack \/ \E s \in Savers : version[s] = clock)
    THEN {clock + 1} ELSE {}

\* Seconds that come again, perhaps one whose name files in archive/ bear.
Earlier == IF ClockSetBack THEN 1..clock - 1 ELSE {}

Clock(seconds) ==
  clock' \in seconds /\ UNCHANGED <<disk, issued, faults, loop, job>>

Tick       == Clock(Later)
TimePasses == Clock(Later \cup Earlier)

StorageInit ==
  /\ archive = [f \in Versions \X Kinds |-> Absent]
  /\ live = [k \in Kinds |-> Absent] /\ stuck = {}
  /\ clock = 1 /\ issued = 0 /\ faults = 0
  /\ stage = [s \in Savers |-> "idle"]
  /\ bundle = [s \in Savers |-> 0] /\ version = [s \in Savers |-> 0]
  /\ files = [s \in Savers |-> {}] /\ todo = [s \in Savers |-> {}]
  /\ cur = [s \in Savers |-> Absent]

\* The parts of a bundle that are not empty.
Resources == {Kinds \ missing : missing \in SUBSET Optional}

\* Everything a save does once begun.
SaveStep(s) ==
  \/ \E k \in Kinds : \/ OpenArchive(s, k) \/ DropLink(s, k)
                      \/ RemoveLink(s, k) \/ RemoveFails(s, k)
                      \/ StatFails(s, k)
  \/ WriteArchive(s) \/ StartLinks(s)
  \/ CreateLink(s) \/ LinkExists(s) \/ FinishSave(s) \/ CallFails(s)

StorageNext ==
  \/ \E s \in Savers : SaveStep(s) \/ \E fs \in Resources : BeginSave(s, fs)
  \/ TimePasses \/ Crash

StorageSpec == StorageInit /\ [][StorageNext]_storageVars

-----------------------------------------------------------------------------
(***************************************************************************)
(* Properties.                                                             *)
(***************************************************************************)

Contents == Bundles \cup {Absent, Torn}

\* Types; and what a saver has in hand belongs to the loop it is in.
StorageTypeOK ==
  /\ archive \in [Versions \X Kinds -> Contents]
  /\ live \in [Kinds -> Versions \cup {Absent}] /\ stuck \subseteq Kinds
  /\ clock \in Versions /\ issued \in 0..MaxIssued
  /\ faults \in 0..MaxFaults
  /\ stage \in [Savers -> Stages]
  /\ bundle \in [Savers -> 0..MaxIssued]
  /\ version \in [Savers -> 0..MaxIssued]
  /\ files \in [Savers -> SUBSET Kinds] /\ todo \in [Savers -> SUBSET Kinds]
  /\ cur \in [Savers -> Kinds \cup {Absent}]
  /\ \A s \in Savers : Saving(s) => /\ bundle[s] # 0 /\ version[s] # 0
                                    /\ cur[s] \in todo[s] \cup {Absent}

\* No link in live/ dangles, whatever savers overlap, fail or die, as long as
\* os.Stat tells presence from absence: a name is linked only to a file that
\* was found in archive/.
LinksResolve == \A k \in Kinds : live[k] # Absent => View(k) # Absent

\* Savers that all returned success, however they overlapped, leave no
\* mandatory name missing from live/: the links one of them removed from
\* under another were put back or reported.
SuccessLeavesFullSet ==
  /\ \E s \in Savers : stage[s] = "done"
  /\ \A s \in Savers : stage[s] \in {"idle", "done"}
  => \A k \in Kinds \ Optional : live[k] # Absent

\* A save that returned success and was not followed by another shows its own
\* bundle at every name, and nothing left over from an older one at a name
\* the bundle has no file for, unless it was this name that os.Remove failed for.
SavedIsServed ==
  \A s \in Savers : stage[s] = "done" =>
    /\ \A k \in files[s] : View(k) = bundle[s]
    /\ \A k \in Kinds \ files[s] : View(k) = Absent \/ k \in stuck

\* With one saver, across errors and crashes at any point, live/ keeps the
\* promise of LiveDirectory.
Promise == INSTANCE LiveDirectory
             WITH latest <- issued, view <- [k \in Kinds |-> View(k)]
LivePromise == Promise!Spec
=============================================================================
