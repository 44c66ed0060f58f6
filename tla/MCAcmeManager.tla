--------------------------- MODULE MCAcmeManager ---------------------------
(***************************************************************************)
(* AcmeManager for TLC.  The runners that are API requests are             *)
(* interchangeable.                                                        *)
(***************************************************************************)
EXTENDS AcmeManager, TLC

\* What the properties that speak of overlapping runs can tell apart: result is
\* history, and a save that is over leaves nothing but its timestamp.
CurrentJob(r) == IF Saving(r) THEN <<bundle[r], files[r]>> ELSE <<>>
Unremarked == <<disk, clock, issued, faults, loop, version,
                [r \in Savers |-> CurrentJob(r)],
                lastError, lastSuccess, registration, runnerVars, worldVars>>

Symmetry == Permutations(Savers \ {Main, Scheduler})
=============================================================================
