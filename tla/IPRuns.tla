------------------------------- MODULE IPRuns -------------------------------
(***************************************************************************)
(* What the rest of the program sees of CheckAndPerformIPUpdate: checks in *)
(* progress, and the status that Service.GetStatus reports.  IPUpdater     *)
(* implements this.                                                        *)
(***************************************************************************)
CONSTANT Callers \* goroutines that may run CheckAndPerformIPUpdate

VARIABLES status, running

vars == <<status, running>>

FirstStatus == {"disabled", "initializing"}

Init == status \in FirstStatus /\ running = {}

\* Without a domain a check returns at once and changes no status.
Begin(c) ==
  /\ status # "disabled" /\ c \notin running
  /\ running' = running \cup {c}
  /\ UNCHANGED status

\* A critical section of a check, the one it returns from included.  A status
\* once left is never "initializing" again.
Section(c) ==
  /\ c \in running
  /\ status' \in {status, "ok", "error"}
  /\ running' \in {running, running \ {c}}

\* The process dies and starts again with the same domain.
Killed ==
  /\ running' = {}
  /\ status' = IF status = "disabled" THEN "disabled" ELSE "initializing"

Next == Killed \/ \E c \in Callers : Begin(c) \/ Section(c)

Spec == Init /\ [][Next]_vars
=============================================================================
