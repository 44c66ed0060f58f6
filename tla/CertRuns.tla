------------------------------ MODULE CertRuns ------------------------------
(***************************************************************************)
(* What the rest of the program sees of ManageCertificates: runs begin and *)
(* end, in any number at a time, and leave their mark on the two fields    *)
(* that Manager.GetStatus reads.  AcmeManager implements this.             *)
(***************************************************************************)
CONSTANT Runners \* goroutines that may run ManageCertificates

VARIABLES lastError, lastSuccess, \* as in AcmeManager: set or not
          running                 \* who is in a run

vars == <<lastError, lastSuccess, running>>

Init == lastError = FALSE /\ lastSuccess = FALSE /\ running = {}

BeginKeepsError(r) ==
  /\ r \notin running
  /\ running' = running \cup {r}
  /\ UNCHANGED <<lastError, lastSuccess>>

Begin(r) ==
  /\ r \notin running
  /\ running' = running \cup {r}
  /\ lastError' = FALSE
  /\ UNCHANGED lastSuccess

\* A certificate not near expiry ends the run without touching lastError.
EndUpToDate(r) ==
  /\ r \in running
  /\ running' = running \ {r}
  /\ lastSuccess' = TRUE
  /\ UNCHANGED lastError

EndSaved(r) ==
  /\ r \in running
  /\ running' = running \ {r}
  /\ lastSuccess' = TRUE /\ lastError' = FALSE

EndFailed(r) ==
  /\ r \in running
  /\ running' = running \ {r}
  /\ lastError' = TRUE
  /\ UNCHANGED lastSuccess

End(r) == EndUpToDate(r) \/ EndSaved(r) \/ EndFailed(r)

\* The process dies and starts again.
Killed == running' = {} /\ lastError' = FALSE /\ lastSuccess' = FALSE

Next == Killed \/ \E r \in Runners : Begin(r) \/ End(r)

Spec == Init /\ [][Next]_vars

\* GetStatus, if it read both fields at once.
Status == CASE lastError                  -> "error"
            [] ~lastError /\ ~lastSuccess -> "initializing"
            [] OTHER                      -> "ok"
=============================================================================
