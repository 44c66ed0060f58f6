-------------------------- MODULE IPUpdaterProofs --------------------------
(***************************************************************************)
(* What IPUpdater keeps true for any set of callers, any set of addresses  *)
(* and any tokens.                                                         *)
(***************************************************************************)
EXTENDS IPUpdater, TLAPS

(***************************************************************************)
(* Types.                                                                  *)
(***************************************************************************)

LEMMA TypeStep == TypeOK /\ [Next]_vars => TypeOK'
<1>. SUFFICES ASSUME TypeOK, [Next]_vars PROVE TypeOK'
  OBVIOUS
<1>. USE AddrsAssumption DEF TypeOK, Stages, UpdateStages, Goto, Return
<1>1. ASSUME NEW c \in Callers, SkipCheck(c) \/ StartCheck(c) PROVE TypeOK'
  BY <1>1 DEF SkipCheck, StartCheck
<1>2. ASSUME NEW c \in Callers, FetchFails(c) \/ Fetched(c) \/ EmptyBody(c)
      PROVE  TypeOK'
  BY <1>2 DEF FetchFails, Fetched, EmptyBody, FetchAnswers, memory
<1>3. ASSUME NEW c \in Callers, NoAddress(c) \/ NoChange(c) PROVE TypeOK'
  BY <1>3 DEF NoAddress, NoChange
<1>4. ASSUME NEW c \in Callers, ChangeFound(c) PROVE TypeOK'
  BY <1>4 DEF ChangeFound, HasAddress
<1>5. ASSUME NEW c \in Callers, BeginUpdate(c) PROVE TypeOK'
  BY <1>5 DEF BeginUpdate
<1>6. ASSUME NEW c \in Callers, Accept(c) \/ Refuse(c) \/ LoseReply(c)
      PROVE  TypeOK'
  BY <1>6 DEF Accept, Refuse, LoseReply, memory
<1>7. ASSUME NEW c \in Callers, ReplyError(c) \/ ReplyOK(c) PROVE TypeOK'
  BY <1>7 DEF ReplyError, ReplyOK
<1>8. ASSUME NEW c \in Callers, CommitFailure(c) \/ CommitSuccess(c)
      PROVE  TypeOK'
  BY <1>8 DEF CommitFailure, CommitSuccess
<1>9. CASE AddressChanges
  BY <1>9 DEF AddressChanges, memory
<1>10. CASE Restart
  BY <1>10 DEF Restart, FreshService
<1>11. CASE UNCHANGED vars
  BY <1>11 DEF vars, memory
<1>. HIDE DEF TypeOK
<1>. QED
  BY <1>1, <1>2, <1>3, <1>4, <1>5, <1>6, <1>7, <1>8, <1>9, <1>10, <1>11
     DEF Next, Running, Step, Internal

\* Every state of the updater is well typed, and no caller ever reaches
\* UpdateDuckDNSIP without an address to publish.
THEOREM TypeCorrect == Spec => []TypeOK
<1>1. Init => TypeOK
  BY AddrsAssumption, DomainsAssumption DEF Init, TypeOK, Stages, UpdateStages
<1>. QED
  BY <1>1, TypeStep, PTL DEF Spec

-----------------------------------------------------------------------------
(***************************************************************************)
(* The status and the last result.  StatusReflectsLastCheck is inductive:  *)
(* an action either returns, setting both sides, or leaves its caller      *)
(* inside an update, or touches neither side.                              *)
(***************************************************************************)

LEMMA StatusStep ==
  TypeOK /\ StatusReflectsLastCheck /\ [Next]_vars => StatusReflectsLastCheck'
<1>. SUFFICES ASSUME TypeOK, StatusReflectsLastCheck, [Next]_vars
              PROVE  StatusReflectsLastCheck'
  OBVIOUS
<1>. USE DEF TypeOK, StatusReflectsLastCheck, Updating, UpdateStages, Goto,
             Return
<1>1. ASSUME NEW c \in Callers, SkipCheck(c) \/ StartCheck(c)
      PROVE  StatusReflectsLastCheck'
  BY <1>1 DEF SkipCheck, StartCheck
<1>2. ASSUME NEW c \in Callers, Fetched(c) \/ EmptyBody(c)
      PROVE  StatusReflectsLastCheck'
  BY <1>2 DEF Fetched, EmptyBody, FetchAnswers, memory
<1>3. ASSUME NEW c \in Callers, FetchFails(c) \/ NoAddress(c) \/ NoChange(c)
      PROVE  StatusReflectsLastCheck'
  BY <1>3 DEF FetchFails, NoAddress, NoChange
<1>4. ASSUME NEW c \in Callers, ChangeFound(c)
      PROVE  StatusReflectsLastCheck'
  BY <1>4 DEF ChangeFound
<1>5. ASSUME NEW c \in Callers, BeginUpdate(c)
      PROVE  StatusReflectsLastCheck'
  BY <1>5 DEF BeginUpdate
<1>6. ASSUME NEW c \in Callers,
             \/ Accept(c) \/ Refuse(c) \/ LoseReply(c)
             \/ ReplyError(c) \/ ReplyOK(c)
      PROVE  StatusReflectsLastCheck'
  <2>1. Updating(c)'
    BY <1>6 DEF Accept, Refuse, LoseReply, ReplyError, ReplyOK
  <2>. QED
    BY <2>1
<1>7. ASSUME NEW c \in Callers, CommitFailure(c) \/ CommitSuccess(c)
      PROVE  StatusReflectsLastCheck'
  BY <1>7 DEF CommitFailure, CommitSuccess
<1>8. CASE AddressChanges
  BY <1>8 DEF AddressChanges, memory
<1>9. CASE Restart
  BY <1>9 DEF Restart, FreshService
<1>10. CASE UNCHANGED vars
  BY <1>10 DEF vars, memory
<1>. HIDE DEF TypeOK, StatusReflectsLastCheck
<1>. QED
  BY <1>1, <1>2, <1>3, <1>4, <1>5, <1>6, <1>7, <1>8, <1>9, <1>10
     DEF Next, Running, Step, Internal

\* For any number of concurrent callers, whenever none is inside an update
\* the service reports an error exactly when the last check to return failed.
THEOREM StatusCorrect == Spec => []StatusReflectsLastCheck
<1>1. Init => StatusReflectsLastCheck
  BY DEF Init, StatusReflectsLastCheck
<1>. QED
  BY <1>1, TypeCorrect, StatusStep, PTL DEF Spec

-----------------------------------------------------------------------------
(***************************************************************************)
(* "ok" means published.  While nothing has been published, each of the    *)
(* two flags that let GetStatus say "ok" is owed to a caller still on its  *)
(* way through an update, which will publish or leave an error behind.     *)
(***************************************************************************)

SomeoneIn(stages) == \E c \in Callers : pc[c] \in stages

FlagsAreOwed ==
  lastIPv4 = NoAddr =>
    /\ lastSuccess => SomeoneIn({"updated"})
    /\ initialUpdatePerformed /\ ~lastError =>
         SomeoneIn({"update"} \cup UpdateStages)

LEMMA FlagsStep ==
  TypeOK /\ FlagsAreOwed /\ [Next]_vars => FlagsAreOwed'
<1>. SUFFICES ASSUME TypeOK, FlagsAreOwed, [Next]_vars PROVE FlagsAreOwed'
  OBVIOUS
<1>. USE DEF TypeOK, FlagsAreOwed, SomeoneIn, UpdateStages, Goto, Return
<1>1. ASSUME NEW c \in Callers, SkipCheck(c) \/ StartCheck(c)
      PROVE  FlagsAreOwed'
  BY <1>1 DEF SkipCheck, StartCheck
<1>2. ASSUME NEW c \in Callers, Fetched(c) \/ EmptyBody(c)
      PROVE  FlagsAreOwed'
  BY <1>2 DEF Fetched, EmptyBody, FetchAnswers, memory
<1>3. ASSUME NEW c \in Callers, FetchFails(c) \/ NoAddress(c)
      PROVE  FlagsAreOwed'
  BY <1>3 DEF FetchFails, NoAddress
<1>4. ASSUME NEW c \in Callers, NoChange(c) PROVE FlagsAreOwed'
  <2>1. lastIPv4' # NoAddr
    BY <1>4 DEF NoChange, NeedsUpdate, HasAddress
  <2>. QED
    BY <2>1
<1>5. ASSUME NEW c \in Callers, ChangeFound(c) PROVE FlagsAreOwed'
  <2>1. pc'[c] = "update"
    BY <1>5 DEF ChangeFound
  <2>2. \A d \in Callers : pc[d] = "updated" => pc'[d] = "updated"
    BY <1>5 DEF ChangeFound
  <2>. QED
    BY <1>5, <2>1, <2>2 DEF ChangeFound
<1>6. ASSUME NEW c \in Callers,
             \/ BeginUpdate(c) \/ Accept(c) \/ Refuse(c) \/ LoseReply(c)
             \/ ReplyError(c)
      PROVE  FlagsAreOwed'
  <2>1. pc'[c] \in UpdateStages
    BY <1>6 DEF BeginUpdate, Accept, Refuse, LoseReply, ReplyError
  <2>2. \A d \in Callers : pc[d] = "updated" => pc'[d] = "updated"
    BY <1>6 DEF BeginUpdate, Accept, Refuse, LoseReply, ReplyError
  <2>3. UNCHANGED <<lastIPv4, lastSuccess>>
    BY <1>6 DEF BeginUpdate, Accept, Refuse, LoseReply, ReplyError, memory
  <2>. QED
    BY <2>1, <2>2, <2>3
<1>7. ASSUME NEW c \in Callers, ReplyOK(c) PROVE FlagsAreOwed'
  <2>1. pc'[c] = "updated"
    BY <1>7 DEF ReplyOK
  <2>. QED
    BY <2>1
<1>8. ASSUME NEW c \in Callers, CommitFailure(c) PROVE FlagsAreOwed'
  BY <1>8 DEF CommitFailure
<1>9. ASSUME NEW c \in Callers, CommitSuccess(c) PROVE FlagsAreOwed'
  <2>1. lastIPv4' # NoAddr
    BY <1>9, AddrsAssumption DEF CommitSuccess
  <2>. QED
    BY <2>1
<1>10. CASE AddressChanges
  BY <1>10 DEF AddressChanges, memory
<1>11. CASE Restart
  BY <1>11 DEF Restart, FreshService
<1>12. CASE UNCHANGED vars
  BY <1>12 DEF vars, memory
<1>. HIDE DEF TypeOK, FlagsAreOwed
<1>. QED
  BY <1>1, <1>2, <1>3, <1>4, <1>5, <1>6, <1>7, <1>8, <1>9, <1>10, <1>11,
     <1>12
     DEF Next, Running, Step, Internal

\* For any number of concurrent callers, once all of them have returned the
\* service says "ok" only if it has published an address since it started.
THEOREM OkCorrect == Spec => []OkMeansPublished
<1>1. Init => FlagsAreOwed
  BY DEF Init, FlagsAreOwed
<1>2. TypeOK /\ FlagsAreOwed => OkMeansPublished
  BY DEF TypeOK, FlagsAreOwed, SomeoneIn, OkMeansPublished, Status, AtRest,
         UpdateStages
<1>. QED
  BY <1>1, <1>2, TypeCorrect, FlagsStep, PTL DEF Spec

-----------------------------------------------------------------------------
(***************************************************************************)
(* One caller at a time.  When only the scheduler checks and every answer  *)
(* DuckDNS sends arrives, what is remembered is what is published: between *)
(* DuckDNS's acceptance and the commit the record is ahead of lastIPv4 by  *)
(* exactly the address the scheduler holds.                                *)
(***************************************************************************)

Ahead == {"accepted", "updated"}

RecordIsTracked ==
  /\ pc[Scheduler] \in Ahead => record = cur[Scheduler]
  /\ pc[Scheduler] \notin Ahead /\ lastIPv4 # NoAddr => record = lastIPv4

LEMMA TrackedStep ==
  ASSUME Callers = {Scheduler}, ~ReplyLoss
  PROVE  TypeOK /\ RecordIsTracked /\ [Next]_vars => RecordIsTracked'
<1>. SUFFICES ASSUME TypeOK, RecordIsTracked, [Next]_vars
              PROVE  RecordIsTracked'
  OBVIOUS
<1>. DEFINE s == Scheduler
<1>. USE DEF TypeOK, RecordIsTracked, Ahead, Goto, Return
<1>1. CASE SkipCheck(s) \/ StartCheck(s)
  BY <1>1 DEF SkipCheck, StartCheck
<1>2. CASE FetchFails(s) \/ Fetched(s) \/ EmptyBody(s)
  BY <1>2 DEF FetchFails, Fetched, EmptyBody, FetchAnswers, memory
<1>3. CASE NoAddress(s) \/ NoChange(s) \/ ChangeFound(s)
  BY <1>3 DEF NoAddress, NoChange, ChangeFound
<1>4. CASE BeginUpdate(s) \/ Refuse(s) \/ ReplyError(s) \/ CommitFailure(s)
  BY <1>4 DEF BeginUpdate, Refuse, ReplyError, CommitFailure, memory
<1>5. CASE Accept(s)
  BY <1>5 DEF Accept, memory
<1>6. CASE ReplyOK(s)
  BY <1>6 DEF ReplyOK
<1>7. CASE CommitSuccess(s)
  BY <1>7 DEF CommitSuccess
<1>8. CASE AddressChanges
  BY <1>8 DEF AddressChanges, memory
<1>9. CASE Restart
  BY <1>9 DEF Restart, FreshService
<1>10. CASE UNCHANGED vars
  BY <1>10 DEF vars, memory
<1>11. ~LoseReply(s)
  BY DEF LoseReply
<1>. HIDE DEF TypeOK, RecordIsTracked
<1>. QED
  BY <1>1, <1>2, <1>3, <1>4, <1>5, <1>6, <1>7, <1>8, <1>9, <1>10, <1>11
     DEF Next, Running, Step, Internal

\* With a single caller and no lost answer, for any addresses, any token and
\* across restarts, the address the service remembers at rest is the address
\* DuckDNS holds.
THEOREM RememberedCorrect ==
  ASSUME Callers = {Scheduler}, ~ReplyLoss
  PROVE  Spec => []RememberedIsPublished
<1>1. Init => RecordIsTracked
  BY CallersAssumption DEF Init, RecordIsTracked, Ahead
<1>2. RecordIsTracked => RememberedIsPublished
  BY CallersAssumption
     DEF RecordIsTracked, RememberedIsPublished, AtRest, Ahead
<1>3. TypeOK /\ RecordIsTracked /\ [Next]_vars => RecordIsTracked'
  BY TrackedStep
<1>. QED
  BY <1>1, <1>2, <1>3, TypeCorrect, PTL DEF Spec

-----------------------------------------------------------------------------
(***************************************************************************)
(* IPRuns.  A check clears lastError, and so could bring "initializing"    *)
(* back, only where initialUpdatePerformed is set already.                 *)
(***************************************************************************)

DecidedIsPerformed ==
  \A c \in Callers :
    pc[c] \in {"update"} \cup UpdateStages => initialUpdatePerformed

\* The critical sections of a check after its first, and its network calls.
LEMMA SectionStep ==
  ASSUME TypeOK, DecidedIsPerformed, NEW c \in Callers, Internal(c)
  PROVE  /\ pc[c] # "idle" /\ domain' = domain
         /\ \E stage \in Stages : pc' = [pc EXCEPT ![c] = stage]
         /\ \/ UNCHANGED <<lastError, lastSuccess, initialUpdatePerformed>>
            \/ lastError' \/ lastSuccess' \/ initialUpdatePerformed'
         /\ DecidedIsPerformed'
<1>. USE DEF TypeOK, DecidedIsPerformed, Stages, UpdateStages, Goto, Return,
             memory
<1>. DEFINE Claim == /\ pc[c] # "idle" /\ domain' = domain
                     /\ \E stage \in Stages : pc' = [pc EXCEPT ![c] = stage]
                     /\ \/ UNCHANGED <<lastError, lastSuccess,
                                       initialUpdatePerformed>>
                        \/ lastError' \/ lastSuccess' \/ initialUpdatePerformed'
                     /\ DecidedIsPerformed'
<1>1. CASE FetchFails(c) \/ NoAddress(c)
  BY <1>1 DEF FetchFails, NoAddress
<1>2. CASE Fetched(c) \/ EmptyBody(c)
  BY <1>2 DEF Fetched, EmptyBody, FetchAnswers
<1>3. CASE NoChange(c)
  BY <1>3 DEF NoChange, NeedsUpdate
<1>4. CASE ChangeFound(c)
  BY <1>4 DEF ChangeFound
<1>5. CASE BeginUpdate(c)
  BY <1>5 DEF BeginUpdate
<1>6. CASE Accept(c) \/ Refuse(c) \/ LoseReply(c)
  BY <1>6 DEF Accept, Refuse, LoseReply
<1>7. CASE ReplyError(c) \/ ReplyOK(c)
  BY <1>7 DEF ReplyError, ReplyOK
<1>8. CASE CommitFailure(c) \/ CommitSuccess(c)
  BY <1>8 DEF CommitFailure, CommitSuccess
<1>. HIDE DEF Claim, TypeOK, DecidedIsPerformed
<1>9. Claim
  BY <1>1, <1>2, <1>3, <1>4, <1>5, <1>6, <1>7, <1>8 DEF Internal, Claim
<1>. QED
  BY <1>9 DEF Claim

LEMMA RunsStep ==
  TypeOK /\ DecidedIsPerformed /\ [Next]_vars =>
    DecidedIsPerformed' /\ [Runs!Next]_Runs!vars
<1>. SUFFICES ASSUME TypeOK, DecidedIsPerformed, [Next]_vars
              PROVE  DecidedIsPerformed' /\ [Runs!Next]_Runs!vars
  OBVIOUS
<1>. DEFINE busy    == {c \in Callers : pc[c] # "idle"}
            Stutter == UNCHANGED <<Status, busy>>
<1>0. pc \in [Callers -> Stages]
  BY DEF TypeOK
<1>1. ASSUME UNCHANGED <<domain, lastError, lastSuccess, initialUpdatePerformed>>
      PROVE  Status' = Status
  BY <1>1 DEF Status
<1>2. ASSUME NEW c \in Callers, SkipCheck(c) PROVE DecidedIsPerformed' /\ Stutter
  BY <1>1, <1>2 DEF SkipCheck, DecidedIsPerformed
<1>3. ASSUME NEW c \in Callers, StartCheck(c)
      PROVE  DecidedIsPerformed' /\ Runs!Begin(c)
  <2>1. busy' = busy \cup {c}
    BY <1>0, <1>3 DEF StartCheck, Goto
  <2>2. Status' = Status /\ Status # "disabled" /\ c \notin busy
    BY <1>1, <1>3, TypeOK DEF StartCheck, Status, TypeOK
  <2>. QED
    BY <1>0, <1>3, <2>1, <2>2
       DEF StartCheck, Goto, Runs!Begin, DecidedIsPerformed, UpdateStages
<1>4. ASSUME NEW c \in Callers, Internal(c)
      PROVE  DecidedIsPerformed' /\ Runs!Section(c)
  <2>1. c \in busy /\ busy' \in {busy, busy \ {c}}
    BY <1>0, <1>4, SectionStep
  <2>2. Status' \in {Status, "ok", "error"}
    <3>1. CASE domain = "none" \/ UNCHANGED <<lastError, lastSuccess,
                                              initialUpdatePerformed>>
      BY <1>4, <3>1, SectionStep DEF Status
    <3>2. CASE domain # "none" /\ (lastError' \/ lastSuccess'
                                             \/ initialUpdatePerformed')
      BY <1>4, <3>2, SectionStep DEF Status
    <3>. QED
      BY <1>4, <3>1, <3>2, SectionStep
  <2>. QED
    BY <1>4, <2>1, <2>2, SectionStep DEF Runs!Section
<1>5. ASSUME AddressChanges \/ UNCHANGED vars
      PROVE  DecidedIsPerformed' /\ Stutter
  BY <1>1, <1>5 DEF AddressChanges, vars, memory, DecidedIsPerformed
<1>6. ASSUME Restart PROVE DecidedIsPerformed' /\ Runs!Next
  <2>1. busy' = {} /\ DecidedIsPerformed'
    BY <1>6 DEF Restart, DecidedIsPerformed, UpdateStages
  <2>2. Status' = IF Status = "disabled" THEN "disabled" ELSE "initializing"
    BY <1>6 DEF Restart, FreshService, Status
  <2>. QED
    BY <2>1, <2>2 DEF Runs!Killed, Runs!Next
<1>7. DecidedIsPerformed' /\ (Stutter \/ Runs!Next)
  <2>. HIDE DEF Stutter
  <2>. QED
    BY <1>2, <1>3, <1>4, <1>5, <1>6 DEF Next, Running, Step, Runs!Next, Stutter
<1>. QED
  BY <1>7 DEF Runs!vars

\* For any number of overlapping checks, lost answers and restarts, the status
\* moves only as IPRuns lets it: the HTTP API may be composed with that alone.
THEOREM UpdaterImplementsRuns == Spec => ImplementsRuns
<1>1. Init => Runs!Init /\ DecidedIsPerformed
  BY DEF Init, Runs!Init, Runs!FirstStatus, Status, DecidedIsPerformed,
         UpdateStages
<1>. QED
  BY <1>1, TypeCorrect, RunsStep, PTL DEF Spec, ImplementsRuns, Runs!Spec
=============================================================================
