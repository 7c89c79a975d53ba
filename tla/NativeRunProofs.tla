--------------------------- MODULE NativeRunProofs ---------------------------
(***************************************************************************)
(* What NativeRun promises, for any number of runs, chats, follow-ups,     *)
(* rounds, crashes and attempts: its types, the two inductive invariants,  *)
(* the safety properties that follow from them, and that a run implements  *)
(* AnswerContract.                                                         *)
(***************************************************************************)
EXTENDS NativeRun, TLAPS

(***************************************************************************)
(* Types.                                                                  *)
(***************************************************************************)
\* What the pieces the actions share keep of the types.
LEMMA EndRunTypes ==
  ASSUME TypeOK, NEW r \in Runs, NEW outcome \in Terminal, EndRun(r, outcome)
  PROVE  RunTypes'
BY DEF EndRun, TypeOK, RunTypes, Statuses, Messages, Terminal

\* A failing transaction ends an active run or writes nothing.
LEMMA FailRunTypes ==
  ASSUME TypeOK, NEW r \in Runs, FailRun(r)
  PROVE  RunTypes'
<1>1. CASE Active(r)
  <2>1. EndRun(r, "error") BY <1>1 DEF FailRun
  <2>. QED BY <2>1, EndRunTypes DEF Terminal
<1>2. CASE ~Active(r)
  <2>1. UNCHANGED runVars BY <1>2 DEF FailRun
  <2>. QED BY <2>1 DEF TypeOK, RunTypes, runVars
<1>. QED BY <1>1, <1>2

\* A flush stores a text the execution holds, or nothing.
LEMMA FlushTypes ==
  ASSUME TypeOK, NEW r \in Runs, Flush(r)
  PROVE  saved' \in [Runs -> Nat]
<1>1. CASE UNCHANGED saved BY <1>1 DEF TypeOK, TextTypes
<1>2. CASE saved' = [saved EXCEPT ![r] = IF msg[r] = "streaming" THEN text[r] ELSE @]
  <2>1. text[r] \in Nat BY BoundsAssumption DEF TypeOK, LocalTypes
  <2>. QED BY <1>2, <2>1 DEF TypeOK, TextTypes
<1>. QED BY <1>1, <1>2 DEF Flush

\* A throw leads to one of the two branches of the catch block.
LEMMA ThrowTypes ==
  ASSUME TypeOK, NEW r \in Runs, NEW inactive \in BOOLEAN, Throw(r, inactive)
  PROVE  pc' \in [Runs -> Steps] /\ intr' \in [Runs -> BOOLEAN]
BY DEF Throw, Goto, TypeOK, ProcTypes, Steps, Executing, Ending

\* Letting go of a run returns its execution to the initial values.
LEMMA LeaveTypes ==
  ASSUME TypeOK, NEW r \in Runs, Leave(r), intr' \in [Runs -> BOOLEAN]
  PROVE  ProcTypes' /\ LocalTypes'
<1>1. ProcTypes' BY DEF Leave, Goto, TypeOK, ProcTypes, Steps
<1>2. LocalTypes' BY BoundsAssumption DEF Leave, TypeOK, LocalTypes
<1>. QED BY <1>1, <1>2

\* The next request carries no more than was delivered.
LEMMA NextRequestTypes ==
  ASSUME TypeOK, NEW r \in Runs, NextRequest(r)
  PROVE  /\ pc' \in [Runs -> Steps] /\ basis' \in [Runs -> 0..MaxFollowups]
         /\ tries' \in [Runs -> 0..SettleAttempts]
BY BoundsAssumption DEF NextRequest, Goto, TypeOK, ProcTypes, LocalTypes, AskTypes, Steps,
     Executing, Working

\* The attempts to close stay within their limit.
LEMMA RetrySettleTypes ==
  ASSUME TypeOK, NEW r \in Runs, RetrySettle(r)
  PROVE  /\ pc' \in [Runs -> Steps] /\ basis' \in [Runs -> 0..MaxFollowups]
         /\ tries' \in [Runs -> 0..SettleAttempts]
<1>. USE BoundsAssumption DEF RetrySettle, Goto, TypeOK, ProcTypes, LocalTypes, Steps, Executing,
       Working
<1>1. CASE tries[r] + 1 < SettleAttempts
  <2>1. tries[r] + 1 \in 0..SettleAttempts BY <1>1
  <2>. QED BY <1>1, <2>1
<1>2. CASE ~(tries[r] + 1 < SettleAttempts) BY <1>2
<1>. QED BY <1>1, <1>2

\* Loading and delivering follow-ups, whatever the execution does with none.
LEMMA LoadFollowupsTypes ==
  ASSUME TypeOK, NEW r \in Runs, LoadMidway(r) \/ LoadAtTheEnd(r)
  PROVE  TypeOK'
<1>. USE DEF LoadMidway, LoadAtTheEnd, LoadFollowups
<1>1. UNCHANGED <<runVars, preceding, askVars, ctl, sig, intr, dead, text, base, rev, round,
                  recVars, envVars>>
  OBVIOUS
<1>2. CASE Accepted(r)
  <2>1. /\ batch' = [batch EXCEPT ![r] = asked[r]]
        /\ Flush(r)
        /\ Goto(r, "middeliver") \/ Goto(r, "enddeliver")
        /\ UNCHANGED <<basis, tries>>
    BY <1>2
  <2>2. saved' \in [Runs -> Nat] BY <2>1, FlushTypes
  <2>3. pc' \in [Runs -> Steps] BY <2>1 DEF Goto, TypeOK, ProcTypes, Steps, Executing, Working
  <2>4. batch' \in [Runs -> 0..MaxFollowups] BY <2>1 DEF TypeOK, AskTypes, LocalTypes
  <2>. QED BY <1>1, <2>1, <2>2, <2>3, <2>4 DEF TypeOK, RunTypes, TextTypes, AskTypes,
       ProcTypes, LocalTypes, RecTypes, EnvTypes, runVars, askVars, recVars, envVars
<1>3. CASE ~Accepted(r)
  <2>1. NextRequest(r) \/ RetrySettle(r) BY <1>3
  <2>2. /\ pc' \in [Runs -> Steps] /\ basis' \in [Runs -> 0..MaxFollowups]
        /\ tries' \in [Runs -> 0..SettleAttempts]
    BY <2>1, NextRequestTypes, RetrySettleTypes
  <2>3. UNCHANGED <<saved, batch>> BY <1>3
  <2>. QED BY <1>1, <2>2, <2>3 DEF TypeOK, RunTypes, TextTypes, AskTypes,
       ProcTypes, LocalTypes, RecTypes, EnvTypes, runVars, askVars, recVars, envVars
<1>. QED BY <1>2, <1>3

\* A delivery marks no more follow-ups than were accepted.
LEMMA DeliverFollowupsTypes ==
  ASSUME TypeOK, NEW r \in Runs, DeliverMidway(r) \/ DeliverAtTheEnd(r)
  PROVE  TypeOK'
<1>. USE DEF DeliverMidway, DeliverAtTheEnd, DeliverFollowups
<1>1. /\ batch' = [batch EXCEPT ![r] = 0]
      /\ UNCHANGED <<runVars, asked, byUser, closed, ctl, sig, intr, dead, round, recVars, envVars>>
  OBVIOUS
<1>2. batch' \in [Runs -> 0..MaxFollowups] BY <1>1, BoundsAssumption DEF TypeOK, LocalTypes
<1>3. CASE Active(r) /\ ~answered[r] /\ ~closed[r] /\ asked[r] = batch[r]
  <2>1. /\ delivered' = [delivered EXCEPT ![r] = batch[r]]
        /\ rev' = [rev EXCEPT ![r] = batch[r]]
        /\ basis' = [basis EXCEPT ![r] = batch[r]]
        /\ tries' = [tries EXCEPT ![r] = 0]
        /\ Goto(r, "model")
        /\ RestartAnswer(r) \/ UNCHANGED <<preceding, saved, text, base>>
    BY <1>3
  <2>2. /\ delivered' \in [Runs -> 0..MaxFollowups] /\ rev' \in [Runs -> 0..MaxFollowups]
        /\ basis' \in [Runs -> 0..MaxFollowups] /\ tries' \in [Runs -> 0..SettleAttempts]
    BY <2>1, BoundsAssumption DEF TypeOK, LocalTypes, AskTypes
  <2>3. pc' \in [Runs -> Steps]
    BY <2>1 DEF Goto, TypeOK, ProcTypes, Steps, Executing, Working
  <2>4. TextTypes' /\ text' \in [Runs -> 0..MaxText] /\ base' \in [Runs -> 0..MaxText]
    <3>1. CASE RestartAnswer(r)
      <4>1. preceding[r] + text[r] \in Nat BY BoundsAssumption DEF TypeOK, TextTypes, LocalTypes
      <4>. QED BY <3>1, <4>1, BoundsAssumption DEF RestartAnswer, TypeOK, TextTypes, LocalTypes
    <3>2. CASE UNCHANGED <<preceding, saved, text, base>>
      BY <3>2 DEF TypeOK, TextTypes, LocalTypes
    <3>. QED BY <2>1, <3>1, <3>2
  <2>. QED BY <1>1, <1>2, <2>2, <2>3, <2>4 DEF TypeOK, RunTypes, TextTypes, AskTypes,
       ProcTypes, LocalTypes, RecTypes, EnvTypes, runVars, askVars, recVars, envVars
<1>4. CASE ~(Active(r) /\ ~answered[r] /\ ~closed[r] /\ asked[r] = batch[r])
  <2>1. NextRequest(r) \/ RetrySettle(r) BY <1>4
  <2>2. /\ pc' \in [Runs -> Steps] /\ basis' \in [Runs -> 0..MaxFollowups]
        /\ tries' \in [Runs -> 0..SettleAttempts]
    BY <2>1, NextRequestTypes, RetrySettleTypes
  <2>3. UNCHANGED <<delivered, preceding, saved, text, base, rev>> BY <1>4
  <2>. QED BY <1>1, <1>2, <2>2, <2>3 DEF TypeOK, RunTypes, TextTypes, AskTypes,
       ProcTypes, LocalTypes, RecTypes, EnvTypes, runVars, askVars, recVars, envVars
<1>. QED BY <1>3, <1>4

\* Preparing a run with Memory keeps every variable within its type.
LEMMA PrepareTypes ==
  ASSUME TypeOK, NEW r \in Runs, Prepare(r)
  PROVE  TypeOK'
PROOF
  <1>. USE RunsAssumption, BoundsAssumption DEF TypeOK, RunTypes, TextTypes, AskTypes,
       ProcTypes, LocalTypes, RecTypes, EnvTypes, runVars, textVars, askVars, procVars,
       localVars, recVars, envVars, Terminal, Statuses, Messages, Preparing, Working, Ending,
       Executing, Steps
  <1>1. CASE RegisterPreparation(r)
    BY <1>1 DEF RegisterPreparation, Goto
  <1>2. CASE FinishPreparation(r)
    <2>1. CASE Leave(r)
      BY <1>2, <2>1, LeaveTypes DEF FinishPreparation
    <2>2. CASE /\ Goto(r, "gap")
               /\ ctl' = [ctl EXCEPT ![r] = "none"]
               /\ sig' = [sig EXCEPT ![r] = FALSE]
               /\ UNCHANGED <<intr, dead, localVars>>
      BY <1>2, <2>2 DEF FinishPreparation, Goto
    <2>. QED BY <1>2, <2>1, <2>2 DEF FinishPreparation
  <1>3. CASE FailPreparation(r)
    BY <1>3, FailRunTypes, LeaveTypes DEF FailPreparation
  <1>. QED BY <1>1, <1>2, <1>3 DEF Prepare

\* The document job keeps every variable within its type.
LEMMA DocumentsTypes ==
  ASSUME TypeOK, NEW r \in Runs, PrepareDocuments(r)
  PROVE  TypeOK'
PROOF
  <1>. USE RunsAssumption, BoundsAssumption DEF TypeOK, RunTypes, TextTypes, AskTypes,
       ProcTypes, LocalTypes, RecTypes, EnvTypes, runVars, textVars, askVars, procVars,
       localVars, recVars, envVars, Terminal, Statuses, Messages, Preparing, Working, Ending,
       Executing, Steps
  <1>1. CASE ClaimDocuments(r)
    BY <1>1 DEF ClaimDocuments, Active, Goto
  <1>2. CASE LeavePreparation(r)
    BY <1>2, LeaveTypes DEF LeavePreparation
  <1>3. CASE ContinueDocuments(r)
    BY <1>3 DEF ContinueDocuments, Active, Goto
  <1>4. CASE MarkAnswerDispatched(r)
    <2>1. CASE Leave(r)
      BY <1>4, <2>1, LeaveTypes DEF MarkAnswerDispatched
    <2>2. CASE Goto(r, "dispatched") /\ UNCHANGED <<ctl, sig, intr, dead, localVars>>
      BY <1>4, <2>2 DEF MarkAnswerDispatched, Goto
    <2>. QED BY <1>4, <2>1, <2>2 DEF MarkAnswerDispatched
  <1>5. CASE FailDocuments(r)
    BY <1>5, FailRunTypes, LeaveTypes DEF FailDocuments
  <1>. QED BY <1>1, <1>2, <1>3, <1>4, <1>5 DEF PrepareDocuments

\* The steps of an execution keep every variable within its type.
LEMMA AdvanceTypes ==
  ASSUME TypeOK, NEW r \in Runs, Advance(r)
  PROVE  TypeOK'
PROOF
  <1>. USE RunsAssumption, BoundsAssumption DEF TypeOK, RunTypes, TextTypes, AskTypes,
       ProcTypes, LocalTypes, RecTypes, EnvTypes, runVars, textVars, askVars, procVars,
       localVars, recVars, envVars, Terminal, Statuses, Messages, Preparing, Working, Ending,
       Executing, Steps
  <1>1. CASE StartExecution(r)
    BY <1>1 DEF StartExecution, Goto
  <1>2. CASE CheckRun(r)
    <2>1. pc' \in [Runs -> Steps] /\ intr' \in [Runs -> BOOLEAN]
      BY <1>2, ThrowTypes DEF CheckRun, Goto
    <2>. QED BY <1>2, <2>1 DEF CheckRun
  <1>3. CASE Answer(r)
    BY <1>3 DEF Answer, Goto
  <1>4. CASE CallTools(r)
    <2>1. saved' \in [Runs -> Nat] BY <1>4, FlushTypes DEF CallTools
    <2>2. round[r] + 1 \in 0..MaxRounds BY <1>4 DEF CallTools
    <2>3. /\ pc' \in [Runs -> Steps] /\ base' \in [Runs -> 0..MaxText]
          /\ round' \in [Runs -> 0..MaxRounds]
      BY <1>4, <2>2 DEF CallTools, Goto
    <2>. QED BY <1>4, <2>1, <2>3 DEF CallTools
  <1>5. CASE Fail(r)
    <2>1. pc' \in [Runs -> Steps] /\ intr' \in [Runs -> BOOLEAN]
      BY <1>5, ThrowTypes DEF Fail
    <2>. QED BY <1>5, <2>1 DEF Fail
  <1>6. CASE BeginCall(r)
    <2>1. CASE Dispatchable(r)
      <3>1. \/ Goto(r, "calling") /\ call' = [call EXCEPT ![r] = @ + 1]
            \/ Goto(r, "close") /\ UNCHANGED call
        BY <1>6, <2>1 DEF BeginCall
      <3>2. UNCHANGED intr BY <1>6, <2>1 DEF BeginCall
      <3>3. pc' \in [Runs -> Steps] BY <3>1 DEF Goto
      <3>4. call' \in [Runs -> Nat] BY <3>1
      <3>. QED BY <1>6, <3>2, <3>3, <3>4 DEF BeginCall
    <2>2. CASE ~Dispatchable(r)
      <3>1. Throw(r, TRUE) /\ call' = call BY <1>6, <2>2 DEF BeginCall
      <3>. QED BY <1>6, <3>1, ThrowTypes DEF BeginCall
    <2>. QED BY <2>1, <2>2
  <1>7. CASE SettleCall(r)
    <2>1. call' \in [Runs -> Nat]
      <3>1. CASE call' = [call EXCEPT ![r] = IF @ > 0 THEN @ - 1 ELSE @] BY <3>1
      <3>2. CASE UNCHANGED call BY <3>2
      <3>. QED BY <1>7, <3>1, <3>2 DEF SettleCall
    <2>. QED BY <1>7, <2>1 DEF SettleCall, Goto
  <1>8. CASE LoadMidway(r)
    BY <1>8, LoadFollowupsTypes
  <1>9. CASE DeliverMidway(r)
    BY <1>9, DeliverFollowupsTypes
  <1>10. CASE LoadToClose(r)
    BY <1>10 DEF LoadToClose, Aborted, Goto, Accepted, Active
  <1>11. CASE CloseFollowups(r)
    <2>1. CASE closed' = [closed EXCEPT ![r] = TRUE] /\ tries' = [tries EXCEPT ![r] = 0]
                 /\ Goto(r, "publish")
      BY <1>11, <2>1 DEF CloseFollowups, Goto
    <2>2. CASE Goto(r, "endload") /\ UNCHANGED <<closed, tries>>
      BY <1>11, <2>2 DEF CloseFollowups, Goto
    <2>. QED BY <1>11, <2>1, <2>2 DEF CloseFollowups
  <1>12. CASE LoadAtTheEnd(r)
    BY <1>12, LoadFollowupsTypes
  <1>13. CASE DeliverAtTheEnd(r)
    BY <1>13, DeliverFollowupsTypes
  <1>14. CASE FlushBeforePublication(r)
    <2>1. saved' \in [Runs -> Nat] BY <1>14, FlushTypes DEF FlushBeforePublication
    <2>. QED BY <1>14, <2>1 DEF FlushBeforePublication, Goto
  <1>15. CASE PublishAnswer(r)
    <2>1. pc' \in [Runs -> Steps] /\ intr' \in [Runs -> BOOLEAN]
      BY ZenonT(30), <1>15, ThrowTypes DEF PublishAnswer, Goto
    <2>2. \/ /\ answered' = [answered EXCEPT ![r] = TRUE]
             /\ msg' = [msg EXCEPT ![r] = "complete"]
             /\ saved' = [saved EXCEPT ![r] = text[r]]
          \/ UNCHANGED <<answered, msg, saved>>
      BY <1>15 DEF PublishAnswer
    <2>3. text[r] \in Nat OBVIOUS
    <2>4. answered' \in [Runs -> BOOLEAN] /\ msg' \in [Runs -> Messages] /\ saved' \in [Runs -> Nat]
      <3>1. CASE answered' = [answered EXCEPT ![r] = TRUE] /\ msg' = [msg EXCEPT ![r] = "complete"]
                 /\ saved' = [saved EXCEPT ![r] = text[r]]
        BY <2>3, <3>1
      <3>2. CASE UNCHANGED <<answered, msg, saved>>
        BY <3>2
      <3>. QED BY <2>2, <3>1, <3>2
    <2>. QED BY <1>15, <2>1, <2>4 DEF PublishAnswer
  <1>16. CASE HandOff(r)
    BY <1>16 DEF HandOff, Goto
  <1>17. CASE CompleteRun(r)
    <2>1. RunTypes' BY <1>17, EndRunTypes DEF CompleteRun
    <2>. QED BY <1>17, <2>1 DEF CompleteRun, Goto
  <1>18. CASE SaveStoppedText(r)
    BY <1>18 DEF SaveStoppedText, Goto
  <1>19. CASE FlushFailedText(r)
    <2>1. saved' \in [Runs -> Nat] BY <1>19, FlushTypes DEF FlushFailedText
    <2>. QED BY <1>19, <2>1 DEF FlushFailedText, Goto
  <1>20. CASE FailExecution(r)
    <2>1. RunTypes' BY <1>20, FailRunTypes DEF FailExecution
    <2>. QED BY <1>20, <2>1 DEF FailExecution, Goto
  <1>21. CASE FinishExecution(r)
    BY <1>21, LeaveTypes DEF FinishExecution
  <1>22. CASE LoseDelivery(r)
    <2>1. pc' \in [Runs -> Steps] /\ intr' \in [Runs -> BOOLEAN]
      BY <1>22, ThrowTypes DEF LoseDelivery
    <2>2. text[r] \in Nat /\ preceding[r] + text[r] \in Nat
      OBVIOUS
    <2>3. TextTypes'
      BY <1>22, <2>2 DEF LoseDelivery
    <2>4. delivered' \in [Runs -> 0..MaxFollowups]
      BY <1>22 DEF LoseDelivery
    <2>. QED BY <1>22, <2>1, <2>3, <2>4 DEF LoseDelivery
  <1>. QED BY <1>1, <1>2, <1>3, <1>4, <1>5, <1>6, <1>7, <1>8, <1>9, <1>10, <1>11, <1>12, <1>13,
       <1>14, <1>15, <1>16, <1>17, <1>18, <1>19, <1>20, <1>21, <1>22 DEF Advance

\* Streaming text and saving it keeps every variable within its type.
LEMMA StreamingTypes ==
  ASSUME TypeOK, NEW r \in Runs, Streaming(r)
  PROVE  TypeOK'
PROOF
  <1>. USE RunsAssumption, BoundsAssumption DEF TypeOK, RunTypes, TextTypes, AskTypes,
       ProcTypes, LocalTypes, RecTypes, EnvTypes, runVars, textVars, askVars, procVars,
       localVars, recVars, envVars, Terminal, Statuses, Messages, Preparing, Working, Ending,
       Executing, Steps
  <1>1. CASE Stream(r)
    BY <1>1 DEF Stream
  <1>2. CASE DiscardAttempt(r)
    BY <1>2 DEF DiscardAttempt
  <1>3. CASE SaveText(r)
    BY <1>3 DEF SaveText
  <1>. QED BY <1>1, <1>2, <1>3 DEF Streaming

\* The user, sub-agents, the Workspace and the clock keep every variable within its type.
LEMMA EnvironmentTypes ==
  ASSUME TypeOK, NEW r \in Runs, Environment(r)
  PROVE  TypeOK'
PROOF
  <1>. USE RunsAssumption, BoundsAssumption DEF TypeOK, RunTypes, TextTypes, AskTypes,
       ProcTypes, LocalTypes, RecTypes, EnvTypes, runVars, textVars, askVars, procVars,
       localVars, recVars, envVars, Terminal, Statuses, Messages, Preparing, Working, Ending,
       Executing, Steps
  <1>1. CASE Stop(r)
    <2>1. RunTypes' BY <1>1, EndRunTypes DEF Stop
    <2>. QED BY <1>1, <2>1 DEF Stop
  <1>2. CASE AbortStopped(r)
    <2>1. sig' \in [Runs -> BOOLEAN] /\ ctl' \in [Runs -> {"none", "prep", "run"}]
      <3>1. CASE sig' = [sig EXCEPT ![r] = TRUE] /\ ctl' = [ctl EXCEPT ![r] = "none"]
        BY <3>1
      <3>2. CASE UNCHANGED <<sig, ctl>>
        BY <3>2
      <3>. QED BY <1>2, <3>1, <3>2 DEF AbortStopped
    <2>2. aborting' \subseteq Runs
      BY <1>2 DEF AbortStopped
    <2>. QED BY <1>2, <2>1, <2>2 DEF AbortStopped
  <1>3. CASE Interrupt(r)
    BY <1>3 DEF Interrupt
  <1>4. CASE DeadlinePasses(r)
    BY <1>4 DEF DeadlinePasses
  <1>5. CASE AcceptFollowup(r)
    BY <1>5 DEF AcceptFollowup, Active
  <1>6. CASE AddAgentFollowup(r)
    BY <1>6 DEF AddAgentFollowup, Dispatchable
  <1>7. CASE Age(r)
    BY <1>7 DEF Age, Active
  <1>. QED BY <1>1, <1>2, <1>3, <1>4, <1>5, <1>6, <1>7 DEF Environment

\* Admission keeps every variable within its type.
LEMMA AdmitTypes ==
  ASSUME TypeOK, NEW r \in Runs, Admit(r)
  PROVE  TypeOK'
PROOF
  <1>. USE DEF TypeOK, RunTypes, TextTypes, AskTypes, ProcTypes, LocalTypes,
     RecTypes, EnvTypes, runVars, textVars, askVars, procVars, localVars, recVars, envVars,
     Terminal, Statuses, Messages, Preparing, Working, Ending, Executing, Steps
  <1>1. /\ msg' = [msg EXCEPT ![r] = "streaming"]
        /\ UNCHANGED <<answered, call, textVars, delivered, closed, ctl, sig, intr, dead, localVars,
                       recVars, envVars>>
    BY DEF Admit
  <1>2. /\ status' \in [Runs -> Statuses] /\ pc' \in [Runs -> Steps]
        /\ prep' \in [Runs -> {"none", "pending", "dispatched"}]
    BY DEF Admit, Goto
  <1>3. asked' \in [Runs -> 0..MaxFollowups] /\ byUser' \in [Runs -> SUBSET (1..MaxFollowups)]
    <2>1. PICK n \in 0..MaxFollowups :
            asked' = [asked EXCEPT ![r] = n] /\ byUser' = [byUser EXCEPT ![r] = 1..n]
      BY DEF Admit
    <2>2. 1..n \subseteq 1..MaxFollowups
      BY BoundsAssumption
    <2>. QED BY <2>1, <2>2
  <1>. QED BY <1>1, <1>2, <1>3

\* Recovery's pass keeps every variable within its type.
LEMMA RecoverTypes ==
  ASSUME TypeOK, Recover
  PROVE  TypeOK'
PROOF
  <1>. USE RunsAssumption, BoundsAssumption DEF TypeOK, RunTypes, TextTypes, AskTypes, ProcTypes, LocalTypes,
     RecTypes, EnvTypes, runVars, textVars, askVars, procVars, localVars, recVars, envVars,
     Terminal, Statuses, Messages, Preparing, Working, Ending, Executing, Steps
  <1>1. CASE StartRecovery
    BY <1>1 DEF StartRecovery, Live
  <1>2. CASE FindOrphans
    BY <1>2 DEF FindOrphans
  <1>3. CASE EndRecovery
    BY <1>3 DEF EndRecovery
  <1>4. ASSUME NEW r \in Runs, PickOrphan(r) PROVE TypeOK'
    BY <1>4 DEF PickOrphan
  <1>5. ASSUME NEW r \in Runs, SettleOrphan(r) PROVE TypeOK'
    <2>1. RunTypes' BY <1>5, EndRunTypes, FailRunTypes DEF SettleOrphan
    <2>. QED BY <1>5, <2>1 DEF SettleOrphan
  <1>6. ASSUME NEW r \in Runs, SettleOrphanFails(r) PROVE TypeOK'
    BY <1>6 DEF SettleOrphanFails
  <1>. QED BY <1>1, <1>2, <1>3, <1>4, <1>5, <1>6 DEF Recover

\* A crash of the process keeps every variable within its type.
LEMMA CrashTypes ==
  ASSUME TypeOK, Crash
  PROVE  TypeOK'
BY RunsAssumption, BoundsAssumption DEF Crash, TypeOK, RunTypes, TextTypes, AskTypes, ProcTypes, LocalTypes,
     RecTypes, EnvTypes, runVars, textVars, askVars, procVars, localVars, recVars, envVars,
     Terminal, Statuses, Messages, Preparing, Working, Ending, Executing, Steps

\* Every variable of the run, of its execution and of recovery keeps its type, and
\* every counter its bound, in every reachable state of any instance.
THEOREM TypesHold == Spec => []TypeOK
<1>1. Init => TypeOK
  BY RunsAssumption, BoundsAssumption DEF Init, TypeOK, RunTypes, TextTypes, AskTypes, ProcTypes, LocalTypes,
     RecTypes, EnvTypes, runVars, textVars, askVars, procVars, localVars, recVars, envVars,
     Terminal, Statuses, Messages, Preparing, Working, Ending, Executing, Steps
<1>2. TypeOK /\ [Next]_vars => TypeOK'
  <2>. SUFFICES ASSUME TypeOK, [Next]_vars PROVE TypeOK'
    OBVIOUS
  <2>1. CASE Next
    BY <2>1, AdmitTypes, PrepareTypes, DocumentsTypes, AdvanceTypes, StreamingTypes,
       EnvironmentTypes, RecoverTypes, CrashTypes DEF Next
  <2>2. CASE UNCHANGED vars
    BY <2>2 DEF vars, TypeOK, RunTypes, TextTypes, AskTypes, ProcTypes, LocalTypes,
     RecTypes, EnvTypes, runVars, textVars, askVars, procVars, localVars, recVars, envVars,
     Terminal, Statuses, Messages, Preparing, Working, Ending, Executing, Steps
  <2>. QED BY <2>1, <2>2
<1>. QED BY <1>1, <1>2, PTL DEF Spec

(***************************************************************************)
(* AnswerInvariant: what a step on one run does to the promises of any.    *)
(***************************************************************************)
\* Preparing a run with Memory keeps what makes the answer safe, for every run.
LEMMA PrepareAnswer ==
  ASSUME TypeOK, AnswerInvariant, NEW r \in Runs, Prepare(r)
  PROVE  AnswerInvariant'
PROOF
  <1>. USE DEF AnswerInvariant, AnswerSafe, BeforeExecution, Active, TypeOK, RunTypes, AskTypes,
       ProcTypes, LocalTypes, runVars, textVars, askVars, procVars, localVars, recVars, envVars,
       Terminal, Statuses, Messages, Preparing, Working, Ending, Executing, Steps
  <1>. SUFFICES ASSUME NEW q \in Runs PROVE AnswerSafe(q)'
    BY DEF AnswerInvariant
  <1>1. CASE RegisterPreparation(r)
    BY <1>1 DEF RegisterPreparation, Goto
  <1>2. CASE FinishPreparation(r)
    BY <1>2 DEF FinishPreparation, Leave, Goto
  <1>3. CASE FailPreparation(r)
    BY <1>3 DEF FailPreparation, FailRun, Leave, Goto, EndRun
  <1>. QED BY <1>1, <1>2, <1>3 DEF Prepare

\* The document job keeps what makes the answer safe, for every run.
LEMMA DocumentsAnswer ==
  ASSUME TypeOK, AnswerInvariant, NEW r \in Runs, PrepareDocuments(r)
  PROVE  AnswerInvariant'
PROOF
  <1>. USE DEF AnswerInvariant, AnswerSafe, BeforeExecution, Active, TypeOK, RunTypes, AskTypes,
       ProcTypes, LocalTypes, runVars, textVars, askVars, procVars, localVars, recVars, envVars,
       Terminal, Statuses, Messages, Preparing, Working, Ending, Executing, Steps
  <1>. SUFFICES ASSUME NEW q \in Runs PROVE AnswerSafe(q)'
    BY DEF AnswerInvariant
  <1>1. CASE ClaimDocuments(r)
    BY <1>1 DEF ClaimDocuments, Goto
  <1>2. CASE LeavePreparation(r)
    BY <1>2 DEF LeavePreparation, Leave, Goto
  <1>3. CASE ContinueDocuments(r)
    BY <1>3 DEF ContinueDocuments, Goto
  <1>4. CASE MarkAnswerDispatched(r)
    BY <1>4 DEF MarkAnswerDispatched, Dispatchable, Leave, Goto
  <1>5. CASE FailDocuments(r)
    BY <1>5 DEF FailDocuments, FailRun, Leave, Goto, EndRun
  <1>. QED BY <1>1, <1>2, <1>3, <1>4, <1>5 DEF PrepareDocuments

\* The steps of an execution keep what makes the answer safe, for every run.
LEMMA AdvanceAnswer ==
  ASSUME TypeOK, AnswerInvariant, NEW r \in Runs, Advance(r)
  PROVE  AnswerInvariant'
PROOF
  <1>. USE DEF AnswerInvariant, AnswerSafe, BeforeExecution, Active, TypeOK, RunTypes, AskTypes,
       ProcTypes, LocalTypes, runVars, textVars, askVars, procVars, localVars, recVars, envVars,
       Terminal, Statuses, Messages, Preparing, Working, Ending, Executing, Steps
  <1>. SUFFICES ASSUME NEW q \in Runs PROVE AnswerSafe(q)'
    BY DEF AnswerInvariant
  <1>1. CASE StartExecution(r)
    BY <1>1 DEF StartExecution, Goto
  <1>2. CASE CheckRun(r)
    BY <1>2 DEF CheckRun, Dispatchable, Goto, Throw
  <1>3. CASE Answer(r)
    BY <1>3 DEF Answer, Goto
  <1>4. CASE CallTools(r)
    BY <1>4 DEF CallTools, Flush, Goto
  <1>5. CASE Fail(r)
    BY <1>5 DEF Fail, Aborted, Throw, Goto
  <1>6. CASE BeginCall(r)
    <2>1. UNCHANGED <<status, answered, msg, prep, asked, delivered, basis>>
      BY <1>6 DEF BeginCall
    <2>2. pc[r] \in Working /\ pc'[r] \in {"calling", "close", "stopped", "failed"}
          /\ (q # r => pc'[q] = pc[q])
      BY <1>6 DEF BeginCall, Goto, Throw
    <2>3. call'[q] = call[q] \/ Active(q)
      BY <1>6 DEF BeginCall, Dispatchable
    <2>. QED BY <2>1, <2>2, <2>3
  <1>7. CASE SettleCall(r)
    BY <1>7 DEF SettleCall, Goto
  <1>8. CASE LoadMidway(r)
    <2>1. UNCHANGED <<status, answered, msg, call, prep, asked, delivered>>
      BY <1>8 DEF LoadMidway, LoadFollowups
    <2>2. /\ pc[r] \in Working /\ pc'[r] \in Working \ {"start"}
          /\ q # r => pc'[q] = pc[q]
      BY <1>8 DEF LoadMidway, LoadFollowups, NextRequest, Goto
    <2>3. basis'[q] = basis[q] \/ (q = r /\ basis'[r] = delivered[r])
      BY <1>8 DEF LoadMidway, LoadFollowups, NextRequest
    <2>4. AnswerSafe(q) OBVIOUS
    <2>. HIDE DEF AnswerInvariant, TypeOK, RunTypes, AskTypes, ProcTypes, LocalTypes
    <2>5. CASE q # r
      <3>1. basis'[q] = basis[q] /\ pc'[q] = pc[q] BY <2>2, <2>3, <2>5
      <3>. QED BY <2>1, <2>4, <3>1
    <2>6. CASE q = r
      BY <2>1, <2>2, <2>3, <2>4, <2>6
    <2>. QED BY <2>5, <2>6
  <1>9. CASE DeliverMidway(r)
    BY SMTT(30), <1>9 DEF DeliverMidway, DeliverFollowups, NextRequest, Goto, RestartAnswer
  <1>10. CASE LoadToClose(r)
    BY <1>10 DEF LoadToClose, Aborted, Goto, Accepted
  <1>11. CASE CloseFollowups(r)
    BY <1>11 DEF CloseFollowups, Goto
  <1>12. CASE LoadAtTheEnd(r)
    <2>1. UNCHANGED <<status, answered, msg, call, prep, asked, delivered>>
      BY <1>12 DEF LoadAtTheEnd, LoadFollowups
    <2>2. /\ pc[r] \in Working /\ pc'[r] \in Working \ {"start"}
          /\ q # r => pc'[q] = pc[q]
      BY <1>12 DEF LoadAtTheEnd, LoadFollowups, RetrySettle, Goto
    <2>3. basis'[q] = basis[q] \/ (q = r /\ basis'[r] = delivered[r])
      BY <1>12 DEF LoadAtTheEnd, LoadFollowups, RetrySettle
    <2>4. AnswerSafe(q) OBVIOUS
    <2>. HIDE DEF AnswerInvariant, TypeOK, RunTypes, AskTypes, ProcTypes, LocalTypes
    <2>5. CASE q # r
      <3>1. basis'[q] = basis[q] /\ pc'[q] = pc[q] BY <2>2, <2>3, <2>5
      <3>. QED BY <2>1, <2>4, <3>1
    <2>6. CASE q = r
      BY <2>1, <2>2, <2>3, <2>4, <2>6
    <2>. QED BY <2>5, <2>6
  <1>13. CASE DeliverAtTheEnd(r)
    BY <1>13 DEF DeliverAtTheEnd, DeliverFollowups, RetrySettle, Goto, RestartAnswer
  <1>14. CASE FlushBeforePublication(r)
    BY <1>14 DEF FlushBeforePublication, Aborted, Flush, Goto
  <1>15. CASE PublishAnswer(r)
    BY <1>15 DEF PublishAnswer, Dispatchable, FollowupsAllowCompletion, Goto, Throw
  <1>16. CASE HandOff(r)
    BY <1>16 DEF HandOff, Goto
  <1>17. CASE CompleteRun(r)
    BY <1>17 DEF CompleteRun, Dispatchable, EndRun, Goto
  <1>18. CASE SaveStoppedText(r)
    BY <1>18 DEF SaveStoppedText, Goto
  <1>19. CASE FlushFailedText(r)
    BY <1>19 DEF FlushFailedText, Flush, Goto
  <1>20. CASE FailExecution(r)
    BY <1>20 DEF FailExecution, FailRun, Goto, EndRun
  <1>21. CASE FinishExecution(r)
    BY <1>21 DEF FinishExecution, Leave, Goto
  <1>22. CASE LoseDelivery(r)
    BY <1>22 DEF LoseDelivery, Throw, Goto
  <1>. QED BY <1>1, <1>2, <1>3, <1>4, <1>5, <1>6, <1>7, <1>8, <1>9, <1>10, <1>11, <1>12, <1>13,
       <1>14, <1>15, <1>16, <1>17, <1>18, <1>19, <1>20, <1>21, <1>22 DEF Advance

\* Streaming text and saving it keeps what makes the answer safe, for every run.
LEMMA StreamingAnswer ==
  ASSUME TypeOK, AnswerInvariant, NEW r \in Runs, Streaming(r)
  PROVE  AnswerInvariant'
PROOF
  <1>. USE DEF AnswerInvariant, AnswerSafe, BeforeExecution, Active, TypeOK, RunTypes, AskTypes,
       ProcTypes, LocalTypes, runVars, textVars, askVars, procVars, localVars, recVars, envVars,
       Terminal, Statuses, Messages, Preparing, Working, Ending, Executing, Steps
  <1>. SUFFICES ASSUME NEW q \in Runs PROVE AnswerSafe(q)'
    BY DEF AnswerInvariant
  <1>1. CASE Stream(r)
    BY <1>1 DEF Stream
  <1>2. CASE DiscardAttempt(r)
    BY <1>2 DEF DiscardAttempt
  <1>3. CASE SaveText(r)
    BY <1>3 DEF SaveText
  <1>. QED BY <1>1, <1>2, <1>3 DEF Streaming

\* The user, sub-agents, the Workspace and the clock keep what makes the answer safe, for every run.
LEMMA EnvironmentAnswer ==
  ASSUME TypeOK, AnswerInvariant, NEW r \in Runs, Environment(r)
  PROVE  AnswerInvariant'
PROOF
  <1>. USE DEF AnswerInvariant, AnswerSafe, BeforeExecution, Active, TypeOK, RunTypes, AskTypes,
       ProcTypes, LocalTypes, runVars, textVars, askVars, procVars, localVars, recVars, envVars,
       Terminal, Statuses, Messages, Preparing, Working, Ending, Executing, Steps
  <1>. SUFFICES ASSUME NEW q \in Runs PROVE AnswerSafe(q)'
    BY DEF AnswerInvariant
  <1>1. CASE Stop(r)
    BY <1>1 DEF Stop, EndRun
  <1>2. CASE AbortStopped(r)
    BY <1>2 DEF AbortStopped
  <1>3. CASE Interrupt(r)
    BY <1>3 DEF Interrupt
  <1>4. CASE DeadlinePasses(r)
    BY <1>4 DEF DeadlinePasses
  <1>5. CASE AcceptFollowup(r)
    BY <1>5 DEF AcceptFollowup
  <1>6. CASE AddAgentFollowup(r)
    BY <1>6 DEF AddAgentFollowup, Dispatchable
  <1>7. CASE Age(r)
    BY <1>7 DEF Age
  <1>. QED BY <1>1, <1>2, <1>3, <1>4, <1>5, <1>6, <1>7 DEF Environment

\* Admission keeps what makes the answer safe, for every run.
LEMMA AdmitAnswer ==
  ASSUME TypeOK, AnswerInvariant, NEW r \in Runs, Admit(r)
  PROVE  AnswerInvariant'
PROOF
  <1>. SUFFICES ASSUME NEW q \in Runs PROVE AnswerSafe(q)'
    BY DEF AnswerInvariant
  <1>1. /\ AnswerSafe(q)
        /\ UNCHANGED <<answered, call, delivered, localVars>>
        /\ status[r] = "none"
    BY DEF Admit, AnswerInvariant
  <1>2. answered'[q] = answered[q] /\ call'[q] = call[q] /\ delivered'[q] = delivered[q]
        /\ basis'[q] = basis[q]
    BY <1>1 DEF localVars
  <1>3. CASE q # r
    <2>1. /\ status'[q] = status[q] /\ msg'[q] = msg[q] /\ asked'[q] = asked[q]
          /\ prep'[q] = prep[q] /\ pc'[q] = pc[q]
      BY <1>3 DEF Admit, Goto, TypeOK, RunTypes, AskTypes, ProcTypes
    <2>. QED BY <1>1, <1>2, <2>1 DEF AnswerSafe, BeforeExecution, Active
  <1>4. CASE q = r
    <2>1. /\ status'[r] \in {"preparing", "active"} /\ msg'[r] = "streaming"
          /\ asked'[r] \in Nat
      BY BoundsAssumption DEF Admit, TypeOK, RunTypes, AskTypes
    <2>2. \/ status'[r] = "preparing" /\ pc'[r] = pc[r] /\ prep'[r] = "pending"
          \/ status'[r] = "preparing" /\ pc'[r] = "admitted" /\ prep'[r] = prep[r]
          \/ status'[r] = "active" /\ pc'[r] = "gap" /\ prep'[r] = prep[r]
      BY DEF Admit, Goto, TypeOK, RunTypes, ProcTypes
    <2>3. /\ pc[r] = "idle" /\ prep[r] = "none" /\ basis[r] = 0
          /\ delivered[r] = 0 /\ ~answered[r]
      BY <1>1, <1>4 DEF AnswerSafe, BeforeExecution, Executing, Working, Ending
    <2>. QED BY <1>2, <1>4, <2>1, <2>2, <2>3 DEF AnswerSafe, BeforeExecution, Active,
         Terminal, Preparing, Working, Ending, Executing
  <1>. QED BY <1>3, <1>4

\* Recovery's pass keeps what makes the answer safe, for every run.
LEMMA RecoverAnswer ==
  ASSUME TypeOK, AnswerInvariant, Recover
  PROVE  AnswerInvariant'
PROOF
  <1>. USE RunsAssumption DEF AnswerInvariant, AnswerSafe, BeforeExecution, Active,
       TypeOK, RunTypes, AskTypes, ProcTypes, LocalTypes,
       runVars, textVars, askVars, procVars, localVars, recVars, envVars, Terminal, Statuses,
       Messages, Preparing, Working, Ending, Executing, Steps
  <1>. SUFFICES ASSUME NEW q \in Runs PROVE AnswerSafe(q)'
    BY DEF AnswerInvariant
  <1>1. CASE StartRecovery
    BY <1>1 DEF StartRecovery, Live
  <1>2. CASE FindOrphans
    BY <1>2 DEF FindOrphans
  <1>3. CASE EndRecovery
    BY <1>3 DEF EndRecovery
  <1>4. ASSUME NEW r \in Runs, PickOrphan(r) PROVE AnswerSafe(q)'
    BY <1>4 DEF PickOrphan, Live
  <1>5. ASSUME NEW r \in Runs, SettleOrphan(r) PROVE AnswerSafe(q)'
    BY <1>5 DEF SettleOrphan, EndRun, FailRun, Dispatchable
  <1>6. ASSUME NEW r \in Runs, SettleOrphanFails(r) PROVE AnswerSafe(q)'
    BY <1>6 DEF SettleOrphanFails
  <1>. QED BY <1>1, <1>2, <1>3, <1>4, <1>5, <1>6 DEF Recover

\* A crash of the process keeps what makes the answer safe, for every run.
LEMMA CrashAnswer ==
  ASSUME TypeOK, AnswerInvariant, Crash
  PROVE  AnswerInvariant'
PROOF
  <1>. SUFFICES ASSUME NEW q \in Runs PROVE AnswerSafe(q)'
    BY DEF AnswerInvariant
  <1>. QED BY RunsAssumption DEF Crash, AnswerInvariant, AnswerSafe, BeforeExecution, Active,
       TypeOK, RunTypes, AskTypes, ProcTypes, LocalTypes,
       runVars, textVars, askVars, procVars, localVars, recVars, envVars, Terminal, Statuses,
       Messages, Preparing, Working, Ending, Executing, Steps

(***************************************************************************)
(* OwnershipInvariant.                                                     *)
(***************************************************************************)
\* Preparing a run with Memory keeps what recovery decides from, for every run.
LEMMA PrepareOwned ==
  ASSUME TypeOK, AnswerInvariant, OwnershipInvariant, NEW r \in Runs, Prepare(r)
  PROVE  OwnershipInvariant'
PROOF
  <1>. USE DEF OwnershipInvariant, Owned, Active, Live, TypeOK, RunTypes, ProcTypes, RecTypes,
       EnvTypes, runVars, textVars, askVars, procVars, localVars, recVars, envVars, Terminal,
       Statuses, Messages, Preparing, Working, Ending, Executing, Steps
  <1>. SUFFICES ASSUME NEW q \in Runs PROVE Owned(q)'
    BY DEF OwnershipInvariant
  <1>1. CASE RegisterPreparation(r)
    BY <1>1 DEF RegisterPreparation, Goto
  <1>2. CASE FinishPreparation(r)
    BY <1>2 DEF FinishPreparation, Leave, Goto
  <1>3. CASE FailPreparation(r)
    BY <1>3 DEF FailPreparation, FailRun, Leave, Goto, EndRun
  <1>. QED BY <1>1, <1>2, <1>3 DEF Prepare

\* The document job keeps what recovery decides from, for every run.
LEMMA DocumentsOwned ==
  ASSUME TypeOK, AnswerInvariant, OwnershipInvariant, NEW r \in Runs, PrepareDocuments(r)
  PROVE  OwnershipInvariant'
PROOF
  <1>. USE DEF OwnershipInvariant, Owned, Active, Live, TypeOK, RunTypes, ProcTypes, RecTypes,
       EnvTypes, runVars, textVars, askVars, procVars, localVars, recVars, envVars, Terminal,
       Statuses, Messages, Preparing, Working, Ending, Executing, Steps
  <1>. SUFFICES ASSUME NEW q \in Runs PROVE Owned(q)'
    BY DEF OwnershipInvariant
  <1>1. CASE ClaimDocuments(r)
    BY <1>1 DEF ClaimDocuments, Goto
  <1>2. CASE LeavePreparation(r)
    BY <1>2 DEF LeavePreparation, Leave, Goto
  <1>3. CASE ContinueDocuments(r)
    BY <1>3 DEF ContinueDocuments, Goto
  <1>4. CASE MarkAnswerDispatched(r)
    BY <1>4 DEF MarkAnswerDispatched, Dispatchable, Leave, Goto
  <1>5. CASE FailDocuments(r)
    BY <1>5 DEF FailDocuments, FailRun, Leave, Goto, EndRun
  <1>. QED BY <1>1, <1>2, <1>3, <1>4, <1>5 DEF PrepareDocuments

\* The steps of an execution keep what recovery decides from, for every run.
LEMMA AdvanceOwned ==
  ASSUME TypeOK, AnswerInvariant, OwnershipInvariant, NEW r \in Runs, Advance(r)
  PROVE  OwnershipInvariant'
PROOF
  <1>. USE DEF OwnershipInvariant, Owned, Active, Live, TypeOK, RunTypes, ProcTypes, RecTypes,
       EnvTypes, runVars, textVars, askVars, procVars, localVars, recVars, envVars, Terminal,
       Statuses, Messages, Preparing, Working, Ending, Executing, Steps
  <1>. SUFFICES ASSUME NEW q \in Runs PROVE Owned(q)'
    BY DEF OwnershipInvariant
  <1>1. CASE StartExecution(r)
    BY <1>1 DEF StartExecution, Goto
  <1>2. CASE CheckRun(r)
    BY <1>2 DEF CheckRun, Dispatchable, Goto, Throw
  <1>3. CASE Answer(r)
    BY <1>3 DEF Answer, Goto
  <1>4. CASE CallTools(r)
    BY <1>4 DEF CallTools, Flush, Goto
  <1>5. CASE Fail(r)
    BY <1>5 DEF Fail, Aborted, Throw, Goto
  <1>6. CASE BeginCall(r)
    BY <1>6 DEF BeginCall, Dispatchable, Goto, Throw
  <1>7. CASE SettleCall(r)
    BY <1>7 DEF SettleCall, Goto
  <1>8. CASE LoadMidway(r)
    BY <1>8 DEF LoadMidway, LoadFollowups, NextRequest, Goto, Accepted, Flush
  <1>9. CASE DeliverMidway(r)
    BY <1>9 DEF DeliverMidway, DeliverFollowups, NextRequest, Goto, RestartAnswer
  <1>10. CASE LoadToClose(r)
    BY <1>10 DEF LoadToClose, Aborted, Goto, Accepted
  <1>11. CASE CloseFollowups(r)
    BY <1>11 DEF CloseFollowups, Goto
  <1>12. CASE LoadAtTheEnd(r)
    BY <1>12 DEF LoadAtTheEnd, LoadFollowups, RetrySettle, Goto, Accepted, Flush
  <1>13. CASE DeliverAtTheEnd(r)
    BY <1>13 DEF DeliverAtTheEnd, DeliverFollowups, RetrySettle, Goto, RestartAnswer
  <1>14. CASE FlushBeforePublication(r)
    BY <1>14 DEF FlushBeforePublication, Aborted, Flush, Goto
  <1>15. CASE PublishAnswer(r)
    BY <1>15 DEF PublishAnswer, Dispatchable, FollowupsAllowCompletion, Goto, Throw
  <1>16. CASE HandOff(r)
    BY <1>16 DEF HandOff, Goto
  <1>17. CASE CompleteRun(r)
    BY <1>17 DEF CompleteRun, Dispatchable, EndRun, Goto
  <1>18. CASE SaveStoppedText(r)
    BY <1>18 DEF SaveStoppedText, Goto
  <1>19. CASE FlushFailedText(r)
    BY <1>19 DEF FlushFailedText, Flush, Goto
  <1>20. CASE FailExecution(r)
    BY <1>20 DEF FailExecution, FailRun, Goto, EndRun
  <1>21. CASE FinishExecution(r)
    BY <1>21 DEF FinishExecution, Leave, Goto
  <1>22. CASE LoseDelivery(r)
    BY <1>22 DEF LoseDelivery, Throw, Goto
  <1>. QED BY <1>1, <1>2, <1>3, <1>4, <1>5, <1>6, <1>7, <1>8, <1>9, <1>10, <1>11, <1>12, <1>13,
       <1>14, <1>15, <1>16, <1>17, <1>18, <1>19, <1>20, <1>21, <1>22 DEF Advance

\* Streaming text and saving it keeps what recovery decides from, for every run.
LEMMA StreamingOwned ==
  ASSUME TypeOK, AnswerInvariant, OwnershipInvariant, NEW r \in Runs, Streaming(r)
  PROVE  OwnershipInvariant'
PROOF
  <1>. USE DEF OwnershipInvariant, Owned, Active, Live, TypeOK, RunTypes, ProcTypes, RecTypes,
       EnvTypes, runVars, textVars, askVars, procVars, localVars, recVars, envVars, Terminal,
       Statuses, Messages, Preparing, Working, Ending, Executing, Steps
  <1>. SUFFICES ASSUME NEW q \in Runs PROVE Owned(q)'
    BY DEF OwnershipInvariant
  <1>1. CASE Stream(r)
    BY <1>1 DEF Stream
  <1>2. CASE DiscardAttempt(r)
    BY <1>2 DEF DiscardAttempt
  <1>3. CASE SaveText(r)
    BY <1>3 DEF SaveText
  <1>. QED BY <1>1, <1>2, <1>3 DEF Streaming

\* The user, sub-agents, the Workspace and the clock keep what recovery decides from, for every run.
LEMMA EnvironmentOwned ==
  ASSUME TypeOK, AnswerInvariant, OwnershipInvariant, NEW r \in Runs, Environment(r)
  PROVE  OwnershipInvariant'
PROOF
  <1>. USE DEF OwnershipInvariant, Owned, Active, Live, TypeOK, RunTypes, ProcTypes, RecTypes,
       EnvTypes, runVars, textVars, askVars, procVars, localVars, recVars, envVars, Terminal,
       Statuses, Messages, Preparing, Working, Ending, Executing, Steps
  <1>. SUFFICES ASSUME NEW q \in Runs PROVE Owned(q)'
    BY DEF OwnershipInvariant
  <1>1. CASE Stop(r)
    BY <1>1 DEF Stop, EndRun
  <1>2. CASE AbortStopped(r)
    BY <1>2 DEF AbortStopped
  <1>3. CASE Interrupt(r)
    BY <1>3 DEF Interrupt
  <1>4. CASE DeadlinePasses(r)
    BY <1>4 DEF DeadlinePasses
  <1>5. CASE AcceptFollowup(r)
    BY <1>5 DEF AcceptFollowup
  <1>6. CASE AddAgentFollowup(r)
    BY <1>6 DEF AddAgentFollowup, Dispatchable
  <1>7. CASE Age(r)
    BY <1>7 DEF Age
  <1>. QED BY <1>1, <1>2, <1>3, <1>4, <1>5, <1>6, <1>7 DEF Environment

\* Admission keeps what recovery decides from, for every run.
LEMMA AdmitOwned ==
  ASSUME TypeOK, AnswerInvariant, OwnershipInvariant, NEW r \in Runs, Admit(r)
  PROVE  OwnershipInvariant'
PROOF
  <1>. SUFFICES ASSUME NEW q \in Runs PROVE Owned(q)'
    BY DEF OwnershipInvariant
  <1>. QED BY RunsAssumption DEF Admit, Goto, AnswerInvariant, AnswerSafe, BeforeExecution,
       Active, OwnershipInvariant, Owned, TypeOK, RunTypes, ProcTypes, RecTypes, EnvTypes,
       runVars, textVars, askVars, procVars, localVars, recVars, envVars, Terminal, Statuses,
       Messages, Preparing, Working, Ending, Executing, Steps

\* Recovery's pass keeps what recovery decides from, for every run.
LEMMA RecoverOwned ==
  ASSUME TypeOK, AnswerInvariant, OwnershipInvariant, Recover
  PROVE  OwnershipInvariant'
PROOF
  <1>. USE RunsAssumption DEF AnswerInvariant, AnswerSafe, BeforeExecution, Active,
       OwnershipInvariant, Owned, TypeOK, RunTypes, ProcTypes, RecTypes, EnvTypes,
       runVars, textVars, askVars, procVars, localVars, recVars, envVars, Terminal, Statuses,
       Messages, Preparing, Working, Ending, Executing, Steps
  <1>. SUFFICES ASSUME NEW q \in Runs PROVE Owned(q)'
    BY DEF OwnershipInvariant
  <1>1. CASE StartRecovery
    BY <1>1 DEF StartRecovery, Live
  <1>2. CASE FindOrphans
    BY <1>2 DEF FindOrphans
  <1>3. CASE EndRecovery
    BY <1>3 DEF EndRecovery
  <1>4. ASSUME NEW r \in Runs, PickOrphan(r) PROVE Owned(q)'
    BY <1>4 DEF PickOrphan, Live
  <1>5. ASSUME NEW r \in Runs, SettleOrphan(r) PROVE Owned(q)'
    BY <1>5 DEF SettleOrphan, EndRun, FailRun, Dispatchable
  <1>6. ASSUME NEW r \in Runs, SettleOrphanFails(r) PROVE Owned(q)'
    BY <1>6 DEF SettleOrphanFails
  <1>. QED BY <1>1, <1>2, <1>3, <1>4, <1>5, <1>6 DEF Recover

\* A crash of the process keeps what recovery decides from, for every run.
LEMMA CrashOwned ==
  ASSUME TypeOK, AnswerInvariant, OwnershipInvariant, Crash
  PROVE  OwnershipInvariant'
PROOF
  <1>. SUFFICES ASSUME NEW q \in Runs PROVE Owned(q)'
    BY DEF OwnershipInvariant
  <1>. QED BY RunsAssumption DEF Crash, AnswerInvariant, AnswerSafe, BeforeExecution, Active,
       OwnershipInvariant, Owned, TypeOK, RunTypes, ProcTypes, RecTypes, EnvTypes,
       runVars, textVars, askVars, procVars, localVars, recVars, envVars, Terminal, Statuses,
       Messages, Preparing, Working, Ending, Executing, Steps

(***************************************************************************)
(* The inductive invariant.                                                *)
(***************************************************************************)
Inv == TypeOK /\ AnswerInvariant /\ OwnershipInvariant

\* Before any run is admitted the invariant holds.
LEMMA InvInitially == Init => Inv
<1>1. Init => TypeOK
  BY RunsAssumption, BoundsAssumption DEF Init, TypeOK, RunTypes, TextTypes, AskTypes, ProcTypes, LocalTypes, RecTypes,
     EnvTypes, Terminal,
     Statuses, Messages, Preparing, Working, Ending, Executing, Steps
<1>2. Init => AnswerInvariant
  BY DEF Init, AnswerInvariant, AnswerSafe, BeforeExecution, Active, Terminal,
     Statuses, Messages, Preparing, Working, Ending, Executing, Steps
<1>3. Init => OwnershipInvariant
  BY RunsAssumption DEF Init, OwnershipInvariant, Owned, Active, Terminal,
     Statuses, Messages, Preparing, Working, Ending, Executing, Steps
<1>. QED BY <1>1, <1>2, <1>3 DEF Inv

\* Every step of anything keeps the invariant: one lemma per group of actions.
LEMMA InvStep ==
  ASSUME Inv, [Next]_vars
  PROVE  Inv'
<1>. USE DEF Inv
<1>1. TypeOK'
  <2>1. CASE Next
    BY <2>1, AdmitTypes, PrepareTypes, DocumentsTypes, AdvanceTypes, StreamingTypes,
       EnvironmentTypes, RecoverTypes, CrashTypes DEF Next
  <2>2. CASE UNCHANGED vars
    BY <2>2 DEF vars, TypeOK, RunTypes, TextTypes, AskTypes, ProcTypes, LocalTypes, RecTypes,
     EnvTypes, runVars, textVars, askVars, procVars, localVars,
       recVars, envVars
  <2>. QED BY <2>1, <2>2
<1>2. AnswerInvariant'
  <2>1. CASE Next
    BY <2>1, AdmitAnswer, PrepareAnswer, DocumentsAnswer, AdvanceAnswer, StreamingAnswer,
       EnvironmentAnswer, RecoverAnswer, CrashAnswer DEF Next
  <2>2. CASE UNCHANGED vars
    BY <2>2 DEF vars, AnswerInvariant, AnswerSafe, BeforeExecution, Active, runVars, textVars, askVars, procVars, localVars,
       recVars, envVars
  <2>. QED BY <2>1, <2>2
<1>3. OwnershipInvariant'
  <2>1. CASE Next
    BY <2>1, AdmitOwned, PrepareOwned, DocumentsOwned, AdvanceOwned, StreamingOwned,
       EnvironmentOwned, RecoverOwned, CrashOwned DEF Next
  <2>2. CASE UNCHANGED vars
    BY <2>2 DEF vars, OwnershipInvariant, Owned, Active, runVars, textVars, askVars, procVars, localVars,
       recVars, envVars
  <2>. QED BY <2>1, <2>2
<1>. QED BY <1>1, <1>2, <1>3

\* The inductive invariant, of which the rest are consequences: types, what makes the
\* answer safe, and what makes recovery's decision safe.
THEOREM InvariantHolds == Spec => []Inv
<1>1. Inv /\ [Next]_vars => Inv'
  BY InvStep
<1>. QED BY InvInitially, <1>1, PTL DEF Spec

\* The promises about the answer, as the runs check them.
THEOREM AnswerInvariantHolds == Spec => []AnswerInvariant
BY InvariantHolds, PTL DEF Inv

\* The facts recovery's decision rests on, as the runs check them.
THEOREM OwnershipInvariantHolds == Spec => []OwnershipInvariant
BY InvariantHolds, PTL DEF Inv

\* However an answer comes to be published, no accepted follow-up is left behind.
THEOREM NoFollowupLeft == Spec => []AnswerLeavesNoFollowup
<1>1. Inv => AnswerLeavesNoFollowup
  BY DEF Inv, AnswerInvariant, AnswerSafe, AnswerLeavesNoFollowup
<1>. QED BY <1>1, InvariantHolds, PTL

\* However a run ends, its calls end with it.
THEOREM NoCallRuns == Spec => []NoCallRunsInEndedRun
<1>1. Inv => NoCallRunsInEndedRun
  BY DEF Inv, AnswerInvariant, AnswerSafe, NoCallRunsInEndedRun
<1>. QED BY <1>1, InvariantHolds, PTL

(***************************************************************************)
(* What no step may do.                                                    *)
(***************************************************************************)
\* A run that ended stays as it ended through every step of anything.
LEMMA StaysEndedStep ==
  ASSUME Inv, [Next]_vars, NEW q \in Runs
  PROVE  StaysEnded(q)
PROOF
  <1>. USE DEF StaysEnded, Inv, AnswerInvariant, AnswerSafe, TypeOK, RunTypes, AskTypes,
       runVars, textVars, askVars, procVars, localVars, recVars, envVars, Terminal
  <1>1. ASSUME NEW r \in Runs, Admit(r) PROVE StaysEnded(q)
    BY <1>1 DEF Admit, Active, Goto
  <1>2. ASSUME NEW r \in Runs, FinishPreparation(r) PROVE StaysEnded(q)
    BY <1>2 DEF FinishPreparation, Goto
  <1>3. ASSUME NEW r \in Runs, FailPreparation(r) PROVE StaysEnded(q)
    BY <1>3 DEF FailPreparation, FailRun, Leave, Goto, Active, EndRun
  <1>4. ASSUME NEW r \in Runs, ContinueDocuments(r) PROVE StaysEnded(q)
    BY <1>4 DEF ContinueDocuments, Active, Goto
  <1>5. ASSUME NEW r \in Runs, FailDocuments(r) PROVE StaysEnded(q)
    BY <1>5 DEF FailDocuments, FailRun, Leave, Goto, Active, EndRun
  <1>6. ASSUME NEW r \in Runs, BeginCall(r) PROVE StaysEnded(q)
    BY <1>6 DEF BeginCall, Dispatchable, Goto, Throw
  <1>7. ASSUME NEW r \in Runs, SettleCall(r) PROVE StaysEnded(q)
    BY <1>7 DEF SettleCall, Goto
  <1>8. ASSUME NEW r \in Runs, DeliverMidway(r) PROVE StaysEnded(q)
    BY <1>8 DEF DeliverMidway, DeliverFollowups, NextRequest, Goto, Active, RestartAnswer
  <1>9. ASSUME NEW r \in Runs, DeliverAtTheEnd(r) PROVE StaysEnded(q)
    BY <1>9 DEF DeliverAtTheEnd, DeliverFollowups, RetrySettle, Goto, Active, RestartAnswer
  <1>10. ASSUME NEW r \in Runs, PublishAnswer(r) PROVE StaysEnded(q)
    BY <1>10 DEF PublishAnswer, Dispatchable, FollowupsAllowCompletion, Goto, Throw
  <1>11. ASSUME NEW r \in Runs, CompleteRun(r) PROVE StaysEnded(q)
    BY <1>11 DEF CompleteRun, Dispatchable, EndRun, Goto
  <1>12. ASSUME NEW r \in Runs, FailExecution(r) PROVE StaysEnded(q)
    BY <1>12 DEF FailExecution, FailRun, Goto, Active, EndRun
  <1>13. ASSUME NEW r \in Runs, Stop(r) PROVE StaysEnded(q)
    BY <1>13 DEF Stop, Active, EndRun
  <1>14. ASSUME NEW r \in Runs, AcceptFollowup(r) PROVE StaysEnded(q)
    BY <1>14 DEF AcceptFollowup, Active
  <1>15. ASSUME NEW r \in Runs, AddAgentFollowup(r) PROVE StaysEnded(q)
    BY <1>15 DEF AddAgentFollowup, Dispatchable
  <1>16. ASSUME NEW r \in Runs, RegisterPreparation(r) PROVE StaysEnded(q)
    BY <1>16 DEF RegisterPreparation
  <1>17. ASSUME NEW r \in Runs, ClaimDocuments(r) \/ LeavePreparation(r) \/
       MarkAnswerDispatched(r) PROVE StaysEnded(q)
    BY <1>17 DEF ClaimDocuments, LeavePreparation, Leave, MarkAnswerDispatched
  <1>18. ASSUME NEW r \in Runs, StartExecution(r) \/ CheckRun(r) \/ Answer(r) \/ CallTools(r) \/
       Fail(r) \/ LoadMidway(r) \/ LoadToClose(r) \/ CloseFollowups(r) \/ LoadAtTheEnd(r) \/
       FlushBeforePublication(r) \/ HandOff(r) \/ SaveStoppedText(r) \/ FlushFailedText(r) \/
       FinishExecution(r) PROVE StaysEnded(q)
    BY <1>18 DEF StartExecution, CheckRun, Answer, CallTools, Flush, Fail, LoadMidway,
         LoadFollowups, NextRequest, LoadToClose, CloseFollowups, LoadAtTheEnd, RetrySettle,
         FlushBeforePublication, HandOff, SaveStoppedText, FlushFailedText, FinishExecution,
         Leave
  <1>19. ASSUME NEW r \in Runs, Streaming(r) PROVE StaysEnded(q)
    BY <1>19 DEF Streaming, Stream, DiscardAttempt, SaveText
  <1>20. ASSUME NEW r \in Runs, AbortStopped(r) \/ Interrupt(r) \/ DeadlinePasses(r) \/ Age(r)
       PROVE StaysEnded(q)
    BY <1>20 DEF AbortStopped, Interrupt, DeadlinePasses, Age
  <1>21. ASSUME Recover PROVE StaysEnded(q)
    BY <1>21 DEF Recover, StartRecovery, FindOrphans, EndRecovery, PickOrphan, SettleOrphan,
         SettleOrphanFails, Dispatchable, EndRun, FailRun, Active, Live
  <1>22. ASSUME Crash PROVE StaysEnded(q)
    BY <1>22 DEF Crash
  <1>23. ASSUME UNCHANGED vars PROVE StaysEnded(q)
    BY <1>23 DEF vars
  <1>24. ASSUME NEW r \in Runs, LoseDelivery(r) PROVE StaysEnded(q)
    BY <1>24 DEF LoseDelivery, Active
  <1>. HIDE DEF StaysEnded, Inv
  <1>. QED BY <1>1, <1>2, <1>3, <1>4, <1>5, <1>6, <1>7, <1>8, <1>9, <1>10, <1>11, <1>12, <1>13,
       <1>14, <1>15, <1>16, <1>17, <1>18, <1>19, <1>20, <1>21, <1>22, <1>23, <1>24 DEF Next, Prepare,
       PrepareDocuments, Advance, Streaming, Environment

\* A published answer stands through every step of anything.
LEMMA AnswerStandsStep ==
  ASSUME Inv, [Next]_vars, NEW q \in Runs
  PROVE  AnswerStands(q)
PROOF
  <1>. USE DEF AnswerStands, Inv, AnswerInvariant, AnswerSafe, TypeOK, RunTypes, TextTypes,
       AskTypes, runVars, textVars, askVars, procVars, localVars, recVars, envVars, Terminal
  <1>1. ASSUME NEW r \in Runs, Admit(r) PROVE AnswerStands(q)
    BY <1>1 DEF Admit, Active, Goto
  <1>2. ASSUME NEW r \in Runs, FailPreparation(r) PROVE AnswerStands(q)
    BY <1>2 DEF FailPreparation, FailRun, Leave, Goto, Active, EndRun
  <1>3. ASSUME NEW r \in Runs, FailDocuments(r) PROVE AnswerStands(q)
    BY <1>3 DEF FailDocuments, FailRun, Leave, Goto, Active, EndRun
  <1>4. ASSUME NEW r \in Runs, CallTools(r) PROVE AnswerStands(q)
    BY <1>4 DEF CallTools, Flush, Goto
  <1>5. ASSUME NEW r \in Runs, LoadMidway(r) PROVE AnswerStands(q)
    BY <1>5 DEF LoadMidway, LoadFollowups, NextRequest, Goto, Accepted, Flush, Active
  <1>6. ASSUME NEW r \in Runs, DeliverMidway(r) PROVE AnswerStands(q)
    BY <1>6 DEF DeliverMidway, DeliverFollowups, NextRequest, Goto, Active, RestartAnswer
  <1>7. ASSUME NEW r \in Runs, LoadAtTheEnd(r) PROVE AnswerStands(q)
    BY <1>7 DEF LoadAtTheEnd, LoadFollowups, RetrySettle, Goto, Accepted, Flush, Active
  <1>8. ASSUME NEW r \in Runs, DeliverAtTheEnd(r) PROVE AnswerStands(q)
    BY <1>8 DEF DeliverAtTheEnd, DeliverFollowups, RetrySettle, Goto, Active, RestartAnswer
  <1>9. ASSUME NEW r \in Runs, FlushBeforePublication(r) PROVE AnswerStands(q)
    BY <1>9 DEF FlushBeforePublication, Aborted, Flush, Goto
  <1>10. ASSUME NEW r \in Runs, PublishAnswer(r) PROVE AnswerStands(q)
    BY <1>10 DEF PublishAnswer, Dispatchable, FollowupsAllowCompletion, Goto, Throw
  <1>11. ASSUME NEW r \in Runs, CompleteRun(r) PROVE AnswerStands(q)
    BY <1>11 DEF CompleteRun, Dispatchable, EndRun, Goto
  <1>12. ASSUME NEW r \in Runs, SaveStoppedText(r) PROVE AnswerStands(q)
    BY <1>12 DEF SaveStoppedText, Goto
  <1>13. ASSUME NEW r \in Runs, FlushFailedText(r) PROVE AnswerStands(q)
    BY <1>13 DEF FlushFailedText, Flush, Goto
  <1>14. ASSUME NEW r \in Runs, FailExecution(r) PROVE AnswerStands(q)
    BY <1>14 DEF FailExecution, FailRun, Goto, Active, EndRun
  <1>15. ASSUME NEW r \in Runs, SaveText(r) PROVE AnswerStands(q)
    BY <1>15 DEF SaveText
  <1>16. ASSUME NEW r \in Runs, Stop(r) PROVE AnswerStands(q)
    BY <1>16 DEF Stop, Active, EndRun
  <1>17. ASSUME NEW r \in Runs, AcceptFollowup(r) PROVE AnswerStands(q)
    BY <1>17 DEF AcceptFollowup, Active
  <1>18. ASSUME NEW r \in Runs, AddAgentFollowup(r) PROVE AnswerStands(q)
    BY <1>18 DEF AddAgentFollowup, Dispatchable
  <1>19. ASSUME NEW r \in Runs, RegisterPreparation(r) \/ FinishPreparation(r) PROVE
       AnswerStands(q)
    BY <1>19 DEF RegisterPreparation, FinishPreparation
  <1>20. ASSUME NEW r \in Runs, ClaimDocuments(r) \/ LeavePreparation(r) \/ ContinueDocuments(r)
       \/ MarkAnswerDispatched(r) PROVE AnswerStands(q)
    BY <1>20 DEF ClaimDocuments, LeavePreparation, Leave, ContinueDocuments, MarkAnswerDispatched
  <1>21. ASSUME NEW r \in Runs, StartExecution(r) \/ CheckRun(r) \/ Answer(r) \/ Fail(r) \/
       BeginCall(r) \/ SettleCall(r) \/ LoadToClose(r) \/ CloseFollowups(r) \/ HandOff(r) \/
       FinishExecution(r) PROVE AnswerStands(q)
    BY <1>21 DEF StartExecution, CheckRun, Answer, Fail, BeginCall, SettleCall, LoadToClose,
         CloseFollowups, HandOff, FinishExecution, Leave
  <1>22. ASSUME NEW r \in Runs, Stream(r) \/ DiscardAttempt(r) PROVE AnswerStands(q)
    BY <1>22 DEF Stream, DiscardAttempt
  <1>23. ASSUME NEW r \in Runs, AbortStopped(r) \/ Interrupt(r) \/ DeadlinePasses(r) \/ Age(r)
       PROVE AnswerStands(q)
    BY <1>23 DEF AbortStopped, Interrupt, DeadlinePasses, Age
  <1>24. ASSUME Recover PROVE AnswerStands(q)
    BY <1>24 DEF Recover, StartRecovery, FindOrphans, EndRecovery, PickOrphan, SettleOrphan,
         SettleOrphanFails, Dispatchable, EndRun, FailRun, Active, Live
  <1>25. ASSUME Crash PROVE AnswerStands(q)
    BY <1>25 DEF Crash
  <1>26. ASSUME UNCHANGED vars PROVE AnswerStands(q)
    BY <1>26 DEF vars
  <1>27. ASSUME NEW r \in Runs, LoseDelivery(r) PROVE AnswerStands(q)
    BY <1>27 DEF LoseDelivery
  <1>. HIDE DEF AnswerStands, Inv
  <1>. QED BY <1>1, <1>2, <1>3, <1>4, <1>5, <1>6, <1>7, <1>8, <1>9, <1>10, <1>11, <1>12, <1>13,
       <1>14, <1>15, <1>16, <1>17, <1>18, <1>19, <1>20, <1>21, <1>22, <1>23, <1>24, <1>25, <1>26,
       <1>27 DEF Next, Prepare, PrepareDocuments, Advance, Streaming, Environment

\* Publication is the only step that marks an answer published.
LEMMA ReadsAllAskedStep ==
  ASSUME Inv, [Next]_vars, NEW q \in Runs
  PROVE  ReadsAllAsked(q)
PROOF
  <1>. USE DEF ReadsAllAsked, Inv, AnswerInvariant, AnswerSafe, TypeOK, RunTypes, AskTypes,
       LocalTypes, runVars, textVars, askVars, procVars, localVars, recVars, envVars, Working
  <1>1. ASSUME NEW r \in Runs, Admit(r) PROVE ReadsAllAsked(q)
    BY <1>1 DEF Admit, Active, Goto
  <1>2. ASSUME NEW r \in Runs, PublishAnswer(r) PROVE ReadsAllAsked(q)
    <2>1. \/ UNCHANGED answered
          \/ /\ pc[r] = "publishing" /\ delivered[r] = asked[r]
             /\ answered' = [answered EXCEPT ![r] = TRUE]
      BY <1>2 DEF PublishAnswer, FollowupsAllowCompletion
    <2>2. pc[r] = "publishing" => basis[r] = delivered[r] OBVIOUS
    <2>3. answered \in [Runs -> BOOLEAN] OBVIOUS
    <2>. HIDE DEF Inv, AnswerInvariant, AnswerSafe, TypeOK, RunTypes, AskTypes, LocalTypes
    <2>. QED BY <2>1, <2>2, <2>3
  <1>3. ASSUME NEW r \in Runs, Prepare(r) PROVE ReadsAllAsked(q)
    BY <1>3 DEF Prepare, RegisterPreparation, FinishPreparation, FailPreparation, FailRun,
         Leave, EndRun
  <1>4. ASSUME NEW r \in Runs, PrepareDocuments(r) PROVE ReadsAllAsked(q)
    BY <1>4 DEF PrepareDocuments, ClaimDocuments, LeavePreparation, Leave, ContinueDocuments,
         MarkAnswerDispatched, FailDocuments, FailRun, EndRun
  <1>5. ASSUME NEW r \in Runs, StartExecution(r) \/ CheckRun(r) \/ Answer(r) \/ CallTools(r) \/
       Fail(r) \/ BeginCall(r) \/ SettleCall(r) \/ LoadMidway(r) \/ DeliverMidway(r) \/
       LoadToClose(r) \/ CloseFollowups(r) \/ LoadAtTheEnd(r) \/ DeliverAtTheEnd(r) \/
       LoseDelivery(r) \/ FlushBeforePublication(r) \/ HandOff(r) \/ CompleteRun(r) \/ SaveStoppedText(r) \/
       FlushFailedText(r) \/ FailExecution(r) \/ FinishExecution(r) PROVE ReadsAllAsked(q)
    BY <1>5 DEF StartExecution, CheckRun, Answer, CallTools, Flush, Fail, BeginCall, SettleCall,
         LoadMidway, LoadFollowups, NextRequest, DeliverMidway, DeliverFollowups, RestartAnswer,
         LoadToClose, CloseFollowups, LoadAtTheEnd, RetrySettle, DeliverAtTheEnd,
         LoseDelivery, FlushBeforePublication, HandOff, CompleteRun, EndRun, SaveStoppedText, FlushFailedText,
         FailExecution, FailRun, FinishExecution, Leave
  <1>6. ASSUME NEW r \in Runs, Streaming(r) PROVE ReadsAllAsked(q)
    BY <1>6 DEF Streaming, Stream, DiscardAttempt, SaveText
  <1>7. ASSUME NEW r \in Runs, Environment(r) PROVE ReadsAllAsked(q)
    BY <1>7 DEF Environment, Stop, EndRun, AbortStopped, Interrupt, DeadlinePasses,
         AcceptFollowup, AddAgentFollowup, Age
  <1>8. ASSUME Recover PROVE ReadsAllAsked(q)
    BY <1>8 DEF Recover, StartRecovery, FindOrphans, EndRecovery, PickOrphan, SettleOrphan,
         SettleOrphanFails, Dispatchable, EndRun, FailRun, Active, Live
  <1>9. ASSUME Crash PROVE ReadsAllAsked(q)
    BY <1>9 DEF Crash
  <1>10. ASSUME UNCHANGED vars PROVE ReadsAllAsked(q)
    BY <1>10 DEF vars
  <1>. HIDE DEF ReadsAllAsked, Inv
  <1>. QED BY <1>1, <1>2, <1>3, <1>4, <1>5, <1>6, <1>7, <1>8, <1>9, <1>10 DEF Next, Prepare,
       PrepareDocuments, Advance, Streaming, Environment

\* Stored text only gives way to the text of the attempt that replaced it.
LEMMA KeepsTextStep ==
  ASSUME Inv, [Next]_vars, NEW q \in Runs
  PROVE  KeepsText(q)
PROOF
  <1>. USE BoundsAssumption DEF KeepsText, Inv, TypeOK, TextTypes, LocalTypes, runVars,
       textVars, askVars, procVars, localVars, recVars, envVars
  <1>1. ASSUME NEW r \in Runs, Admit(r) PROVE KeepsText(q)
    <2>1. preceding' = preceding /\ saved'[q] \in {saved[q], text[q]}
      BY <1>1 DEF Admit
    <2>. QED BY <2>1
  <1>2. ASSUME NEW r \in Runs, CallTools(r) PROVE KeepsText(q)
    <2>1. preceding' = preceding /\ saved'[q] \in {saved[q], text[q]}
      BY <1>2 DEF CallTools, Flush
    <2>. QED BY <2>1
  <1>3. ASSUME NEW r \in Runs, LoadMidway(r) PROVE KeepsText(q)
    <2>1. preceding' = preceding /\ saved'[q] \in {saved[q], text[q]}
      BY <1>3 DEF LoadMidway, LoadFollowups, NextRequest, Accepted, Flush
    <2>. QED BY <2>1
  <1>4. ASSUME NEW r \in Runs, DeliverMidway(r) PROVE KeepsText(q)
    BY <1>4 DEF DeliverMidway, DeliverFollowups, NextRequest, Goto, Active, RestartAnswer
  <1>5. ASSUME NEW r \in Runs, LoadAtTheEnd(r) PROVE KeepsText(q)
    <2>1. preceding' = preceding /\ saved'[q] \in {saved[q], text[q]}
      BY <1>5 DEF LoadAtTheEnd, LoadFollowups, RetrySettle, Accepted, Flush
    <2>. QED BY <2>1
  <1>6. ASSUME NEW r \in Runs, DeliverAtTheEnd(r) PROVE KeepsText(q)
    BY <1>6 DEF DeliverAtTheEnd, DeliverFollowups, RetrySettle, Goto, Active, RestartAnswer
  <1>7. ASSUME NEW r \in Runs, FlushBeforePublication(r) PROVE KeepsText(q)
    <2>1. preceding' = preceding /\ saved'[q] \in {saved[q], text[q]}
      BY <1>7 DEF FlushBeforePublication, Flush
    <2>. QED BY <2>1
  <1>8. ASSUME NEW r \in Runs, PublishAnswer(r) PROVE KeepsText(q)
    <2>1. preceding' = preceding /\ saved'[q] \in {saved[q], text[q]}
      BY <1>8 DEF PublishAnswer, FollowupsAllowCompletion
    <2>. QED BY <2>1
  <1>9. ASSUME NEW r \in Runs, SaveStoppedText(r) PROVE KeepsText(q)
    <2>1. preceding' = preceding /\ saved'[q] \in {saved[q], text[q]}
      BY <1>9 DEF SaveStoppedText
    <2>. QED BY <2>1
  <1>10. ASSUME NEW r \in Runs, FlushFailedText(r) PROVE KeepsText(q)
    <2>1. preceding' = preceding /\ saved'[q] \in {saved[q], text[q]}
      BY <1>10 DEF FlushFailedText, Flush
    <2>. QED BY <2>1
  <1>11. ASSUME NEW r \in Runs, SaveText(r) PROVE KeepsText(q)
    <2>1. preceding' = preceding /\ saved'[q] \in {saved[q], text[q]}
      BY <1>11 DEF SaveText
    <2>. QED BY <2>1
  <1>12. ASSUME NEW r \in Runs, Prepare(r) PROVE KeepsText(q)
    <2>1. UNCHANGED textVars
      BY <1>12 DEF Prepare, RegisterPreparation, FinishPreparation, FailPreparation
    <2>. QED BY <2>1
  <1>13. ASSUME NEW r \in Runs, PrepareDocuments(r) PROVE KeepsText(q)
    <2>1. UNCHANGED textVars
      BY <1>13 DEF PrepareDocuments, ClaimDocuments, LeavePreparation, ContinueDocuments,
           MarkAnswerDispatched, FailDocuments
    <2>. QED BY <2>1
  <1>14. ASSUME NEW r \in Runs, StartExecution(r) \/ CheckRun(r) \/ Answer(r) \/ Fail(r) \/
       BeginCall(r) \/ SettleCall(r) \/ LoadToClose(r) \/ CloseFollowups(r) \/ HandOff(r) \/
       CompleteRun(r) \/ FailExecution(r) \/ FinishExecution(r) PROVE KeepsText(q)
    <2>1. UNCHANGED textVars
      BY <1>14 DEF StartExecution, CheckRun, Answer, Fail, BeginCall, SettleCall, LoadToClose,
           CloseFollowups, HandOff, CompleteRun, FailExecution, FinishExecution
    <2>. QED BY <2>1
  <1>15. ASSUME NEW r \in Runs, Stream(r) \/ DiscardAttempt(r) PROVE KeepsText(q)
    <2>1. UNCHANGED textVars
      BY <1>15 DEF Stream, DiscardAttempt
    <2>. QED BY <2>1
  <1>16. ASSUME NEW r \in Runs, Environment(r) PROVE KeepsText(q)
    <2>1. UNCHANGED textVars
      BY <1>16 DEF Environment, Stop, AbortStopped, Interrupt, DeadlinePasses, AcceptFollowup,
           AddAgentFollowup, Age
    <2>. QED BY <2>1
  <1>17. ASSUME Recover PROVE KeepsText(q)
    <2>1. UNCHANGED textVars
      BY <1>17 DEF Recover, StartRecovery, FindOrphans, EndRecovery, PickOrphan, SettleOrphan, SettleOrphanFails
    <2>. QED BY <2>1
  <1>18. ASSUME Crash PROVE KeepsText(q)
    BY <1>18 DEF Crash
  <1>19. ASSUME UNCHANGED vars PROVE KeepsText(q)
    BY <1>19 DEF vars
  <1>20. ASSUME NEW r \in Runs, LoseDelivery(r) PROVE KeepsText(q)
    BY <1>20 DEF LoseDelivery
  <1>. HIDE DEF KeepsText, Inv
  <1>. QED BY <1>1, <1>2, <1>3, <1>4, <1>5, <1>6, <1>7, <1>8, <1>9, <1>10, <1>11, <1>12, <1>13,
       <1>14, <1>15, <1>16, <1>17, <1>18, <1>19, <1>20 DEF Next, Prepare, PrepareDocuments, Advance,
       Streaming, Environment

\* Recovery settles nothing that is owned: the run it decided on is either idle
\* still or has ended already, and then it stays as it is.
LEMMA SparesOwnedStep ==
  ASSUME Inv, [Next]_vars, NEW q \in Runs
  PROVE  SparesOwned(q)
<1>1. status[q] \in Terminal => status'[q] = status[q]
  BY StaysEndedStep DEF StaysEnded
<1>2. recCur = q => status[q] # "none" /\ (Active(q) => pc[q] = "idle")
  BY DEF Inv, OwnershipInvariant, Owned
<1>3. Active(q) \/ status[q] = "none" \/ status[q] \in Terminal
  BY DEF Inv, TypeOK, RunTypes, Statuses, Active
<1>. QED BY <1>1, <1>2, <1>3 DEF SparesOwned

\* A run ends once, whatever is still under way.
THEOREM EndedIsFinal == Spec => EndedRunIsFinal
<1>1. Inv /\ [Next]_vars => [\A r \in Runs : StaysEnded(r)]_vars
  BY StaysEndedStep
<1>2. Spec => [][\A r \in Runs : StaysEnded(r)]_vars
  BY <1>1, InvariantHolds, PTL DEF Spec
<1>. QED BY <1>2 DEF EndedRunIsFinal

\* Stop, failure, crash and recovery leave a published answer as it is.
THEOREM PublishedStands == Spec => PublishedAnswerStands
<1>1. Inv /\ [Next]_vars => [\A r \in Runs : AnswerStands(r)]_vars
  BY AnswerStandsStep
<1>2. Spec => [][\A r \in Runs : AnswerStands(r)]_vars
  BY <1>1, InvariantHolds, PTL DEF Spec
<1>. QED BY <1>2 DEF PublishedAnswerStands

\* The published response was requested with every accepted follow-up.
THEOREM EveryFollowupRead == Spec => AnswerReadEveryFollowup
<1>1. Inv /\ [Next]_vars => [\A r \in Runs : ReadsAllAsked(r)]_vars
  BY ReadsAllAskedStep
<1>2. Spec => [][\A r \in Runs : ReadsAllAsked(r)]_vars
  BY <1>1, InvariantHolds, PTL DEF Spec
<1>. QED BY <1>2 DEF AnswerReadEveryFollowup

\* No text on record is lost but with the failed attempt it belonged to.
THEOREM TextIsKept == Spec => StoredTextIsKept
<1>1. Inv /\ [Next]_vars => [\A r \in Runs : KeepsText(r)]_vars
  BY KeepsTextStep
<1>2. Spec => [][\A r \in Runs : KeepsText(r)]_vars
  BY <1>1, InvariantHolds, PTL DEF Spec
<1>. QED BY <1>2 DEF StoredTextIsKept

\* Recovery settles only what nothing in the process holds or will start.
THEOREM OwnedRunsSpared == Spec => RecoveryLeavesOwnedRuns
<1>1. Inv /\ [Next]_vars => [\A r \in Runs : SparesOwned(r)]_vars
  BY SparesOwnedStep
<1>2. Spec => [][\A r \in Runs : SparesOwned(r)]_vars
  BY <1>1, InvariantHolds, PTL DEF Spec
<1>. QED BY <1>2 DEF RecoveryLeavesOwnedRuns

(***************************************************************************)
(* The run implements AnswerContract.                                      *)
(***************************************************************************)
ContractStep == [Contract!Next]_(Contract!vars)

\* A step that touches nothing the user is promised is no step of the contract.
LEMMA ContractStutters ==
  ASSUME UNCHANGED <<status, answered, asked, delivered, saved>>
  PROVE  ContractStep
BY DEF ContractStep, Contract!vars, Outcome, Active

\* A terminal transaction ends the run the user sees, completed only if answered.
LEMMA ContractEnds ==
  ASSUME Inv, NEW r \in Runs, NEW outcome \in Terminal, Active(r), EndRun(r, outcome),
         outcome = "complete" => answered[r], UNCHANGED <<textVars, askVars>>
  PROVE  ContractStep
<1>1. Outcome[r] = "open" /\ Outcome' = [Outcome EXCEPT ![r] = outcome]
  BY DEF EndRun, Outcome, Active, Terminal, Inv, TypeOK, RunTypes
<1>2. Contract!End(r)
  BY <1>1 DEF Contract!End, Contract!Ended, EndRun, Terminal, textVars, askVars
<1>. QED BY <1>2 DEF ContractStep, Contract!Next

\* A failing transaction ends the run, or nothing happens.
LEMMA ContractFails ==
  ASSUME Inv, NEW r \in Runs, FailRun(r), UNCHANGED <<textVars, askVars>>
  PROVE  ContractStep
<1>1. CASE Active(r)
  <2>1. EndRun(r, "error") BY <1>1 DEF FailRun
  <2>. QED BY <1>1, <2>1, ContractEnds DEF Terminal
<1>2. CASE ~Active(r)
  BY <1>2, ContractStutters DEF FailRun, runVars, textVars, askVars
<1>. QED BY <1>1, <1>2

\* Text is stored only by a run at work on its answer, or one stopped before it.
LEMMA ContractWrites ==
  ASSUME Inv, NEW r \in Runs, UNCHANGED <<runVars, askVars>>,
         saved' = [saved EXCEPT ![r] = text[r]],
         msg[r] = "streaming" \/ (status[r] = "cancelled" /\ msg[r] = "cancelled")
  PROVE  ContractStep
<1>1. Outcome[r] \in {"open", "cancelled"} /\ ~answered[r]
  BY DEF Outcome, Inv, AnswerInvariant, AnswerSafe, Active
<1>2. saved' = [saved EXCEPT ![r] = saved'[r]]
  BY DEF Inv, TypeOK, TextTypes
<1>3. Outcome' = Outcome /\ UNCHANGED <<answered, asked, delivered>>
  BY DEF Outcome, Active, runVars, askVars
<1>4. Contract!Write(r)
  BY <1>1, <1>2, <1>3 DEF Contract!Write
<1>. QED BY <1>4 DEF ContractStep, Contract!Next

\* A flush writes the answer, or nothing happens.
LEMMA ContractFlushes ==
  ASSUME Inv, NEW r \in Runs, Flush(r), UNCHANGED <<runVars, askVars>>
  PROVE  ContractStep
<1>1. CASE saved' = saved
  BY <1>1, ContractStutters DEF runVars, askVars
<1>2. CASE saved' = [saved EXCEPT ![r] = text[r]] /\ msg[r] = "streaming"
  BY <1>2, ContractWrites
<1>3. saved' = saved \/ (saved' = [saved EXCEPT ![r] = text[r]] /\ msg[r] = "streaming")
  BY DEF Flush, Inv, TypeOK, TextTypes
<1>. QED BY <1>1, <1>2, <1>3

\* A delivery reads everything asked and may start the answer over, or nothing happens.
LEMMA ContractReads ==
  ASSUME Inv, NEW r \in Runs, DeliverMidway(r) \/ DeliverAtTheEnd(r) \/ LoseDelivery(r)
  PROVE  ContractStep
<1>. DEFINE accepted == Active(r) /\ ~answered[r] /\ ~closed[r] /\ asked[r] = batch[r]
            own      == \E n \in delivered[r] + 1 .. batch[r] : n \in byUser[r]
<1>1. /\ UNCHANGED <<runVars, asked>>
      /\ IF accepted
         THEN /\ delivered' = [delivered EXCEPT ![r] = batch[r]]
              /\ IF own THEN saved' = [saved EXCEPT ![r] = 0] ELSE saved' = saved
         ELSE UNCHANGED <<delivered, saved>>
  BY DEF DeliverMidway, DeliverAtTheEnd, DeliverFollowups, RestartAnswer, LoseDelivery, textVars
<1>. HIDE DEF accepted, own
<1>2. Outcome' = Outcome /\ UNCHANGED <<answered, asked>>
  BY <1>1 DEF Outcome, Active, runVars
<1>3. CASE accepted /\ delivered[r] < asked[r]
  <2>1. delivered' = [delivered EXCEPT ![r] = asked[r]]
        /\ (saved' = [saved EXCEPT ![r] = 0] \/ saved' = saved)
    BY <1>1, <1>3 DEF accepted
  <2>2. Contract!Read(r)
    BY <1>2, <1>3, <2>1 DEF accepted, Contract!Read, Contract!Working, Outcome
  <2>. QED BY <2>2 DEF ContractStep, Contract!Next
<1>4. CASE accepted /\ ~(delivered[r] < asked[r])
  <2>1. delivered[r] \in Nat /\ asked[r] \in Nat /\ delivered[r] <= asked[r]
    BY BoundsAssumption DEF Inv, AnswerInvariant, AnswerSafe, TypeOK, AskTypes
  <2>2. delivered[r] = batch[r] /\ batch[r] \in Nat
    BY <1>4, <2>1 DEF accepted
  <2>3. ~ own
    BY <2>2 DEF own
  <2>4. UNCHANGED <<delivered, saved>>
    BY <1>1, <1>4, <2>2, <2>3 DEF Inv, TypeOK, AskTypes
  <2>. QED BY <1>1, <2>4, ContractStutters DEF runVars
<1>5. CASE ~accepted
  <2>1. UNCHANGED <<delivered, saved>> BY <1>1, <1>5
  <2>. QED BY <1>1, <2>1, ContractStutters DEF runVars
<1>. QED BY <1>3, <1>4, <1>5

\* Publication publishes the answer with nothing left unread, or nothing happens.
LEMMA ContractPublishes ==
  ASSUME Inv, NEW r \in Runs, PublishAnswer(r)
  PROVE  ContractStep
<1>1. UNCHANGED <<status, call, prep, askVars>>
  BY DEF PublishAnswer
<1>2. Outcome' = Outcome /\ UNCHANGED <<asked, delivered>>
  BY <1>1 DEF Outcome, Active, askVars
<1>3. CASE UNCHANGED <<answered, msg, saved>>
  BY <1>1, <1>3, ContractStutters DEF askVars
<1>4. CASE /\ Dispatchable(r) /\ ~answered[r] /\ FollowupsAllowCompletion(r)
           /\ answered' = [answered EXCEPT ![r] = TRUE] /\ saved' = [saved EXCEPT ![r] = text[r]]
  <2>1. saved' = [saved EXCEPT ![r] = saved'[r]]
    BY <1>4 DEF Inv, TypeOK, TextTypes
  <2>2. Outcome[r] = "open" /\ delivered[r] = asked[r]
    BY <1>4 DEF Dispatchable, Outcome, Active, FollowupsAllowCompletion
  <2>3. Contract!Publish(r)
    BY <1>2, <1>4, <2>1, <2>2 DEF Contract!Publish, Contract!Working
  <2>. QED BY <2>3 DEF ContractStep, Contract!Next
<1>. QED BY <1>3, <1>4 DEF PublishAnswer

\* An accepted follow-up, the user's or a sub-agent's, is asked.
LEMMA ContractAsks ==
  ASSUME Inv, NEW r \in Runs, AcceptFollowup(r) \/ AddAgentFollowup(r)
  PROVE  ContractStep
<1>1. /\ Active(r) /\ ~answered[r] /\ asked' = [asked EXCEPT ![r] = @ + 1]
      /\ UNCHANGED <<runVars, textVars, delivered>>
  BY DEF AcceptFollowup, AddAgentFollowup, Active, Dispatchable
<1>2. Outcome[r] = "open" /\ Outcome' = Outcome
  BY <1>1 DEF Outcome, Active, runVars
<1>3. Contract!Ask(r)
  BY <1>1, <1>2 DEF Contract!Ask, Contract!Working, runVars, textVars
<1>. QED BY <1>3 DEF ContractStep, Contract!Next

\* Admission opens the run.
LEMMA ContractBegins ==
  ASSUME Inv, NEW r \in Runs, Admit(r)
  PROVE  ContractStep
<1>1. /\ status[r] = "none" /\ UNCHANGED <<answered, textVars, delivered>>
      /\ \E s \in {"preparing", "active"} : status' = [status EXCEPT ![r] = s]
      /\ \E n \in 0..MaxFollowups : asked' = [asked EXCEPT ![r] = n]
  BY DEF Admit
<1>2. asked' = [asked EXCEPT ![r] = asked'[r]]
  BY <1>1 DEF Inv, TypeOK, AskTypes
<1>3. Outcome[r] = "none" /\ Outcome' = [Outcome EXCEPT ![r] = "open"]
  BY <1>1 DEF Outcome, Active, Inv, TypeOK, RunTypes
<1>4. Contract!Begin(r)
  BY <1>1, <1>2, <1>3 DEF Contract!Begin, textVars
<1>. QED BY <1>4 DEF ContractStep, Contract!Next

\* A step that only makes a preparing run dispatchable shows the user nothing.
LEMMA ContractDispatches ==
  ASSUME Inv, NEW r \in Runs, Active(r), status' = [status EXCEPT ![r] = "active"],
         UNCHANGED <<answered, textVars, askVars>>
  PROVE  ContractStep
<1>1. Outcome' = Outcome
  BY DEF Outcome, Active, Inv, TypeOK, RunTypes
<1>. QED BY <1>1 DEF ContractStep, Contract!vars, textVars, askVars

\* Recovery completes a published answer or fails the run, or nothing happens.
LEMMA ContractSettles ==
  ASSUME Inv, NEW r \in Runs, SettleOrphan(r)
  PROVE  ContractStep
<1>1. UNCHANGED <<textVars, askVars>>
  BY DEF SettleOrphan
<1>2. CASE UNCHANGED runVars
  BY <1>1, <1>2, ContractStutters DEF runVars, textVars, askVars
<1>3. CASE answered[r] /\ Dispatchable(r) /\ EndRun(r, "complete")
  BY <1>1, <1>3, ContractEnds DEF Active, Dispatchable, Terminal
<1>4. CASE FailRun(r)
  BY <1>1, <1>4, ContractFails
<1>. QED BY <1>2, <1>3, <1>4 DEF SettleOrphan

\* Every step is a step of the contract or changes nothing in it.
LEMMA StepKeepsContract ==
  ASSUME Inv, [Next]_vars
  PROVE  ContractStep
<1>1. ASSUME NEW r \in Runs, Prepare(r) PROVE ContractStep
  <2>1. CASE RegisterPreparation(r)
    BY <2>1, ContractStutters DEF RegisterPreparation, runVars, textVars, askVars
  <2>2. CASE FinishPreparation(r)
    BY <2>2, ContractDispatches DEF FinishPreparation, Active
  <2>3. CASE FailPreparation(r)
    BY <2>3, ContractFails DEF FailPreparation
  <2>. QED BY <1>1, <2>1, <2>2, <2>3 DEF Prepare
<1>2. ASSUME NEW r \in Runs, PrepareDocuments(r) PROVE ContractStep
  <2>1. CASE ContinueDocuments(r)
    BY <2>1, ContractDispatches DEF ContinueDocuments
  <2>2. CASE FailDocuments(r)
    BY <2>2, ContractFails DEF FailDocuments
  <2>3. CASE ClaimDocuments(r) \/ LeavePreparation(r) \/ MarkAnswerDispatched(r)
    BY <2>3, ContractStutters DEF ClaimDocuments, LeavePreparation, MarkAnswerDispatched, runVars,
         textVars, askVars
  <2>. QED BY <1>2, <2>1, <2>2, <2>3 DEF PrepareDocuments
<1>3. ASSUME NEW r \in Runs, Advance(r) PROVE ContractStep
  <2>1. CASE \/ StartExecution(r) \/ CheckRun(r) \/ Answer(r) \/ Fail(r) \/ BeginCall(r)
             \/ SettleCall(r) \/ LoadToClose(r) \/ CloseFollowups(r) \/ HandOff(r)
             \/ FinishExecution(r)
    BY <2>1, ContractStutters DEF StartExecution, CheckRun, Answer, Fail, BeginCall, SettleCall,
         LoadToClose, CloseFollowups, HandOff, FinishExecution, runVars, textVars, askVars
  <2>2. CASE CallTools(r) \/ FlushBeforePublication(r) \/ FlushFailedText(r)
    BY <2>2, ContractFlushes DEF CallTools, FlushBeforePublication, FlushFailedText
  <2>3. CASE LoadMidway(r) \/ LoadAtTheEnd(r)
    <3>1. UNCHANGED <<runVars, askVars>> /\ (Flush(r) \/ UNCHANGED saved)
      BY <2>3 DEF LoadMidway, LoadAtTheEnd, LoadFollowups
    <3>. QED BY <3>1, ContractFlushes, ContractStutters DEF runVars, askVars
  <2>4. CASE DeliverMidway(r) \/ DeliverAtTheEnd(r) \/ LoseDelivery(r)
    BY <2>4, ContractReads
  <2>5. CASE PublishAnswer(r)
    BY <2>5, ContractPublishes
  <2>6. CASE CompleteRun(r)
    <3>1. /\ UNCHANGED <<textVars, askVars>>
          /\ (answered[r] /\ Dispatchable(r) /\ EndRun(r, "complete")) \/ UNCHANGED runVars
      BY <2>6 DEF CompleteRun
    <3>. QED BY <3>1, ContractEnds, ContractStutters DEF Active, Dispatchable, Terminal, runVars,
         textVars, askVars
  <2>7. CASE SaveStoppedText(r)
    <3>1. /\ UNCHANGED <<runVars, askVars>>
          /\ \/ saved' = saved
             \/ /\ saved' = [saved EXCEPT ![r] = text[r]]
                /\ status[r] = "cancelled" /\ msg[r] = "cancelled"
      BY <2>7 DEF SaveStoppedText, Inv, TypeOK, TextTypes
    <3>. QED BY <3>1, ContractWrites, ContractStutters DEF runVars, askVars
  <2>8. CASE FailExecution(r)
    BY <2>8, ContractFails, ContractStutters DEF FailExecution, runVars, textVars, askVars
  <2>. QED BY <1>3, <2>1, <2>2, <2>3, <2>4, <2>5, <2>6, <2>7, <2>8 DEF Advance
<1>4. ASSUME NEW r \in Runs, Streaming(r) PROVE ContractStep
  <2>1. CASE Stream(r) \/ DiscardAttempt(r)
    BY <2>1, ContractStutters DEF Stream, DiscardAttempt, runVars, textVars, askVars
  <2>2. CASE SaveText(r)
    BY <2>2, ContractWrites DEF SaveText
  <2>. QED BY <1>4, <2>1, <2>2 DEF Streaming
<1>5. ASSUME NEW r \in Runs, Environment(r) PROVE ContractStep
  <2>1. CASE Stop(r)
    BY <2>1, ContractEnds DEF Stop, Terminal
  <2>2. CASE AbortStopped(r) \/ Interrupt(r) \/ DeadlinePasses(r) \/ Age(r)
    BY <2>2, ContractStutters DEF AbortStopped, Interrupt, DeadlinePasses, Age, runVars, textVars,
         askVars
  <2>3. CASE AcceptFollowup(r) \/ AddAgentFollowup(r)
    BY <2>3, ContractAsks
  <2>. QED BY <1>5, <2>1, <2>2, <2>3 DEF Environment
<1>6. ASSUME Recover PROVE ContractStep
  <2>1. ASSUME NEW r \in Runs, SettleOrphan(r) PROVE ContractStep
    BY <2>1, ContractSettles
  <2>2. CASE \/ StartRecovery \/ FindOrphans \/ EndRecovery
             \/ \E r \in Runs : PickOrphan(r) \/ SettleOrphanFails(r)
    BY <2>2, ContractStutters DEF StartRecovery, FindOrphans, EndRecovery, PickOrphan,
         SettleOrphanFails, runVars, textVars, askVars
  <2>. QED BY <1>6, <2>1, <2>2 DEF Recover
<1>7. ASSUME Crash PROVE ContractStep
  BY <1>7, ContractStutters DEF Crash, runVars, textVars, askVars
<1>8. ASSUME UNCHANGED vars PROVE ContractStep
  BY <1>8, ContractStutters DEF vars, runVars, textVars, askVars
<1>. QED BY <1>1, <1>2, <1>3, <1>4, <1>5, <1>6, <1>7, <1>8, ContractBegins DEF Next

\* The engine keeps the promise its user is given: every behaviour of the run, with
\* its retries, races, crashes and recovery, is one of AnswerContract.
THEOREM ContractKept == Spec => KeepsContract
<1>1. Init => Contract!Init
  BY DEF Init, Contract!Init, Outcome, Active
<1>2. Inv /\ [Next]_vars => [Contract!Next]_(Contract!vars)
  BY StepKeepsContract DEF ContractStep
<1>. QED BY <1>1, <1>2, InvariantHolds, PTL DEF Spec, KeepsContract, Contract!Spec
=============================================================================
