------------------------------ MODULE NativeRun ------------------------------
(***************************************************************************)
(* The life of a main-agent run of the native engine: its admission, its   *)
(* preparation (at once, or by the document job), the execution that       *)
(* streams and publishes its answer, the follow-ups that reach it while it *)
(* works, Stop, a Workspace interruption, the turn's deadline, a crash of  *)
(* the application process and the recovery pass that settles runs nobody  *)
(* executes.  Every action is one database transaction, or one stretch of  *)
(* JavaScript between two awaits, because those are what interleave.       *)
(***************************************************************************)
EXTENDS Naturals, FiniteSets

CONSTANTS
  Runs,            \* the runs that may be admitted
  Deferred,        \* those that may carry documents a background job prepares first
  Attached,        \* those attached to a shared Workspace, which may interrupt them
  Slow,            \* bound: those whose turn may reach its deadline
  Chats,           \* the chats
  ChatOf,          \* the chat of a run
  MaxFollowups,    \* bound: follow-ups a run accepts
  MaxText,         \* bound: units of text one answer streams
  MaxRounds,       \* the tool rounds of a turn
  SettleAttempts,  \* FOLLOWUP_SETTLE_ATTEMPTS
  MaxCrashes,      \* bound: crashes of the process
  WritesFail,      \* whether a write, or the reply to one, may fail
  NoRun            \* no run: recovery is not settling one

ASSUME RunsAssumption ==
  /\ Deferred \subseteq Runs /\ Attached \subseteq Runs /\ Slow \subseteq Runs
  /\ ChatOf \in [Runs -> Chats]
  /\ NoRun \notin Runs
ASSUME BoundsAssumption ==
  /\ MaxFollowups \in Nat
  /\ MaxText \in Nat
  /\ MaxRounds \in Nat
  /\ SettleAttempts \in Nat
  /\ MaxCrashes \in Nat
  /\ WritesFail \in BOOLEAN

VARIABLES
  \* The run, its answer message, how many of its calls are on record as running, and
  \* its document job, in the database.
  status, answered, msg, call, prep,
  \* The answer's stored text, and the texts kept with delivered follow-ups.
  saved, preceding,
  \* Follow-ups: how many were accepted (the revision), which are the user's own,
  \* how many were delivered (always a prefix), and whether they are closed.
  asked, byUser, delivered, closed,
  \* The process: where each run's execution is, the controller registered for it,
  \* whether its signal was aborted, its interruption mark, its deadline.
  pc, ctl, sig, intr, dead,
  \* The execution's own variables.
  text, base, basis, rev, batch, tries, round,
  \* Recovery's pass: its step, the live runs it read, the orphans it found, those
  \* it read as answered, and the one it is settling.
  recPc, recLive, recSet, recDone, recCur,
  \* Stops committed whose abort is still to come; runs old enough for recovery.
  aborting, aged, crashes

runVars   == <<status, answered, msg, call, prep>>
textVars  == <<saved, preceding>>
askVars   == <<asked, byUser, delivered, closed>>
procVars  == <<pc, ctl, sig, intr, dead>>
localVars == <<text, base, basis, rev, batch, tries, round>>
recVars   == <<recPc, recLive, recSet, recDone, recCur>>
envVars   == <<aborting, aged, crashes>>
vars == <<runVars, textVars, askVars, procVars, localVars, recVars, envVars>>

(***************************************************************************)
(* The states of a run, and of an execution.                               *)
(***************************************************************************)
Terminal == {"complete", "cancelled", "error"}
Statuses == {"none", "preparing", "active"} \cup Terminal
Messages == {"none", "streaming"} \cup Terminal

Active(r)       == status[r] \in {"preparing", "active"}   \* activeModelRunStatuses
Dispatchable(r) == status[r] = "active"                    \* dispatchableModelRunStatuses
Live            == {r \in Runs : ctl[r] # "none"}          \* registry.ids()

\* Steps before the execution: the admitting request's, and the document job's.
Preparing == {"admitted", "prepping", "gap", "pdf", "assembled", "dispatched"}
\* Steps of the execution that a thrown error leaves for its catch block.
Working   == {"start", "model", "tools", "calling", "midload", "middeliver", "close", "closing",
              "endload", "enddeliver", "publish", "publishing", "handoff", "completing"}
Ending    == {"stopped", "failed", "failing", "finally"}
Executing == Working \cup Ending
Steps     == {"idle"} \cup Preparing \cup Executing

Aborted(r) == sig[r] \/ dead[r]      \* AbortSignal.any([stop.signal, deadline.signal])

Init ==
  /\ status = [r \in Runs |-> "none"] /\ answered = [r \in Runs |-> FALSE]
  /\ msg = [r \in Runs |-> "none"] /\ call = [r \in Runs |-> 0]
  /\ prep = [r \in Runs |-> "none"]
  /\ saved = [r \in Runs |-> 0] /\ preceding = [r \in Runs |-> 0]
  /\ asked = [r \in Runs |-> 0] /\ byUser = [r \in Runs |-> {}]
  /\ delivered = [r \in Runs |-> 0] /\ closed = [r \in Runs |-> FALSE]
  /\ pc = [r \in Runs |-> "idle"] /\ ctl = [r \in Runs |-> "none"]
  /\ sig = [r \in Runs |-> FALSE] /\ intr = [r \in Runs |-> FALSE]
  /\ dead = [r \in Runs |-> FALSE]
  /\ text = [r \in Runs |-> 0] /\ base = [r \in Runs |-> 0]
  /\ basis = [r \in Runs |-> 0] /\ rev = [r \in Runs |-> 0]
  /\ batch = [r \in Runs |-> 0] /\ tries = [r \in Runs |-> 0]
  /\ round = [r \in Runs |-> 0]
  /\ recPc = "idle" /\ recLive = {} /\ recSet = {} /\ recDone = {} /\ recCur = NoRun
  /\ aborting = {} /\ aged = {} /\ crashes = 0

(***************************************************************************)
(* Pieces the actions share.                                               *)
(***************************************************************************)
Goto(r, step) == pc' = [pc EXCEPT ![r] = step]

\* Operators whose names end in "_Fault" are no part of the specification: each is
\* the next definition with a plausible mistake, to show a property would notice it.

\* Here: the message of an ended run takes the run's status, published or not.
EndRun_Fault(r, outcome) ==
  /\ status' = [status EXCEPT ![r] = outcome]
  /\ call' = [call EXCEPT ![r] = 0]
  /\ msg' = [msg EXCEPT ![r] = outcome]
  /\ UNCHANGED <<answered, prep>>

\* The terminal transaction of Stop, of a failure and of a completion: the run's
\* status, its open calls, and an answer still streaming.
EndRun(r, outcome) ==
  /\ status' = [status EXCEPT ![r] = outcome]
  /\ call' = [call EXCEPT ![r] = 0]
  /\ msg' = [msg EXCEPT ![r] = IF @ = "streaming" THEN outcome ELSE @]
  /\ UNCHANGED <<answered, prep>>

\* Fault: the failing transaction does not look at the run's status.
FailRun_Fault(r) == EndRun(r, "error")

\* failRun: only an active run fails; otherwise nothing is written.
FailRun(r) ==
  IF Active(r) THEN EndRun(r, "error") ELSE UNCHANGED runVars

\* answer.flush: best effort, and only an answer still streaming takes text.
Flush(r) ==
  \/ saved' = [saved EXCEPT ![r] = IF msg[r] = "streaming" THEN text[r] ELSE @]
  \/ WritesFail /\ UNCHANGED saved

\* A throw into the catch block, which decides at once how the run ends.
Throw(r, inactive) ==
  /\ Goto(r, IF ~intr[r] /\ (sig[r] \/ (inactive /\ ~dead[r])) THEN "stopped" ELSE "failed")
  /\ intr' = [intr EXCEPT ![r] = FALSE]

\* The execution, or a job before it, lets go of the run.  Each deletes only its own
\* controller, and a run has no other: it executes once, and what prepares it is over or
\* replaced by then.  The mark of an interruption is taken by the execution only.
Leave(r) ==
  /\ Goto(r, "idle")
  /\ ctl' = [ctl EXCEPT ![r] = "none"]
  /\ sig' = [sig EXCEPT ![r] = FALSE]
  /\ dead' = [dead EXCEPT ![r] = FALSE]
  /\ text' = [text EXCEPT ![r] = 0] /\ base' = [base EXCEPT ![r] = 0]
  /\ basis' = [basis EXCEPT ![r] = 0] /\ rev' = [rev EXCEPT ![r] = 0]
  /\ batch' = [batch EXCEPT ![r] = 0] /\ tries' = [tries EXCEPT ![r] = 0]
  /\ round' = [round EXCEPT ![r] = 0]

(***************************************************************************)
(* Admission and preparation.                                              *)
(***************************************************************************)
\* One active main-agent run per chat.  A regenerated answer inherits the follow-ups
\* of the one it replaces.  A run with documents is left to their job; another is
\* prepared with Memory, or dispatchable at once without it.
Admit(r) ==
  /\ status[r] = "none"
  /\ \A q \in Runs : ChatOf[q] = ChatOf[r] => ~Active(q)
  /\ \E inherited \in 0..MaxFollowups :
       /\ asked' = [asked EXCEPT ![r] = inherited]
       /\ byUser' = [byUser EXCEPT ![r] = 1..inherited]
  /\ msg' = [msg EXCEPT ![r] = "streaming"]
  /\ \/ /\ r \in Deferred
        /\ status' = [status EXCEPT ![r] = "preparing"]
        /\ prep' = [prep EXCEPT ![r] = "pending"]
        /\ UNCHANGED pc
     \/ /\ \/ status' = [status EXCEPT ![r] = "preparing"] /\ Goto(r, "admitted")
           \/ status' = [status EXCEPT ![r] = "active"] /\ Goto(r, "gap")
        /\ UNCHANGED prep
  /\ UNCHANGED <<answered, call, textVars, delivered, closed, ctl, sig, intr, dead, localVars, recVars, envVars>>

\* The admitting request registers a controller for the Memory preparation.
RegisterPreparation(r) ==
  /\ pc[r] = "admitted"
  /\ Goto(r, "prepping")
  /\ ctl' = [ctl EXCEPT ![r] = "prep"]
  /\ sig' = [sig EXCEPT ![r] = FALSE]
  /\ UNCHANGED <<runVars, textVars, askVars, intr, dead, localVars, recVars, envVars>>

\* The preparation ends: the run becomes dispatchable and its registration is
\* released before the answer's own controller exists.  A preparation that is not
\* told so finds nothing to settle and answers nothing.
FinishPreparation(r) ==
  /\ pc[r] = "prepping"
  /\ status[r] = "preparing"
  /\ status' = [status EXCEPT ![r] = "active"]
  /\ aged' = aged \ {r}
  /\ \/ /\ Goto(r, "gap")
        /\ ctl' = [ctl EXCEPT ![r] = "none"]
        /\ sig' = [sig EXCEPT ![r] = FALSE]
        /\ UNCHANGED <<intr, dead, localVars>>
     \/ WritesFail /\ Leave(r) /\ UNCHANGED intr
  /\ UNCHANGED <<answered, msg, call, prep, textVars, askVars, recVars, aborting, crashes>>

\* A preparation that fails, or that Stop ended, settles the run if it still can.
FailPreparation(r) ==
  /\ pc[r] = "prepping"
  /\ FailRun(r)
  /\ Leave(r) /\ UNCHANGED intr
  /\ UNCHANGED <<textVars, askVars, recVars, envVars>>

\* The document job claims a run and registers its own controller.
ClaimDocuments(r) ==
  /\ prep[r] = "pending" /\ Active(r) /\ pc[r] = "idle" /\ ctl[r] = "none"
  /\ Goto(r, "pdf")
  /\ ctl' = [ctl EXCEPT ![r] = "prep"]
  /\ sig' = [sig EXCEPT ![r] = FALSE]
  /\ UNCHANGED <<runVars, textVars, askVars, intr, dead, localVars, recVars, envVars>>

\* What prepares a run lets go of it as it stands: one document is ready, others
\* remain and the claim rotates, or its failure could not be written.
LeavePreparation(r) ==
  /\ pc[r] = "pdf" \/ (WritesFail /\ pc[r] \in {"prepping", "assembled"})
  /\ Leave(r) /\ UNCHANGED intr
  /\ UNCHANGED <<runVars, textVars, askVars, recVars, envVars>>

\* All documents are ready: the run becomes dispatchable, or already was when the
\* process stopped before its answer was dispatched.
ContinueDocuments(r) ==
  /\ pc[r] = "pdf" /\ Active(r) /\ ~sig[r]
  /\ status' = [status EXCEPT ![r] = "active"]
  /\ Goto(r, "assembled")
  /\ UNCHANGED <<answered, msg, call, prep, textVars, askVars, ctl, sig, intr, dead, localVars,
                 recVars, envVars>>

\* Fault: the answer is started without the durable mark.
MarkAnswerDispatched_Fault(r) ==
  /\ pc[r] = "assembled" /\ Dispatchable(r)
  /\ Goto(r, "dispatched")
  /\ UNCHANGED <<runVars, textVars, askVars, ctl, sig, intr, dead, localVars, recVars, envVars>>

\* The durable mark after which recovery, no longer the job, owns an abandoned run:
\* a job that is not told of it leaves the run it marked alone.
MarkAnswerDispatched(r) ==
  /\ pc[r] = "assembled" /\ Dispatchable(r) /\ prep[r] = "pending"
  /\ prep' = [prep EXCEPT ![r] = "dispatched"]
  /\ \/ Goto(r, "dispatched") /\ UNCHANGED <<ctl, sig, intr, dead, localVars>>
     \/ WritesFail /\ Leave(r) /\ UNCHANGED intr
  /\ UNCHANGED <<status, answered, msg, call, textVars, askVars, recVars, envVars>>

FailDocuments(r) ==
  /\ pc[r] \in {"pdf", "assembled"}
  /\ FailRun(r)
  /\ Leave(r) /\ UNCHANGED intr
  /\ UNCHANGED <<textVars, askVars, recVars, envVars>>

(***************************************************************************)
(* The execution.                                                          *)
(***************************************************************************)
\* The answer's controller replaces the preparation's in one synchronous stretch.
StartExecution(r) ==
  /\ pc[r] \in {"gap", "dispatched"}
  /\ Goto(r, "start")
  /\ ctl' = [ctl EXCEPT ![r] = "run"]
  /\ sig' = [sig EXCEPT ![r] = FALSE]
  /\ UNCHANGED <<runVars, textVars, askVars, intr, dead, localVars, recVars, envVars>>

\* A run stopped before its execution registered is refused here.
CheckRun(r) ==
  /\ pc[r] = "start"
  /\ IF Dispatchable(r) THEN Goto(r, "model") /\ UNCHANGED intr ELSE Throw(r, FALSE)
  /\ UNCHANGED <<runVars, textVars, askVars, ctl, sig, dead, localVars, recVars, envVars>>

\* A model response streams text; a failed attempt that is sent again drops its own.
Stream(r) ==
  /\ pc[r] = "model" /\ text[r] < MaxText
  /\ text' = [text EXCEPT ![r] = @ + 1]
  /\ UNCHANGED <<runVars, textVars, askVars, procVars, base, basis, rev, batch, tries, round,
                 recVars, envVars>>

DiscardAttempt(r) ==
  /\ pc[r] = "model" /\ text[r] > base[r]
  /\ text' = [text EXCEPT ![r] = base[r]]
  /\ UNCHANGED <<runVars, textVars, askVars, procVars, base, basis, rev, batch, tries, round,
                 recVars, envVars>>

\* The save timer, until the catch block stops it.
SaveText(r) ==
  /\ pc[r] \in Working /\ msg[r] = "streaming" /\ saved[r] # text[r]
  /\ saved' = [saved EXCEPT ![r] = text[r]]
  /\ UNCHANGED <<runVars, preceding, askVars, procVars, localVars, recVars, envVars>>

\* The response ended without calls, or may make no more: the answer is final
\* unless a follow-up arrived.
Answer(r) ==
  /\ pc[r] = "model"
  /\ base' = [base EXCEPT ![r] = text[r]]
  /\ Goto(r, "close")
  /\ UNCHANGED <<runVars, textVars, askVars, ctl, sig, intr, dead, text, basis, rev, batch, tries,
                 round, recVars, envVars>>

\* The response made calls: the answer so far is flushed and the batch starts.
CallTools(r) ==
  /\ pc[r] = "model" /\ round[r] < MaxRounds
  /\ Flush(r)
  /\ base' = [base EXCEPT ![r] = text[r]]
  /\ round' = [round EXCEPT ![r] = @ + 1]
  /\ Goto(r, "tools")
  /\ UNCHANGED <<runVars, preceding, askVars, ctl, sig, intr, dead, text, basis, rev, batch, tries,
                 recVars, envVars>>

\* A provider failure, an abort noticed at an await, an empty answer, or a read or
\* write that fails, whether it took effect or not.
Fail(r) ==
  /\ \/ pc[r] \in {"model", "handoff", "completing"}
     \/ pc[r] \in {"tools", "calling", "close", "publish"} /\ Aborted(r)
     \/ pc[r] = "publish" /\ text[r] = 0
     \/ pc[r] \in Working /\ WritesFail
  /\ Throw(r, FALSE)
  /\ UNCHANGED <<runVars, textVars, askVars, ctl, sig, dead, localVars, recVars, envVars>>

\* Fault: the call is recorded without the run's lock and status.
BeginCall_Fault(r) ==
  /\ pc[r] = "tools"
  /\ Goto(r, "calling") /\ call' = [call EXCEPT ![r] = @ + 1]
  /\ UNCHANGED <<status, answered, msg, prep, textVars, askVars, ctl, sig, intr, dead, localVars,
                 recVars, envVars>>

\* A call is recorded before it is sent, under the run's lock; a call that waits
\* for the user ends the turn.
BeginCall(r) ==
  /\ pc[r] = "tools"
  /\ IF Dispatchable(r)
     THEN /\ \/ Goto(r, "calling") /\ call' = [call EXCEPT ![r] = @ + 1]
             \/ Goto(r, "close") /\ UNCHANGED call
          /\ UNCHANGED intr
     ELSE Throw(r, TRUE) /\ UNCHANGED call
  /\ UNCHANGED <<status, answered, msg, prep, textVars, askVars, ctl, sig, dead, localVars, recVars,
                 envVars>>

\* A call settles its own row, which the run's ending may have closed.  A row that
\* cannot be settled stays open while the turn goes on.
SettleCall(r) ==
  /\ pc[r] = "calling"
  /\ \/ call' = [call EXCEPT ![r] = IF @ > 0 THEN @ - 1 ELSE @]
     \/ WritesFail /\ UNCHANGED call
  /\ Goto(r, "midload")
  /\ UNCHANGED <<status, answered, msg, prep, textVars, askVars, ctl, sig, intr, dead, localVars,
                 recVars, envVars>>

(***************************************************************************)
(* Follow-ups, from the execution's side: what it loads, it delivers or     *)
(* closes by a comparison with the revision it loaded.                     *)
(***************************************************************************)
\* The follow-ups load reports as accepted: none once the run ended.
Accepted(r) == Active(r) /\ ~answered[r] /\ delivered[r] < asked[r]

\* Delivery starts with a load and, when something waits, a flush of the answer.
LoadFollowups(r, from, found, none) ==
  /\ pc[r] = from
  /\ IF Accepted(r)
     THEN /\ batch' = [batch EXCEPT ![r] = asked[r]]
          /\ Flush(r) /\ Goto(r, found)
          /\ UNCHANGED <<basis, tries>>
     ELSE /\ none
          /\ UNCHANGED <<saved, batch>>
  /\ UNCHANGED <<runVars, preceding, askVars, ctl, sig, intr, dead, text, base, rev, round, recVars,
                 envVars>>

NextRequest(r) ==
  /\ Goto(r, "model")
  /\ basis' = [basis EXCEPT ![r] = delivered[r]] /\ tries' = [tries EXCEPT ![r] = 0]

\* Fault: the attempts to close are not limited.
RetrySettle_Fault(r) ==
  /\ tries' = [tries EXCEPT ![r] = @ + 1]
  /\ Goto(r, "close")
  /\ UNCHANGED basis

\* Another attempt to close, or publication, which checks the follow-ups itself.
RetrySettle(r) ==
  /\ IF tries[r] + 1 < SettleAttempts
     THEN tries' = [tries EXCEPT ![r] = @ + 1] /\ Goto(r, "close")
     ELSE tries' = [tries EXCEPT ![r] = 0] /\ Goto(r, "publish")
  /\ UNCHANGED basis

LoadMidway(r)   == LoadFollowups(r, "midload", "middeliver", NextRequest(r))
LoadAtTheEnd(r) == LoadFollowups(r, "endload", "enddeliver", RetrySettle(r))

\* Fault: the answer starts over without keeping the text before the follow-up.
RestartAnswer_Fault(r) ==
  /\ saved' = [saved EXCEPT ![r] = 0]
  /\ text' = [text EXCEPT ![r] = 0] /\ base' = [base EXCEPT ![r] = 0]
  /\ UNCHANGED preceding

\* The text written before the user's follow-up is kept with it; the answer starts over.
RestartAnswer(r) ==
  /\ preceding' = [preceding EXCEPT ![r] = @ + text[r]]
  /\ saved' = [saved EXCEPT ![r] = 0]
  /\ text' = [text EXCEPT ![r] = 0] /\ base' = [base EXCEPT ![r] = 0]

\* The delivery's transaction: at the loaded revision only.  The next request
\* carries everything delivered.
DeliverFollowups(r, from, refused) ==
  /\ pc[r] = from
  /\ IF Active(r) /\ ~answered[r] /\ ~closed[r] /\ asked[r] = batch[r]
     THEN /\ delivered' = [delivered EXCEPT ![r] = batch[r]]
          /\ IF \E n \in delivered[r] + 1 .. batch[r] : n \in byUser[r]
             THEN RestartAnswer(r)
             ELSE UNCHANGED <<preceding, saved, text, base>>
          /\ rev' = [rev EXCEPT ![r] = batch[r]]
          /\ basis' = [basis EXCEPT ![r] = batch[r]]
          /\ tries' = [tries EXCEPT ![r] = 0]
          /\ Goto(r, "model")
     ELSE /\ refused
          /\ UNCHANGED <<delivered, preceding, saved, text, base, rev>>
  /\ batch' = [batch EXCEPT ![r] = 0]
  /\ UNCHANGED <<runVars, asked, byUser, closed, ctl, sig, intr, dead, round, recVars, envVars>>

\* The delivery took effect but its reply was lost: the execution fails before it
\* starts its own text over.
LoseDelivery(r) ==
  /\ WritesFail /\ pc[r] \in {"middeliver", "enddeliver"}
  /\ Active(r) /\ ~answered[r] /\ ~closed[r] /\ asked[r] = batch[r]
  /\ delivered' = [delivered EXCEPT ![r] = batch[r]]
  /\ IF \E n \in delivered[r] + 1 .. batch[r] : n \in byUser[r]
     THEN /\ preceding' = [preceding EXCEPT ![r] = @ + text[r]]
          /\ saved' = [saved EXCEPT ![r] = 0]
     ELSE UNCHANGED textVars
  /\ Throw(r, FALSE)
  /\ UNCHANGED <<runVars, asked, byUser, closed, ctl, sig, dead, localVars, recVars, envVars>>

\* Fault: what arrived at the end is marked delivered and the answer is published
\* as it stands, without the response to it.
DeliverAtTheEnd_Fault(r) ==
  /\ pc[r] = "enddeliver" /\ asked[r] = batch[r]
  /\ delivered' = [delivered EXCEPT ![r] = batch[r]]
  /\ closed' = [closed EXCEPT ![r] = TRUE]
  /\ rev' = [rev EXCEPT ![r] = batch[r]]
  /\ Goto(r, "publish")
  /\ UNCHANGED <<runVars, textVars, asked, byUser, ctl, sig, intr, dead, text, base, basis, batch,
                 tries, round, recVars, envVars>>

DeliverMidway(r)   == DeliverFollowups(r, "middeliver", NextRequest(r))
DeliverAtTheEnd(r) == DeliverFollowups(r, "enddeliver", RetrySettle(r))

\* closeFollowups: load, then compare and close.
LoadToClose(r) ==
  /\ pc[r] = "close" /\ ~Aborted(r)
  /\ rev' = [rev EXCEPT ![r] = asked[r]]
  /\ Goto(r, IF Accepted(r) THEN "endload" ELSE "closing")
  /\ UNCHANGED <<runVars, textVars, askVars, ctl, sig, intr, dead, text, base, basis, batch, tries,
                 round, recVars, envVars>>

CloseFollowups(r) ==
  /\ pc[r] = "closing"
  /\ IF Active(r) /\ ~answered[r] /\ asked[r] = rev[r] /\ delivered[r] = asked[r]
     THEN /\ closed' = [closed EXCEPT ![r] = TRUE]
          /\ tries' = [tries EXCEPT ![r] = 0]
          /\ Goto(r, "publish")
     ELSE Goto(r, "endload") /\ UNCHANGED <<closed, tries>>
  /\ UNCHANGED <<runVars, textVars, asked, byUser, delivered, ctl, sig, intr, dead, text, base, basis,
                 rev, batch, round, recVars, envVars>>

(***************************************************************************)
(* Publication, completion and the catch block.                            *)
(***************************************************************************)
FlushBeforePublication(r) ==
  /\ pc[r] = "publish" /\ ~Aborted(r)
  /\ Flush(r) /\ Goto(r, "publishing")
  /\ UNCHANGED <<runVars, preceding, askVars, ctl, sig, intr, dead, localVars, recVars, envVars>>

\* Fault: publication compares what was delivered with what the execution loaded,
\* not with what the run has accepted since.
FollowupsAllowCompletion_Fault(r) == delivered[r] <= rev[r]

\* runFollowupsAllowCompletion
FollowupsAllowCompletion(r) ==
  asked[r] = rev[r] /\ (rev[r] = 0 \/ closed[r]) /\ delivered[r] = asked[r]

\* The answer's message completes and the run records that its answer exists.
\* The reply of a committed transaction may be lost: the execution then fails.
PublishAnswer(r) ==
  /\ pc[r] = "publishing"
  /\ IF Dispatchable(r) /\ ~answered[r] /\ FollowupsAllowCompletion(r) /\ msg[r] = "streaming"
     THEN /\ answered' = [answered EXCEPT ![r] = TRUE]
          /\ msg' = [msg EXCEPT ![r] = "complete"]
          /\ saved' = [saved EXCEPT ![r] = text[r]]
          /\ \/ Goto(r, "handoff") /\ UNCHANGED intr
             \/ WritesFail /\ Throw(r, FALSE)
     ELSE Throw(r, FALSE) /\ UNCHANGED <<answered, msg, saved>>
  /\ UNCHANGED <<status, call, prep, preceding, askVars, ctl, sig, dead, localVars, recVars, envVars>>

\* Bookkeeping and the Workspace hand-off, after the answer.
HandOff(r) ==
  /\ pc[r] = "handoff"
  /\ Goto(r, "completing")
  /\ UNCHANGED <<runVars, textVars, askVars, ctl, sig, intr, dead, localVars, recVars, envVars>>

CompleteRun(r) ==
  /\ pc[r] = "completing"
  /\ IF answered[r] /\ Dispatchable(r) THEN EndRun(r, "complete") ELSE UNCHANGED runVars
  /\ Goto(r, "finally")
  /\ UNCHANGED <<textVars, askVars, ctl, sig, intr, dead, localVars, recVars, envVars>>

\* Stop settled the run before its last streamed text was saved; best effort.
SaveStoppedText(r) ==
  /\ pc[r] = "stopped"
  /\ \/ saved' = [saved EXCEPT ![r] =
          IF status[r] = "cancelled" /\ msg[r] = "cancelled" /\ text[r] > 0 THEN text[r] ELSE @]
     \/ WritesFail /\ UNCHANGED saved
  /\ Goto(r, "finally")
  /\ UNCHANGED <<runVars, preceding, askVars, ctl, sig, intr, dead, localVars, recVars, envVars>>

\* A failure: the Workspace is settled and the transcript flushed, then the text,
FlushFailedText(r) ==
  /\ pc[r] = "failed"
  /\ Flush(r) /\ Goto(r, "failing")
  /\ UNCHANGED <<runVars, preceding, askVars, ctl, sig, intr, dead, localVars, recVars, envVars>>

\* then the run.  A write that fails leaves the run to recovery.
FailExecution(r) ==
  /\ pc[r] = "failing"
  /\ FailRun(r) \/ (WritesFail /\ UNCHANGED runVars)
  /\ Goto(r, "finally")
  /\ UNCHANGED <<textVars, askVars, ctl, sig, intr, dead, localVars, recVars, envVars>>

\* Fault: the registration is not released.
FinishExecution_Fault(r) ==
  /\ pc[r] = "finally"
  /\ Goto(r, "idle")
  /\ UNCHANGED <<runVars, textVars, askVars, ctl, sig, intr, dead, localVars, recVars, envVars>>

FinishExecution(r) ==
  /\ pc[r] = "finally"
  /\ Leave(r) /\ intr' = [intr EXCEPT ![r] = FALSE]
  /\ UNCHANGED <<runVars, textVars, askVars, recVars, envVars>>

(***************************************************************************)
(* The user, sub-agents, the Workspace coordinator and the clock.          *)
(***************************************************************************)
\* Stop's durable cancellation comes first.  Its reply may be lost: then nothing
\* aborts the execution, which learns of it from its own next write.
Stop(r) ==
  /\ Active(r)
  /\ EndRun(r, "cancelled")
  /\ aborting' = aborting \cup {r} \/ (WritesFail /\ UNCHANGED aborting)
  /\ UNCHANGED <<textVars, askVars, procVars, localVars, recVars, aged, crashes>>

\* Then the controller registered for the run is aborted and forgotten.
AbortStopped(r) ==
  /\ r \in aborting
  /\ aborting' = aborting \ {r}
  /\ IF ctl[r] # "none"
     THEN sig' = [sig EXCEPT ![r] = TRUE] /\ ctl' = [ctl EXCEPT ![r] = "none"]
     ELSE UNCHANGED <<sig, ctl>>
  /\ UNCHANGED <<runVars, textVars, askVars, pc, intr, dead, localVars, recVars, aged, crashes>>

\* Fault: the interruption aborts the way Stop does, which forgets the controller.
Interrupt_Fault(r) ==
  /\ r \in Attached /\ ctl[r] # "none" /\ ~intr[r]
  /\ intr' = [intr EXCEPT ![r] = TRUE]
  /\ sig' = [sig EXCEPT ![r] = TRUE]
  /\ ctl' = [ctl EXCEPT ![r] = "none"]
  /\ UNCHANGED <<runVars, textVars, askVars, pc, dead, localVars, recVars, envVars>>

\* The shared Workspace stopped under the run: cut like a Stop, ended interrupted.  A run
\* attaches when it is admitted, so that its preparation may be cut as well; the mark
\* then stays for the execution that follows.
Interrupt(r) ==
  /\ r \in Attached /\ ctl[r] # "none" /\ ~intr[r]
  /\ intr' = [intr EXCEPT ![r] = TRUE]
  /\ sig' = [sig EXCEPT ![r] = TRUE]
  /\ UNCHANGED <<runVars, textVars, askVars, pc, ctl, dead, localVars, recVars, envVars>>

DeadlinePasses(r) ==
  /\ r \in Slow /\ pc[r] \in Working /\ ~dead[r]
  /\ dead' = [dead EXCEPT ![r] = TRUE]
  /\ UNCHANGED <<runVars, textVars, askVars, pc, ctl, sig, intr, localVars, recVars, envVars>>

\* The user's follow-up to a run at work, a run still preparing included.
AcceptFollowup(r) ==
  /\ Active(r) /\ ~answered[r] /\ ~closed[r] /\ asked[r] < MaxFollowups
  /\ asked' = [asked EXCEPT ![r] = @ + 1]
  /\ byUser' = [byUser EXCEPT ![r] = @ \cup {asked[r] + 1}]
  /\ UNCHANGED <<runVars, textVars, delivered, closed, procVars, localVars, recVars, envVars>>

\* A sub-agent's message or callback, taken by a dispatchable run only.
AddAgentFollowup(r) ==
  /\ Dispatchable(r) /\ ~answered[r] /\ ~closed[r] /\ asked[r] < MaxFollowups
  /\ asked' = [asked EXCEPT ![r] = @ + 1]
  /\ UNCHANGED <<runVars, textVars, byUser, delivered, closed, procVars, localVars, recVars, envVars>>

\* Ten minutes without a write.  Neither a preparation between its admission and
\* its execution nor recovery's own query takes that long.
Age(r) ==
  /\ Active(r) /\ r \notin aged
  /\ pc[r] \notin {"admitted", "gap"} /\ recPc # "querying"
  /\ aged' = aged \cup {r}
  /\ UNCHANGED <<runVars, textVars, askVars, procVars, localVars, recVars, aborting, crashes>>

\* The process dies and boots again: what it held in memory is gone, and every
\* run on record was created before the boot.
Crash ==
  /\ crashes < MaxCrashes
  /\ crashes' = crashes + 1
  /\ pc' = [r \in Runs |-> "idle"] /\ ctl' = [r \in Runs |-> "none"]
  /\ sig' = [r \in Runs |-> FALSE] /\ intr' = [r \in Runs |-> FALSE]
  /\ dead' = [r \in Runs |-> FALSE]
  /\ text' = [r \in Runs |-> 0] /\ base' = [r \in Runs |-> 0]
  /\ basis' = [r \in Runs |-> 0] /\ rev' = [r \in Runs |-> 0]
  /\ batch' = [r \in Runs |-> 0] /\ tries' = [r \in Runs |-> 0]
  /\ round' = [r \in Runs |-> 0]
  /\ recPc' = "idle" /\ recLive' = {} /\ recSet' = {} /\ recDone' = {} /\ recCur' = NoRun
  /\ aborting' = {}
  /\ aged' = {r \in Runs : status[r] # "none"}
  /\ UNCHANGED <<runVars, textVars, askVars>>

(***************************************************************************)
(* Recovery: reconcileNativeRuns.                                          *)
(***************************************************************************)
\* The live runs are read before the query is sent.  A pass that no run is old
\* enough for finds nothing, so it is left out.
StartRecovery ==
  /\ recPc = "idle" /\ \E r \in aged : Active(r)
  /\ recPc' = "querying"
  /\ recLive' = Live
  /\ UNCHANGED <<runVars, textVars, askVars, procVars, localVars, recSet, recDone, recCur, envVars>>

FindOrphans ==
  /\ recPc = "querying"
  /\ LET orphans == {r \in Runs : Active(r) /\ r \in aged /\ r \notin recLive /\ prep[r] # "pending"}
     IN /\ recSet' = orphans
        /\ recDone' = {r \in orphans : answered[r]}
  /\ recPc' = "settling"
  /\ recLive' = {}
  /\ UNCHANGED <<runVars, textVars, askVars, procVars, localVars, recCur, envVars>>

\* Fault: what the query found is not looked at again.
PickOrphan_Fault(r) ==
  /\ recPc = "settling" /\ recCur = NoRun /\ r \in recSet
  /\ recSet' = recSet \ {r}
  /\ recCur' = r
  /\ UNCHANGED <<runVars, textVars, askVars, procVars, localVars, recPc, recLive, recDone, envVars>>

\* A run that started executing here after the query keeps its execution; for the
\* others the Workspace is settled first.
PickOrphan(r) ==
  /\ recPc = "settling" /\ recCur = NoRun /\ r \in recSet
  /\ recSet' = recSet \ {r}
  /\ recCur' = IF r \in Live THEN NoRun ELSE r
  /\ UNCHANGED <<runVars, textVars, askVars, procVars, localVars, recPc, recLive, recDone, envVars>>

\* Fault: an orphan completes whether its answer was published or not.
SettleOrphan_Fault(r) ==
  /\ recCur = r
  /\ IF Dispatchable(r) THEN EndRun(r, "complete") ELSE FailRun(r)
  /\ recCur' = NoRun
  /\ UNCHANGED <<textVars, askVars, procVars, localVars, recPc, recLive, recSet, recDone, envVars>>

\* An answer read as published completes its run; any other run fails.
SettleOrphan(r) ==
  /\ recCur = r
  /\ IF r \in recDone
     THEN IF answered[r] /\ Dispatchable(r) THEN EndRun(r, "complete") ELSE UNCHANGED runVars
     ELSE FailRun(r)
  /\ recCur' = NoRun
  /\ UNCHANGED <<textVars, askVars, procVars, localVars, recPc, recLive, recSet, recDone, envVars>>

SettleOrphanFails(r) ==
  /\ WritesFail /\ recCur = r
  /\ recCur' = NoRun
  /\ UNCHANGED <<runVars, textVars, askVars, procVars, localVars, recPc, recLive, recSet, recDone, envVars>>

EndRecovery ==
  /\ recPc = "settling" /\ recCur = NoRun /\ recSet = {}
  /\ recPc' = "idle"
  /\ recDone' = {}
  /\ UNCHANGED <<runVars, textVars, askVars, procVars, localVars, recLive, recSet, recCur, envVars>>

(***************************************************************************)
(* The specification.                                                      *)
(***************************************************************************)
Prepare(r) ==
  \/ RegisterPreparation(r) \/ FinishPreparation(r) \/ FailPreparation(r)

PrepareDocuments(r) ==
  \/ ClaimDocuments(r) \/ LeavePreparation(r) \/ ContinueDocuments(r)
  \/ MarkAnswerDispatched(r) \/ FailDocuments(r)

\* The steps that take an execution to its end, under their own power.
Advance(r) ==
  \/ StartExecution(r) \/ CheckRun(r)
  \/ Answer(r) \/ CallTools(r) \/ Fail(r) \/ BeginCall(r) \/ SettleCall(r)
  \/ LoadMidway(r) \/ DeliverMidway(r) \/ LoadToClose(r) \/ CloseFollowups(r)
  \/ LoadAtTheEnd(r) \/ DeliverAtTheEnd(r) \/ LoseDelivery(r)
  \/ FlushBeforePublication(r) \/ PublishAnswer(r) \/ HandOff(r) \/ CompleteRun(r)
  \/ SaveStoppedText(r) \/ FlushFailedText(r) \/ FailExecution(r) \/ FinishExecution(r)

Streaming(r) == Stream(r) \/ DiscardAttempt(r) \/ SaveText(r)

Environment(r) ==
  \/ Stop(r) \/ AbortStopped(r) \/ Interrupt(r) \/ DeadlinePasses(r)
  \/ AcceptFollowup(r) \/ AddAgentFollowup(r) \/ Age(r)

Recover ==
  \/ StartRecovery \/ FindOrphans \/ EndRecovery
  \/ \E r \in Runs : PickOrphan(r) \/ SettleOrphan(r) \/ SettleOrphanFails(r)

Next ==
  \/ \E r \in Runs : \/ Admit(r) \/ Prepare(r) \/ PrepareDocuments(r)
                     \/ Advance(r) \/ Streaming(r) \/ Environment(r)
  \/ Recover
  \/ Crash

Spec == Init /\ [][Next]_vars

(***************************************************************************)
(* Fairness: an execution that is not cut off goes on, and so does the      *)
(* request preparing a run; the document job is pumped until no run waits,  *)
(* and neither its claims nor their writes fail for ever; time passes; the  *)
(* scheduler repeats recovery's pass, whose write does not fail for ever.   *)
(***************************************************************************)
Fairness ==
  /\ \A r \in Runs :
       /\ WF_vars(Prepare(r)) /\ WF_vars(Advance(r)) /\ WF_vars(ClaimDocuments(r))
       /\ SF_vars(ContinueDocuments(r) \/ FailDocuments(r))
       /\ SF_vars(MarkAnswerDispatched(r) \/ FailDocuments(r))
       /\ WF_vars(AbortStopped(r)) /\ SF_vars(Age(r))
       /\ WF_vars(PickOrphan(r)) /\ SF_vars(SettleOrphan(r))
  /\ WF_vars(StartRecovery) /\ WF_vars(FindOrphans) /\ WF_vars(EndRecovery)

FairSpec == Spec /\ Fairness

(***************************************************************************)
(* Properties.                                                             *)
(***************************************************************************)
\* Types: every variable stays within the values the program gives it; counters
\* stay within the bounds, the attempts to close within FOLLOWUP_SETTLE_ATTEMPTS.
RunTypes ==
  /\ status \in [Runs -> Statuses] /\ answered \in [Runs -> BOOLEAN]
  /\ msg \in [Runs -> Messages]
  /\ call \in [Runs -> Nat]
  /\ prep \in [Runs -> {"none", "pending", "dispatched"}]
TextTypes == saved \in [Runs -> Nat] /\ preceding \in [Runs -> Nat]
AskTypes ==
  /\ asked \in [Runs -> 0..MaxFollowups] /\ byUser \in [Runs -> SUBSET (1..MaxFollowups)]
  /\ delivered \in [Runs -> 0..MaxFollowups] /\ closed \in [Runs -> BOOLEAN]
ProcTypes ==
  /\ pc \in [Runs -> Steps] /\ ctl \in [Runs -> {"none", "prep", "run"}]
  /\ sig \in [Runs -> BOOLEAN] /\ intr \in [Runs -> BOOLEAN] /\ dead \in [Runs -> BOOLEAN]
LocalTypes ==
  /\ text \in [Runs -> 0..MaxText] /\ base \in [Runs -> 0..MaxText]
  /\ basis \in [Runs -> 0..MaxFollowups] /\ rev \in [Runs -> 0..MaxFollowups]
  /\ batch \in [Runs -> 0..MaxFollowups] /\ tries \in [Runs -> 0..SettleAttempts]
  /\ round \in [Runs -> 0..MaxRounds]
RecTypes ==
  /\ recPc \in {"idle", "querying", "settling"}
  /\ recLive \subseteq Runs /\ recSet \subseteq Runs /\ recDone \subseteq Runs
  /\ recCur \in Runs \cup {NoRun}
EnvTypes == aborting \subseteq Runs /\ aged \subseteq Runs /\ crashes \in 0..MaxCrashes
TypeOK ==
  RunTypes /\ TextTypes /\ AskTypes /\ ProcTypes /\ LocalTypes /\ RecTypes /\ EnvTypes

\* What makes the answer's promises inductive.  The message tells how the answer
\* stands; an execution's requests carry what was delivered, which is nothing until
\* the first execution starts, and a run is executed once; no call of an ended run
\* is still recorded as running.
BeforeExecution(r) ==
  \/ status[r] = "none" \/ prep[r] = "pending"
  \/ pc[r] \in Preparing \cup {"start"}
AnswerSafe(r) ==
  /\ delivered[r] <= asked[r]
  /\ answered[r] => msg[r] = "complete" /\ delivered[r] = asked[r] /\ status[r] # "none"
  /\ pc[r] \in Working => basis[r] = delivered[r]
  /\ pc[r] \notin Executing => basis[r] = 0
  /\ BeforeExecution(r) => delivered[r] = 0 /\ ~answered[r]
  /\ pc[r] \in {"admitted", "prepping", "gap", "dispatched"} \cup Executing => prep[r] # "pending"
  /\ status[r] = "none" => pc[r] = "idle" /\ prep[r] = "none"
  /\ status[r] = "preparing" => pc[r] \in {"idle", "admitted", "prepping", "pdf"}
  /\ status[r] \in Terminal \cup {"none"} => call[r] = 0
  /\ msg[r] = "streaming" => Active(r)
AnswerInvariant == \A r \in Runs : AnswerSafe(r)

\* What makes recovery's decision safe.  A run still active that something in this
\* process holds is registered, except in the two moments between a commit and a
\* registration, which no run old enough for recovery is in; only ended runs are
\* being aborted; what recovery found is started by nothing any more.
Owned(r) ==
  /\ Active(r) /\ pc[r] \notin {"idle", "admitted", "gap"} => ctl[r] # "none"
  /\ pc[r] \in {"pdf", "assembled"} /\ Active(r) => prep[r] = "pending"
  /\ pc[r] \in {"admitted", "gap"} => r \notin aged
  /\ status[r] = "none" => r \notin aged
  /\ r \in aborting => status[r] \in Terminal
  /\ recPc = "querying" /\ r \in aged \ recLive /\ Active(r) => pc[r] # "prepping"
  /\ r \in recSet => status[r] # "none" /\ prep[r] # "pending"
                      /\ pc[r] \notin {"admitted", "prepping", "gap"}
  /\ recCur = r => status[r] # "none" /\ prep[r] # "pending"
                      /\ (Active(r) => pc[r] = "idle")
OwnershipInvariant == \A r \in Runs : Owned(r)

\* A run reaches exactly one terminal state: whatever is still under way when it
\* ends (Stop, a failure, a completion, recovery), nothing afterwards changes how
\* it ended, publishes its answer, accepts or delivers a follow-up, or opens a call.
StaysEnded(r) ==
  status[r] \in Terminal =>
    /\ status'[r] = status[r] /\ answered'[r] = answered[r] /\ msg'[r] = msg[r]
    /\ call'[r] = call[r] /\ asked'[r] = asked[r] /\ delivered'[r] = delivered[r]
EndedRunIsFinal == [][\A r \in Runs : StaysEnded(r)]_vars

\* Answer first: once published, an answer keeps its text and its completed
\* message through a failed hand-off, a late Stop, a crash and recovery.
AnswerStands(r) ==
  answered[r] =>
    answered'[r] /\ msg'[r] = "complete" /\ saved'[r] = saved[r] /\ asked'[r] = asked[r]
PublishedAnswerStands == [][\A r \in Runs : AnswerStands(r)]_vars

\* No accepted follow-up is left behind by a published answer.
AnswerLeavesNoFollowup ==
  \A r \in Runs : answered[r] => delivered[r] = asked[r]

\* The response an answer ends with was asked for with every accepted follow-up in
\* its request, however late the follow-up arrived.
ReadsAllAsked(r) == ~answered[r] /\ answered'[r] => basis[r] = asked[r]
AnswerReadEveryFollowup == [][\A r \in Runs : ReadsAllAsked(r)]_vars

\* Recovery settles only runs that nothing in this process executes, prepares or
\* is about to execute, although it decides from what it read two awaits before.
SparesOwned(r) == recCur = r /\ status'[r] # status[r] => pc[r] = "idle"
RecoveryLeavesOwnedRuns == [][\A r \in Runs : SparesOwned(r)]_vars

\* No run ends with a call still recorded as running, and none is recorded for a
\* run that ended: the run's lock orders them.
NoCallRunsInEndedRun ==
  \A r \in Runs : status[r] \in Terminal => call[r] = 0

\* Text on record is never lost but with the failed attempt it belonged to: a
\* follow-up moves it, a stop, a failure, a crash and recovery keep it.
KeepsText(r) ==
  preceding'[r] + saved'[r] < preceding[r] + saved[r] =>
    text[r] < saved[r] /\ preceding'[r] + saved'[r] = preceding[r] + text[r]
StoredTextIsKept == [][\A r \in Runs : KeepsText(r)]_vars

\* Every admitted run ends, through crashes and writes that fail.
EveryRunEnds ==
  \A r \in Runs : Active(r) ~> status[r] \in Terminal

\* The run as its user sees it: open from admission to its end.
Outcome == [r \in Runs |-> IF Active(r) THEN "open" ELSE status[r]]
Contract == INSTANCE AnswerContract WITH
  outcome <- Outcome, published <- answered, read <- delivered, answer <- saved

\* The execution, with its retries, races, crashes and recovery, keeps the promise
\* of AnswerContract.
KeepsContract == Contract!Spec

\* A stopped answer keeps the text the user saw: an execution that leaves a run
\* stopped before its answer was published leaves all it streamed on record.
StoppedAnswerKeepsText ==
  [][\A r \in Runs : pc[r] = "finally" /\ pc'[r] = "idle" /\ status[r] = "cancelled" /\ ~answered[r]
        => saved[r] >= text[r]]_vars
=============================================================================
