------------------------- MODULE MemoryCommandsProofs -------------------------
(***************************************************************************)
(* What the Memory coordinator promises, for any number of commands,       *)
(* extractions, workers, claims, lost leases and resets: a command takes   *)
(* effect at most once and its receipt tells so, the commands take effect  *)
(* in the order they were accepted, and nothing obsolete takes effect.     *)
(***************************************************************************)
EXTENDS MemoryCommands, FiniteSetTheorems, TLAPS

\* A worker at a command's step holds a command, at a gate an extraction, and what it is
\* about to write is an outcome of that step.
WorkerInvariant == \A w \in Workers :
  /\ pc[w] \in CommandSteps => job[w] \in Commands
  /\ pc[w] \in GateSteps => job[w] \in Extracts
  /\ pc[w] # "idle" => job[w] \in Jobs
  /\ pc[w] = "settleGate" => outcome[w] \in {"FAILED", "WAITING_FOR_CONFIGURATION"}
  /\ pc[w] = "receipt" => outcome[w] \in {"COMMITTED", "REFUSED"}

\* The consumed authorization, the effect and the committed receipt are one fact; a
\* transaction still under way has not consumed, and whoever is about to write that a
\* command was committed read so from its receipt, which is never replaced.
ReceiptInvariant ==
  /\ ReceiptTellsTheEffect
  /\ \A c \in Commands : consumed[c] = (receipt[c] = "COMMITTED")
  /\ \A c \in Commands : inflight[c] => ~consumed[c]
  /\ \A w \in Workers :
       pc[w] = "receipt" /\ outcome[w] = "COMMITTED" => receipt[job[w]] = "COMMITTED"

\* The classifier's slots: the first is free, taken, or failed safely; the second is last.
ClassifierInvariant == \A c \in Commands :
  /\ binding[c] = "none" => calls[c] = 0
  /\ binding[c] \in {"running", "retry"} => calls[c] = 1
  /\ calls[c] <= 2

\* The accepted commands have places of their own, none beyond their number.
Sequenced == {c \in Commands : sequence[c] > 0}
QueueInvariant ==
  /\ IsFiniteSet(Sequenced)
  /\ \A c \in Commands : /\ sequence[c] > 0 <=> state[c] # "none"
                         /\ sequence[c] <= Cardinality(Sequenced)
  /\ \A c, d \in Sequenced : sequence[c] = sequence[d] => c = d

\* What precedes a command that is claimed, or took effect, has ended, and so has the
\* command of an extraction's message; an extraction that took effect has ended itself.
OrderInvariant ==
  /\ \A c, d \in Commands :
       Precedes(c, d) /\ (state[d] = "CLAIMED" \/ effects[d] > 0) => state[c] \in Terminal
  /\ \A x \in Extracts : state[x] = "CLAIMED" \/ effects[x] > 0 => state[SourceOf[x]] \in Terminal
  /\ \A x \in Extracts : effects[x] > 0 => state[x] \in Terminal
  /\ \A c \in Commands : effects[c] > 0 => state[c] # "none"

\* A transaction that outlives its connection holds its locks: its command stays claimed,
\* its source and generation match, and there is one.
LockInvariant == \A c \in Commands : inflight[c] =>
  /\ state[c] = "CLAIMED" /\ SourceMatches(c)
  /\ \A d \in Commands : inflight[d] => d = c

\* No job is ahead of the user's generation, what a reset fenced is behind it, and an
\* undecided command that was not fenced is at it.
GenerationInvariant ==
  /\ \A j \in Jobs : snapshot[j] <= generation
  /\ \A j \in Jobs : fenced[j] => state[j] # "none" /\ snapshot[j] < generation
  /\ \A c \in Commands :
       state[c] \in Waiting \cup {"CLAIMED"} /\ receipt[c] = "PENDING" /\ ~fenced[c] =>
         snapshot[c] = generation

Inv == /\ TypeOK /\ WorkerInvariant /\ ReceiptInvariant /\ ClassifierInvariant
       /\ QueueInvariant /\ OrderInvariant /\ LockInvariant /\ GenerationInvariant

(***************************************************************************)
(* Types.                                                                  *)
(***************************************************************************)
Outcomes == Receipts \cup Terminal \cup Waiting \cup {"none"}

\* What the pieces of a worker's step keep of its types.
LEMMA ToWriteTypes ==
  ASSUME WorkerTypes, NEW w \in Workers, NEW next \in Steps, NEW what \in Outcomes,
         ToWrite(w, next, what)
  PROVE  WorkerTypes'
<1>1. InTime(w) \in BOOLEAN BY DEF InTime, Holds
<1>. QED BY <1>1 DEF ToWrite, WorkerTypes, Outcomes

LEMMA StepTypes ==
  ASSUME WorkerTypes, NEW w \in Workers, NEW next \in Steps, Step(w, next)
  PROVE  WorkerTypes'
BY DEF Step, WorkerTypes

LEMMA IdleTypes ==
  ASSUME WorkerTypes, NEW w \in Workers, Idle(w)
  PROVE  WorkerTypes'
BY DEF Idle, WorkerTypes, Steps

\* Settling a job keeps the types of its row, and of a command's work.
LEMMA SettleTypes ==
  ASSUME RowTypes, CommandTypes, NEW j \in Jobs, NEW to \in Terminal \cup Waiting,
         Settle(j, to)
  PROVE  /\ RowTypes'
         /\ intent' \in [Commands -> {"none", "act"}] /\ evidence' \in [Commands -> Nat]
BY DEF Settle, ClearWork, RowTypes, CommandTypes, Jobs, work

\* A mutation keeps the types of what it writes.
LEMMA MutateRowTypes ==
  ASSUME TypeOK, GenerationInvariant, NEW c \in Commands, MutateRow(c)
  PROVE  /\ consumed' \in [Commands -> BOOLEAN] /\ receipt' \in [Commands -> Receipts]
         /\ effects' \in [Jobs -> Nat] /\ generation' \in Nat /\ snapshot' \in [Jobs -> Nat]
BY DEF MutateRow, CarrySuccessors, TypeOK, RowTypes, CommandTypes, WorldTypes, Receipts, Jobs

\* Every step keeps the types.
LEMMA TypesStep ==
  ASSUME Inv, [Next]_vars
  PROVE  TypeOK'
<1>. USE JobsAssumption, BoundsAssumption
     DEF Inv, TypeOK, rows, work, command, worker, world
<1>1. ASSUME Reset PROVE TypeOK'
  BY <1>1 DEF Reset, Fence, RowTypes, CommandTypes, WorkerTypes, WorldTypes
<1>2. ASSUME NEW j \in Jobs, Enqueue(j) PROVE TypeOK'
  <2>1. Cardinality(Sequenced) \in Nat BY FS_CardinalityType DEF QueueInvariant
  <2>. QED BY <1>2, <2>1 DEF Enqueue, Sequenced, RowTypes, CommandTypes, WorkerTypes,
       WorldTypes, Waiting, Jobs
<1>3. ASSUME NEW j \in Jobs, SourceChanges(j) PROVE TypeOK'
  BY <1>3 DEF SourceChanges, RowTypes, CommandTypes, WorkerTypes, WorldTypes
<1>4. ASSUME NEW j \in Jobs, Expire(j) PROVE TypeOK'
  BY <1>4 DEF Expire, RowTypes, CommandTypes, WorkerTypes, WorldTypes
<1>5. ASSUME NEW j \in Jobs, ResolveWaitingJob(j) \/ RequeueDueJob(j) PROVE TypeOK'
  BY <1>5 DEF ResolveWaitingJob, RequeueDueJob, RowTypes, CommandTypes, WorkerTypes,
     WorldTypes, Waiting, Terminal
<1>6. ASSUME NEW j \in Jobs, EndUnavailable(j) PROVE TypeOK'
  <2>1. Settle(j, "FAILED") BY <1>6 DEF EndUnavailable
  <2>. QED BY <1>6, <2>1, SettleTypes DEF EndUnavailable, CommandTypes, WorkerTypes,
       WorldTypes, Terminal
<1>7. ASSUME NEW c \in Commands, LateDecision(c) PROVE TypeOK'
  BY <1>7, MutateRowTypes DEF LateDecision, RowTypes, CommandTypes, WorkerTypes, WorldTypes
<1>8. ASSUME NEW w \in Workers, Gate(w) PROVE TypeOK'
  <2>1. WorkerTypes' BY <1>8, ToWriteTypes DEF Gate, Outcomes, Steps, GateSteps, Terminal, Waiting
  <2>. QED BY <1>8, <2>1 DEF Gate, RowTypes, CommandTypes, WorldTypes
<1>9. ASSUME NEW w \in Workers, SettleJobGate(w) PROVE TypeOK'
  <2>1. job[w] \in Jobs /\ outcome[w] \in Terminal \cup Waiting
    BY <1>9 DEF SettleJobGate, WorkerInvariant, Terminal, Waiting
  <2>2. WorkerTypes' BY <1>9, IdleTypes DEF SettleJobGate
  <2>3. RowTypes' /\ CommandTypes'
    BY <1>9, <2>1, SettleTypes DEF SettleJobGate, SettleIfLeased, RowTypes, CommandTypes
  <2>. QED BY <1>9, <2>2, <2>3 DEF SettleJobGate, WorldTypes
<1>10. ASSUME NEW w \in Workers, CommitJobSuccess(w) PROVE TypeOK'
  <2>1. job[w] \in Jobs BY <1>10 DEF CommitJobSuccess, Jobs
  <2>2. WorkerTypes' BY <1>10, IdleTypes DEF CommitJobSuccess
  <2>3. RowTypes' /\ CommandTypes'
    BY <1>10, <2>1, SettleTypes DEF CommitJobSuccess, RowTypes, CommandTypes, Terminal
  <2>. QED BY <1>10, <2>1, <2>2, <2>3 DEF CommitJobSuccess, WorldTypes
<1>11. ASSUME NEW w \in Workers, Read(w) PROVE TypeOK'
  <2>1. job[w] \in Commands BY <1>11 DEF Read, WorkerInvariant, CommandSteps
  <2>2. receipt[job[w]] \in Outcomes BY <2>1 DEF CommandTypes, Outcomes
  <2>3. WorkerTypes'
    BY <1>11, <2>2, ToWriteTypes, StepTypes DEF Read, Outcomes, Receipts, Steps, CommandSteps
  <2>. QED BY <1>11, <2>3 DEF Read, RowTypes, CommandTypes, WorldTypes
<1>12. ASSUME NEW w \in Workers, Classify(w) PROVE TypeOK'
  <2>1. job[w] \in Commands BY <1>12 DEF Classify, WorkerInvariant, CommandSteps
  <2>2. WorkerTypes'
    BY <1>12, ToWriteTypes, StepTypes DEF Classify, Outcomes, Receipts, Steps, CommandSteps
  <2>3. binding' \in [Commands -> {"none", "running", "retry", "running2", "settled"}]
        /\ calls' \in [Commands -> Nat]
    BY <1>12, <2>1 DEF Classify, CommandTypes
  <2>. QED BY <1>12, <2>2, <2>3 DEF Classify, RowTypes, CommandTypes, WorldTypes
<1>13. ASSUME NEW w \in Workers, Answer(w) PROVE TypeOK'
  <2>1. WorkerTypes'
    BY <1>13, ToWriteTypes, StepTypes DEF Answer, Outcomes, Receipts, Steps, CommandSteps
  <2>2. binding' \in [Commands -> {"none", "running", "retry", "running2", "settled"}]
        /\ intent' \in [Commands -> {"none", "act"}]
    BY <1>13 DEF Answer, CommandTypes
  <2>. QED BY <1>13, <2>1, <2>2 DEF Answer, RowTypes, CommandTypes, WorldTypes
<1>14. ASSUME NEW w \in Workers, Mint(w) PROVE TypeOK'
  <2>1. WorkerTypes'
    BY <1>14, ToWriteTypes, StepTypes DEF Mint, Outcomes, Receipts, Steps, CommandSteps
  <2>2. evidence' \in [Commands -> Nat] BY <1>14 DEF Mint, CommandTypes, WorkerTypes
  <2>. QED BY <1>14, <2>1, <2>2 DEF Mint, RowTypes, CommandTypes, WorldTypes
<1>15. ASSUME NEW w \in Workers, Mutate(w) PROVE TypeOK'
  <2>1. job[w] \in Commands BY <1>15 DEF Mutate, WorkerInvariant, CommandSteps
  <2>2. WorkerTypes'
    BY <1>15, ToWriteTypes, StepTypes DEF Mutate, Outcomes, Receipts, Steps, CommandSteps
  <2>3. /\ consumed' \in [Commands -> BOOLEAN] /\ receipt' \in [Commands -> Receipts]
        /\ effects' \in [Jobs -> Nat] /\ generation' \in Nat /\ snapshot' \in [Jobs -> Nat]
    BY <1>15, <2>1, MutateRowTypes DEF Mutate, RowTypes, CommandTypes, WorldTypes
  <2>4. inflight' \in [Commands -> BOOLEAN] BY <1>15 DEF Mutate, CommandTypes
  <2>. QED BY <1>15, <2>2, <2>3, <2>4 DEF Mutate, RowTypes, CommandTypes, WorldTypes
<1>16. ASSUME NEW w \in Workers, Catch(w) PROVE TypeOK'
  <2>1. WorkerTypes' BY <1>16, ToWriteTypes DEF Catch, Outcomes, Receipts, Steps, CommandSteps
  <2>. QED BY <1>16, <2>1 DEF Catch, RowTypes, CommandTypes, WorldTypes
<1>17. ASSUME NEW w \in Workers, WriteReceipt(w) PROVE TypeOK'
  <2>1. outcome[w] \in Receipts BY <1>17 DEF WriteReceipt, WorkerInvariant, Receipts
  <2>2. WorkerTypes' BY <1>17, ToWriteTypes DEF WriteReceipt, Outcomes, Steps
  <2>3. receipt' \in [Commands -> Receipts] BY <1>17, <2>1 DEF WriteReceipt, CommandTypes
  <2>4. intent' \in [Commands -> {"none", "act"}] /\ evidence' \in [Commands -> Nat]
    BY <1>17 DEF WriteReceipt, ClearWork, CommandTypes
  <2>. QED BY <1>17, <2>2, <2>3, <2>4 DEF WriteReceipt, RowTypes, CommandTypes, WorldTypes
<1>18. ASSUME NEW w \in Workers, CommitCommand(w) PROVE TypeOK'
  <2>1. job[w] \in Jobs BY <1>18 DEF CommitCommand, Jobs
  <2>2. WorkerTypes' BY <1>18, IdleTypes DEF CommitCommand
  <2>3. RowTypes' /\ CommandTypes'
    BY <1>18, <2>1, SettleTypes DEF CommitCommand, RowTypes, CommandTypes, Terminal
  <2>. QED BY <1>18, <2>2, <2>3 DEF CommitCommand, WorldTypes
<1>19. ASSUME NEW w \in Workers, FailJob(w) PROVE TypeOK'
  <2>1. job[w] \in Jobs BY <1>19 DEF FailJob, WorkerInvariant
  <2>2. WorkerTypes' BY <1>19, IdleTypes DEF FailJob
  <2>3. RowTypes' /\ CommandTypes'
    BY <1>19, <2>1, SettleTypes DEF FailJob, SettleIfLeased, RowTypes, CommandTypes, Terminal, Waiting
  <2>. QED BY <1>19, <2>2, <2>3 DEF FailJob, WorldTypes
<1>20. ASSUME NEW w \in Workers, Throw(w) PROVE TypeOK'
  <2>1. WorkerTypes' BY <1>20, ToWriteTypes DEF Throw, Outcomes, Steps
  <2>. QED BY <1>20, <2>1 DEF Throw, RowTypes, CommandTypes, WorldTypes
<1>21. ASSUME NEW w \in Workers, HeartbeatJob(w) PROVE TypeOK'
  BY <1>21 DEF HeartbeatJob, RowTypes, CommandTypes, WorkerTypes, WorldTypes
<1>22. ASSUME NEW w \in Workers, Abandon(w) PROVE TypeOK'
  BY <1>22, IdleTypes DEF Abandon, RowTypes, CommandTypes, WorldTypes
<1>23. ASSUME NEW w \in Workers, NEW j \in Jobs, ClaimJob(w, j) PROVE TypeOK'
  BY <1>23 DEF ClaimJob, RowTypes, CommandTypes, WorkerTypes, WorldTypes, Steps, CommandSteps,
     GateSteps
<1>24. ASSUME UNCHANGED vars PROVE TypeOK'
  BY <1>24 DEF vars, RowTypes, CommandTypes, WorkerTypes, WorldTypes
<1>. QED BY <1>1, <1>2, <1>3, <1>4, <1>5, <1>6, <1>7, <1>8, <1>9, <1>10, <1>11, <1>12, <1>13,
     <1>14, <1>15, <1>16, <1>17, <1>18, <1>19, <1>20, <1>21, <1>22, <1>23, <1>24
     DEF Next, WorkerStep, CommandStep

(***************************************************************************)
(* Workers, receipts and the classifier.                                   *)
(***************************************************************************)
\* Every step keeps what a worker holds and is about to write.
LEMMA WorkerHolds ==
  ASSUME Inv, [Next]_vars
  PROVE  WorkerInvariant'
<1>. USE DEF Inv, TypeOK, WorkerTypes, WorkerInvariant, CommandSteps, GateSteps, Jobs
<1>1. ASSUME UNCHANGED worker PROVE WorkerInvariant'
  BY <1>1 DEF worker
<1>2. ASSUME NEW w \in Workers, NEW j \in Jobs, ClaimJob(w, j) PROVE WorkerInvariant'
  BY <1>2 DEF ClaimJob
<1>3. ASSUME NEW w \in Workers, Gate(w) PROVE WorkerInvariant'
  BY <1>3 DEF Gate, ToWrite
<1>4. ASSUME NEW w \in Workers,
             SettleJobGate(w) \/ CommitJobSuccess(w) \/ CommitCommand(w) \/ FailJob(w) \/ Abandon(w)
      PROVE  WorkerInvariant'
  <2>1. Idle(w) BY <1>4 DEF SettleJobGate, CommitJobSuccess, CommitCommand, FailJob, Abandon
  <2>. QED BY <2>1 DEF Idle
<1>5. ASSUME NEW w \in Workers, Read(w) PROVE WorkerInvariant'
  <2>1. receipt[job[w]] \in {"PENDING", "COMMITTED", "REFUSED"}
    BY <1>5 DEF Read, CommandTypes, Receipts
  <2>. QED BY <1>5, <2>1 DEF Read, ToWrite, Step
<1>6. ASSUME NEW w \in Workers, Classify(w) PROVE WorkerInvariant'
  BY <1>6 DEF Classify, ToWrite, Step
<1>7. ASSUME NEW w \in Workers, Answer(w) PROVE WorkerInvariant'
  BY <1>7 DEF Answer, ToWrite, Step
<1>8. ASSUME NEW w \in Workers, Mint(w) PROVE WorkerInvariant'
  BY <1>8 DEF Mint, ToWrite, Step
<1>9. ASSUME NEW w \in Workers, Mutate(w) PROVE WorkerInvariant'
  BY <1>9 DEF Mutate, ToWrite, Step
<1>10. ASSUME NEW w \in Workers, Catch(w) PROVE WorkerInvariant'
  BY <1>10 DEF Catch, ToWrite
<1>11. ASSUME NEW w \in Workers, WriteReceipt(w) PROVE WorkerInvariant'
  BY <1>11 DEF WriteReceipt, ToWrite
<1>12. ASSUME NEW w \in Workers, Throw(w) PROVE WorkerInvariant'
  BY <1>12 DEF Throw, ToWrite
<1>13. ASSUME NEW w \in Workers, HeartbeatJob(w) PROVE UNCHANGED worker
  BY <1>13 DEF HeartbeatJob
<1>14. ASSUME NEW j \in Jobs, \/ Enqueue(j) \/ SourceChanges(j) \/ Expire(j) \/ ResolveWaitingJob(j)
                              \/ RequeueDueJob(j) \/ EndUnavailable(j)
       PROVE  UNCHANGED worker
  BY <1>14 DEF Enqueue, SourceChanges, Expire, ResolveWaitingJob, RequeueDueJob, EndUnavailable
<1>15. ASSUME NEW c \in Commands, LateDecision(c) PROVE UNCHANGED worker
  BY <1>15 DEF LateDecision
<1>16. ASSUME Reset PROVE UNCHANGED worker
  BY <1>16 DEF Reset
<1>17. ASSUME UNCHANGED vars PROVE UNCHANGED worker
  BY <1>17 DEF vars
<1>. QED BY <1>1, <1>2, <1>3, <1>4, <1>5, <1>6, <1>7, <1>8, <1>9, <1>10, <1>11, <1>12, <1>13,
     <1>14, <1>15, <1>16, <1>17 DEF Next, WorkerStep, CommandStep

\* Every step but a mutation, a decision that comes late and the writing of a receipt leaves
\* receipts, authorizations and effects of commands alone.
Quiet == UNCHANGED <<receipt, consumed, inflight, effects>>

\* A worker about to write a committed receipt has seen one.
LEMMA QuietReceipts ==
  ASSUME Inv, Quiet,
         \A w \in Workers : pc'[w] = "receipt" /\ outcome'[w] = "COMMITTED" =>
           \/ receipt[job'[w]] = "COMMITTED"
           \/ pc[w] = "receipt" /\ outcome[w] = "COMMITTED" /\ job'[w] = job[w]
  PROVE  ReceiptInvariant'
BY DEF Quiet, Inv, ReceiptInvariant, ReceiptTellsTheEffect

\* The mutation of an unconsumed command is its one effect.
LEMMA MutationReceipts ==
  ASSUME Inv, NEW c \in Commands, MutateRow(c), ~consumed[c],
         inflight' = inflight \/ inflight' = [inflight EXCEPT ![c] = FALSE], ~inflight'[c]
  PROVE  /\ ReceiptTellsTheEffect'
         /\ receipt'[c] = "COMMITTED" /\ \A d \in Commands : receipt[d] = "COMMITTED" => receipt'[d] = "COMMITTED"
         /\ \A d \in Commands : consumed'[d] = (receipt'[d] = "COMMITTED")
         /\ \A d \in Commands : inflight'[d] => ~consumed'[d]
<1>. USE DEF MutateRow, Inv, ReceiptInvariant, TypeOK, CommandTypes, WorldTypes, Jobs
<1>1. /\ receipt' = [receipt EXCEPT ![c] = "COMMITTED"]
      /\ consumed' = [consumed EXCEPT ![c] = TRUE]
      /\ effects' = [effects EXCEPT ![c] = effects[c] + 1]
  OBVIOUS
<1>2. receipt[c] # "COMMITTED" /\ effects[c] = 0
  BY DEF ReceiptTellsTheEffect
<1>3. ASSUME NEW d \in Commands
      PROVE  effects'[d] = (IF receipt'[d] = "COMMITTED" THEN 1 ELSE 0)
  BY <1>1, <1>2, <1>3 DEF ReceiptTellsTheEffect
<1>4. \A d \in Commands : receipt'[d] = IF d = c THEN "COMMITTED" ELSE receipt[d]
  BY <1>1
<1>5. \A d \in Commands : consumed'[d] = IF d = c THEN TRUE ELSE consumed[d]
  BY <1>1
<1>6. \A d \in Commands : inflight'[d] => d # c /\ inflight[d]
  OBVIOUS
<1>7. \A d \in Commands : inflight'[d] => ~consumed'[d]
  BY <1>5, <1>6
<1>8. \A d \in Commands : consumed'[d] = (receipt'[d] = "COMMITTED")
  BY <1>4, <1>5
<1>. QED BY <1>3, <1>4, <1>7, <1>8 DEF ReceiptTellsTheEffect

LEMMA ReceiptHolds ==
  ASSUME Inv, [Next]_vars
  PROVE  ReceiptInvariant'
<1>. USE JobsAssumption DEF Inv, TypeOK, WorkerTypes, WorkerInvariant, CommandSteps, GateSteps,
       Jobs, rows, command, world, work, worker
<1>1. ASSUME Quiet, UNCHANGED worker PROVE ReceiptInvariant'
  BY <1>1, QuietReceipts
<1>2. ASSUME NEW w \in Workers, NEW j \in Jobs, ClaimJob(w, j) PROVE ReceiptInvariant'
  BY <1>2, QuietReceipts DEF ClaimJob, Quiet
<1>3. ASSUME NEW w \in Workers, Gate(w) PROVE ReceiptInvariant'
  BY <1>3, QuietReceipts DEF Gate, ToWrite, Quiet
<1>4. ASSUME NEW w \in Workers, Idle(w), Quiet PROVE ReceiptInvariant'
  BY <1>4, QuietReceipts DEF Idle
<1>5. ASSUME NEW w \in Workers, SettleJobGate(w) \/ CommitCommand(w) \/ FailJob(w) \/ Abandon(w)
      PROVE  ReceiptInvariant'
  <2>1. Idle(w) /\ Quiet BY <1>5 DEF SettleJobGate, CommitCommand, FailJob, Abandon, Quiet
  <2>. QED BY <2>1, <1>4
<1>6. ASSUME NEW w \in Workers, CommitJobSuccess(w) PROVE ReceiptInvariant'
  <2>1. \A c \in Commands : effects'[c] = effects[c]
    BY <1>6 DEF CommitJobSuccess, WorldTypes
  <2>. QED BY <1>6, <2>1 DEF CommitJobSuccess, Idle, ReceiptInvariant, ReceiptTellsTheEffect
<1>7. ASSUME NEW w \in Workers, Read(w) PROVE ReceiptInvariant'
  BY <1>7, QuietReceipts DEF Read, ToWrite, Step, Quiet
<1>8. ASSUME NEW w \in Workers, Classify(w) PROVE ReceiptInvariant'
  BY <1>8, QuietReceipts DEF Classify, ToWrite, Step, Quiet
<1>9. ASSUME NEW w \in Workers, Answer(w) PROVE ReceiptInvariant'
  BY <1>9, QuietReceipts DEF Answer, ToWrite, Step, Quiet
<1>10. ASSUME NEW w \in Workers, Mint(w) PROVE ReceiptInvariant'
  BY <1>10, QuietReceipts DEF Mint, ToWrite, Step, Quiet
<1>11. ASSUME NEW w \in Workers, Catch(w) PROVE ReceiptInvariant'
  BY <1>11, QuietReceipts DEF Catch, ToWrite, Quiet
<1>12. ASSUME NEW w \in Workers, Throw(w) PROVE ReceiptInvariant'
  BY <1>12, QuietReceipts DEF Throw, ToWrite, Quiet
<1>13. ASSUME NEW w \in Workers, Mutate(w) PROVE ReceiptInvariant'
  <2>. DEFINE c == job[w]
  <2>1. c \in Commands BY <1>13 DEF Mutate
  <2>2. CASE Consumable(c) /\ MutateRow(c) /\ UNCHANGED inflight
    <3>1. ~consumed[c] /\ ~inflight'[c] BY <2>1, <2>2 DEF Consumable, Locked
    <3>2. \A v \in Workers : pc'[v] = "receipt" /\ outcome'[v] = "COMMITTED" =>
            receipt[job'[v]] = "COMMITTED" \/ job'[v] = c
      BY <1>13, <2>1 DEF Mutate, ToWrite, Step, ReceiptInvariant
    <3>3. \A v \in Workers : pc'[v] = "receipt" => job'[v] \in Commands
      BY WorkerHolds
    <3>. QED BY <2>1, <2>2, <3>1, <3>2, <3>3, MutationReceipts DEF ReceiptInvariant
  <2>3. CASE /\ Consumable(c) /\ inflight' = [inflight EXCEPT ![c] = TRUE]
             /\ Step(w, "catch")
             /\ UNCHANGED <<consumed, receipt, effects>>
    <3>1. \A d \in Commands : inflight'[d] => ~consumed'[d]
      BY <2>1, <2>3 DEF Consumable, ReceiptInvariant, CommandTypes
    <3>. QED BY <2>3, <3>1 DEF Step, ReceiptInvariant, ReceiptTellsTheEffect
  <2>4. CASE Step(w, "catch") /\ Quiet
    BY <2>4, QuietReceipts DEF Step
  <2>. QED BY <1>13, <2>2, <2>3, <2>4 DEF Mutate, Quiet
<1>14. ASSUME NEW w \in Workers, WriteReceipt(w) PROVE ReceiptInvariant'
  <2>1. job[w] \in Commands /\ pc[w] = "receipt" /\ outcome[w] \in {"COMMITTED", "REFUSED"}
    BY <1>14 DEF WriteReceipt
  <2>2. /\ outcome[w] = "COMMITTED" => receipt[job[w]] = "COMMITTED"
        /\ receipt' = receipt \/ (receipt[job[w]] # "COMMITTED" /\ receipt' = [receipt EXCEPT ![job[w]] = outcome[w]])
    BY <1>14, <2>1 DEF WriteReceipt, MayReplace, ReceiptInvariant
  <2>3. \A d \in Commands : (receipt'[d] = "COMMITTED") = (receipt[d] = "COMMITTED")
    BY <2>1, <2>2 DEF CommandTypes
  <2>4. \A v \in Workers : pc'[v] = "receipt" => pc[v] = "receipt" /\ UNCHANGED <<outcome[v], job[v]>>
    BY <1>14, <2>1 DEF WriteReceipt, ToWrite
  <2>. QED BY <1>14, <2>3, <2>4 DEF WriteReceipt, ReceiptInvariant, ReceiptTellsTheEffect
<1>15. ASSUME NEW c \in Commands, LateDecision(c) PROVE ReceiptInvariant'
  <2>1. ~consumed[c] /\ ~inflight'[c] BY <1>15 DEF LateDecision, ReceiptInvariant, CommandTypes
  <2>2. CASE MutateRow(c)
    BY <1>15, <2>1, <2>2, MutationReceipts DEF LateDecision, ReceiptInvariant
  <2>3. CASE UNCHANGED <<consumed, receipt, effects>>
    BY <1>15, <2>3 DEF LateDecision, ReceiptInvariant, ReceiptTellsTheEffect, CommandTypes
  <2>. QED BY <1>15, <2>2, <2>3 DEF LateDecision
<1>16. ASSUME NEW w \in Workers, HeartbeatJob(w) PROVE Quiet /\ UNCHANGED worker
  BY <1>16 DEF HeartbeatJob, Quiet
<1>17. ASSUME NEW j \in Jobs, \/ Enqueue(j) \/ SourceChanges(j) \/ Expire(j) \/ ResolveWaitingJob(j)
                              \/ RequeueDueJob(j) \/ EndUnavailable(j)
       PROVE  Quiet /\ UNCHANGED worker
  BY <1>17 DEF Enqueue, SourceChanges, Expire, ResolveWaitingJob, RequeueDueJob, EndUnavailable, Quiet
<1>18. ASSUME Reset PROVE Quiet /\ UNCHANGED worker
  BY <1>18 DEF Reset, Quiet
<1>19. ASSUME UNCHANGED vars PROVE Quiet /\ UNCHANGED worker
  BY <1>19 DEF vars, Quiet
<1>. QED BY <1>1, <1>2, <1>3, <1>5, <1>6, <1>7, <1>8, <1>9, <1>10, <1>11, <1>12, <1>13,
     <1>14, <1>15, <1>16, <1>17, <1>18, <1>19 DEF Next, WorkerStep, CommandStep

\* Only the classifier's own steps touch its slots.
LEMMA ClassifierHolds ==
  ASSUME Inv, [Next]_vars
  PROVE  ClassifierInvariant'
<1>. USE DEF Inv, ClassifierInvariant
<1>1. ASSUME NEW w \in Workers, Classify(w) PROVE ClassifierInvariant'
  <2>1. job[w] \in Commands BY <1>1 DEF Classify, WorkerInvariant, CommandSteps
  <2>. QED BY <1>1, <2>1 DEF Classify, TypeOK, CommandTypes
<1>2. ASSUME NEW w \in Workers, Answer(w) PROVE ClassifierInvariant'
  <2>1. job[w] \in Commands BY <1>2 DEF Answer, WorkerInvariant, CommandSteps
  <2>. QED BY <1>2, <2>1 DEF Answer, TypeOK, CommandTypes
<1>3. UNCHANGED <<binding, calls>> \/ \E w \in Workers : Classify(w) \/ Answer(w)
  <2>. USE DEF command
  <2>1. ASSUME NEW w \in Workers, WorkerStep(w), ~Classify(w), ~Answer(w)
        PROVE  UNCHANGED <<binding, calls>>
    BY <2>1 DEF WorkerStep, CommandStep, Gate, SettleJobGate, CommitJobSuccess, Read, Mint, Mutate,
       Catch, WriteReceipt, CommitCommand, FailJob
  <2>2. ASSUME NEW w \in Workers, Throw(w) \/ HeartbeatJob(w) \/ Abandon(w) \/ \E j \in Jobs : ClaimJob(w, j)
        PROVE  UNCHANGED <<binding, calls>>
    BY <2>2 DEF Throw, HeartbeatJob, Abandon, ClaimJob
  <2>3. ASSUME NEW j \in Jobs, \/ Enqueue(j) \/ SourceChanges(j) \/ Expire(j) \/ ResolveWaitingJob(j)
                               \/ RequeueDueJob(j) \/ EndUnavailable(j)
        PROVE  UNCHANGED <<binding, calls>>
    BY <2>3 DEF Enqueue, SourceChanges, Expire, ResolveWaitingJob, RequeueDueJob, EndUnavailable
  <2>4. ASSUME Reset \/ (\E c \in Commands : LateDecision(c)) \/ UNCHANGED vars
        PROVE  UNCHANGED <<binding, calls>>
    BY <2>4 DEF Reset, LateDecision, vars
  <2>. QED BY <2>1, <2>2, <2>3, <2>4 DEF Next
<1>. QED BY <1>1, <1>2, <1>3

(***************************************************************************)
(* What a step does to the queue: most leave it alone, and the rest are a  *)
(* handful of moves.                                                       *)
(***************************************************************************)
ledger == <<sequence, snapshot, generation, current, fenced, inflight>>

\* A receipt, once given, is never pending again.
Given == \A c \in Commands : receipt'[c] = "PENDING" => receipt[c] = "PENDING"

\* A job's row moves, and nothing else of the queue does.
Moves(j, to) == state' = [state EXCEPT ![j] = to] /\ UNCHANGED <<ledger, effects>>

\* A job that has not ended ends or waits; no transaction under way holds it.
Ends(j) == /\ state[j] \in Waiting \cup {"CLAIMED"} /\ RowFree(j)
           /\ \E to \in Terminal \cup Waiting : Moves(j, to)

\* A job that is eligible is claimed.
Claims(j) == JobEligibility(j) /\ RowFree(j) /\ Moves(j, "CLAIMED")

\* An extraction takes effect, and ends with it.
Applies(x) == /\ ~Locked /\ state[x] = "CLAIMED" /\ SourceMatches(x)
              /\ state' = [state EXCEPT ![x] = "SUCCEEDED"]
              /\ effects' = [effects EXCEPT ![x] = @ + 1]
              /\ UNCHANGED ledger

\* A command takes effect: it is claimed, its source matches, and no other transaction
\* is under way; or its transaction is left under way.
Mutates(c) == /\ state[c] = "CLAIMED" /\ SourceMatches(c) /\ ~consumed[c] /\ MutateRow(c)
              /\ \/ ~Locked /\ UNCHANGED inflight
                 \/ inflight[c] /\ inflight' = [inflight EXCEPT ![c] = FALSE]
              /\ UNCHANGED <<state, sequence, current, fenced>>
Begins(c) == /\ state[c] = "CLAIMED" /\ SourceMatches(c) /\ ~Locked
             /\ inflight' = [inflight EXCEPT ![c] = TRUE]
             /\ UNCHANGED <<state, sequence, snapshot, generation, current, fenced, effects>>
GivesUp(c) == /\ inflight' = [inflight EXCEPT ![c] = FALSE]
              /\ UNCHANGED <<state, sequence, snapshot, generation, current, fenced, effects>>

Shape ==
  \/ UNCHANGED <<state, ledger, effects>>
  \/ Reset
  \/ \E j \in Jobs : Enqueue(j) \/ SourceChanges(j) \/ Ends(j) \/ Claims(j)
  \/ \E x \in Extracts : Applies(x)
  \/ \E c \in Commands : Mutates(c) \/ Begins(c) \/ GivesUp(c)

\* Whoever may write a row holds a job that is claimed and free.
LEMMA SettleShape ==
  ASSUME Inv, NEW j \in Jobs, NEW to \in Terminal \cup Waiting, Settle(j, to),
         state[j] \in Waiting \cup {"CLAIMED"}, RowFree(j),
         UNCHANGED <<generation, current, fenced, inflight, effects>>
  PROVE  Shape
<1>1. Ends(j) BY DEF Ends, Moves, Settle, ledger
<1>. QED BY <1>1 DEF Shape

LEMMA SettleIfLeasedShape ==
  ASSUME Inv, NEW w \in Workers, job[w] \in Jobs, NEW to \in Terminal \cup Waiting,
         SettleIfLeased(w, to), RowFree(job[w]),
         UNCHANGED <<generation, current, fenced, inflight, effects>>
  PROVE  Shape
<1>1. CASE Leased(w)
  BY <1>1, SettleShape DEF SettleIfLeased, Leased, Holds
<1>2. CASE ~Leased(w)
  BY <1>2 DEF SettleIfLeased, rows, Shape, ledger
<1>. QED BY <1>1, <1>2

LEMMA StepShape ==
  ASSUME Inv, [Next]_vars
  PROVE  Shape
<1>. USE JobsAssumption DEF rows, work, command, world, ledger
<1>1. ASSUME NEW w \in Workers, SettleJobGate(w) PROVE Shape
  <2>1. job[w] \in Extracts /\ outcome[w] \in Terminal \cup Waiting
    BY <1>1 DEF SettleJobGate, Inv, WorkerInvariant, GateSteps, Terminal, Waiting
  <2>2. job[w] \in Jobs /\ RowFree(job[w]) BY <2>1 DEF Jobs, RowFree
  <2>. QED BY <1>1, <2>1, <2>2, SettleIfLeasedShape DEF SettleJobGate
<1>2. ASSUME NEW w \in Workers, FailJob(w) PROVE Shape
  <2>1. job[w] \in Jobs BY <1>2 DEF FailJob, Inv, WorkerInvariant
  <2>2. CASE UNCHANGED rows BY <1>2, <2>2 DEF FailJob, Shape
  <2>3. CASE SettleIfLeased(w, "RETRYABLE_FAILED") \/ SettleIfLeased(w, "FAILED")
    BY <1>2, <2>1, <2>3, SettleIfLeasedShape DEF FailJob, Terminal, Waiting
  <2>. QED BY <1>2, <2>2, <2>3 DEF FailJob
<1>3. ASSUME NEW w \in Workers, CommitCommand(w) PROVE Shape
  <2>1. job[w] \in Jobs /\ RowFree(job[w]) BY <1>3 DEF CommitCommand, Jobs, RowFree, Locked
  <2>2. CASE UNCHANGED rows BY <1>3, <2>2 DEF CommitCommand, Shape
  <2>3. CASE Leased(w) /\ Settle(job[w], "SUCCEEDED")
    BY <1>3, <2>1, <2>3, SettleShape DEF CommitCommand, Leased, Holds, Terminal
  <2>. QED BY <1>3, <2>2, <2>3 DEF CommitCommand
<1>4. ASSUME NEW w \in Workers, CommitJobSuccess(w) PROVE Shape
  <2>1. job[w] \in Jobs /\ job[w] \in Extracts /\ RowFree(job[w])
    BY <1>4 DEF CommitJobSuccess, Jobs, RowFree
  <2>2. CASE UNCHANGED <<rows, effects>> BY <1>4, <2>2 DEF CommitJobSuccess, Shape
  <2>3. CASE Leased(w) /\ Settle(job[w], "FAILED") /\ UNCHANGED effects
    BY <1>4, <2>1, <2>3, SettleShape DEF CommitJobSuccess, Leased, Holds, Terminal
  <2>4. CASE /\ Leased(w) /\ SourceMatches(job[w]) /\ Settle(job[w], "SUCCEEDED")
             /\ effects' = [effects EXCEPT ![job[w]] = @ + 1]
    <3>1. Applies(job[w])
      BY <1>4, <2>4 DEF CommitJobSuccess, Leased, Holds, Settle, Applies
    <3>. QED BY <2>1, <3>1 DEF Shape
  <2>. QED BY <1>4, <2>2, <2>3, <2>4 DEF CommitJobSuccess
<1>5. ASSUME NEW w \in Workers, Mutate(w) PROVE Shape
  <2>1. job[w] \in Commands BY <1>5 DEF Mutate, Inv, WorkerInvariant, CommandSteps
  <2>2. CASE Consumable(job[w]) /\ MutateRow(job[w]) /\ UNCHANGED inflight
    <3>1. Mutates(job[w]) BY <1>5, <2>2 DEF Mutate, Mutates, Consumable
    <3>. QED BY <2>1, <3>1 DEF Shape
  <2>3. CASE /\ Consumable(job[w]) /\ inflight' = [inflight EXCEPT ![job[w]] = TRUE]
             /\ UNCHANGED <<consumed, receipt, effects, generation, snapshot>>
    <3>1. Begins(job[w]) BY <1>5, <2>3 DEF Mutate, Begins, Consumable
    <3>. QED BY <2>1, <3>1 DEF Shape
  <2>4. CASE UNCHANGED <<effects, generation, snapshot, inflight>>
    BY <1>5, <2>4 DEF Mutate, Shape
  <2>. QED BY <1>5, <2>2, <2>3, <2>4 DEF Mutate
<1>6. ASSUME NEW c \in Commands, LateDecision(c) PROVE Shape
  <2>1. CASE MutateRow(c)
    <3>1. ~consumed[c] /\ state[c] = "CLAIMED" /\ SourceMatches(c)
      BY <1>6 DEF LateDecision, Inv, ReceiptInvariant, LockInvariant
    <3>2. Mutates(c) BY <1>6, <2>1, <3>1 DEF LateDecision, Mutates
    <3>. QED BY <3>2 DEF Shape
  <2>2. CASE UNCHANGED <<consumed, receipt, effects, generation, snapshot>>
    <3>1. GivesUp(c) BY <1>6, <2>2 DEF LateDecision, GivesUp
    <3>. QED BY <3>1 DEF Shape
  <2>. QED BY <1>6, <2>1, <2>2 DEF LateDecision
<1>7. ASSUME NEW w \in Workers, NEW j \in Jobs, ClaimJob(w, j) PROVE Shape
  <2>1. Claims(j) BY <1>7 DEF ClaimJob, Claims, Moves
  <2>. QED BY <2>1 DEF Shape
<1>8. ASSUME NEW j \in Jobs, ResolveWaitingJob(j) \/ RequeueDueJob(j) PROVE Shape
  <2>1. state[j] \in Waiting /\ RowFree(j)
    BY <1>8 DEF ResolveWaitingJob, RequeueDueJob, Waiting, RowFree, Inv, LockInvariant
  <2>2. \E to \in Terminal \cup Waiting : state' = [state EXCEPT ![j] = to]
    BY <1>8 DEF ResolveWaitingJob, RequeueDueJob, Waiting, Terminal
  <2>3. Ends(j) BY <1>8, <2>1, <2>2 DEF ResolveWaitingJob, RequeueDueJob, Ends, Moves
  <2>. QED BY <2>3 DEF Shape
<1>9. ASSUME NEW j \in Jobs, EndUnavailable(j) PROVE Shape
  BY <1>9, SettleShape DEF EndUnavailable, Terminal
<1>10. ASSUME NEW j \in Jobs, Expire(j) PROVE Shape
  BY <1>10 DEF Expire, Shape
<1>11. ASSUME NEW w \in Workers,
              \/ Gate(w) \/ Read(w) \/ Classify(w) \/ Answer(w) \/ Mint(w) \/ Catch(w)
              \/ WriteReceipt(w) \/ Throw(w) \/ HeartbeatJob(w) \/ Abandon(w)
       PROVE  Shape
  BY <1>11 DEF Gate, Read, Classify, Answer, Mint, Catch, WriteReceipt, Throw, HeartbeatJob,
     Abandon, Shape
<1>12. ASSUME UNCHANGED vars PROVE Shape
  BY <1>12 DEF vars, Shape
<1>. QED BY <1>1, <1>2, <1>3, <1>4, <1>5, <1>6, <1>7, <1>8, <1>9, <1>10, <1>11, <1>12
     DEF Next, WorkerStep, CommandStep, Shape

LEMMA ReceiptsAreGiven ==
  ASSUME Inv, [Next]_vars
  PROVE  Given
<1>. USE DEF command, Given
<1>1. ASSUME NEW c \in Commands, MutateRow(c) PROVE Given
  BY <1>1 DEF MutateRow, Inv, TypeOK, CommandTypes
<1>2. ASSUME NEW w \in Workers, WriteReceipt(w) PROVE Given
  BY <1>2 DEF WriteReceipt, Inv, WorkerInvariant, TypeOK, CommandTypes
<1>3. ASSUME NEW w \in Workers, Mutate(w) PROVE Given
  <2>1. job[w] \in Commands BY <1>3 DEF Mutate, Inv, WorkerInvariant, CommandSteps
  <2>. QED BY <1>1, <1>3, <2>1 DEF Mutate
<1>4. ASSUME NEW c \in Commands, LateDecision(c) PROVE Given
  BY <1>1, <1>4 DEF LateDecision
<1>5. ASSUME NEW w \in Workers,
              \/ Gate(w) \/ SettleJobGate(w) \/ CommitJobSuccess(w) \/ Read(w) \/ Classify(w)
              \/ Answer(w) \/ Mint(w) \/ Catch(w) \/ CommitCommand(w) \/ FailJob(w) \/ Throw(w)
              \/ HeartbeatJob(w) \/ Abandon(w) \/ \E j \in Jobs : ClaimJob(w, j)
      PROVE  Given
  BY <1>5 DEF Gate, SettleJobGate, CommitJobSuccess, Read, Classify, Answer, Mint, Catch,
     CommitCommand, FailJob, Throw, HeartbeatJob, Abandon, ClaimJob
<1>6. ASSUME NEW j \in Jobs, \/ Enqueue(j) \/ SourceChanges(j) \/ Expire(j) \/ ResolveWaitingJob(j)
                             \/ RequeueDueJob(j) \/ EndUnavailable(j)
      PROVE  Given
  BY <1>6 DEF Enqueue, SourceChanges, Expire, ResolveWaitingJob, RequeueDueJob, EndUnavailable
<1>7. ASSUME Reset \/ UNCHANGED vars PROVE Given
  BY <1>7 DEF Reset, vars
<1>. QED BY <1>2, <1>3, <1>4, <1>5, <1>6, <1>7 DEF Next, WorkerStep, CommandStep

(***************************************************************************)
(* The queue: places, order, locks and generations.                        *)
(***************************************************************************)
\* A command accepted takes a place of its own, after all others.
LEMMA QueueHolds ==
  ASSUME Inv, [Next]_vars
  PROVE  QueueInvariant'
<1>. USE DEF Inv, TypeOK, RowTypes, QueueInvariant
<1>1. ASSUME UNCHANGED sequence,
             \A c \in Commands : (state'[c] # "none") <=> (state[c] # "none")
      PROVE  QueueInvariant'
  <2>1. Sequenced' = Sequenced BY <1>1 DEF Sequenced
  <2>. QED BY <1>1, <2>1
<1>2. ASSUME NEW j \in Jobs, Ends(j) \/ Claims(j) PROVE QueueInvariant'
  BY <1>1, <1>2 DEF Ends, Claims, JobEligibility, Moves, ledger, Waiting, Terminal, Jobs
<1>3. ASSUME NEW x \in Extracts, Applies(x) PROVE QueueInvariant'
  BY <1>1, <1>3, JobsAssumption DEF Applies, ledger, Jobs
<1>4. ASSUME NEW c \in Commands, Mutates(c) \/ Begins(c) \/ GivesUp(c) PROVE QueueInvariant'
  BY <1>1, <1>4 DEF Mutates, Begins, GivesUp
<1>5. ASSUME NEW j \in Jobs, Enqueue(j) PROVE QueueInvariant'
  <2>1. CASE j \notin Commands
    BY <1>1, <1>5, <2>1 DEF Enqueue, Jobs
  <2>2. CASE j \in Commands
    <3>1. j \notin Sequenced BY <1>5, <2>2 DEF Enqueue, Sequenced
    <3>2. sequence' = [sequence EXCEPT ![j] = 1 + Cardinality(Sequenced)]
      BY <1>5, <2>2 DEF Enqueue, Sequenced
    <3>3. Cardinality(Sequenced) \in Nat BY FS_CardinalityType
    <3>4. Sequenced' = Sequenced \cup {j}
      <4>1. \A c \in Commands : sequence'[c] = IF c = j THEN 1 + Cardinality(Sequenced) ELSE sequence[c]
        BY <3>2
      <4>2. Sequenced' = {c \in Commands : sequence'[c] > 0} BY DEF Sequenced
      <4>. QED BY <2>2, <3>3, <4>1, <4>2 DEF Sequenced
    <3>5. IsFiniteSet(Sequenced') /\ Cardinality(Sequenced') = Cardinality(Sequenced) + 1
      BY <3>1, <3>4, FS_AddElement
    <3>6. \A c \in Commands : (sequence'[c] > 0 <=> state'[c] # "none")
                              /\ sequence'[c] <= Cardinality(Sequenced')
      BY <1>5, <2>2, <3>2, <3>3, <3>5 DEF Enqueue
    <3>7. \A c \in Sequenced : c # j /\ sequence'[c] = sequence[c] /\ sequence[c] <= Cardinality(Sequenced)
      BY <3>1, <3>2 DEF Sequenced
    <3>8. sequence'[j] = 1 + Cardinality(Sequenced) BY <2>2, <3>2
    <3>9. \A c \in Sequenced : sequence[c] \in Nat BY DEF Sequenced
    <3>10. \A c, d \in Sequenced' : sequence'[c] = sequence'[d] => c = d
      BY <3>3, <3>4, <3>7, <3>8, <3>9
    <3>. QED BY <3>5, <3>6, <3>10
  <2>. QED BY <2>1, <2>2
<1>6. ASSUME UNCHANGED <<state, ledger, effects>> PROVE QueueInvariant'
  BY <1>1, <1>6 DEF ledger
<1>7. ASSUME NEW j \in Jobs, SourceChanges(j) PROVE QueueInvariant'
  BY <1>1, <1>7 DEF SourceChanges, rows
<1>8. ASSUME Reset PROVE QueueInvariant'
  BY <1>1, <1>8 DEF Reset, rows
<1>. QED BY <1>2, <1>3, <1>4, <1>5, <1>6, <1>7, <1>8, StepShape DEF Shape

\* What has ended stays as it ended.
LEMMA EndsForGood ==
  ASSUME Inv, [Next]_vars, NEW j \in Jobs, state[j] \in Terminal
  PROVE  state'[j] \in Terminal
<1>. USE DEF Inv, TypeOK, RowTypes, Terminal, Waiting
<1>1. ASSUME NEW k \in Jobs, Ends(k) \/ Claims(k) \/ Enqueue(k) \/ SourceChanges(k)
      PROVE  state'[j] \in Terminal
  BY <1>1 DEF Ends, Claims, JobEligibility, Moves, Enqueue, SourceChanges, rows
<1>2. ASSUME NEW x \in Extracts, Applies(x) PROVE state'[j] \in Terminal
  BY <1>2 DEF Applies
<1>3. ASSUME NEW c \in Commands, Mutates(c) \/ Begins(c) \/ GivesUp(c)
      PROVE  state'[j] \in Terminal
  BY <1>3 DEF Mutates, Begins, GivesUp
<1>4. ASSUME Reset \/ UNCHANGED <<state, ledger, effects>> PROVE state'[j] \in Terminal
  BY <1>4 DEF Reset, rows
<1>. QED BY <1>1, <1>2, <1>3, <1>4, StepShape DEF Shape

\* Whatever is claimed, or takes effect, has nothing before it that has not ended.
LEMMA OrderHolds ==
  ASSUME Inv, [Next]_vars
  PROVE  OrderInvariant'
<1>. USE JobsAssumption DEF Inv, TypeOK, RowTypes, WorldTypes, Jobs
<1>1. \A c, d \in Commands : Precedes(c, d)' /\ ~Precedes(c, d) => state'[d] = "QUEUED" /\ effects'[d] = 0
  <2>1. ASSUME UNCHANGED sequence, NEW c \in Commands, NEW d \in Commands
        PROVE  Precedes(c, d)' <=> Precedes(c, d)
    BY <2>1 DEF Precedes
  <2>2. ASSUME NEW j \in Jobs, Enqueue(j), NEW c \in Commands, NEW d \in Commands,
               Precedes(c, d)', ~Precedes(c, d)
        PROVE  state'[d] = "QUEUED" /\ effects'[d] = 0
    <3>1. j \in Commands BY <2>1, <2>2 DEF Enqueue
    <3>2. Cardinality(Sequenced) \in Nat BY FS_CardinalityType DEF QueueInvariant
    <3>3. sequence' = [sequence EXCEPT ![j] = 1 + Cardinality(Sequenced)]
      BY <2>2, <3>1 DEF Enqueue, Sequenced
    <3>4. sequence[d] <= Cardinality(Sequenced) BY DEF QueueInvariant
    <3>5. d = j BY <2>2, <3>1, <3>2, <3>3, <3>4 DEF Precedes
    <3>. QED BY <2>2, <3>1, <3>5 DEF Enqueue, OrderInvariant
  <2>3. UNCHANGED sequence \/ \E j \in Jobs : Enqueue(j)
    BY StepShape DEF Shape, ledger, Reset, SourceChanges, rows, Ends, Claims, Moves, Applies, Mutates,
       Begins, GivesUp
  <2>. QED BY <2>1, <2>2, <2>3
<1>2. \A d \in Commands : state'[d] = "CLAIMED" \/ effects'[d] > 0 =>
        \/ state[d] = "CLAIMED" \/ effects[d] > 0
        \/ \A c \in Commands : Precedes(c, d) => state[c] \in Terminal
  <2>1. ASSUME NEW j \in Jobs, Ends(j) \/ Claims(j) \/ Enqueue(j), NEW d \in Commands,
               state'[d] = "CLAIMED" \/ effects'[d] > 0
        PROVE  \/ state[d] = "CLAIMED" \/ effects[d] > 0
               \/ \A c \in Commands : Precedes(c, d) => state[c] \in Terminal
    BY <2>1 DEF Ends, Claims, JobEligibility, Moves, Enqueue, Terminal, Waiting
  <2>2. ASSUME NEW x \in Extracts, Applies(x), NEW d \in Commands, state'[d] = "CLAIMED" \/ effects'[d] > 0
        PROVE  state[d] = "CLAIMED" \/ effects[d] > 0
    BY <2>2 DEF Applies
  <2>3. ASSUME NEW c \in Commands, Mutates(c) \/ Begins(c) \/ GivesUp(c), NEW d \in Commands,
               state'[d] = "CLAIMED" \/ effects'[d] > 0
        PROVE  state[d] = "CLAIMED" \/ effects[d] > 0
    BY <2>3 DEF Mutates, MutateRow, Begins, GivesUp
  <2>4. ASSUME Reset \/ (\E j \in Jobs : SourceChanges(j)) \/ UNCHANGED <<state, ledger, effects>>
        PROVE  UNCHANGED <<state, effects>>
    BY <2>4 DEF Reset, SourceChanges, rows
  <2>. QED BY <2>1, <2>2, <2>3, <2>4, StepShape DEF Shape
<1>3. ASSUME NEW c \in Commands, NEW d \in Commands, Precedes(c, d)',
             state'[d] = "CLAIMED" \/ effects'[d] > 0
      PROVE  state'[c] \in Terminal
  <2>1. Precedes(c, d) BY <1>1, <1>3
  <2>2. state[c] \in Terminal BY <1>2, <1>3, <2>1 DEF OrderInvariant
  <2>. QED BY <2>2, EndsForGood
<1>4. ASSUME NEW x \in Extracts, state'[x] = "CLAIMED" \/ effects'[x] > 0
      PROVE  state[SourceOf[x]] \in Terminal
  <2>1. ASSUME NEW j \in Jobs, Ends(j) \/ Claims(j) \/ Enqueue(j) PROVE state[SourceOf[x]] \in Terminal
    BY <1>4, <2>1 DEF Ends, Claims, JobEligibility, Moves, Enqueue, Terminal, Waiting, OrderInvariant
  <2>2. ASSUME NEW y \in Extracts, Applies(y) PROVE state[SourceOf[x]] \in Terminal
    BY <1>4, <2>2 DEF Applies, OrderInvariant
  <2>3. ASSUME NEW c \in Commands, Mutates(c) \/ Begins(c) \/ GivesUp(c) PROVE state[SourceOf[x]] \in Terminal
    BY <1>4, <2>3 DEF Mutates, MutateRow, Begins, GivesUp, OrderInvariant
  <2>4. ASSUME Reset \/ (\E j \in Jobs : SourceChanges(j)) \/ UNCHANGED <<state, ledger, effects>>
        PROVE  state[SourceOf[x]] \in Terminal
    BY <1>4, <2>4 DEF Reset, SourceChanges, rows, OrderInvariant
  <2>. QED BY <2>1, <2>2, <2>3, <2>4, StepShape DEF Shape
<1>5. ASSUME NEW x \in Extracts, effects'[x] > 0 PROVE state'[x] \in Terminal
  <2>1. CASE effects[x] > 0 BY <2>1, EndsForGood DEF OrderInvariant
  <2>2. CASE ~(effects[x] > 0)
    <3>1. \E y \in Extracts : Applies(y)
      BY <1>5, <2>2, StepShape DEF Shape, ledger, Reset, Enqueue, SourceChanges, Ends, Claims, Moves,
         Mutates, MutateRow, Begins, GivesUp
    <3>. QED BY <1>5, <2>2, <3>1 DEF Applies, Terminal
  <2>. QED BY <2>1, <2>2
<1>6. ASSUME NEW c \in Commands, effects'[c] > 0 PROVE state'[c] # "none"
  <2>1. state[c] # "none"
    BY <1>6, StepShape DEF Shape, ledger, Reset, Enqueue, SourceChanges, Ends, Claims, Moves,
       Applies, Mutates, MutateRow, Begins, GivesUp, OrderInvariant
  <2>2. QueueInvariant' BY QueueHolds
  <2>3. sequence[c] > 0 BY <2>1 DEF QueueInvariant
  <2>4. sequence'[c] > 0
    <3>1. ASSUME NEW j \in Jobs, Enqueue(j) PROVE sequence'[c] = sequence[c]
      BY <2>1, <3>1 DEF Enqueue
    <3>2. UNCHANGED sequence \/ \E j \in Jobs : Enqueue(j)
      BY StepShape DEF Shape, ledger, Reset, SourceChanges, rows, Ends, Claims, Moves, Applies,
         Mutates, Begins, GivesUp
    <3>. QED BY <2>3, <3>1, <3>2
  <2>. QED BY <2>2, <2>4 DEF QueueInvariant
<1>7. \A x \in Extracts : state'[x] = "CLAIMED" \/ effects'[x] > 0 => state'[SourceOf[x]] \in Terminal
  BY <1>4, EndsForGood
<1>. QED BY <1>3, <1>5, <1>6, <1>7 DEF OrderInvariant, Precedes

\* A transaction under way keeps its row, its source and its generation locked.
LEMMA LockHolds ==
  ASSUME Inv, [Next]_vars
  PROVE  LockInvariant'
<1>. USE JobsAssumption DEF Inv, TypeOK, RowTypes, CommandTypes, WorldTypes, LockInvariant, Jobs,
       SourceMatches
<1>1. ASSUME ~Locked, UNCHANGED inflight PROVE LockInvariant'
  BY <1>1 DEF Locked
<1>2. ASSUME NEW j \in Jobs, Ends(j) \/ Claims(j) PROVE LockInvariant'
  <2>1. UNCHANGED ledger /\ \A c \in Commands : inflight[c] => state'[c] = state[c]
    BY <1>2 DEF Ends, Claims, Moves, RowFree
  <2>. QED BY <2>1 DEF ledger
<1>3. ASSUME NEW j \in Jobs, Enqueue(j) \/ SourceChanges(j) PROVE LockInvariant'
  BY <1>1, <1>3 DEF Enqueue, SourceChanges, command
<1>4. ASSUME Reset PROVE LockInvariant'
  BY <1>1, <1>4 DEF Reset, command
<1>5. ASSUME NEW x \in Extracts, Applies(x) PROVE LockInvariant'
  BY <1>1, <1>5 DEF Applies, ledger
<1>6. ASSUME NEW c \in Commands, inflight' = [inflight EXCEPT ![c] = FALSE], inflight[c]
      PROVE  LockInvariant'
  BY <1>6
<1>7. ASSUME NEW c \in Commands, Mutates(c) PROVE LockInvariant'
  BY <1>1, <1>6, <1>7 DEF Mutates
<1>8. ASSUME NEW c \in Commands, Begins(c) PROVE LockInvariant'
  BY <1>8 DEF Begins, Locked
<1>9. ASSUME NEW c \in Commands, GivesUp(c) PROVE LockInvariant'
  BY <1>9 DEF GivesUp
<1>10. ASSUME UNCHANGED <<state, ledger, effects>> PROVE LockInvariant'
  BY <1>10 DEF ledger
<1>. QED BY <1>2, <1>3, <1>4, <1>5, <1>7, <1>8, <1>9, <1>10, StepShape DEF Shape

\* While a command is claimed and undecided, the undecided others at its generation wait
\* behind it: a Forget carries every one of them.
LEMMA OthersAreBehind ==
  ASSUME Inv, NEW c \in Commands, state[c] = "CLAIMED",
         NEW d \in Commands, d # c, state[d] \in Waiting \cup {"CLAIMED"}
  PROVE  Precedes(c, d) /\ state[d] \in Waiting
<1>. USE DEF Inv, TypeOK, RowTypes
<1>1. c \in Sequenced /\ d \in Sequenced
  BY DEF QueueInvariant, Sequenced, Waiting
<1>2. sequence[c] # sequence[d] /\ sequence[c] \in Nat /\ sequence[d] \in Nat
  BY <1>1 DEF QueueInvariant
<1>3. ~Precedes(d, c) BY DEF OrderInvariant, Waiting, Terminal
<1>4. Precedes(c, d) BY <1>1, <1>2, <1>3 DEF Precedes, Sequenced
<1>5. state[d] # "CLAIMED" BY <1>4 DEF OrderInvariant, Terminal
<1>. QED BY <1>4, <1>5

LEMMA GenerationHolds ==
  ASSUME Inv, [Next]_vars
  PROVE  GenerationInvariant'
<1>. USE JobsAssumption DEF Inv, TypeOK, RowTypes, CommandTypes, WorldTypes, GenerationInvariant, Jobs
<1>0. \A c \in Commands : receipt'[c] = "PENDING" => receipt[c] = "PENDING"
  BY ReceiptsAreGiven DEF Given
<1>1. ASSUME UNCHANGED <<snapshot, generation, fenced>>,
             \A j \in Jobs : state[j] # "none" => state'[j] # "none",
             \A c \in Commands : state'[c] \in Waiting \cup {"CLAIMED"} => state[c] \in Waiting \cup {"CLAIMED"}
      PROVE  GenerationInvariant'
  BY <1>1, <1>0
<1>2. ASSUME NEW j \in Jobs, Ends(j) PROVE GenerationInvariant'
  BY <1>1, <1>2 DEF Ends, Moves, ledger, Waiting, Terminal
<1>3. ASSUME NEW j \in Jobs, Claims(j) PROVE GenerationInvariant'
  BY <1>1, <1>3 DEF Claims, JobEligibility, Moves, ledger, Waiting
<1>4. ASSUME NEW x \in Extracts, Applies(x) PROVE GenerationInvariant'
  BY <1>1, <1>4 DEF Applies, ledger, Waiting
<1>5. ASSUME NEW j \in Jobs, Enqueue(j) PROVE GenerationInvariant'
  BY <1>5, <1>0 DEF Enqueue, world
<1>6. ASSUME Reset PROVE GenerationInvariant'
  <2>1. UNCHANGED <<snapshot, state>> /\ generation' = generation + 1 BY <1>6 DEF Reset, rows
  <2>2. \A j \in Jobs : fenced'[j] = (fenced[j] \/ state[j] # "none") BY <1>6 DEF Reset, Fence
  <2>3. \A j \in Jobs : snapshot'[j] <= generation' /\ snapshot'[j] < generation' BY <2>1
  <2>4. \A j \in Jobs : fenced'[j] => state'[j] # "none" BY <2>1, <2>2
  <2>5. \A c \in Commands : state'[c] \in Waiting \cup {"CLAIMED"} => fenced'[c]
    BY <2>1, <2>2 DEF Waiting
  <2>. QED BY <2>3, <2>4, <2>5
<1>7. ASSUME NEW j \in Jobs, SourceChanges(j) PROVE GenerationInvariant'
  BY <1>1, <1>7 DEF SourceChanges, rows
<1>8. ASSUME NEW c \in Commands, Begins(c) \/ GivesUp(c) PROVE GenerationInvariant'
  BY <1>1, <1>8 DEF Begins, GivesUp
<1>9. ASSUME NEW c \in Commands, Mutates(c), c \notin Forgets PROVE GenerationInvariant'
  BY <1>1, <1>9 DEF Mutates, MutateRow
<1>10. ASSUME NEW c \in Commands, Mutates(c), c \in Forgets PROVE GenerationInvariant'
  <2>1. /\ generation' = generation + 1 /\ snapshot' = CarrySuccessors(c)
        /\ UNCHANGED <<state, fenced>> /\ receipt'[c] = "COMMITTED" /\ state[c] = "CLAIMED"
        /\ snapshot[c] = generation
    BY <1>10 DEF Mutates, MutateRow, SourceMatches
  <2>2. \A j \in Jobs : snapshot'[j] = IF /\ j \in Commands /\ Precedes(c, j)
                                          /\ state[j] \in Waiting /\ snapshot[j] = snapshot[c]
                                       THEN snapshot[j] + 1 ELSE snapshot[j]
    BY <2>1 DEF CarrySuccessors
  <2>3. \A j \in Jobs : snapshot'[j] <= generation' BY <2>1, <2>2
  <2>4. \A j \in Jobs : fenced'[j] => state'[j] # "none" /\ snapshot'[j] < generation'
    BY <2>1, <2>2
  <2>5. ASSUME NEW d \in Commands, state'[d] \in Waiting \cup {"CLAIMED"}, receipt'[d] = "PENDING",
               ~fenced'[d]
        PROVE  snapshot'[d] = generation'
    <3>1. d # c BY <2>1, <2>5
    <3>2. snapshot[d] = generation BY <1>0, <2>1, <2>5
    <3>3. Precedes(c, d) /\ state[d] \in Waiting BY <2>1, <2>5, <3>1, OthersAreBehind
    <3>. QED BY <2>1, <2>2, <3>2, <3>3
  <2>. QED BY <2>3, <2>4, <2>5
<1>11. ASSUME UNCHANGED <<state, ledger, effects>> PROVE GenerationInvariant'
  BY <1>1, <1>11 DEF ledger
<1>. QED BY <1>2, <1>3, <1>4, <1>5, <1>6, <1>7, <1>8, <1>9, <1>10, <1>11, StepShape DEF Shape

(***************************************************************************)
(* The theorems.                                                           *)
(***************************************************************************)
LEMMA InitHolds == Init => Inv
<1>. SUFFICES ASSUME Init PROVE Inv OBVIOUS
<1>. USE JobsAssumption DEF Init, Jobs
<1>1. TypeOK
  BY DEF TypeOK, RowTypes, CommandTypes, WorkerTypes, WorldTypes, Receipts, Steps
<1>2. WorkerInvariant /\ ClassifierInvariant
  BY DEF WorkerInvariant, ClassifierInvariant, CommandSteps, GateSteps
<1>6. ReceiptInvariant
  BY DEF ReceiptInvariant, ReceiptTellsTheEffect
<1>3. QueueInvariant
  <2>1. Sequenced = {} BY DEF Sequenced
  <2>. QED BY <2>1, FS_EmptySet DEF QueueInvariant
<1>4. OrderInvariant /\ LockInvariant
  BY DEF OrderInvariant, LockInvariant, Precedes
<1>5. GenerationInvariant
  BY DEF GenerationInvariant, Waiting
<1>. QED BY <1>1, <1>2, <1>3, <1>4, <1>5, <1>6 DEF Inv

\* The inductive invariant holds of every state any number of workers reach.
THEOREM InvariantHolds == Spec => []Inv
<1>1. Inv /\ [Next]_vars => Inv'
  BY TypesStep, WorkerHolds, ReceiptHolds, ClassifierHolds, QueueHolds, OrderHolds, LockHolds,
     GenerationHolds DEF Inv
<1>. QED BY <1>1, InitHolds, PTL DEF Spec

\* Every variable keeps its type.
THEOREM TypesHold == Spec => []TypeOK
BY InvariantHolds, PTL DEF Inv

\* A command takes effect at most once, and its receipt says COMMITTED exactly when it did
\* (terminal and the catch of worker.ts).
THEOREM ReceiptIsTrue == Spec => []ReceiptTellsTheEffect
<1>1. Inv => ReceiptTellsTheEffect BY DEF Inv, ReceiptInvariant
<1>. QED BY <1>1, InvariantHolds, PTL

\* A Forget makes no command behind it obsolete, and a reset makes obsolete every command
\* accepted before it (authorizations.ts).
THEOREM ForgetKeeps == Spec => []ForgetKeepsLaterCommands
<1>1. Inv => ForgetKeepsLaterCommands
  <2>. SUFFICES ASSUME Inv, NEW c \in Commands, state[c] \in Waiting, receipt[c] = "PENDING"
                PROVE  snapshot[c] = generation <=> ~fenced[c]
    BY DEF ForgetKeepsLaterCommands
  <2>. QED BY DEF Inv, TypeOK, RowTypes, WorldTypes, GenerationInvariant, Jobs
<1>. QED BY <1>1, InvariantHolds, PTL

\* The classifier is never paid a third time for one command.
THEOREM ClassifierBound == Spec => []ClassifierPaidAtMostTwice
<1>1. Inv => ClassifierPaidAtMostTwice
  BY DEF Inv, ClassifierInvariant, ClassifierPaidAtMostTwice
<1>. QED BY <1>1, InvariantHolds, PTL

\* A job that takes effect is a claimed command whose source matches, or an extraction whose
\* source matches; neither had an effect before.
LEMMA EffectShape ==
  ASSUME Inv, [Next]_vars, NEW j \in Jobs, effects'[j] > effects[j]
  PROVE  state[j] = "CLAIMED" /\ SourceMatches(j) /\ effects[j] = 0
<1>. USE JobsAssumption DEF Inv, TypeOK, RowTypes, WorldTypes, Jobs
<1>1. ASSUME NEW x \in Extracts, Applies(x)
      PROVE  state[j] = "CLAIMED" /\ SourceMatches(j) /\ effects[j] = 0
  <2>1. j = x BY <1>1 DEF Applies
  <2>2. state[j] = "CLAIMED" /\ SourceMatches(j) BY <1>1, <2>1 DEF Applies
  <2>3. ~(effects[j] > 0) BY <2>1, <2>2 DEF OrderInvariant, Terminal
  <2>. QED BY <2>2, <2>3
<1>2. ASSUME NEW c \in Commands, Mutates(c)
      PROVE  state[j] = "CLAIMED" /\ SourceMatches(j) /\ effects[j] = 0
  <2>1. j = c BY <1>2 DEF Mutates, MutateRow
  <2>2. state[j] = "CLAIMED" /\ SourceMatches(j) /\ ~consumed[c] BY <1>2, <2>1 DEF Mutates
  <2>. QED BY <2>1, <2>2 DEF ReceiptInvariant, ReceiptTellsTheEffect
<1>3. (\E x \in Extracts : Applies(x)) \/ (\E c \in Commands : Mutates(c))
  <2>1. effects' # effects OBVIOUS
  <2>. QED BY <2>1, StepShape DEF Shape, Reset, Enqueue, SourceChanges, Ends, Claims, Moves, Begins,
       GivesUp
<1>. QED BY <1>1, <1>2, <1>3

\* The commands take effect in the order they were accepted (jobEligibility).
THEOREM InOrder == Spec => CommandsTakeEffectInOrder
<1>1. Inv /\ [Next]_vars =>
        [\A c, d \in Commands : effects'[c] > effects[c] =>
           /\ Precedes(c, d) => effects[d] = 0
           /\ Precedes(d, c) => state[d] \in Terminal]_vars
  <2>. SUFFICES ASSUME Inv, [Next]_vars, NEW c \in Commands, NEW d \in Commands,
                       effects'[c] > effects[c]
                PROVE  /\ Precedes(c, d) => effects[d] = 0
                       /\ Precedes(d, c) => state[d] \in Terminal
    OBVIOUS
  <2>1. state[c] = "CLAIMED" BY EffectShape DEF Jobs
  <2>2. Precedes(c, d) => ~(effects[d] > 0) BY <2>1 DEF Inv, OrderInvariant, Terminal
  <2>3. effects[d] \in Nat BY DEF Inv, TypeOK, WorldTypes, Jobs
  <2>. QED BY <2>1, <2>2, <2>3 DEF Inv, OrderInvariant
<1>. QED BY <1>1, InvariantHolds, PTL DEF Spec, CommandsTakeEffectInOrder

\* No job takes effect once its message changed or a reset fenced it, and an extraction
\* applies at most once, after the command of its message has ended.
THEOREM NothingObsolete == Spec => NothingObsoleteTakesEffect
<1>1. Inv /\ [Next]_vars =>
        [\A j \in Jobs : effects'[j] > effects[j] =>
           /\ current[j] /\ ~fenced[j] /\ effects[j] = 0
           /\ j \in Extracts => state[SourceOf[j]] \in Terminal]_vars
  <2>. SUFFICES ASSUME Inv, [Next]_vars, NEW j \in Jobs, effects'[j] > effects[j]
                PROVE  /\ current[j] /\ ~fenced[j] /\ effects[j] = 0
                       /\ j \in Extracts => state[SourceOf[j]] \in Terminal
    OBVIOUS
  <2>1. state[j] = "CLAIMED" /\ SourceMatches(j) /\ effects[j] = 0 BY EffectShape
  <2>2. ~fenced[j]
    BY <2>1 DEF Inv, TypeOK, RowTypes, WorldTypes, GenerationInvariant, SourceMatches
  <2>3. current[j] BY <2>1 DEF SourceMatches
  <2>. QED BY <2>1, <2>2, <2>3 DEF Inv, OrderInvariant
<1>. QED BY <1>1, InvariantHolds, PTL DEF Spec, NothingObsoleteTakesEffect
=============================================================================
