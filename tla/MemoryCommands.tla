---------------------------- MODULE MemoryCommands ----------------------------
(***************************************************************************)
(* The Memory coordinator's queue, for one user's commands ("remember      *)
(* this", "forget that") and the extraction of facts from their messages:  *)
(* jobs are rows claimed under a lease by workers of any process, a        *)
(* command takes effect at most once whatever becomes of its worker, in    *)
(* the order the commands were accepted, and extraction waits for the      *)
(* command of its own message.  Every action is one transaction, or the    *)
(* end of one call to a model.  Time is the lease of each claim, which is  *)
(* live or expired; a worker reads its clock before it writes.             *)
(***************************************************************************)
EXTENDS Naturals, FiniteSets

CONSTANTS
  Commands,     \* the user's commands, each the job of one message
  Forgets,      \* those that ask to forget, which advance the generation
  Extracts,     \* jobs that extract facts
  SourceOf,     \* the command of the message an extraction reads
  Workers,      \* workers, of any number of processes
  MaxAttempts,  \* maxJobAttempts
  MaxLost,      \* bound: leases a worker that still runs loses, and workers that end
  MaxResets,    \* bound: resets of Memory outside the commands
  NoJob

Jobs == Commands \cup Extracts

ASSUME JobsAssumption ==
  /\ Forgets \subseteq Commands
  /\ Commands \cap Extracts = {}
  /\ SourceOf \in [Extracts -> Commands]
  /\ NoJob \notin Jobs
ASSUME BoundsAssumption ==
  /\ MaxAttempts \in Nat
  /\ MaxLost \in Nat
  /\ MaxResets \in Nat

VARIABLES
  \* A job's row: its state, its lease, its attempts, which number the claims made of
  \* it (the last is its lease token), the generation it was accepted under, and its
  \* place among the user's commands.
  state, lease, claims, snapshot, sequence,
  \* A command's receipt, its checkpoint, the claim its authorization was minted
  \* for, whether that was consumed, its classifier call, and whether its mutation's
  \* transaction outlives the connection that asked for it.
  receipt, intent, evidence, consumed, binding, inflight,
  \* The user's Memory generation; jobs whose message is as it was.
  generation, current,
  \* Workers: the step, the job and claim held, whether the clock read before the
  \* write now under way was within the lease, and the outcome to be written.
  pc, job, token, timely, outcome,
  \* What happened: mutations and extractions that took effect, classifier calls,
  \* commands fenced by a reset, leases lost and resets made.
  effects, calls, fenced, lost, resets

rows    == <<state, lease, claims, snapshot, sequence>>
work    == <<intent, evidence>>
command == <<work, receipt, consumed, binding, calls, inflight>>
worker  == <<pc, job, token, timely, outcome>>
world   == <<generation, current, fenced, resets>>
vars    == <<rows, command, worker, world, effects, lost>>

\* "FAILED" stands for the terminal states TERMINAL_FAILED, STALE and CANCELLED, and
\* "REFUSED" for the receipts REJECTED, AMBIGUOUS, FAILED, UNKNOWN and STALE, each of
\* which says that nothing was done.
Terminal == {"SUCCEEDED", "FAILED"}
Waiting  == {"QUEUED", "RETRYABLE_FAILED", "WAITING_FOR_CONFIGURATION"}
Receipts == {"PENDING", "COMMITTED", "REFUSED"}

\* The steps of a worker on a command, and at the gates of an extraction.
CommandSteps == {"read", "classify", "answer", "mint", "mutate", "catch", "receipt"}
GateSteps    == {"gate", "settleGate"}
Steps        == CommandSteps \cup GateSteps \cup {"idle", "commit", "fail"}

RowTypes ==
  /\ state \in [Jobs -> Terminal \cup Waiting \cup {"none", "CLAIMED"}]
  /\ lease \in [Jobs -> {"none", "live", "expired"}]
  /\ claims \in [Jobs -> Nat]
  /\ snapshot \in [Jobs -> Nat] /\ sequence \in [Commands -> Nat]
CommandTypes ==
  /\ receipt \in [Commands -> Receipts] /\ intent \in [Commands -> {"none", "act"}]
  /\ evidence \in [Commands -> Nat] /\ consumed \in [Commands -> BOOLEAN]
  /\ binding \in [Commands -> {"none", "running", "retry", "running2", "settled"}]
  /\ inflight \in [Commands -> BOOLEAN] /\ calls \in [Commands -> Nat]
WorkerTypes ==
  /\ pc \in [Workers -> Steps]
  /\ job \in [Workers -> Jobs \cup {NoJob}] /\ token \in [Workers -> Nat]
  /\ timely \in [Workers -> BOOLEAN]
  /\ outcome \in [Workers -> Receipts \cup Terminal \cup Waiting \cup {"none"}]
WorldTypes ==
  /\ generation \in Nat /\ current \in [Jobs -> BOOLEAN]
  /\ fenced \in [Jobs -> BOOLEAN] /\ resets \in Nat
  /\ effects \in [Jobs -> Nat] /\ lost \in Nat
TypeOK == RowTypes /\ CommandTypes /\ WorkerTypes /\ WorldTypes

Init ==
  /\ state = [j \in Jobs |-> "none"] /\ lease = [j \in Jobs |-> "none"]
  /\ claims = [j \in Jobs |-> 0]
  /\ snapshot = [j \in Jobs |-> 0] /\ sequence = [c \in Commands |-> 0]
  /\ receipt = [c \in Commands |-> "PENDING"] /\ intent = [c \in Commands |-> "none"]
  /\ evidence = [c \in Commands |-> 0] /\ consumed = [c \in Commands |-> FALSE]
  /\ binding = [c \in Commands |-> "none"]
  /\ inflight = [c \in Commands |-> FALSE]
  /\ generation = 0 /\ current = [j \in Jobs |-> TRUE]
  /\ pc = [w \in Workers |-> "idle"] /\ job = [w \in Workers |-> NoJob]
  /\ token = [w \in Workers |-> 0] /\ timely = [w \in Workers |-> FALSE]
  /\ outcome = [w \in Workers |-> "none"]
  /\ effects = [j \in Jobs |-> 0] /\ calls = [c \in Commands |-> 0]
  /\ fenced = [j \in Jobs |-> FALSE] /\ lost = 0 /\ resets = 0
-----------------------------------------------------------------------------
(* The lease *)

Holds(w) == state[job[w]] = "CLAIMED" /\ token[w] = claims[job[w]]
InTime(w) == Holds(w) /\ lease[job[w]] = "live"

\* What every write of a worker requires of the row: the claim is still its own, and
\* the clock it read beforehand was within the lease, or the lease was extended since.
Leased(w) == Holds(w) /\ (timely[w] \/ lease[job[w]] = "live")

\* A mutation's transaction holds the user's settings, the source and the job's row.
Locked == \E c \in Commands : inflight[c]
RowFree(j) == j \in Commands => ~inflight[j]

Step(w, next) ==
  /\ pc' = [pc EXCEPT ![w] = next]
  /\ timely' = [timely EXCEPT ![w] = FALSE] /\ outcome' = [outcome EXCEPT ![w] = "none"]
  /\ UNCHANGED <<job, token>>

\* The next step writes: the worker reads its clock and computes what to write.
ToWrite(w, next, what) ==
  /\ pc' = [pc EXCEPT ![w] = next]
  /\ timely' = [timely EXCEPT ![w] = InTime(w)]
  /\ outcome' = [outcome EXCEPT ![w] = what]
  /\ UNCHANGED <<job, token>>

Idle(w) ==
  /\ pc' = [pc EXCEPT ![w] = "idle"] /\ job' = [job EXCEPT ![w] = NoJob]
  /\ token' = [token EXCEPT ![w] = 0] /\ timely' = [timely EXCEPT ![w] = FALSE]
  /\ outcome' = [outcome EXCEPT ![w] = "none"]

\* commandIntent and commandResult are emptied.
ClearWork(c) ==
  /\ intent' = [intent EXCEPT ![c] = "none"]
  /\ evidence' = [evidence EXCEPT ![c] = 0]

\* The job leaves its claim for a state of its own.
Settle(j, to) ==
  /\ state' = [state EXCEPT ![j] = to]
  /\ lease' = [lease EXCEPT ![j] = "none"]
  /\ UNCHANGED <<claims, snapshot, sequence>>
  /\ IF to \in Terminal /\ j \in Commands THEN ClearWork(j) ELSE UNCHANGED work

\* A write of the worker's outcome, which is lost with the lease.
SettleIfLeased(w, to) ==
  IF Leased(w) THEN Settle(job[w], to) ELSE UNCHANGED <<rows, work>>

\* The exact message and generation the job was accepted for are still the user's.
SourceMatches_Fault(j) == current[j]
SourceMatches_AnyText(j) == snapshot[j] = generation
SourceMatches(j) == current[j] /\ snapshot[j] = generation
-----------------------------------------------------------------------------
(* The world outside the coordinator *)

Enqueue(j) ==
  /\ state[j] = "none" /\ ~Locked
  /\ j \in Extracts => state[SourceOf[j]] # "none"
  /\ state' = [state EXCEPT ![j] = "QUEUED"]
  /\ snapshot' = [snapshot EXCEPT ![j] = generation]
  /\ sequence' = IF j \in Commands
                 THEN [sequence EXCEPT ![j] = 1 + Cardinality({c \in Commands : sequence[c] > 0})]
                 ELSE sequence
  /\ UNCHANGED <<lease, claims, command, worker, world, effects, lost>>

\* History: every job accepted so far is fenced by a reset.
Fence == fenced' = [j \in Jobs |-> fenced[j] \/ state[j] # "none"]

\* A mutation made in the user's settings advances the generation.
Reset ==
  /\ resets < MaxResets /\ ~Locked
  /\ resets' = resets + 1
  /\ generation' = generation + 1
  /\ Fence
  /\ UNCHANGED <<rows, command, worker, current, effects, lost>>

\* The message is edited, its branch left, or its chat deleted.
SourceChanges(j) ==
  /\ resets < MaxResets /\ current[j] /\ state[j] # "none" /\ ~Locked
  /\ resets' = resets + 1
  /\ current' = [current EXCEPT ![j] = FALSE]
  /\ UNCHANGED <<rows, command, worker, generation, fenced, effects, lost>>
-----------------------------------------------------------------------------
(* Claims *)

Precedes(d, c) == sequence[d] > 0 /\ sequence[d] < sequence[c]

JobEligibility_Fault(j) ==
  /\ \/ state[j] = "QUEUED"
     \/ state[j] = "CLAIMED" /\ lease[j] = "expired"
  /\ j \in Commands =>
       \A d \in Commands : Precedes(d, j) => state[d] \notin {"QUEUED", "CLAIMED"}
  /\ j \in Extracts => state[SourceOf[j]] \in Terminal

JobEligibility_NoRecovery(j) ==
  /\ state[j] = "QUEUED"
  /\ j \in Commands => \A d \in Commands : Precedes(d, j) => state[d] \in Terminal
  /\ j \in Extracts => state[SourceOf[j]] \in Terminal

JobEligibility(j) ==
  /\ \/ state[j] = "QUEUED"
     \/ state[j] = "CLAIMED" /\ lease[j] = "expired"
  /\ j \in Commands => \A d \in Commands : Precedes(d, j) => state[d] \in Terminal
  /\ j \in Extracts => state[SourceOf[j]] \in Terminal

ClaimJob(w, j) ==
  /\ pc[w] = "idle" /\ JobEligibility(j) /\ RowFree(j)
  /\ state' = [state EXCEPT ![j] = "CLAIMED"] /\ lease' = [lease EXCEPT ![j] = "live"]
  /\ claims' = [claims EXCEPT ![j] = @ + 1]
  /\ pc' = [pc EXCEPT ![w] = IF j \in Commands THEN "read" ELSE "gate"]
  /\ job' = [job EXCEPT ![w] = j] /\ token' = [token EXCEPT ![w] = claims[j] + 1]
  /\ UNCHANGED <<snapshot, sequence, timely, outcome, command, world, effects, lost>>

Working(j) == \E w \in Workers : job[w] = j /\ Holds(w)

\* A heartbeat that does not come in time, from a worker that still runs or has ended.
Expire(j) ==
  /\ state[j] = "CLAIMED" /\ lease[j] = "live"
  /\ IF Working(j) THEN lost < MaxLost /\ lost' = lost + 1 ELSE UNCHANGED lost
  /\ lease' = [lease EXCEPT ![j] = "expired"]
  /\ UNCHANGED <<state, claims, snapshot, sequence, command, worker, world, effects>>

\* A heartbeat whose clock was read within the lease arrives after its end.
HeartbeatJob(w) ==
  /\ pc[w] # "idle" /\ Holds(w) /\ lease[job[w]] = "expired" /\ RowFree(job[w])
  /\ lease' = [lease EXCEPT ![job[w]] = "live"]
  /\ UNCHANGED <<state, claims, snapshot, sequence, command, worker, world, effects, lost>>

\* The worker ends without a write: a refused heartbeat, a stop, a crash.
Abandon(w) ==
  /\ pc[w] # "idle" /\ lost < MaxLost
  /\ lost' = lost + 1
  /\ Idle(w)
  /\ UNCHANGED <<rows, command, world, effects>>
-----------------------------------------------------------------------------
(* Extraction: the gate, the model's work, the gate again, the commit *)

\* Each gate may find the source gone, or configuration missing.
Gate(w) ==
  /\ pc[w] = "gate"
  /\ \/ SourceMatches(job[w]) /\ ToWrite(w, "commit", "none")
     \/ ~SourceMatches(job[w]) /\ ToWrite(w, "settleGate", "FAILED")
     \/ resets < MaxResets /\ ToWrite(w, "settleGate", "WAITING_FOR_CONFIGURATION")
  /\ resets' = IF outcome'[w] = "WAITING_FOR_CONFIGURATION" THEN resets + 1 ELSE resets
  /\ UNCHANGED <<rows, command, generation, current, fenced, effects, lost>>

SettleJobGate(w) ==
  /\ pc[w] = "settleGate"
  /\ SettleIfLeased(w, outcome[w])
  /\ Idle(w)
  /\ UNCHANGED <<receipt, consumed, binding, calls, inflight, world, effects, lost>>

ResolveWaitingJob(j) ==
  /\ state[j] = "WAITING_FOR_CONFIGURATION"
  /\ \/ SourceMatches(j) /\ state' = [state EXCEPT ![j] = "QUEUED"]
     \/ ~SourceMatches(j) /\ state' = [state EXCEPT ![j] = "FAILED"]
  /\ UNCHANGED <<lease, claims, snapshot, sequence, command, worker, world, effects, lost>>

CommitJobSuccess(w) ==
  /\ pc[w] = "commit" /\ job[w] \in Extracts /\ ~Locked
  /\ IF ~Leased(w) THEN UNCHANGED <<rows, work, effects>>
     ELSE IF SourceMatches(job[w])
          THEN /\ Settle(job[w], "SUCCEEDED")
               /\ effects' = [effects EXCEPT ![job[w]] = @ + 1]
          ELSE Settle(job[w], "FAILED") /\ UNCHANGED effects
  /\ Idle(w)
  /\ UNCHANGED <<receipt, consumed, binding, calls, inflight, world, lost>>
-----------------------------------------------------------------------------
(* A command *)

\* requireMemoryCommandSource, in a transaction that holds the user's settings.
CommandSource(w) == ~Locked /\ InTime(w) /\ SourceMatches(job[w])

\* A settled command is only reported; an obsolete one, or one whose source could not
\* be read, ends; one with a checkpoint goes on from it.
Read(w) ==
  LET c == job[w] IN
  /\ pc[w] = "read"
  /\ \/ receipt[c] # "PENDING" /\ ToWrite(w, "receipt", receipt[c])
     \/ receipt[c] = "PENDING" /\ ToWrite(w, "receipt", "REFUSED")
     \/ receipt[c] = "PENDING" /\ CommandSource(w) /\ intent[c] = "none" /\ Step(w, "classify")
     \/ receipt[c] = "PENDING" /\ CommandSource(w) /\ intent[c] = "act" /\ Step(w, "mint")
  /\ UNCHANGED <<rows, command, world, effects, lost>>

\* A call already made whose answer is not on record is never bought again; one that
\* failed in a way safe to repeat earns the second slot.
Classify_Fault(w) ==
  LET c == job[w] IN
  /\ pc[w] = "classify"
  /\ binding' = [binding EXCEPT ![c] = IF @ = "retry" THEN "running2" ELSE "running"]
  /\ calls' = [calls EXCEPT ![c] = @ + 1]
  /\ Step(w, "answer")
  /\ UNCHANGED <<rows, receipt, intent, evidence, consumed, inflight, world, effects, lost>>

Classify(w) ==
  LET c == job[w] IN
  /\ pc[w] = "classify"
  /\ \/ /\ binding[c] \in {"none", "retry"}
        /\ binding' = [binding EXCEPT ![c] = IF @ = "none" THEN "running" ELSE "running2"]
        /\ calls' = [calls EXCEPT ![c] = @ + 1]
        /\ Step(w, "answer")
     \/ /\ binding[c] \notin {"none", "retry"}
        /\ ToWrite(w, "receipt", "REFUSED")
        /\ UNCHANGED <<binding, calls>>
  /\ UNCHANGED <<rows, receipt, intent, evidence, consumed, inflight, world, effects, lost>>

\* The answer, and in a second transaction its checkpoint; an answer that asks for
\* nothing, and one whose checkpoint is refused, end the command.
Answer(w) ==
  LET c == job[w] IN
  /\ pc[w] = "answer"
  /\ \/ /\ CommandSource(w)
        /\ intent' = [intent EXCEPT ![c] = "act"]
        /\ binding' = [binding EXCEPT ![c] = "settled"]
        /\ Step(w, "mint")
     \/ /\ binding[c] = "running" /\ Step(w, "classify")
        /\ binding' = [binding EXCEPT ![c] = "retry"] /\ UNCHANGED intent
     \/ /\ ToWrite(w, "receipt", "REFUSED")
        /\ binding' = [binding EXCEPT ![c] = "settled"] /\ UNCHANGED intent
  /\ UNCHANGED <<rows, receipt, evidence, consumed, calls, inflight, world, effects, lost>>

\* The authorization is one row per command; whoever mints records its own claim.
\* An action that finds no target, or several, mints nothing.
Mint(w) ==
  LET c == job[w] IN
  /\ pc[w] = "mint"
  /\ \/ /\ CommandSource(w) /\ ~consumed[c]
        /\ evidence' = [evidence EXCEPT ![c] = token[w]]
        /\ Step(w, "mutate")
     \/ Step(w, "catch") /\ UNCHANGED evidence
     \/ ToWrite(w, "receipt", "REFUSED") /\ UNCHANGED evidence
  /\ UNCHANGED <<rows, receipt, intent, consumed, binding, calls, inflight, world, effects, lost>>

\* A Forget advances the generation, and carries the commands queued behind it.
CarrySuccessors_Fault(c) == snapshot
CarrySuccessors_Sign(c) ==
  [j \in Jobs |-> IF j \in Commands /\ Precedes(c, j) THEN snapshot[j] - 1 ELSE snapshot[j]]
CarrySuccessors(c) ==
  [j \in Jobs |-> IF /\ j \in Commands /\ Precedes(c, j)
                     /\ state[j] \in Waiting /\ snapshot[j] = snapshot[c]
                  THEN snapshot[j] + 1 ELSE snapshot[j]]

\* consumeMemoryMutationAuthorization with the mutation, in one transaction: the
\* authorization is the current claim's, unconsumed, and the source still matches.
Consumable(c) ==
  /\ ~Locked /\ state[c] = "CLAIMED" /\ lease[c] = "live"
  /\ SourceMatches(c) /\ evidence[c] = claims[c] /\ ~consumed[c]

MutateRow(c) ==
  /\ consumed' = [consumed EXCEPT ![c] = TRUE]
  /\ receipt' = [receipt EXCEPT ![c] = "COMMITTED"]
  /\ effects' = [effects EXCEPT ![c] = @ + 1]
  /\ IF c \in Forgets
     THEN generation' = generation + 1 /\ snapshot' = CarrySuccessors(c)
     ELSE UNCHANGED <<generation, snapshot>>

\* The mutation commits and its reply comes or is lost; it is refused; or the connection
\* is lost while the database still decides.
Mutate(w) ==
  LET c == job[w] IN
  /\ pc[w] = "mutate"
  /\ \/ /\ Consumable(c) /\ MutateRow(c)
        /\ ToWrite(w, "receipt", "COMMITTED") \/ Step(w, "catch")
        /\ UNCHANGED inflight
     \/ /\ Consumable(c) /\ inflight' = [inflight EXCEPT ![c] = TRUE]
        /\ Step(w, "catch")
        /\ UNCHANGED <<consumed, receipt, effects, generation, snapshot>>
     \/ /\ Step(w, "catch")
        /\ UNCHANGED <<consumed, receipt, effects, generation, snapshot, inflight>>
  /\ UNCHANGED <<state, lease, claims, sequence, intent, evidence, binding, calls,
                 current, fenced, resets, lost>>

LateDecision(c) ==
  /\ inflight[c] /\ inflight' = [inflight EXCEPT ![c] = FALSE]
  /\ MutateRow(c) \/ UNCHANGED <<consumed, receipt, effects, generation, snapshot>>
  /\ UNCHANGED <<state, lease, claims, sequence, intent, evidence, binding, calls, worker,
                 current, fenced, resets, lost>>

\* After a failure the receipt says whether the mutation happened.
Catch(w) ==
  /\ pc[w] = "catch"
  /\ ToWrite(w, "receipt", IF receipt[job[w]] = "COMMITTED" THEN "COMMITTED" ELSE "REFUSED")
  /\ UNCHANGED <<rows, command, world, effects, lost>>

\* terminal: a committed receipt is never replaced.
MayReplace_Fault(c) == TRUE
MayReplace(c) == receipt[c] # "COMMITTED"

WriteReceipt(w) ==
  LET c == job[w] IN
  /\ pc[w] = "receipt" /\ RowFree(c)
  /\ receipt' = IF Leased(w) /\ MayReplace(c)
                THEN [receipt EXCEPT ![c] = outcome[w]] ELSE receipt
  /\ IF Leased(w) THEN ClearWork(c) ELSE UNCHANGED work
  /\ ToWrite(w, "commit", "none")
  /\ UNCHANGED <<rows, consumed, binding, calls, inflight, world, effects, lost>>

\* Queue settlement of a command never applies it: it needs a receipt.
CommitCommand(w) ==
  /\ pc[w] = "commit" /\ job[w] \in Commands /\ ~Locked
  /\ IF Leased(w) /\ receipt[job[w]] # "PENDING" THEN Settle(job[w], "SUCCEEDED")
     ELSE UNCHANGED <<rows, work>>
  /\ Idle(w)
  /\ UNCHANGED <<receipt, consumed, binding, calls, inflight, world, effects, lost>>
-----------------------------------------------------------------------------
(* Failure and reconciliation *)

\* A database or provider failure outside what a step handles itself, as at every step
\* but the mutation, which is tried: its catch reads the receipt, and may fail there.
Throw(w) ==
  /\ pc[w] \in {"gate", "commit"} \cup (CommandSteps \ {"mutate"})
  /\ ToWrite(w, "fail", "none")
  /\ UNCHANGED <<rows, command, world, effects, lost>>

\* retryJob while attempts remain, unless the failure is not retryable; else the gate's
\* fence or terminalJob.  The row may also be left as it is, when this write fails too.
FailJob(w) ==
  LET j == job[w] IN
  /\ pc[w] = "fail" /\ RowFree(j)
  /\ \/ claims[j] < MaxAttempts /\ SettleIfLeased(w, "RETRYABLE_FAILED") /\ UNCHANGED lost
     \/ SettleIfLeased(w, "FAILED") /\ UNCHANGED lost
     \/ lost < MaxLost /\ lost' = lost + 1 /\ UNCHANGED <<rows, work>>
  /\ Idle(w)
  /\ UNCHANGED <<receipt, consumed, binding, calls, inflight, world, effects>>

RequeueDueJob(j) ==
  /\ state[j] = "RETRYABLE_FAILED"
  /\ state' = [state EXCEPT ![j] = "QUEUED"]
  /\ UNCHANGED <<lease, claims, snapshot, sequence, command, worker, world, effects, lost>>

\* terminalUnavailableJobs and cancelUnavailableJobOwners: a kind no handler serves, or
\* an owner who left, ends the jobs nobody works on in time.
EndUnavailable(j) ==
  /\ resets < MaxResets /\ RowFree(j)
  /\ state[j] \in Waiting \/ (state[j] = "CLAIMED" /\ lease[j] = "expired")
  /\ Settle(j, "FAILED")
  /\ resets' = resets + 1
  /\ UNCHANGED <<receipt, consumed, binding, calls, inflight, worker, generation, current, fenced,
                 effects, lost>>

CommandStep(w) ==
  Read(w) \/ Classify(w) \/ Answer(w) \/ Mint(w) \/ Mutate(w) \/ Catch(w)
    \/ WriteReceipt(w) \/ CommitCommand(w)
WorkerStep(w) ==
  Gate(w) \/ SettleJobGate(w) \/ CommitJobSuccess(w) \/ CommandStep(w) \/ FailJob(w)

Next ==
  \/ Reset
  \/ \E j \in Jobs : Enqueue(j) \/ SourceChanges(j) \/ Expire(j) \/ ResolveWaitingJob(j)
                       \/ RequeueDueJob(j) \/ EndUnavailable(j)
  \/ \E c \in Commands : LateDecision(c)
  \/ \E w \in Workers : WorkerStep(w) \/ Throw(w) \/ HeartbeatJob(w) \/ Abandon(w)
                          \/ \E j \in Jobs : ClaimJob(w, j)

Spec == Init /\ [][Next]_vars

Fairness ==
  /\ \A w \in Workers : WF_vars(WorkerStep(w))
  /\ \A c \in Commands : WF_vars(LateDecision(c))
  /\ \A j \in Jobs : WF_vars(RequeueDueJob(j)) /\ WF_vars(\E w \in Workers : ClaimJob(w, j))
  /\ \A j \in Jobs : WF_vars(~Working(j) /\ Expire(j))
FairSpec == Spec /\ Fairness
-----------------------------------------------------------------------------
(* Properties *)

\* A command takes effect at most once, and its receipt tells the user the truth: it is
\* COMMITTED exactly when the command took effect, whichever workers tried it and
\* whatever replies were lost (terminal and the catch of worker.ts; the consumed
\* authorization).
ReceiptTellsTheEffect ==
  \A c \in Commands : effects[c] = (IF receipt[c] = "COMMITTED" THEN 1 ELSE 0)

\* The user's commands take effect in the order they were accepted: none takes effect
\* once a later one has, nor before every earlier one has ended (jobEligibility, and
\* recovery that never revives a command).
CommandsTakeEffectInOrder ==
  [][\A c, d \in Commands : effects'[c] > effects[c] =>
       /\ Precedes(c, d) => effects[d] = 0
       /\ Precedes(d, c) => state[d] \in Terminal]_vars

\* A Forget never makes the commands queued behind it obsolete, and a reset from
\* outside makes obsolete every command accepted before it: the generation a waiting
\* command carries is the user's unless a reset fenced it (authorizations.ts).
ForgetKeepsLaterCommands ==
  \A c \in Commands : state[c] \in Waiting /\ receipt[c] = "PENDING" =>
    (snapshot[c] = generation <=> ~fenced[c])

\* Nothing whose message is no longer as it was, and nothing a reset made obsolete, takes
\* effect, whenever the message changed or the reset came after the job was accepted; and
\* extraction applies at most once, after the command of its own message has ended
\* (memorySourceJobSnapshotMatches and requireMemoryCommandSource).
NothingObsoleteTakesEffect ==
  [][\A j \in Jobs : effects'[j] > effects[j] =>
       /\ current[j] /\ ~fenced[j] /\ effects[j] = 0
       /\ j \in Extracts => state[SourceOf[j]] \in Terminal]_vars

\* The classifier is paid at most twice for one command (the reserved second slot).
ClassifierPaidAtMostTwice == \A c \in Commands : calls[c] <= 2

\* Every command accepted is settled, so that the ones behind it can proceed.
EveryCommandSettles ==
  \A c \in Commands : state[c] # "none" ~> state[c] \in Terminal
=============================================================================
