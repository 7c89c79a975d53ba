# A verification development of AIQSA

AIQSA is a self-hosted assistant: a Next.js server over PostgreSQL whose *native engine* runs each answer
as a long-lived execution in one application process, beside background jobs (document preparation, Memory,
scheduled tasks, sub-agents), shared Workspaces, and a relay to the user's own computer.  This directory
holds TLA+ modules of its core and of the protocols around it, the TLC configurations that model-check them,
and theorems about them that TLAPS checks.  Paths below are relative to `src/lib/server/` of the repository unless they say otherwise.

Modules, each with an `MC` module that gives it instances and a `Proofs` module with its theorems:

- `NativeRun`, the life of a main-agent run; `AnswerContract`, what it promises.
- `MemoryCommands`, the Memory coordinator's queue and a user's commands.
- `ConnectRelay`, the relay to a user's computer together with the client there.
- `UnknownEffects`, calls whose effect stayed unknown, and approvals.
- `SubagentCallbacks`, what background sub-agents owe the main agent.

`Greatest` holds a lemma the proofs share.

`PROJECT.json` maps every definition to the lines it models, lists the hazards of the code at the lines
where they bite, and gives for each property a fault that breaks it.

## 1. The system

| Component | State it keeps | Operations | What is hard | What makes it correct |
| --- | --- | --- | --- | --- |
| **Execution of a main-agent run** (`engine/execution.ts`, `loop.ts`, `answerStream.ts`, `runStore.ts`) | in memory: controller, deadline, text, follow-up revision, round; in the database: the run's status, `answerCompletedAt`, the answer's message | start, check, stream, call tools, deliver or close follow-ups, publish, hand off, complete, catch block, finally | dozens of awaits between which Stop, follow-ups, a deadline, an interruption, failing writes and lost replies may come | ends exactly once; publishes at most once, having read every accepted follow-up; a published answer stands; no text on record is lost |
| **Recovery** (`engine/recovery.ts`, `runs/recoveryScheduler.ts`) | one pass at a time: live runs read, orphans found | read the registry, query, recheck, settle each | decides from what was read two awaits before | settles every abandoned run, never one that is owned |
| **Registry, Stop, interruption** (`runs/activeRunControllerRegistry.ts`, `runs/handlers.ts`, `engine/runInterruption.ts`) | controllers by run, interruption marks | register, abort (which forgets), mark, take the mark | the durable cancellation comes first, the abort later or never | an active run something holds is registered |
| **Run and call rows** (`runs/prismaRepository*.ts`, `engine/toolCallStore.ts`) | status, message, tool calls | cancel, fail, complete, save text, begin and settle a call | racing transactions under one row lock | no ended run has a call recorded as running |
| **Follow-ups** (`runs/prismaRepositoryFollowups.ts`, `runs/subagentBackground/store.ts`) | revision, delivered ones, closed | accept, add, load, deliver, close | acceptance races closing and publication | none is left behind by an answer |
| **Admission and preparation** (`runs/prismaRepositoryPreparation.ts`) | preparation attempt, Memory binding | admit, prepare, finalize, fail | a gap between two registrations | one active run per chat |
| **Chat PDF preparation** (`uploads/chatPdf*.ts`) | claims, pages, attempts, a dispatch mark | claim, prepare, continue, mark, fail, release | ownership passes from the job to the execution, and after a crash to recovery | exactly one owner of an abandoned run |
| **Unknown effects, approvals, tool batches** (`engine/unknownEffects.ts`, `toolBatch.ts`, `mcp/writeApprovalRepository.ts`) | effect fences, approvals | begin, settle, fence, ask, decide, consume | retries of what may have happened | no effect is repeated without a decision |
| **Transcript and context** (`engine/transcript*.ts`) | items by sequence | append, compact, load | best-effort writes behind the answer | calls are on record before they are sent |
| **Background sub-agents** (`engine/subagents/`, `runs/subagentBackground/`) | threads, turns, owed callbacks | start, claim, flush, re-owe, wake up | a callback claimed by a run that ends unread | each callback is read once |
| **Workspace follow-up coordinator**, **Workspaces** (`runs/workspaceFollowup*.ts`, `workspace/`) | leases, generations, attachments | wait, take over, drain, clean up | old and new generations overlap | one generation at a time writes |
| **Memory coordinator** (`memory/coordinator/`) | leased jobs | claim, heartbeat, commit, retry | an expired worker commits late | one commit per job |
| **Scheduled tasks and webhooks** (`scheduledTasks/`) | due occurrences | claim, admit, settle | two ticks, a manual start, downtime | one run per occurrence |
| **Connect relay and daemon** (`connect/`, Go under `connect/` of the repository) | pending requests, outbox | send, reply, time out, cancel, reconnect | late replies | one outcome per request |
| **Telegram, email, push** | outboxes | claim, send part, confirm | a partially sent or unknown message | nothing is sent twice |
| **Usage limits, MCP OAuth, deletion and retention** | counters, tokens, deletion state | reserve, refresh, delete, resume | concurrent callers, crashes between steps | limits hold, one refresh, deletion finishes |
| Provider adapters, document parsing, research, Memory retrieval, sign-in, artifacts and other records, user interface | - | - | I/O, data, or one transaction per request | - |

How they meet: an HTTP request admits a run in the database, prepares it with Memory under a registration
in the registry (or leaves it to the document job), and starts the execution, which replaces that
registration with its own.  Follow-ups and Stop arrive by other requests and reach the execution through
the database; Stop and interruptions also reach it through the registry.  Recovery reads the registry and
the database every ten seconds.  After a crash only the database is left.

## 2. What is modelled

### `NativeRun`

Every action is one database transaction, or one stretch of JavaScript between two awaits.

| Variables | In the code |
| --- | --- |
| `status`, `answered`, `msg`, `call`, `prep` | `ModelRun.status` (`active` stands for `queued`, `in_progress` and `streaming`), `answerCompletedAt`, the answer message's status, how many of its tool calls are on record as running, the document job's row |
| `saved`, `preceding` | the message's text and the `precedingText` of delivered follow-ups, as lengths |
| `asked`, `byUser`, `delivered`, `closed` | `followupRevision`, the rows the user wrote, how many are delivered, `followupClosedAt` |
| `pc`, `ctl`, `sig`, `intr`, `dead` | the await an execution or a preparation stands at, `activeRunControllers`, its signal, the interruption mark, the deadline |
| `text`, `base`, `basis`, `rev`, `batch`, `tries`, `round` | the answer stream's text, that text without the attempt under way, the follow-ups in the last request, `followupRevision` of the execution, the loaded batch, the attempts to close, the tool round |
| `recPc`, `recLive`, `recSet`, `recDone`, `recCur` | a pass of `reconcileNativeRuns` |
| `aborting`, `aged`, `crashes` | Stops whose abort is still to come, runs old enough for recovery, crashes so far |

The actions, in groups:

- **Admission and preparation**: `Admit` (one active run per chat; a regenerated answer inherits follow-ups),
  `RegisterPreparation`, `FinishPreparation`, `FailPreparation`; the document job's `ClaimDocuments`,
  `LeavePreparation`, `ContinueDocuments`, `MarkAnswerDispatched`, `FailDocuments`.
- **Execution**: `StartExecution`, `CheckRun`, `Stream`, `DiscardAttempt`, `SaveText`, `Answer`, `CallTools`,
  `Fail`, `BeginCall`, `SettleCall`; follow-ups with `LoadMidway`/`DeliverMidway` between rounds and
  `LoadToClose`, `CloseFollowups`, `LoadAtTheEnd`, `DeliverAtTheEnd` where the turn would end, and `LoseDelivery`;
  then `FlushBeforePublication`, `PublishAnswer`, `HandOff`, `CompleteRun`, the catch block's `SaveStoppedText`,
  `FlushFailedText`, `FailExecution`, and the finally block's `FinishExecution`.
- **Everyone else**: `Stop` (the durable cancellation) and `AbortStopped` (the abort that follows it),
  `Interrupt`, `DeadlinePasses`, `AcceptFollowup`, `AddAgentFollowup`, `Age`, `Crash`.
- **Recovery**: `StartRecovery`, `FindOrphans`, `PickOrphan`, `SettleOrphan`, `SettleOrphanFails`, `EndRecovery`.

With `WritesFail`, a save may fail, a settling write may fail, a committed transaction's reply may be lost
(publication, delivery, the end of a preparation, the dispatch mark, Stop's cancellation), and any await of
an execution may throw.

A run attaches to its Workspace when it is admitted, so `Interrupt` may also cut a preparation; its mark is then taken
by the execution that follows.  `Leave` drops whatever controller is registered, since a run is executed once and
no other execution's can be there.

In every module, an operator whose name is another's with a suffix (`_Fault`, or the mistake's own name, as in
`Usable_NotNewer`) is not part of the specification.  It is the definition that follows it with one plausible
mistake; `PROJECT.json` pairs it with the property that notices.

### `AnswerContract`

What a run promises whoever asked, with five variables and six actions: it begins, is asked, reads
everything asked so far, writes, publishes once and only with nothing unread, and ends once, as complete
only if it published.  `NativeRun!Contract` instantiates it with `outcome` (preparing and active are both
"open"), `published <- answered`, `read <- delivered`, `answer <- saved`.  `Write` and `Publish` leave the
length of the answer open: the contract says when it may change, not to what.

### Abstractions of `NativeRun`, and why they are sound

- *Text is a length.*  The properties ask whether text is there, not which.
- *One call at a time*, one tool round per `CallTools`.  A parallel batch's calls meet the run's ending through
  the same two transactions; `call` counts open rows, so one that could not be settled stays open beside the next.
- *`SettleAttempts` stands for `FOLLOWUP_SETTLE_ATTEMPTS`* (the 32 follow-ups a run may accept, plus 2).  The
  theorems hold for every value; TLC uses 1 and 2, which makes the last attempt common rather than remote.
- *A recovery pass starts only when an active run is old enough*, because any other pass finds nothing.  The
  code settles the orphans with bounded concurrency; each has its own transactions, so one after the other
  loses no outcome of one run.
- *Age.*  Recovery takes a run created before this process booted or untouched for ten minutes.  The model lets a
  run age at any time except in the two windows of milliseconds in which nothing has registered it yet
  (`admitted`, `gap`), and while recovery's own query is under way.
- *Not in the model:* research (a held draft, its page), compaction, usage settlement, the live browser, the
  approved call an approval continuation sends before its loop, a run deferred for a busy Workspace, page work and
  leases of the document job.  `recoverPreparingRunWithClient` is not called outside tests.

### `MemoryCommands`

| Variables | In the code (`memory/coordinator/`, `memory/commands/`) |
| --- | --- |
| `state`, `lease`, `claims`, `snapshot`, `sequence` | a `MemoryJob` row: its state, its lease, the claims made of it (the last is its lease token), the generation it was accepted under, its place among the user's commands |
| `receipt`, `intent`, `evidence`, `consumed`, `binding`, `inflight` | a command's receipt, its checkpoint, its authorization and whether that was consumed, its classifier call, a mutation transaction that outlives its connection |
| `generation`, `current` | the user's Memory generation, and whether a message is still as it was |
| `pc`, `job`, `token`, `timely`, `outcome` | a worker of any process: its step, its claim, whether the clock it read before a write was within the lease |

The actions: `Enqueue`, `Reset` and `SourceChanges` from outside; `ClaimJob`, `HeartbeatJob`, `Expire`, `Abandon`,
`Gate`, `SettleJobGate`, `ResolveWaitingJob`, `CommitJobSuccess`, `FailJob`, `RequeueDueJob` and `EndUnavailable` of
the queue; `Read`, `Classify`, `Answer`, `Mint`, `Mutate`, `LateDecision`, `Catch`, `WriteReceipt`, `CommitCommand`
and `Throw` of the command worker.

`Throw` is a failure outside what a step handles itself, at the gate, the commit or any step of a command but the
mutation, which is tried: its catch reads the receipt.  `FailJob` retries while attempts remain or ends the job, as it does at once for a failure that is not retryable.
`fenced` is history: which jobs a reset made obsolete.

*Abstractions.*  The receipts REJECTED, AMBIGUOUS, FAILED, UNKNOWN and STALE all say that nothing was done and are one,
as are the terminal states other than success.  Time is whether a lease is live; a worker checks its clock before it
writes, so a write may be under way when the lease expires (`timely`).  A transaction whose connection broke keeps its
locks and decides later (`LateDecision`).  One user suffices: commands of two users share nothing but workers.
*Not in the model:* deletions, recovery of terminal jobs (it never revives a command), the shadow rebuild.

### `ConnectRelay`

One module, since relay (`connect/relay.ts`, `deviceHandlers.ts`) and client (Go, `src/connect/internal/daemon/`)
make sense only together: `stream`, `calls`, `runEnds`, `ended` are the relay's memory; `row`, `told`, `enabled`,
`untold` the device and the switch, and which of their changes have not reached this process; `dial` the request for a stream under way;
`line` what was sent and not read; `client`, `link`, `conn`, `out` the client's stream and the replies to post;
`op`, `cause`, `procs`, `jobs` its executor.

The relay's actions are `CallOp`, `GiveUp` (deadline or abort), `RunEnded`, `DetachDevice`, `Heartbeat`, `Restart`,
the opening of a stream (`Dial`, `NoteEpoch`, `FindDevice`, `AttachDevice`), the switch's
`SwitchOff`, `SwitchOn`, `Remember` and `Disable`, and the revocations (`DeleteDevice`, `RevokeAccount`, `Disconnect`, `EndRevocation`); the client's are `Read`, `Begin`,
`Register`, `Complete`, `Deadline`, `Finish`, `JobExits`, `LeaseExpires`, `PostEvents`, `PostRefused`, `Drop` and `StopClient`.

*Abstractions.*  One device of one owner.  One client process at a time (its lock file); one that stopped stays
stopped, since the next begins with nothing.  The epoch of revocations is kept as what it decides: a request
that noted an older one is stale.

The switch is read through a cache of the process (`connect/policy.ts`), which learns of a change after its commit:
while a change is in `untold`, `Seen` allows either answer, and afterwards only the switch's own.  An operation may
therefore be sent between the commit of a switch-off and `Disable`, which fails it; one is sent in the same turn of
the event loop that brings the answer (`connect/computerOps.ts:56`).  A request for a stream reads the switch before the
epoch, so a stream may open while Connect is off and lasts until the next heartbeat; once the process was told, no
operation is sent on it.  The cache shares one read among those who wait for it, so that a stale answer never finds a stream
opened since, unless another read began after a change in between: a read still under way when two later changes have been
told, and changes that reach the process in another order than their commits, are not in the model.

The time limit of undelivered run ends forgets any number of the
oldest.  An executor is full when something is queued.  *Not in the model:* pairing, several owners of a device, a post that is applied
after its stream ended, failed dials.

### `UnknownEffects`

| Variables | In the code (`engine/unknownEffects.ts`, `toolBatch.ts`, `execution.ts`, `mcp/writeApprovalRepository.ts`) |
| --- | --- |
| `run`, `turn`, `calls` | the run with the consent admission froze and the card it was admitted for, the run of the branch's last turn, the calls without a result on record |
| `ledger`, `open`, `fence` | what each agent's transcript says of each effect, the attempts of calls it leaves without a result, the fences of the run |
| `cards`, `consent`, `carded` | approval cards, "always allow", the tools that have cards |
| `posted`, `readers`, `unwritten` | the user's follow-up, who read it, whether its record is still to be written |

`ledger` and `open` are what `unknownEffectsOf` computes from a transcript, updated with each append, so no recursion
over transcripts is needed; `Recorded` is what recording a batch's results in their order comes to, since they all
have one instant.  `calls` is a function from the numbers that calls get in the order of the responses.  The actions: `StartUserRun`, `StartServerRun` (a wake-up) and `Continue` (an approved call
reopened) rebuild the fences; `List`, `Check`, `Preview`, `Gate`, `Dispatch`, `DispatchApproved` (which consumes the
approval in the transaction that records the call), `Settle` and `Save` take a call from the response to its record; `Lose` never
writes a batch's results, and `EndRun` cuts the run at any step; `Decide` and `Expire` act on cards; `PostFollowup`,
`Deliver` and `WriteFollowup` carry the user's words.  `doubt`, `lost` and `made` are history.

*Abstractions.*  The clock counts the instants that stamps can tell apart, and it need not advance, so ties are in
the model.  Results that are refused, gated or handed back are "error".  More interleavings than the code has are
allowed: rounds of the main agent and of sub-agents mix freely, and a run may go on after a gated call.  One card
per run and effect, one follow-up at a time per run.  *Not in the model:* the guard's own decisions, scheduled and guarded admissions without
cards, tools of a batch that wait for each other, budgets, the repeat guard, compaction, runs of the old core, other
branches, and the fences of a background sub-agent's own runs.

### `SubagentCallbacks`

| Variables | In the code (`runs/subagentBackground/`) |
| --- | --- |
| `turn`, `asks`, `claim` | a sub-agent's turn, its questions, `callbackRunId` |
| `runs` | the chat's main-agent runs: `preparing`, `answering`, `closed`, `handing` (published, handing off its Workspace), `ended`, each with its own delivered callbacks and which of them it read |
| `flush`, `asked`, `recheck`, `deferred`, `interrupted` | the process's memory: the flush under way, the coalesced request for the next, timers, what recovery passes by |
| `away`, `live` | the user looks at another branch, the turns this process executes |

An item is a turn with the number of its question, or 0 for its callback.  `Ask`, `Answered` and `Settle` are the
sub-agent's, with `SettleUnconfirmed` where no attempt to settle is confirmed (nothing was written, or the commit's
reply was lost and nobody asks for a flush); `Start`, `ReadNotes`, `Close`, `Publish`, `Complete`, `Fail` and `Stop` the main run's; a flush
goes through `Fire`, `ReadOwed` (which owes again what a run that ended never read), `DeliverIntoRun`, `FindClosed`,
`RenderWakeUp` and `Admitted`, or `Busy`, `Stale`, `Refused`, `Throw`; then `RecheckFires`; `Crash`, `SettleOrphan` and
`Sweep` are the process's end and recovery.

*Abstractions.*  Waiting times (the 1.5 s of coalescing, backoff, recovery's 15 s of grace) are any delay.
`RenderWakeUp` takes any non-empty part of what is owed, where the code takes the prefix that fits.  `Refused` is a usage limit
or any other refusal of the send, which may clear (`workspace_followup_predecessor_failed` among them).  `FindClosed` may
happen to any run, since a run also refuses for what the rows here do not show: a scheduled task's, one without a follow-up mode,
one whose revision is at its bound.  *Not in the model:* messages between agents, mailboxes, nested sub-agents, the start of
turns and its limits, retirement of Workspaces, several server processes.  `EveryCallbackIsTold` exempts the turns recovery
passes by, since their chat waits for its user.

Two observations, neither a violation of a stated rule.  After a wake-up that took a part of what was owed behind a
closed answer, the rest waits for the recheck rather than for the next round (`callbacks.ts:100`).  A turn passed by
for its question is still passed by when it owes its callback and its own flush and rechecks fail (`recovery.ts:168`).

## 3. What is checked

| Run | Instance | Asks |
| --- | --- | --- |
| `followups` | one run, up to 3 follow-ups of either author, 1 unit of text, 1 round, 2 attempts to close, failing writes | `TypeOK`, `AnswerLeavesNoFollowup`, `AnswerReadEveryFollowup`, `StoredTextIsKept` |
| `recovery` | one run with or without documents, interruptible, slow, 1 follow-up, 1 crash, failing writes | `AnswerInvariant`, `OwnershipInvariant`, `NoCallRunsInEndedRun`, `EndedRunIsFinal`, `PublishedAnswerStands`, `KeepsContract` |
| `chat` | two runs of one chat, one with documents, 1 crash, failing writes | `RecoveryLeavesOwnedRuns` |
| `live` | as `recovery`, with fairness and without text | `EveryRunEnds` |
| `stopped` | one run, no crash, no failing write | `StoppedAnswerKeepsText`, expected to be violated |
| `memory_commands` | a Forget and a second command of one user, two workers, 2 claims of a job, 1 lost lease or worker, 1 reset | `TypeOK`, `ReceiptTellsTheEffect`, `ForgetKeepsLaterCommands`, `ClassifierPaidAtMostTwice`, `CommandsTakeEffectInOrder` |
| `memory_extraction` | a Forget and the extraction of its own message, otherwise the same, with fairness | `NothingObsoleteTakesEffect`, `EveryCommandSettles` |
| `connect_relay` | one run with a background job and a command, one operation at a time, two streams, one of a restart, a switch-off, a revocation or a stopped client, with fairness | `TypeOK`, `OutcomeIsTrue`, `NoProcessOutlivesItsRunsEnd`, `ClosedToTheRelay`, `EndedRunsLeaveNothingRunning` |
| `connect_replies` | two runs with one operation each, two streams, no fault | `RepliesSurviveReconnects`, expected to be violated |
| `unknown_effects` | one effect of the main agent and one sub-agent, 3 calls in 3 runs, 2 instants | `TypeOK`, `NothingInDoubtIsRepeatedUnasked`, `OneDecisionSendsOneCall`, `DoubtsAreKnown` |
| `unknown_words` | the same | `WordsAreNewerThanTheDoubt`, expected to be violated |
| `subagent_callbacks` | two sub-agents, one of which asks once, one delivery per answer, 2 rounds of a flush, 1 recheck, one of a message, a branch switch, a refusal, an unconfirmed settlement, a failed transaction or a crash | `TypeOK`, `ToldOnce`, `NothingIsLost`, `AFlushWillSee`, `EveryCallbackIsTold` |

*Why the bounds are enough.*  Three follow-ups allow one delivered between rounds, one that arrives during a
close, and one that arrives after the last attempt; more repeat these.  One unit of text distinguishes saved
from streamed, and a discarded attempt from a completed one.  One crash may fall between any two steps, and
the runs before and after it meet recovery in every state; a second crash meets a run that nothing executes,
since an execution is never resumed.  Two runs of a chat are what a stale recovery pass can confuse.

Two claims of a Memory job are the first attempt and one that finds what the first left behind; two workers are an
expired one and its successor; a Forget with a command before or after it is the pair whose generations can
disagree.  One device's relay needs an operation that answers and one that leaves a process behind, a stream and the
one after it; every kind of fault may fall between any two steps, one of them in a behaviour.  Three calls are the
one whose effect becomes unknown, the equivalent one that must wait, and the one sent on the decision, or another
agent's attempt at it; two instants make "strictly newer" differ from "not older".  One delivery per answer lets the
second callback meet a full answer, a closed one and a wake-up of its own; a question and a callback of one turn
are what a claim can confuse.  There, stops, failures, answers and endings are not counted against the bound.

*What they show.*  `AnswerReadEveryFollowup` is the engine's central promise: the response an answer ends
with was requested with every accepted follow-up, whatever the interleaving of acceptance, loading, delivery,
closing and publication, and however many attempts were used up.  `EndedRunIsFinal` and
`PublishedAnswerStands` say that late saves, lost replies, a late Stop, the catch block and recovery change
nothing that was decided.  `RecoveryLeavesOwnedRuns` says that a decision taken from a stale view never hits
a run this process prepares or executes.  `NoCallRunsInEndedRun` includes calls whose record could not be
settled.  `StoredTextIsKept` allows stored text to shrink only to the text the execution holds, as when a
failed attempt is discarded: a follow-up moves text to its own record and never drops it.

`ReceiptTellsTheEffect` is what the user is told of a command: its receipt is committed exactly when the command
took effect, once, though its worker died, its lease was lost, or the transaction's reply or connection was.
`NothingObsoleteTakesEffect` is about what a job relies on: none takes effect whose message is no longer as it was or
which a reset made obsolete, though either came between its claim, the gate and the commit.
`OutcomeIsTrue` says of an operation on the user's computer: an answer the caller got is one the client
finished, and nothing is executed twice.  `NoProcessOutlivesItsRunsEnd`, `ClosedToTheRelay` and
`EndedRunsLeaveNothingRunning` say that what a run started on a computer ends with it, with the device or with the
switch, even when the client hears of none of it.  `NothingInDoubtIsRepeatedUnasked` is the rule of
`agent_docs/RUN_CONTRACTS.md:28` across rounds, agents, runs and records that were never written;
`OneDecisionSendsOneCall` says an approval for one call is used once.  `ToldOnce`, `NothingIsLost` and
`EveryCallbackIsTold` say that each callback and each open question reaches the main agent once, and that each callback does in
the end; `AFlushWillSee` is the reason why coalescing requests loses none.

*Deadlock* is not checked: in a bounded instance every run ends and nothing is left to do; the same holds of
jobs, of calls and streams, and of what is owed.

### Fairness

`WF` on a preparing request, an execution, Stop's abort, a claim and recovery's steps: each is code that runs on
once its await settles, and every await of an execution is bounded by the turn's deadline.  `SF` where the code
retries: the document job is pumped again until no run waits and its claims rotate, so a continuation or the
settlement of its failure is tried again and again; recovery's pass is repeated every ten seconds, so a write that
fails in one pass is tried in the next; and a run nobody writes to grows old although a query may be under way
at any one moment.  Nothing is assumed of users, providers, sub-agents, crashes, or the order in which anything fails.

In `MemoryCommands`: `WF` on a worker's next step, on a transaction left without its connection, on the requeueing of
a due job, on a claim (the workers poll), and on the expiry of a lease that nobody works under.  A worker that works may hold its
lease for ever, since it heartbeats.  In `ConnectRelay`: `WF` on an operation's goroutine and its deadline, and on
the timer of a run's lease; the client need not connect, read or post, and a command need not exit.  In
`SubagentCallbacks`: `WF` on runs, on the flush under way, on the timer of a recheck and on recovery's sweep; no
user, sub-agent or limit has to do anything.  `UnknownEffects` states no fairness: its properties are safety.

### The violated properties

*`StoppedAnswerKeepsText`.*  The comment in the catch block (`engine/execution.ts:1164`) says that when Stop settled the run before its last
streamed text was saved "the answer keeps what the user saw", and `agent_docs/RUN_CONTRACTS.md:31` that a failure
keeps accepted partial text.  The block decides once, at its start, whether the run was stopped.  If the execution
fails for another reason and Stop commits while the block still awaits (sub-agents, Workspace settlement,
transcript), the failed branch saves only a message that is still streaming, which Stop's transaction has just
ended.  Up to one save interval (400 ms) of streamed text is lost.  The run's trace: stream, provider failure,
Stop commits, flush refused, run already ended, execution released.

*`RepliesSurviveReconnects`.*  `connect/relay.ts:101` says of a waiting operation that the client "keeps running an
operation across a reconnect and posts the reply on its next stream", and `src/connect/internal/daemon/connection.go:13`
that "a reply finished after the stream closed goes to the next stream".  The client gives a reply that finishes
while it holds no stream to nobody (`commands.go:38`), and drops what is still queued on a stream that ends.  The
caller is told `computer_timeout` of an operation that was done.

*`WordsAreNewerThanTheDoubt`.*  `engine/unknownEffects.ts:21` describes the release of an effect as "The user wrote
to the chat after the effect became unknown".  Delivery (`engine/execution.ts:959`) releases every unknown effect,
whenever the follow-up was written: one sent while the call was running, and read after its outcome was lost,
releases it.  `NothingInDoubtIsRepeatedUnasked` therefore asks that the words *reached* the chat's agent since the doubt.

## 4. What is proved

Every invariant and action property of the passing runs is a theorem, for every value of the constants.

### `NativeRunProofs`

For every set of runs, chats and every bound, from `RunsAssumption` (the sets of runs
are sets of runs, every run has a chat, `NoRun` is none) and `BoundsAssumption` (bounds are natural numbers):

| Theorem | Says |
| --- | --- |
| `TypesHold` | `Spec => []TypeOK` |
| `InvariantHolds`, `AnswerInvariantHolds`, `OwnershipInvariantHolds` | the inductive invariant and its two halves |
| `NoFollowupLeft`, `NoCallRuns` | the state invariants of the runs above |
| `EndedIsFinal`, `PublishedStands`, `EveryFollowupRead`, `TextIsKept`, `OwnedRunsSpared` | the action properties of the runs above |
| `ContractKept` | `NativeRun` implements `AnswerContract` |

*The invariant.*  `Inv` is `TypeOK /\ AnswerInvariant /\ OwnershipInvariant`.  None of the properties is
inductive alone.  `AnswerReadEveryFollowup` needs that an execution's last request carries what is delivered
(`basis = delivered` in every working step), which needs that a run is executed only once and that nothing is
delivered before its execution; that needs the document job's ownership (`prep`) to be exclusive of an
execution.  Publication's message guard needs that a published answer's message is complete.  Recovery's decision
needs that whatever is active and held is registered except in the two windows, that no run old enough is in them,
that what the query found is not being prepared, and that what was picked is idle if it is still active.

*The argument.*  Lemmas first state what the shared pieces (`EndRun`, `FailRun`, `Flush`, `Throw`, `Leave`,
loading and delivering) do to the types.  Then, for types, for `AnswerInvariant` and for
`OwnershipInvariant`, one lemma per group of actions (preparation, documents, the execution, streaming, the
environment, admission, recovery, a crash), each with one step per action.  `InvStep` joins them.  Each action
property has a step lemma (`StaysEndedStep`, `AnswerStandsStep`, `ReadsAllAskedStep`, `KeepsTextStep`,
`SparesOwnedStep`) that uses `Inv` in the state before the step.  For the refinement, the `Contract...` lemmas say
which contract step each kind of transaction is, and `StepKeepsContract` assigns every action to one of them.

### `MemoryCommandsProofs`

From `JobsAssumption` (commands and extractions are different, and every extraction is of a message some command
came with) and `BoundsAssumption`, for any number of commands, extractions and workers:

| Theorem | Says |
| --- | --- |
| `TypesHold`, `InvariantHolds` | types, and the inductive invariant |
| `ReceiptIsTrue`, `ForgetKeeps`, `ClassifierBound` | the state invariants of the Memory runs |
| `InOrder`, `NothingObsolete` | their action properties |

*The invariant.*  A receipt is written in one transaction and read in another, under a lease that may be lost between
them.  So `ReceiptInvariant` says that authorization, effect and committed receipt are one fact, and that whoever is about to settle a
command as committed has read so; `LockInvariant`, that a transaction whose connection broke still excludes every other change
of its command, its source and the generation; `QueueInvariant` and `OrderInvariant`, that places in the queue are
distinct and that whatever precedes a claimed command has ended; `GenerationInvariant`, that every undecided command a
reset has not fenced is at the user's generation, which is what makes a Forget carry its successors along.

*The argument.*  `StepShape` sorts every action into the few changes of rows it can make (a claim, a settlement, a
mutation, an enqueueing, a reset and so on); each conjunct is then preserved by shape, not by action.

### `ConnectRelayProofs`

From `CallsAssumption` (every operation is of a run, and background jobs are operations) and `BoundsAssumption`, for any
number of runs, operations, streams and faults:

| Theorem | Says |
| --- | --- |
| `TypesHold`, `InvariantHolds` | types, and the inductive invariant |
| `OutcomesAreTrue`, `ProcessesEnd`, `ClosedIsClosed` | the state invariants of `connect_relay` |

*The invariant.*  Nothing is executed twice because an operation on its way has begun nowhere (`CarriedInvariant`) and
is in the stream once and not behind its run's end (`LineInvariant`); an answer is true because a reply on its way
says what the client finished (`OutcomeInvariant`); a process ends because what the client heard has reached every
operation and job of that run (`ProcessInvariant`), and it hears only of runs that ended (`EndsInvariant`).
`AccessInvariant` joins what the relay was told with the stream, the request under way and who waits.

### `SubagentCallbacksProofs`

From `SizesAreNatural` (the code's limits are positive, the bounds natural numbers), for any number of sub-agents,
questions, runs and flushes:

| Theorem | Says |
| --- | --- |
| `TypesHold`, `InvariantHolds` | types (no answer takes more than its limit, no third active run) and the inductive invariant |
| `ToldAtMostOnce`, `NothingLost`, `FlushWillSee` | the state invariants of `subagent_callbacks` |

*The invariant.*  `NothingIsLost` is not inductive: a claim is handed from run to run, and the item owed by a turn
changes when it asks or ends.  `NotesInvariant` says that an unread follow-up was told nowhere, is in no other run, and
is claimed by its run as long as it is owed; `HistoryInvariant`, that only what was asked or ended is told or on its
way; `ToldInvariant`, that a turn told of what it owes leaves nothing of it in the run that claimed it.

*The argument.*  `StepShape` says that a step moves a turn, moves a run, reads, owes again, delivers, takes a claim or
leaves the rows alone, and each of these has one lemma.  `AFlushWillSee` follows from the flush's own memory.
`GreatestExists` (a bounded set of numbers has a greatest element, by well-foundedness of finite sets) is behind the
active run and leaf.

### `UnknownEffectsProofs`

From `AgentsAssumption` (the main agent is no thread) and `BoundsAssumption`, for any number of agents, effects, runs,
calls and instants:

| Theorem | Says |
| --- | --- |
| `TypesHold`, `InvariantHolds` | types, and the inductive invariant |
| `NothingRepeatedUnasked`, `OneDecisionOneCall`, `DoubtsKnown` | the state invariants of `unknown_effects` |

*The invariant.*  A doubt lives in four places at different times: the call that settled as unknown, the run's fence, the
agent's transcript, and the gap the transcript is left with.  `FenceInvariant` and `RecordInvariant` say that the fences know of
every doubt, and that what the next run would load does too, but for doubts of calls still to be recorded.
Recording a completion may clear an entry: `SettledInvariant` says that what it clears was settled by that completion.  Releasing an
entry by the user's words needs `WordsInvariant`: while their record is to be written, the main agent has no call
under way and its doubts were read.  `CallInvariant` carries what a call saw when it was checked to the decision it is
sent with, which a later expiry, consumption or tick cannot change; `CardInvariant` says that a card that is not used
has sent nothing; `IdleInvariant`, that between runs only the main agent's record has a gap.

*The argument.*  Lemmas on the operators first: what a view finds is no older than any agent's entry (`Finds`), what is cut off
is held back (`CutOffHolds`, `CutOffGrows`, `LeftKnows`), what a batch records (`BatchRecords`, `BatchIsLater`).  Then
one lemma per action; those that only move a call towards its sending share `CallStep`, those that move cards or the
clock `QuietStep`, those that begin a run `BeginStep`.

### Only model-checked

`EveryRunEnds`, `EveryCommandSettles`, `EndedRunsLeaveNothingRunning` and `EveryCallbackIsTold` are liveness under fairness, and
the three violations are counterexamples: both are TLC's.  TLC also checked each inductive invariant on its run's
instance before it was proved.

## 5. Plan

In this order; each module gets its instance, runs, faults and, where marked, theorems.

1. Contracts of `UnknownEffects` (an effect is free, in doubt or released) and `SubagentCallbacks` (an item is owed, on its way or
   told) with refinements proved from the invariants of section 4, as `ContractKept` is.
2. `ScheduledTasks` (theorems on claims): occurrences claimed by two ticks and a manual start, missed in a downtime.
3. `TelegramDelivery`: a partially sent or unknown message after a crash.
4. `OperationFence`: generations taking over a guest, draining, attachments of runs.
5. The document job's pages, attempts and lease, and the Workspace follow-up coordinator, beneath `NativeRun`'s
   `ClaimDocuments` to `MarkAnswerDispatched`; research as an extension of `NativeRun`.
6. `SubagentCallbacks` composed with the follow-ups of `NativeRun`, which now meet only in their assumptions:
   `AddAgentFollowup` there is `DeliverIntoRun` here, and `Close` here is `CloseFollowups` there.
7. Usage limits, permanent deletion, OAuth refresh.

### Not modelled

Provider adapters, document parsing, tool observations and web fetches are I/O or data.  Memory learning and retrieval
are ranking and projection; their jobs are `MemoryCommands`' extraction.  Sign-in, artifacts, images, skills, assistants,
shares and settings are one transaction per request, with nothing beyond the database's own guarantees to interleave.
The user interface takes no durable decision.  Migration and administration are one-off code.

## 6. Running it

    tlc -workers 2 -config MCNativeRunRecovery.cfg MCNativeRun
    tlc -workers 2 -config MCSubagentCallbacks.cfg MCSubagentCallbacks
    tlapm NativeRunProofs.tla
    tlapm UnknownEffectsProofs.tla
