----------------------------- MODULE ConnectRelay -----------------------------
(***************************************************************************)
(* AIQSA Connect: the relay in the application process and the client on   *)
(* a user's computer, for one device.  Runs ask the relay for operations;  *)
(* it sends each once over the device's stream and keeps the caller        *)
(* waiting across reconnects.  The client executes operations and keeps    *)
(* background jobs, which end with their run: at run_ended, when Connect   *)
(* is off or the device revoked, or when the run's lease expires.  The     *)
(* relay keeps nothing over a restart.  One client process runs at a time  *)
(* (its lock file), so at most one stream is read; a stream the client has *)
(* left is stale until the relay notices, and a client that stopped stays  *)
(* stopped (a later one begins with nothing).                              *)
(***************************************************************************)
EXTENDS Naturals, Sequences, FiniteSets

CONSTANTS
  Runs,         \* runs that use the computer
  Calls,        \* operations, each asked for once
  RunOf,        \* the run that asks for one
  Jobs,         \* those that start a background job
  MaxOps,       \* CONNECT_MAX_CONCURRENT_OPS and the client's MaxConcurrentOps
  MaxRunEnds,   \* CONNECT_RELAY_MAX_UNDELIVERED_RUN_ENDS
  MaxEvents,    \* bound: restarts, switch-offs, revocations and stops of the client, together
  MaxDials      \* bound: streams opened

ASSUME CallsAssumption == RunOf \in [Calls -> Runs] /\ Jobs \subseteq Calls
ASSUME BoundsAssumption ==
  {MaxOps, MaxRunEnds, MaxEvents, MaxDials} \subseteq Nat

VARIABLES
  \* The relay: the device's stream, what each caller was told, run_ended commands no
  \* stream has taken, and runs that ended.
  stream, calls, runEnds, ended,
  \* The device's row, whether its revocation reached the relay, the installation's
  \* switch, its committed changes this process was not told of yet, and the request for a
  \* stream under way.
  row, told, enabled, untold, dial,
  \* What the relay sent on the stream the client holds and the client has not read.
  line,
  \* The client: whether it runs, holds a stream, has read its hello, and the replies
  \* it still has to post on it.
  client, link, conn, out,
  \* The executor: operations, why one was cancelled, processes alive, registered jobs.
  op, cause, procs, jobs,
  \* What happened: executions begun, runs whose run_ended the client read, replies the
  \* client finished for a caller, events, streams opened.
  begun, heard, finished, events, dials

relay    == <<stream, calls, runEnds, ended>>
access   == <<row, told, enabled, untold>>
wire     == <<link, conn, out>>
executor == <<op, cause, procs, jobs>>
bounds   == <<events, dials>>
vars     == <<relay, access, dial, line, client, wire, executor, begun, heard, finished, bounds>>

Event == events < MaxEvents /\ events' = events + 1

\* What the policy gate may answer: the cached switch, which is the last change the process
\* was told of or what it read since; while a change was not told, either may be the answer.
Seen_NotRemembered == BOOLEAN
Seen == IF untold = <<>> THEN {enabled} ELSE BOOLEAN

Pending == {c \in Calls : calls[c] = "pending"}

Init ==
  /\ stream = "none"
  /\ calls = [c \in Calls |-> "new"]
  /\ runEnds = <<>>
  /\ ended = {}
  /\ row = "here" /\ told = FALSE
  /\ enabled = TRUE /\ untold = <<>>
  /\ dial = "none"
  /\ line = <<>>
  /\ client = "up" /\ link = FALSE /\ conn = FALSE /\ out = <<>>
  /\ op = [c \in Calls |-> "none"]
  /\ cause = [c \in Calls |-> "none"]
  /\ procs = {} /\ jobs = {}
  /\ begun = [c \in Calls |-> 0]
  /\ heard = {}
  /\ finished = [c \in Calls |-> "none"]
  /\ events = 0 /\ dials = 0

-------------------------------------------------------------------------------
(* The relay.                                                              *)

\* Everything the stream carries is read in order; what is sent on a stream the client
\* has left reaches nobody.
Put(messages) == line' = IF stream = "live" THEN line \o messages ELSE line

\* The device's queue takes the command, or is full: its stream ends then, and the
\* command never reached the device.
SendCommand_Fault(message, sent) ==
  \/ sent /\ Put(<<message>>) /\ UNCHANGED stream
  \/ ~sent /\ (line # <<>> \/ stream = "stale") /\ Put(<<message, <<"eof">>>>) /\ stream' = "none"
SendCommand(message, sent) ==
  \/ sent /\ Put(<<message>>) /\ UNCHANGED stream
  \/ ~sent /\ (line # <<>> \/ stream = "stale") /\ Put(<<<<"eof">>>>) /\ stream' = "none"

SettlePending(outcome) ==
  calls' = [c \in Calls |-> IF c \in Pending THEN outcome ELSE calls[c]]

\* A bump of the epoch makes a stream request whose checks began before it stale.
Bump_Fault == UNCHANGED dial
Bump == dial' = IF dial \in {"noted", "verified"} THEN "stale" ELSE dial

\* The current stream is told why it ends, and the waiting operations fail.
EndDevice_Fault(final) ==
  /\ Bump
  /\ IF stream = "none" THEN UNCHANGED line ELSE Put(<<<<final>>>>)
  /\ stream' = "none"
  /\ SettlePending(final)
EndDevice(final) ==
  /\ Bump
  /\ IF stream = "none" THEN UNCHANGED line ELSE Put(<<<<final>>>>)
  /\ stream' = "none"
  /\ SettlePending("disconnected")

\* The newest are kept, and those over a day old go: any number of the oldest.
Fresh(queue) == {SubSeq(queue, k, Len(queue)) : k \in 1..Len(queue) + 1}
Newest(queue) == SubSeq(queue, IF Len(queue) > MaxRunEnds THEN Len(queue) - MaxRunEnds + 1 ELSE 1, Len(queue))

\* The call is refused, also because the switch cannot be read, or sent in the turn of the
\* event loop that brings the gate's answer.
CallOp(c) ==
  /\ calls[c] = "new"
  /\ RunOf[c] \notin ended
  /\ \/ /\ calls' = [calls EXCEPT ![c] = "unsent"]
        /\ UNCHANGED <<stream, line>>
     \/ /\ TRUE \in Seen /\ stream # "none" /\ Cardinality(Pending) < MaxOps
        /\ \E sent \in BOOLEAN :
             /\ SendCommand(<<"op", c>>, sent)
             /\ calls' = [calls EXCEPT ![c] = IF sent THEN "pending" ELSE "unsent"]
  /\ UNCHANGED <<runEnds, ended, access, dial, client, wire, executor, begun, heard, finished, bounds>>

\* The deadline and its grace passed, or the run aborted the call: the caller is answered
\* at once, and the device's current stream is told to cancel.
GiveUp(c) ==
  /\ calls[c] = "pending"
  /\ calls' = [calls EXCEPT ![c] = "given_up"]
  /\ IF stream = "none" THEN UNCHANGED <<stream, line>>
     ELSE \E sent \in BOOLEAN : SendCommand(<<"cancel", c>>, sent)
  /\ UNCHANGED <<runEnds, ended, access, dial, client, wire, executor, begun, heard, finished, bounds>>

\* A run of this process ended, or recovery ended one a restart cut off.
RunEnded(r) ==
  /\ r \notin ended
  /\ ended' = ended \cup {r}
  /\ \/ /\ stream # "none"
        /\ SendCommand(<<"run_ended", r>>, TRUE)
        /\ UNCHANGED runEnds
     \/ /\ IF stream = "none" THEN UNCHANGED <<stream, line>>
           ELSE SendCommand(<<"run_ended", r>>, FALSE)
        /\ \E kept \in Fresh(runEnds) : runEnds' = Newest(Append(kept, r))
  /\ UNCHANGED <<calls, access, dial, client, wire, executor, begun, heard, finished, bounds>>

\* The relay notices that the client left.
DetachDevice ==
  /\ stream = "stale"
  /\ stream' = "none"
  /\ UNCHANGED <<calls, runEnds, ended, access, dial, line, client, wire, executor, begun, heard, finished, bounds>>

\* The heartbeat's check, which also finds what an attach slipped past.
Heartbeat ==
  /\ stream # "none"
  /\ \/ FALSE \in Seen /\ EndDevice("disabled")
     \/ TRUE \in Seen /\ row = "gone" /\ EndDevice("unauthorized")
  /\ UNCHANGED <<runEnds, ended, access, client, wire, executor, begun, heard, finished, bounds>>

\* The application restarts: nothing the relay or the policy gate holds survives.
Restart ==
  /\ Event
  /\ stream' = "none"
  /\ SettlePending("lost")
  /\ runEnds' = <<>>
  /\ dial' = "none"
  /\ untold' = <<>>
  /\ UNCHANGED <<ended, row, told, enabled, line, client, wire, executor, begun, heard, finished, dials>>

-------------------------------------------------------------------------------
(* The switch and revocation: a committed write, and then the process is   *)
(* told; an account's revocation tells the relay before its commit.        *)

SwitchOff ==
  /\ Event
  /\ enabled
  /\ enabled' = FALSE /\ untold' = Append(untold, FALSE)
  /\ UNCHANGED <<relay, row, told, dial, line, client, wire, executor, begun, heard, finished, dials>>

SwitchOn ==
  /\ ~enabled
  /\ enabled' = TRUE /\ untold' = Append(untold, TRUE)
  /\ UNCHANGED <<relay, row, told, dial, line, client, wire, executor, begun, heard, finished, bounds>>

\* The policy gate uses the change at once; a switch-off is told to the relay with it.
Remember ==
  /\ untold # <<>> /\ Head(untold)
  /\ untold' = Tail(untold)
  /\ UNCHANGED <<relay, row, told, enabled, dial, line, client, wire, executor, begun, heard, finished, bounds>>

Disable ==
  /\ untold # <<>> /\ ~Head(untold)
  /\ untold' = Tail(untold)
  /\ EndDevice("disabled")
  /\ UNCHANGED <<runEnds, ended, row, told, enabled, client, wire, executor, begun, heard, finished, bounds>>

\* The owner or the device itself: the row goes, and then the relay is told.
DeleteDevice ==
  /\ Event
  /\ row = "here"
  /\ row' = "gone"
  /\ UNCHANGED <<relay, told, enabled, untold, dial, line, client, wire, executor, begun, heard, finished, dials>>

\* An account's revocation deletes the row in a transaction that still holds it.
RevokeAccount ==
  /\ Event
  /\ row = "here"
  /\ row' = "locked"
  /\ UNCHANGED <<relay, told, enabled, untold, dial, line, client, wire, executor, begun, heard, finished, dials>>

Disconnect ==
  /\ row # "here" /\ ~told
  /\ told' = TRUE
  /\ EndDevice("unauthorized")
  /\ runEnds' = <<>>
  /\ UNCHANGED <<ended, row, enabled, untold, client, wire, executor, begun, heard, finished, bounds>>

EndRevocation ==
  /\ row = "locked" /\ told
  /\ \/ row' = "gone" /\ UNCHANGED told
     \/ row' = "here" /\ told' = FALSE
  /\ UNCHANGED <<relay, enabled, untold, dial, line, client, wire, executor, begun, heard, finished, bounds>>

-------------------------------------------------------------------------------
(* The executor.                                                           *)

Running == {c \in Calls : op[c] # "none"}

\* Operations are cancelled, jobs are taken out and their processes end.  A job whose
\* process is being started is one whose operation runs: its starter sees the cause.
StopCalls(cs, why) ==
  /\ cause' = [c \in Calls |-> IF c \in cs \cap Running /\ cause[c] = "none" THEN why ELSE cause[c]]
  /\ jobs' = jobs \ cs
  /\ procs' = procs \ (jobs \cap cs)
  /\ UNCHANGED op

\* A reply goes to the outbox of the current stream; with none it is dropped.
PushReply(c, result) ==
  /\ finished' = [finished EXCEPT ![c] = result]
  /\ out' = IF conn THEN Append(out, <<c, result>>) ELSE out

Start(c) ==
  IF client = "closed" \/ c \in Running
  THEN UNCHANGED <<executor, out, finished>>
  ELSE /\ UNCHANGED <<cause, procs, jobs>>
       /\ IF Cardinality(Running) >= MaxOps
          THEN PushReply(c, "error") /\ UNCHANGED op
          ELSE op' = [op EXCEPT ![c] = "accepted"] /\ UNCHANGED <<out, finished>>

\* The process of an operation starts, unless it is already cancelled.
Begin(c) ==
  /\ op[c] = "accepted"
  /\ IF cause[c] = "none"
     THEN /\ op' = [op EXCEPT ![c] = "executing"]
          /\ procs' = procs \cup {c}
          /\ begun' = [begun EXCEPT ![c] = @ + 1]
     ELSE op' = [op EXCEPT ![c] = "failed"] /\ UNCHANGED <<procs, begun>>
  /\ UNCHANGED <<relay, access, dial, line, client, wire, cause, jobs, heard, finished, bounds>>

\* A background job is registered, and its operation has succeeded; one that lost to a
\* cancellation is ended.
Register_Fault(c) ==
  /\ op[c] = "executing" /\ c \in Jobs
  /\ jobs' = jobs \cup {c}
  /\ op' = [op EXCEPT ![c] = "succeeded"]
  /\ UNCHANGED <<relay, access, dial, line, client, wire, cause, procs, begun, heard, finished, bounds>>
Register(c) ==
  /\ op[c] = "executing" /\ c \in Jobs
  /\ IF cause[c] = "none"
     THEN jobs' = jobs \cup {c} /\ op' = [op EXCEPT ![c] = "succeeded"] /\ UNCHANGED procs
     ELSE procs' = procs \ {c} /\ op' = [op EXCEPT ![c] = "failed"] /\ UNCHANGED jobs
  /\ UNCHANGED <<relay, access, dial, line, client, wire, cause, begun, heard, finished, bounds>>

\* A foreground command exits, or is stopped.
Complete(c) ==
  /\ op[c] = "executing" /\ c \notin Jobs
  /\ procs' = procs \ {c}
  /\ \/ op' = [op EXCEPT ![c] = "succeeded"]
     \/ op' = [op EXCEPT ![c] = "failed"]
  /\ UNCHANGED <<relay, access, dial, line, client, wire, cause, jobs, begun, heard, finished, bounds>>

Deadline(c) ==
  /\ op[c] \in {"accepted", "executing"} /\ cause[c] = "none"
  /\ cause' = [cause EXCEPT ![c] = "deadline"]
  /\ UNCHANGED <<relay, access, dial, line, client, wire, op, procs, jobs, begun, heard, finished, bounds>>

\* The operation leaves the executor: a job its reply will not name is ended, and a
\* caller who is not waiting gets no reply.
Finish(c) ==
  /\ op[c] \in {"succeeded", "failed"}
  /\ op' = [op EXCEPT ![c] = "none"]
  /\ cause' = [cause EXCEPT ![c] = "none"]
  /\ IF cause[c] = "none" THEN UNCHANGED <<procs, jobs>>
     ELSE procs' = procs \ {c} /\ jobs' = jobs \ {c}
  /\ IF cause[c] \in {"cancelled", "stopped", "closed"} THEN UNCHANGED <<out, finished>>
     ELSE PushReply(c, IF cause[c] = "none" /\ op[c] = "succeeded" THEN "ok" ELSE "error")
  /\ UNCHANGED <<relay, access, dial, line, client, link, conn, begun, heard, bounds>>

JobExits(c) ==
  /\ c \in jobs \cap procs
  /\ procs' = procs \ {c}
  /\ UNCHANGED <<relay, access, dial, line, client, wire, op, cause, jobs, begun, heard, finished, bounds>>

\* A run with no operation here and no command for the length of the lease.
LeaseExpires_Fault(r) ==
  /\ ~link
  /\ \E c \in jobs : RunOf[c] = r
  /\ \A c \in Running : RunOf[c] # r
  /\ StopCalls({c \in Calls : RunOf[c] = r}, "run_ended")
  /\ UNCHANGED <<relay, access, dial, line, client, wire, begun, heard, finished, bounds>>
LeaseExpires(r) ==
  /\ \E c \in jobs : RunOf[c] = r
  /\ \A c \in Running : RunOf[c] # r
  /\ StopCalls({c \in Calls : RunOf[c] = r}, "run_ended")
  /\ UNCHANGED <<relay, access, dial, line, client, wire, begun, heard, finished, bounds>>

-------------------------------------------------------------------------------
(* The client's connection.                                                *)

Leave ==
  /\ link' = FALSE /\ conn' = FALSE /\ out' = <<>> /\ line' = <<>>
  /\ stream' = IF stream = "live" THEN "stale" ELSE stream

\* What the client does when it learns how its stream, or a request for one, ended.
After(end) ==
  CASE end = "disabled"     -> StopCalls(Calls, "stopped") /\ UNCHANGED client
    [] end = "unauthorized" -> StopCalls(Calls, "closed") /\ client' = "closed"
    [] OTHER                -> UNCHANGED <<executor, client>>

Hangup(end) ==
  /\ Leave
  /\ After(end)
  /\ UNCHANGED <<calls, runEnds, ended, access, dial, begun, heard, finished, bounds>>

\* The network, the idle timer or a client that stops.
Drop == link /\ Hangup("dropped")

StopClient ==
  /\ Event
  /\ client = "up"
  /\ client' = "closed"
  /\ StopCalls(Calls, "closed")
  /\ Leave
  /\ dial' = "none"
  /\ UNCHANGED <<calls, runEnds, ended, access, begun, heard, finished, dials>>

\* A request for a stream: the switch is read, then the epoch, then the device's row
\* (waiting for a revocation that holds it), then the relay attaches the stream.
Dial ==
  /\ client = "up" /\ ~link /\ dial = "none" /\ dials < MaxDials
  /\ \/ TRUE \in Seen /\ dial' = "asked" /\ UNCHANGED <<executor, client>>
     \/ FALSE \in Seen /\ After("disabled") /\ UNCHANGED dial
  /\ UNCHANGED <<relay, access, line, wire, begun, heard, finished, bounds>>

NoteEpoch ==
  /\ dial = "asked"
  /\ dial' = "noted"
  /\ UNCHANGED <<relay, access, line, client, wire, executor, begun, heard, finished, bounds>>

FindDevice ==
  /\ dial \in {"noted", "stale"} /\ row # "locked"
  /\ dial' = IF row = "here" /\ dial = "noted" THEN "verified" ELSE "none"
  /\ After(IF row = "here" THEN "retry" ELSE "unauthorized")
  /\ UNCHANGED <<relay, access, line, wire, begun, heard, finished, bounds>>

\* The run_ended commands that waited follow hello; what a full queue refuses, which
\* ends the stream, waits for the next.
AttachDevice_Fault ==
  /\ dial = "verified"
  /\ dial' = "none"
  /\ dials' = dials + 1
  /\ link' = TRUE
  /\ line' = <<<<"hello">>>> \o (IF Pending = {} THEN <<>> ELSE <<<<"op", CHOOSE c \in Pending : TRUE>>>>)
  /\ stream' = "live"
  /\ runEnds' = <<>>
  /\ UNCHANGED <<calls, ended, access, client, conn, out, executor, begun, heard, finished, events>>
AttachDevice ==
  /\ dial = "verified"
  /\ dial' = "none"
  /\ dials' = dials + 1
  /\ link' = TRUE
  /\ \E queue \in Fresh(runEnds) : \E sent \in 0..Len(queue) :
       LET whole    == sent = Len(queue)
           commands == [k \in 1..sent |-> <<"run_ended", queue[k]>>]
       IN  /\ line' = <<<<"hello">>>> \o commands \o (IF whole THEN <<>> ELSE <<<<"eof">>>>)
           /\ stream' = IF whole THEN "live" ELSE "none"
           /\ runEnds' = SubSeq(queue, sent + 1, Len(queue))
  /\ UNCHANGED <<calls, ended, access, client, conn, out, executor, begun, heard, finished, events>>

\* The client reads what the server sent next.
Read ==
  /\ line # <<>>
  /\ LET message == Head(line) IN
     \/ /\ message[1] = "hello"
        /\ conn' = TRUE
        /\ line' = Tail(line)
        /\ UNCHANGED <<stream, client, link, out, executor, heard, finished>>
     \/ /\ message[1] = "op"
        /\ Start(message[2])
        /\ line' = Tail(line)
        /\ UNCHANGED <<stream, client, link, conn, heard>>
     \/ /\ message[1] = "cancel"
        /\ cause' = IF op[message[2]] # "none" /\ cause[message[2]] = "none"
                    THEN [cause EXCEPT ![message[2]] = "cancelled"] ELSE cause
        /\ line' = Tail(line)
        /\ UNCHANGED <<stream, client, wire, op, procs, jobs, heard, finished>>
     \/ /\ message[1] = "run_ended"
        /\ StopCalls({c \in Calls : RunOf[c] = message[2]}, "run_ended")
        /\ heard' = heard \cup {message[2]}
        /\ line' = Tail(line)
        /\ UNCHANGED <<stream, client, wire, finished>>
     \/ /\ message[1] \in {"eof", "disabled", "unauthorized"}
        /\ Leave
        /\ After(message[1])
        /\ UNCHANGED <<heard, finished>>
  /\ UNCHANGED <<calls, runEnds, ended, access, dial, begun, bounds>>

\* A waiting caller gets its reply; one that is not waiting any more is left alone.
ApplyEvent(reply) ==
  calls' = IF reply[1] \in Pending THEN [calls EXCEPT ![reply[1]] = reply[2]] ELSE calls

\* The client posts its next reply; the answer to the post may be lost, and the reply is
\* posted again.
PostEvents ==
  /\ conn /\ out # <<>> /\ TRUE \in Seen /\ stream = "live"
  /\ ApplyEvent(Head(out))
  /\ \/ out' = Tail(out)
     \/ UNCHANGED out
  /\ UNCHANGED <<stream, runEnds, ended, access, dial, line, client, link, conn, executor, begun, heard, finished, bounds>>

PostRefused ==
  /\ conn /\ out # <<>>
  /\ \/ FALSE \in Seen /\ Hangup("disabled")
     \/ TRUE \in Seen /\ stream # "live" /\ Hangup("stream_required")

Next ==
  \/ \E c \in Calls : CallOp(c) \/ GiveUp(c)
  \/ \E r \in Runs : RunEnded(r) \/ LeaseExpires(r)
  \/ DetachDevice \/ Heartbeat \/ Restart
  \/ SwitchOff \/ SwitchOn \/ Remember \/ Disable
  \/ DeleteDevice \/ RevokeAccount \/ Disconnect \/ EndRevocation
  \/ \E c \in Calls : Begin(c) \/ Register(c) \/ Complete(c) \/ Deadline(c) \/ Finish(c) \/ JobExits(c)
  \/ Drop \/ StopClient
  \/ Dial \/ NoteEpoch \/ FindDevice \/ AttachDevice
  \/ Read \/ PostEvents \/ PostRefused

Spec == Init /\ [][Next]_vars

\* An operation goes on: a command that does not exit is stopped once its operation is
\* cancelled, at the latest by its deadline.
Advance(c) == Begin(c) \/ Register(c) \/ Finish(c) \/ Deadline(c) \/ (cause[c] # "none" /\ Complete(c))

\* The executor's goroutines and its lease's timer run.
\* Nothing says that the client connects, reads or posts, or that a command exits.
Fairness ==
  /\ \A c \in Calls : WF_vars(Advance(c))
  /\ \A r \in Runs : WF_vars(LeaseExpires(r))

FairSpec == Spec /\ Fairness

-------------------------------------------------------------------------------
(* Properties.                                                             *)

Results == {"ok", "error"}

\* Every variable keeps its type: a caller is told an outcome once it has one.
TypeOK ==
  /\ stream \in {"none", "live", "stale"}
  /\ calls \in [Calls -> {"new", "pending", "unsent", "given_up", "disconnected", "lost"} \cup Results]
  /\ runEnds \in Seq(Runs) /\ Len(runEnds) <= MaxRunEnds
  /\ ended \subseteq Runs /\ heard \subseteq Runs
  /\ row \in {"here", "locked", "gone"}
  /\ dial \in {"none", "asked", "noted", "verified", "stale"}
  /\ {told, enabled, link, conn} \subseteq BOOLEAN /\ untold \in Seq(BOOLEAN)
  /\ client \in {"up", "closed"}
  /\ out \in Seq(Calls \X Results)
  /\ op \in [Calls -> {"none", "accepted", "executing", "succeeded", "failed"}]
  /\ cause \in [Calls -> {"none", "cancelled", "run_ended", "deadline", "stopped", "closed"}]
  /\ procs \subseteq Calls /\ jobs \subseteq Jobs
  /\ begun \in [Calls -> Nat]
  /\ finished \in [Calls -> {"none"} \cup Results]

\* What a caller is told is what happened (computerPort.ts:28): an operation reported as
\* not sent has run nowhere and never will, one reported as done was done, and none is
\* executed twice, whatever streams were lost, replaced or refused in between.
OutcomeIsTrue ==
  \A c \in Calls :
    /\ begun[c] <= 1
    /\ calls[c] = "unsent" => begun[c] = 0 /\ op[c] = "none" /\ \A k \in DOMAIN line : line[k] # <<"op", c>>
    /\ calls[c] = "ok" => finished[c] = "ok"

\* No process escapes the client: each is a registered job or belongs to an operation
\* under way, and once the client has read its run's end, or stopped, the job is gone and
\* the operation cancelled, also when the process was just being started.
NoProcessOutlivesItsRunsEnd ==
  \A c \in procs :
    /\ c \in jobs \/ op[c] # "none"
    /\ client = "closed" \/ RunOf[c] \in heard => c \notin jobs /\ cause[c] # "none"

\* A device whose revocation is committed and reached the relay has no stream, also when
\* its request for one was half-way through; nobody waits for it, nor for any device once
\* the process was told that Connect is off, even one whose stream slipped past the switch
\* or whose operation was sent between the commit and the telling.
ClosedToTheRelay ==
  /\ row = "gone" /\ told => stream = "none" /\ Pending = {}
  /\ ~enabled /\ untold = <<>> => Pending = {}

\* While an operation waits, a reply the client finished is on its way to the relay: the
\* device "posts the reply on its next stream" (relay.ts:101).
RepliesSurviveReconnects ==
  \A c \in Pending : finished[c] # "none" => \E k \in DOMAIN out : out[k][1] = c

\* Whatever is lost on the way (the run_ended command, the relay's memory of it, the
\* stream), the processes of a run that ended are ended in the end.
EndedRunsLeaveNothingRunning ==
  \A r \in Runs : (r \in ended) ~> (\A c \in procs : RunOf[c] # r)
===============================================================================
