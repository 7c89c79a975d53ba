-------------------------- MODULE ConnectRelayProofs --------------------------
(***************************************************************************)
(* What Connect promises of one device, for any runs, operations, queue    *)
(* bounds, restarts and reconnects: a caller is told what happened, no     *)
(* process outlives its run's end at the client, and a revoked device has  *)
(* no stream.                                                              *)
(***************************************************************************)
EXTENDS ConnectRelay, SequenceTheorems, TLAPS

\* What a stream carries.
Finals   == {<<"eof">>, <<"disabled">>, <<"unauthorized">>}
Messages == {<<"hello">>} \cup Finals \cup ({"op", "cancel"} \X Calls) \cup ({"run_ended"} \X Runs)

\* An operation on its way has begun nowhere and been answered by nobody; it is on its way
\* once, and it is not behind the end of its run.
Carried(c) == \E k \in 1..Len(line) : line[k] = <<"op", c>>
Untouched(c) == /\ begun[c] = 0 /\ op[c] = "none" /\ finished[c] = "none"
                /\ calls[c] \notin {"new", "unsent"} /\ RunOf[c] \notin heard
LineInvariant ==
  /\ line \in Seq(Messages)
  /\ \A k \in 1..Len(line) : line[k][1] = "run_ended" => line[k][2] \in ended
  /\ \A c \in Calls : \A k, l \in 1..Len(line) : line[k] = <<"op", c>> =>
       /\ line[l] = <<"op", c>> => l = k
       /\ line[l] = <<"run_ended", RunOf[c]>> => k < l
CarriedInvariant == \A c \in Calls : Carried(c) => Untouched(c)

\* The ends of runs that wait, and those the client read, are of runs that ended.
EndsInvariant ==
  /\ heard \subseteq ended
  /\ \A k \in 1..Len(runEnds) : runEnds[k] \in ended

\* An operation never sent has left no trace; one accepted has not begun, and one executing has; one answered is
\* over, and the replies on their way say what it was answered.
OutcomeInvariant ==
  /\ \A c \in Calls :
       /\ begun[c] <= 1
       /\ calls[c] \in {"new", "unsent"} => begun[c] = 0 /\ op[c] = "none" /\ finished[c] = "none"
       /\ op[c] = "accepted" => begun[c] = 0
       /\ op[c] = "executing" => begun[c] = 1
       /\ finished[c] # "none" => op[c] = "none"
       /\ calls[c] \in Results => finished[c] = calls[c]
  /\ \A k \in 1..Len(out) : finished[out[k][1]] = out[k][2]

\* A process is a job's or an operation's under way, and what the client heard of its run, or
\* its own end, has reached both.
ProcessInvariant ==
  /\ \A c \in procs \cup jobs : begun[c] = 1
  /\ \A c \in procs : c \in jobs \/ op[c] = "executing"
  /\ \A c \in Calls : client = "closed" \/ RunOf[c] \in heard =>
       c \notin jobs /\ (op[c] # "none" => cause[c] # "none")

\* Once the relay knows of a revocation, no request is verified, no stream is open and nobody
\* waits.  The last change of the switch is the one the process is told last, and once it
\* was told that Connect is off, nobody waits.
AccessInvariant ==
  /\ told => row # "here" /\ dial # "verified" /\ stream = "none" /\ Pending = {}
  /\ untold # <<>> => untold[Len(untold)] = enabled
  /\ ~enabled /\ untold = <<>> => Pending = {}

Inv == /\ TypeOK /\ LineInvariant /\ CarriedInvariant /\ EndsInvariant /\ OutcomeInvariant
       /\ ProcessInvariant /\ AccessInvariant

(***************************************************************************)
(* Types.                                                                  *)
(***************************************************************************)
\* What the pieces the actions share keep of the types.
LEMMA SettlePendingTypes ==
  ASSUME TypeOK, NEW outcome \in {"disconnected", "lost"}, SettlePending(outcome)
  PROVE  calls' \in [Calls -> {"new", "pending", "unsent", "given_up", "disconnected", "lost"} \cup Results]
BY DEF SettlePending, TypeOK

LEMMA StopCallsTypes ==
  ASSUME TypeOK, NEW cs, NEW why \in {"run_ended", "stopped", "closed"}, StopCalls(cs, why)
  PROVE  /\ op' = op /\ procs' \subseteq Calls /\ jobs' \subseteq Jobs
         /\ cause' \in [Calls -> {"none", "cancelled", "run_ended", "deadline", "stopped", "closed"}]
BY DEF StopCalls, TypeOK

LEMMA AfterTypes ==
  ASSUME TypeOK, NEW end, After(end)
  PROVE  /\ op' = op /\ procs' \subseteq Calls /\ jobs' \subseteq Jobs /\ client' \in {"up", "closed"}
         /\ cause' \in [Calls -> {"none", "cancelled", "run_ended", "deadline", "stopped", "closed"}]
<1>1. CASE end = "disabled"
  BY <1>1, StopCallsTypes DEF After, TypeOK
<1>2. CASE end = "unauthorized"
  BY <1>2, StopCallsTypes DEF After
<1>3. CASE end # "disabled" /\ end # "unauthorized"
  BY <1>3 DEF After, executor, TypeOK
<1>. QED BY <1>1, <1>2, <1>3

LEMMA PushReplyTypes ==
  ASSUME TypeOK, NEW c \in Calls, NEW result \in Results, PushReply(c, result)
  PROVE  /\ out' \in Seq(Calls \X Results) /\ finished' \in [Calls -> {"none"} \cup Results]
<1>1. <<c, result>> \in Calls \X Results OBVIOUS
<1>2. Append(out, <<c, result>>) \in Seq(Calls \X Results)
  BY <1>1, AppendProperties DEF TypeOK
<1>. QED BY <1>2 DEF PushReply, TypeOK

\* The queue of run ends that wait keeps its bound and its type.
LEMMA NewestTypes ==
  ASSUME NEW S, NEW queue \in Seq(S)
  PROVE  /\ Newest(queue) \in Seq(S) /\ Len(Newest(queue)) <= MaxRunEnds
         /\ \A i \in 1..Len(Newest(queue)) : \E j \in 1..Len(queue) : Newest(queue)[i] = queue[j]
<1>1. Len(queue) \in Nat /\ MaxRunEnds \in Nat /\ \A i \in 1..Len(queue) : queue[i] \in S
  BY LenProperties, ElementOfSeq, BoundsAssumption
<1>2. PICK m \in 1..Len(queue) + 1 : /\ Newest(queue) = SubSeq(queue, m, Len(queue))
                                     /\ Len(queue) - m + 1 <= MaxRunEnds
  <2>. DEFINE m == IF Len(queue) > MaxRunEnds THEN Len(queue) - MaxRunEnds + 1 ELSE 1
  <2>1. m \in 1..Len(queue) + 1 /\ Len(queue) - m + 1 <= MaxRunEnds BY <1>1
  <2>2. Newest(queue) = SubSeq(queue, m, Len(queue)) BY DEF Newest
  <2>. QED BY <2>1, <2>2
<1>3. m \in Int /\ Len(queue) \in Int /\ \A i \in m..Len(queue) : queue[i] \in S BY <1>1
<1>4. /\ Newest(queue) \in Seq(S)
      /\ Len(Newest(queue)) = IF m <= Len(queue) THEN Len(queue) - m + 1 ELSE 0
      /\ \A i \in 1..Len(queue) - m + 1 : Newest(queue)[i] = queue[m + i - 1]
  BY <1>2, <1>3, SubSeqProperties
<1>5. ASSUME NEW i \in 1..Len(Newest(queue)) PROVE \E j \in 1..Len(queue) : Newest(queue)[i] = queue[j]
  <2>1. i \in 1..Len(queue) - m + 1 /\ m + i - 1 \in 1..Len(queue) BY <1>1, <1>4
  <2>. QED BY <1>4, <2>1
<1>6. Len(Newest(queue)) <= MaxRunEnds BY <1>1, <1>2, <1>4
<1>. QED BY <1>4, <1>5, <1>6

LEMMA FreshTypes ==
  ASSUME NEW S, NEW queue \in Seq(S), NEW kept \in Fresh(queue)
  PROVE  /\ kept \in Seq(S) /\ Len(kept) <= Len(queue)
         /\ \A i \in 1..Len(kept) : \E j \in 1..Len(queue) : kept[i] = queue[j]
<1>1. PICK k \in 1..Len(queue) + 1 : kept = SubSeq(queue, k, Len(queue)) BY DEF Fresh
<1>2. Len(queue) \in Nat /\ \A i \in 1..Len(queue) : queue[i] \in S
  BY LenProperties, ElementOfSeq
<1>3. k \in Int /\ Len(queue) \in Int /\ \A i \in k..Len(queue) : queue[i] \in S BY <1>2
<1>4. /\ kept \in Seq(S) /\ Len(kept) = IF k <= Len(queue) THEN Len(queue) - k + 1 ELSE 0
      /\ \A i \in 1..Len(queue) - k + 1 : kept[i] = queue[k + i - 1]
  BY <1>1, <1>3, SubSeqProperties
<1>5. ASSUME NEW i \in 1..Len(kept) PROVE \E j \in 1..Len(queue) : kept[i] = queue[j]
  <2>1. i \in 1..Len(queue) - k + 1 /\ k + i - 1 \in 1..Len(queue) BY <1>2, <1>4
  <2>. QED BY <1>4, <2>1
<1>. QED BY <1>2, <1>4, <1>5

\* A change of the switch is told after those before it, and the one told leaves the rest.
LEMMA ChangeCommitted ==
  ASSUME TypeOK, NEW on \in BOOLEAN, untold' = Append(untold, on)
  PROVE  untold' \in Seq(BOOLEAN) /\ untold' # <<>> /\ untold'[Len(untold')] = on
BY AppendProperties DEF TypeOK

LEMMA ChangeTold ==
  ASSUME TypeOK, untold # <<>>, untold' = Tail(untold)
  PROVE  /\ untold' \in Seq(BOOLEAN)
         /\ untold' # <<>> => untold'[Len(untold')] = untold[Len(untold)]
         /\ untold' = <<>> => Head(untold) = untold[Len(untold)]
<1>1. /\ untold \in Seq(BOOLEAN) /\ untold' \in Seq(BOOLEAN)
      /\ Len(untold) \in Nat /\ Len(untold') \in Nat /\ Len(untold') = Len(untold) - 1
      /\ \A i \in 1..Len(untold') : untold'[i] = untold[i + 1]
  BY HeadTailProperties, LenProperties DEF TypeOK
<1>2. CASE untold' # <<>>
  <2>1. Len(untold') # 0 BY <1>1, <1>2, EmptySeq
  <2>2. Len(untold') \in 1..Len(untold') /\ Len(untold') + 1 = Len(untold) BY <1>1, <2>1
  <2>3. untold'[Len(untold')] = untold[Len(untold') + 1] BY <1>1, <2>2
  <2>. QED BY <1>1, <1>2, <2>2, <2>3
<1>3. CASE untold' = <<>>
  <2>1. Len(untold) = 1 BY <1>1, <1>3, EmptySeq
  <2>. QED BY <1>1, <1>3, <2>1
<1>. QED BY <1>2, <1>3

\* Every step keeps the types.
LEMMA TypesStep ==
  ASSUME Inv, [Next]_vars
  PROVE  TypeOK'
<1>. USE CallsAssumption, BoundsAssumption
     DEF Inv, Results, relay, access, wire, executor, bounds
<1>1. ASSUME NEW c \in Calls, CallOp(c) PROVE TypeOK'
  BY <1>1 DEF CallOp, SendCommand, TypeOK
<1>2. ASSUME NEW c \in Calls, GiveUp(c) PROVE TypeOK'
  BY <1>2 DEF GiveUp, SendCommand, TypeOK
<1>3. ASSUME NEW r \in Runs, RunEnded(r) PROVE TypeOK'
  <2>1. stream' \in {"none", "live", "stale"} /\ ended' \subseteq Runs
    BY <1>3 DEF RunEnded, SendCommand, TypeOK
  <2>2. runEnds' \in Seq(Runs) /\ Len(runEnds') <= MaxRunEnds
    <3>1. CASE UNCHANGED runEnds BY <3>1 DEF TypeOK
    <3>2. ASSUME NEW kept \in Fresh(runEnds), runEnds' = Newest(Append(kept, r))
          PROVE  runEnds' \in Seq(Runs) /\ Len(runEnds') <= MaxRunEnds
      <4>1. kept \in Seq(Runs) BY FreshTypes DEF TypeOK
      <4>2. Append(kept, r) \in Seq(Runs) BY <4>1, AppendProperties
      <4>. QED BY <3>2, <4>2, NewestTypes
    <3>. QED BY <1>3, <3>1, <3>2 DEF RunEnded
  <2>. QED BY <1>3, <2>1, <2>2 DEF RunEnded, TypeOK
<1>4. ASSUME NEW final, EndDevice(final)
      PROVE  /\ stream' \in {"none", "live", "stale"}
             /\ dial' \in {"none", "asked", "noted", "verified", "stale"}
             /\ calls' \in [Calls -> {"new", "pending", "unsent", "given_up", "disconnected", "lost"} \cup Results]
  <2>1. stream' = "none" /\ Bump /\ SettlePending("disconnected") BY <1>4 DEF EndDevice
  <2>. QED BY <2>1, SettlePendingTypes DEF Bump, TypeOK
<1>5. ASSUME Heartbeat PROVE TypeOK'
  BY <1>4, <1>5 DEF Heartbeat, TypeOK
<1>6. ASSUME Disable PROVE TypeOK'
  <2>1. untold' \in Seq(BOOLEAN) BY <1>6, ChangeTold DEF Disable
  <2>. QED BY <1>4, <1>6, <2>1 DEF Disable, TypeOK
<1>7. ASSUME Disconnect PROVE TypeOK'
  <2>1. runEnds' \in Seq(Runs) /\ Len(runEnds') <= MaxRunEnds
    BY <1>7, EmptySeq DEF Disconnect
  <2>. QED BY <1>4, <1>7, <2>1 DEF Disconnect, TypeOK
<1>8. ASSUME Restart PROVE TypeOK'
  <2>1. runEnds' \in Seq(Runs) /\ Len(runEnds') <= MaxRunEnds
    BY <1>8, EmptySeq DEF Restart
  <2>2. untold' \in Seq(BOOLEAN) BY <1>8, EmptySeq DEF Restart
  <2>. QED BY <1>8, <2>1, <2>2, SettlePendingTypes DEF Restart, TypeOK
<1>9. ASSUME \/ DetachDevice \/ SwitchOff \/ SwitchOn \/ Remember \/ DeleteDevice \/ RevokeAccount
             \/ EndRevocation \/ NoteEpoch
      PROVE  TypeOK'
  <2>1. CASE SwitchOff \/ SwitchOn
    <3>1. untold' \in Seq(BOOLEAN) BY <2>1, ChangeCommitted DEF SwitchOff, SwitchOn
    <3>. QED BY <2>1, <3>1 DEF SwitchOff, SwitchOn, TypeOK
  <2>2. CASE Remember
    <3>1. untold' \in Seq(BOOLEAN) BY <2>2, ChangeTold DEF Remember
    <3>. QED BY <2>2, <3>1 DEF Remember, TypeOK
  <2>3. CASE DetachDevice \/ DeleteDevice \/ RevokeAccount \/ EndRevocation \/ NoteEpoch
    BY <2>3 DEF DetachDevice, DeleteDevice, RevokeAccount, EndRevocation, NoteEpoch, TypeOK
  <2>. QED BY <1>9, <2>1, <2>2, <2>3
<1>10. ASSUME NEW r \in Runs, LeaseExpires(r) PROVE TypeOK'
  BY <1>10, StopCallsTypes DEF LeaseExpires, TypeOK
<1>11. ASSUME NEW c \in Calls, Begin(c) \/ Register(c) \/ Complete(c) \/ Deadline(c) \/ JobExits(c)
       PROVE  TypeOK'
  <2>1. CASE Begin(c)
    <3>1. /\ op' \in [Calls -> {"none", "accepted", "executing", "succeeded", "failed"}]
          /\ procs' \subseteq Calls
      BY <2>1 DEF Begin, TypeOK
    <3>2. begun' \in [Calls -> Nat]
      <4>1. begun \in [Calls -> Nat] BY DEF TypeOK
      <4>2. begun' = begun \/ begun' = [begun EXCEPT ![c] = begun[c] + 1] BY <2>1 DEF Begin
      <4>. QED BY <4>1, <4>2
    <3>. QED BY <2>1, <3>1, <3>2 DEF Begin, TypeOK
  <2>2. CASE Register(c) BY ZenonT(30), <2>2 DEF Register, TypeOK
  <2>3. CASE Complete(c) BY <2>3 DEF Complete, TypeOK
  <2>4. CASE Deadline(c) \/ JobExits(c) BY <2>4 DEF Deadline, JobExits, TypeOK
  <2>. QED BY <1>11, <2>1, <2>2, <2>3, <2>4
<1>12. ASSUME NEW c \in Calls, Finish(c) PROVE TypeOK'
  <2>1. out' \in Seq(Calls \X Results) /\ finished' \in [Calls -> {"none"} \cup Results]
    BY <1>12, PushReplyTypes DEF Finish, TypeOK
  <2>. QED BY <1>12, <2>1 DEF Finish, TypeOK
<1>13. ASSUME Leave PROVE /\ {link', conn'} \subseteq BOOLEAN /\ out' \in Seq(Calls \X Results)
                          /\ stream' \in {"none", "live", "stale"}
  BY <1>13, EmptySeq DEF Leave, TypeOK
<1>14. ASSUME NEW end, Hangup(end) PROVE TypeOK'
  BY <1>13, <1>14, AfterTypes DEF Hangup, TypeOK
<1>15. ASSUME StopClient PROVE TypeOK'
  BY <1>13, <1>15, StopCallsTypes DEF StopClient, TypeOK
<1>16. ASSUME Dial PROVE TypeOK'
  <2>1. dial' \in {"none", "asked", "noted", "verified", "stale"} BY <1>16 DEF Dial, TypeOK
  <2>2. CASE UNCHANGED <<executor, client>> BY <1>16, <2>1, <2>2 DEF Dial, TypeOK
  <2>3. CASE After("disabled") BY <1>16, <2>1, <2>3, AfterTypes DEF Dial, TypeOK
  <2>. QED BY <1>16, <2>2, <2>3 DEF Dial
<1>17. ASSUME FindDevice PROVE TypeOK'
  <2>1. dial' \in {"none", "asked", "noted", "verified", "stale"} BY <1>17 DEF FindDevice
  <2>. QED BY <1>17, <2>1, AfterTypes DEF FindDevice, TypeOK
<1>18. ASSUME AttachDevice PROVE TypeOK'
  <2>0. PICK queue \in Fresh(runEnds) : \E sent \in 0..Len(queue) :
          stream' \in {"live", "none"} /\ runEnds' = SubSeq(queue, sent + 1, Len(queue))
    BY <1>18 DEF AttachDevice
  <2>1. PICK sent \in 0..Len(queue) :
          /\ stream' \in {"live", "none"} /\ runEnds' = SubSeq(queue, sent + 1, Len(queue))
    BY <2>0
  <2>2. queue \in Seq(Runs) /\ Len(queue) <= Len(runEnds) BY FreshTypes DEF TypeOK
  <2>3. /\ Len(queue) \in Nat /\ Len(runEnds) \in Nat /\ sent + 1 \in Int
        /\ \A i \in sent + 1..Len(queue) : queue[i] \in Runs
    BY <2>2, LenProperties, ElementOfSeq DEF TypeOK
  <2>4. /\ runEnds' \in Seq(Runs)
        /\ Len(runEnds') = IF sent + 1 <= Len(queue) THEN Len(queue) - (sent + 1) + 1 ELSE 0
    BY <2>1, <2>3, SubSeqProperties
  <2>5. Len(runEnds') <= MaxRunEnds BY SMTT(30), <2>2, <2>3, <2>4 DEF TypeOK
  <2>. QED BY <1>18, <2>1, <2>4, <2>5 DEF AttachDevice, TypeOK
<1>19. ASSUME Read PROVE TypeOK'
  <2>. DEFINE message == Head(line)
  <2>1. message \in Messages /\ line # <<>>
    BY <1>19, HeadTailProperties DEF Read, LineInvariant
  <2>2. CASE message[1] = "hello" /\ UNCHANGED <<stream, client, link, out, executor, heard, finished>> /\ conn' = TRUE
    BY <1>19, <2>2 DEF Read, TypeOK
  <2>3. CASE message[1] = "op" /\ Start(message[2]) /\ UNCHANGED <<stream, client, link, conn, heard>>
    <3>1. message[2] \in Calls BY <2>1, <2>3 DEF Messages, Finals
    <3>2. /\ out' \in Seq(Calls \X Results) /\ finished' \in [Calls -> {"none"} \cup Results]
          /\ op' \in [Calls -> {"none", "accepted", "executing", "succeeded", "failed"}]
          /\ UNCHANGED <<cause, procs, jobs>>
      BY <2>3, <3>1, PushReplyTypes DEF Start, TypeOK
    <3>. QED BY <1>19, <2>3, <3>2 DEF Read, TypeOK
  <2>4. CASE message[1] = "cancel" /\ UNCHANGED <<stream, client, wire, op, procs, jobs, heard, finished>>
             /\ cause' = IF op[message[2]] # "none" /\ cause[message[2]] = "none"
                         THEN [cause EXCEPT ![message[2]] = "cancelled"] ELSE cause
    BY <1>19, <2>4 DEF Read, TypeOK
  <2>5. CASE message[1] = "run_ended" /\ UNCHANGED <<stream, client, wire, finished>>
             /\ heard' = heard \cup {message[2]}
             /\ StopCalls({c \in Calls : RunOf[c] = message[2]}, "run_ended")
    <3>1. message[2] \in Runs BY <2>1, <2>5 DEF Messages, Finals
    <3>. QED BY <1>19, <2>5, <3>1, StopCallsTypes DEF Read, TypeOK
  <2>6. CASE Leave /\ After(message[1]) /\ UNCHANGED <<heard, finished>>
    BY <1>13, <1>19, <2>6, AfterTypes DEF Read, TypeOK
  <2>. QED BY <1>19, <2>2, <2>3, <2>4, <2>5, <2>6 DEF Read
<1>20. ASSUME PostEvents PROVE TypeOK'
  <2>1. /\ Head(out) \in Calls \X Results /\ Tail(out) \in Seq(Calls \X Results)
    BY <1>20, HeadTailProperties DEF PostEvents, TypeOK
  <2>2. calls' \in [Calls -> {"new", "pending", "unsent", "given_up", "disconnected", "lost"} \cup Results]
    BY <1>20, <2>1 DEF PostEvents, ApplyEvent, TypeOK
  <2>. QED BY <1>20, <2>1, <2>2 DEF PostEvents, TypeOK
<1>21. ASSUME Drop \/ PostRefused PROVE TypeOK'
  BY <1>14, <1>21 DEF Drop, PostRefused
<1>22. ASSUME UNCHANGED vars PROVE TypeOK'
  BY <1>22 DEF vars, TypeOK
<1>. QED BY <1>1, <1>2, <1>3, <1>5, <1>6, <1>7, <1>8, <1>9, <1>10, <1>11, <1>12, <1>15, <1>16, <1>17,
     <1>18, <1>19, <1>20, <1>21, <1>22 DEF Next

(***************************************************************************)
(* What a stream carries.                                                  *)
(***************************************************************************)
\* A message is of one kind; an operation's and a run end's name what they are about.
LEMMA MessageKinds ==
  ASSUME NEW m \in Messages
  PROVE  /\ m[1] \in {"hello", "eof", "disabled", "unauthorized", "op", "cancel", "run_ended"}
         /\ m[1] \in {"op", "cancel"} => m[2] \in Calls /\ m = <<m[1], m[2]>>
         /\ m[1] = "run_ended" => m[2] \in Runs /\ m = <<"run_ended", m[2]>>
BY DEF Messages, Finals

LEMMA LineElements ==
  ASSUME LineInvariant
  PROVE  Len(line) \in Nat /\ \A k \in 1..Len(line) : line[k] \in Messages
BY LenProperties, ElementOfSeq DEF LineInvariant

\* The line stays as it is, or is left.
LEMMA LineStays ==
  ASSUME LineInvariant, ended \subseteq ended', line' = line \/ line' = <<>>
  PROVE  LineInvariant' /\ \A c \in Calls : Carried(c)' => Carried(c)
<1>1. CASE line' = line
  BY <1>1 DEF LineInvariant, Carried
<1>2. CASE line' = <<>>
  <2>1. line' \in Seq(Messages) /\ 1..Len(line') = {} BY <1>2, EmptySeq
  <2>. QED BY <2>1 DEF LineInvariant, Carried
<1>. QED BY <1>1, <1>2

\* One more message is sent.
LEMMA LineAppended ==
  ASSUME LineInvariant, NEW m \in Messages, line' = line \o <<m>>
  PROVE  /\ line' \in Seq(Messages) /\ Len(line) \in Nat /\ Len(line') = Len(line) + 1
         /\ \A k \in 1..Len(line) : line'[k] = line[k]
         /\ line'[Len(line) + 1] = m
<1>1. line' = Append(line, m) BY AppendIsConcat DEF LineInvariant
<1>. QED BY <1>1, AppendProperties, LenProperties DEF LineInvariant

LEMMA LineGrows ==
  ASSUME LineInvariant, NEW m \in Messages, line' = line \o <<m>>, m[1] # "op",
         ended \subseteq ended', m[1] = "run_ended" => m[2] \in ended'
  PROVE  LineInvariant' /\ \A c \in Calls : Carried(c)' => Carried(c)
<1>1. /\ line' \in Seq(Messages) /\ Len(line) \in Nat /\ Len(line') = Len(line) + 1
      /\ \A k \in 1..Len(line) : line'[k] = line[k]
      /\ line'[Len(line) + 1] = m
  BY LineAppended
<1>2. \A c \in Calls : m # <<"op", c>> OBVIOUS
<1>3. ASSUME NEW k \in 1..Len(line'), line'[k][1] = "run_ended" PROVE line'[k][2] \in ended'
  BY <1>1, <1>3 DEF LineInvariant
<1>4. ASSUME NEW c \in Calls, NEW k \in 1..Len(line'), line'[k] = <<"op", c>>
      PROVE  k \in 1..Len(line) /\ line[k] = <<"op", c>>
  BY <1>1, <1>2, <1>4
<1>5. ASSUME NEW c \in Calls, NEW k \in 1..Len(line'), NEW l \in 1..Len(line'), line'[k] = <<"op", c>>
      PROVE  /\ line'[l] = <<"op", c>> => l = k
             /\ line'[l] = <<"run_ended", RunOf[c]>> => k < l
  <2>1. k \in 1..Len(line) /\ line[k] = <<"op", c>> BY <1>4, <1>5
  <2>2. CASE l \in 1..Len(line) BY <1>1, <2>1, <2>2 DEF LineInvariant
  <2>3. CASE l = Len(line) + 1 BY <1>1, <1>2, <2>1, <2>3
  <2>. QED BY <1>1, <2>2, <2>3
<1>. QED BY <1>1, <1>3, <1>4, <1>5 DEF LineInvariant, Carried

\* An operation is sent once, and before the end of its run.
LEMMA OperationSent ==
  ASSUME LineInvariant, NEW c \in Calls, line' = line \o <<<<"op", c>>>>, UNCHANGED ended,
         ~Carried(c), RunOf[c] \notin ended
  PROVE  LineInvariant' /\ \A d \in Calls : Carried(d)' => Carried(d) \/ d = c
<1>0. <<"op", c>> \in Messages BY DEF Messages
<1>1. /\ line' \in Seq(Messages) /\ Len(line) \in Nat /\ Len(line') = Len(line) + 1
      /\ \A k \in 1..Len(line) : line'[k] = line[k]
      /\ line'[Len(line) + 1] = <<"op", c>>
  BY <1>0, LineAppended
<1>2. \A k \in 1..Len(line) : line[k] # <<"op", c>> BY DEF Carried
<1>3. \A k \in 1..Len(line) : line[k] # <<"run_ended", RunOf[c]>>
  BY DEF LineInvariant
<1>4. ASSUME NEW k \in 1..Len(line'), line'[k][1] = "run_ended" PROVE line'[k][2] \in ended'
  BY <1>1, <1>4 DEF LineInvariant
<1>5. ASSUME NEW d \in Calls, NEW k \in 1..Len(line'), NEW l \in 1..Len(line'), line'[k] = <<"op", d>>
      PROVE  /\ line'[l] = <<"op", d>> => l = k
             /\ line'[l] = <<"run_ended", RunOf[d]>> => k < l
  <2>1. CASE k \in 1..Len(line) /\ l \in 1..Len(line) BY SMTT(30), <1>1, <1>5, <2>1 DEF LineInvariant
  <2>2. CASE k \in 1..Len(line) /\ l = Len(line) + 1 BY <1>1, <1>2, <1>5, <2>2
  <2>3. CASE k = Len(line) + 1 /\ l \in 1..Len(line) BY <1>1, <1>2, <1>3, <1>5, <2>3
  <2>4. CASE k = Len(line) + 1 /\ l = Len(line) + 1
    <3>1. c = d BY <1>1, <1>5, <2>4
    <3>2. <<"op", c>> # <<"run_ended", RunOf[d]>> OBVIOUS
    <3>. QED BY <1>1, <2>4, <3>1, <3>2
  <2>5. \A i \in 1..Len(line') : i \in 1..Len(line) \/ i = Len(line) + 1 BY <1>1
  <2>. QED BY <2>1, <2>2, <2>3, <2>4, <2>5
<1>6. ASSUME NEW d \in Calls, Carried(d)' PROVE Carried(d) \/ d = c
  <2>1. PICK k \in 1..Len(line') : line'[k] = <<"op", d>> BY <1>6 DEF Carried
  <2>2. CASE k \in 1..Len(line) BY <1>1, <2>1, <2>2 DEF Carried
  <2>3. CASE k = Len(line) + 1 BY <1>1, <2>1, <2>3
  <2>. QED BY <1>1, <2>2, <2>3
<1>. QED BY <1>1, <1>4, <1>5, <1>6 DEF LineInvariant

\* The client reads the first message: it is off the line, and what it named is carried no
\* more, nor is any operation of a run whose end it was.
LEMMA LineRead ==
  ASSUME LineInvariant, line # <<>>, line' = Tail(line), UNCHANGED ended
  PROVE  /\ LineInvariant' /\ \A c \in Calls : Carried(c)' => Carried(c)
         /\ Head(line) = line[1] /\ 1 \in 1..Len(line) /\ line[1] \in Messages
         /\ \A c \in Calls : line[1] = <<"op", c>> => ~Carried(c)'
         /\ \A c \in Calls : line[1] = <<"run_ended", RunOf[c]>> => ~Carried(c)
<1>1. /\ line' \in Seq(Messages) /\ Len(line) \in Nat /\ Len(line') = Len(line) - 1
      /\ \A k \in 1..Len(line') : line'[k] = line[k + 1]
  BY HeadTailProperties, LenProperties DEF LineInvariant
<1>2. Len(line) # 0 BY EmptySeq DEF LineInvariant
<1>3. 1 \in 1..Len(line) /\ Head(line) = line[1] /\ line[1] \in Messages
  BY <1>1, <1>2, LineElements, HeadTailProperties DEF LineInvariant
<1>4. ASSUME NEW k \in 1..Len(line') PROVE k + 1 \in 1..Len(line) /\ line'[k] = line[k + 1]
  BY <1>1, <1>4
<1>5. ASSUME NEW k \in 1..Len(line'), line'[k][1] = "run_ended" PROVE line'[k][2] \in ended'
  BY <1>4, <1>5 DEF LineInvariant
<1>6. ASSUME NEW c \in Calls, NEW k \in 1..Len(line'), NEW l \in 1..Len(line'), line'[k] = <<"op", c>>
      PROVE  /\ line'[l] = <<"op", c>> => l = k
             /\ line'[l] = <<"run_ended", RunOf[c]>> => k < l
  <2>1. k + 1 \in 1..Len(line) /\ l + 1 \in 1..Len(line) /\ line[k + 1] = <<"op", c>> /\ line'[l] = line[l + 1]
    BY <1>4, <1>6
  <2>2. /\ line[l + 1] = <<"op", c>> => l + 1 = k + 1
        /\ line[l + 1] = <<"run_ended", RunOf[c]>> => k + 1 < l + 1
    BY <2>1 DEF LineInvariant
  <2>. QED BY <1>1, <2>1, <2>2
<1>7. ASSUME NEW c \in Calls, NEW k \in 1..Len(line'), line'[k] = <<"op", c>>
      PROVE  Carried(c) /\ line[1] # <<"op", c>>
  <2>1. k + 1 \in 1..Len(line) /\ line[k + 1] = <<"op", c>> BY <1>4, <1>7
  <2>2. line[1] = <<"op", c>> => 1 = k + 1 BY <1>3, <2>1 DEF LineInvariant
  <2>. QED BY <1>1, <2>1, <2>2 DEF Carried
<1>8. ASSUME NEW c \in Calls, line[1] = <<"run_ended", RunOf[c]>> PROVE ~Carried(c)
  <2>1. ASSUME NEW k \in 1..Len(line), line[k] = <<"op", c>> PROVE FALSE
    <3>1. k < 1 BY <1>3, <1>8, <2>1 DEF LineInvariant
    <3>. QED BY <1>1, <3>1
  <2>. QED BY <2>1 DEF Carried
<1>. QED BY <1>1, <1>3, <1>5, <1>6, <1>7, <1>8 DEF LineInvariant, Carried

\* A new stream begins with the ends of runs that waited for one.
LEMMA LineAttached ==
  ASSUME Inv, AttachDevice
  PROVE  /\ LineInvariant' /\ \A c \in Calls : ~Carried(c)'
         /\ \A k \in 1..Len(runEnds') : runEnds'[k] \in ended
<1>0. PICK queue \in Fresh(runEnds) : \E sent \in 0..Len(queue) :
        LET whole    == sent = Len(queue)
            commands == [k \in 1..sent |-> <<"run_ended", queue[k]>>]
        IN  /\ line' = <<<<"hello">>>> \o commands \o (IF whole THEN <<>> ELSE <<<<"eof">>>>)
            /\ runEnds' = SubSeq(queue, sent + 1, Len(queue))
  BY DEF AttachDevice
<1>1. PICK sent \in 0..Len(queue) :
        /\ line' = <<<<"hello">>>> \o [k \in 1..sent |-> <<"run_ended", queue[k]>>]
                     \o (IF sent = Len(queue) THEN <<>> ELSE <<<<"eof">>>>)
        /\ runEnds' = SubSeq(queue, sent + 1, Len(queue))
  BY <1>0
<1>. DEFINE commands == [k \in 1..sent |-> <<"run_ended", queue[k]>>]
            tail == IF sent = Len(queue) THEN <<>> ELSE <<<<"eof">>>>
            hello == <<<<"hello">>>>
<1>2. queue \in Seq(Runs) /\ \A i \in 1..Len(queue) : \E j \in 1..Len(runEnds) : queue[i] = runEnds[j]
  BY FreshTypes DEF Inv, TypeOK
<1>3. Len(queue) \in Nat /\ \A i \in 1..Len(queue) : queue[i] \in Runs
  BY <1>2, LenProperties, ElementOfSeq
<1>4. \A i \in 1..Len(queue) : queue[i] \in ended BY <1>2 DEF Inv, EndsInvariant
<1>5. sent \in Nat /\ sent <= Len(queue) BY <1>3
<1>6. /\ commands \in Seq(Messages) /\ Len(commands) = sent
      /\ \A i \in 1..sent : commands[i] = <<"run_ended", queue[i]>>
  <2>1. \A i \in 1..sent : <<"run_ended", queue[i]>> \in Messages BY <1>3, <1>5 DEF Messages
  <2>2. commands \in [1..sent -> Messages] BY <2>1
  <2>3. commands \in Seq(Messages) BY <1>5, <2>2, SeqDef
  <2>4. DOMAIN commands = 1..sent /\ DOMAIN commands = 1..Len(commands) /\ Len(commands) \in Nat
    BY <2>3, LenProperties
  <2>5. Len(commands) = sent BY <1>5, <2>4
  <2>. QED BY <2>3, <2>5
<1>7. hello \in Seq(Messages) /\ Len(hello) = 1 /\ hello[1] = <<"hello">>
  BY DEF Messages
<1>8. tail \in Seq(Messages) /\ Len(tail) \in {0, 1} /\ (Len(tail) = 1 => tail[1] = <<"eof">>)
  <2>1. <<>> \in Seq(Messages) /\ Len(<<>>) = 0 BY EmptySeq
  <2>2. <<<<"eof">>>> \in Seq(Messages) /\ Len(<<<<"eof">>>>) = 1 BY DEF Messages, Finals
  <2>. QED BY <2>1, <2>2
<1>. HIDE DEF commands, tail, hello
<1>9. /\ hello \o commands \in Seq(Messages) /\ Len(hello \o commands) = 1 + sent
      /\ \A i \in 1..1 + sent : (hello \o commands)[i] = IF i <= 1 THEN hello[i] ELSE commands[i - 1]
  <2>1. /\ hello \o commands \in Seq(Messages) /\ Len(hello \o commands) = Len(hello) + Len(commands)
        /\ \A i \in 1..Len(hello) + Len(commands) : (hello \o commands)[i] =
             IF i <= Len(hello) THEN hello[i] ELSE commands[i - Len(hello)]
    BY <1>6, <1>7, ConcatProperties
  <2>. QED BY <1>6, <1>7, <2>1
<1>10. line' = (hello \o commands) \o tail BY <1>1 DEF commands, tail, hello
<1>11. /\ line' \in Seq(Messages) /\ Len(line') = 1 + sent + Len(tail)
       /\ \A i \in 1..1 + sent + Len(tail) :
            line'[i] = IF i <= 1 + sent THEN (hello \o commands)[i] ELSE tail[i - (1 + sent)]
  <2>. DEFINE start == hello \o commands
  <2>. HIDE DEF start
  <2>1. start \in Seq(Messages) /\ Len(start) = 1 + sent /\ line' = start \o tail
    BY <1>9, <1>10 DEF start
  <2>2. /\ line' \in Seq(Messages) /\ Len(line') = Len(start) + Len(tail)
        /\ \A i \in 1..Len(start) + Len(tail) :
             line'[i] = IF i <= Len(start) THEN start[i] ELSE tail[i - Len(start)]
    BY <1>8, <2>1, ConcatProperties
  <2>3. /\ Len(line') = 1 + sent + Len(tail)
        /\ \A i \in 1..1 + sent + Len(tail) :
             line'[i] = IF i <= 1 + sent THEN start[i] ELSE tail[i - (1 + sent)]
    BY <2>1, <2>2
  <2>. QED BY <2>2, <2>3 DEF start
<1>12. ASSUME NEW i \in 1..Len(line')
       PROVE  \/ line'[i] = <<"hello">> \/ line'[i] = <<"eof">>
              \/ \E j \in 1..Len(queue) : line'[i] = <<"run_ended", queue[j]>>
  <2>1. CASE i = 1
    <3>1. i <= 1 + sent /\ i \in 1..1 + sent /\ i \in 1..1 + sent + Len(tail) BY <1>5, <1>8, <2>1
    <3>2. line'[i] = (hello \o commands)[i] BY <1>11, <3>1
    <3>. QED BY <1>7, <1>9, <2>1, <3>1, <3>2
  <2>2. CASE i > 1 /\ i <= 1 + sent
    <3>1. i - 1 \in 1..sent /\ i - 1 \in 1..Len(queue) BY <1>5, <2>2
    <3>2. i \in 1..1 + sent /\ i \in 1..1 + sent + Len(tail) BY <1>5, <1>8, <2>2
    <3>3. line'[i] = (hello \o commands)[i] BY <1>11, <2>2, <3>2
    <3>4. line'[i] = commands[i - 1] BY <1>9, <2>2, <3>2, <3>3
    <3>. QED BY <1>6, <3>1, <3>4
  <2>3. CASE i > 1 + sent BY <1>5, <1>8, <1>11, <2>3
  <2>. QED BY <1>5, <1>11, <2>1, <2>2, <2>3
<1>13. \A i \in 1..Len(line'), c \in Calls : line'[i] # <<"op", c>>
  BY <1>12
<1>14. \A i \in 1..Len(line') : line'[i][1] = "run_ended" => line'[i][2] \in ended'
  <2>1. ASSUME NEW i \in 1..Len(line'), line'[i][1] = "run_ended" PROVE line'[i][2] \in ended
    <3>1. line'[i] # <<"hello">> /\ line'[i] # <<"eof">> BY <2>1
    <3>2. PICK j \in 1..Len(queue) : line'[i] = <<"run_ended", queue[j]>> BY <1>12, <3>1
    <3>. QED BY <1>4, <3>2
  <2>. QED BY <2>1 DEF AttachDevice
<1>15. ASSUME NEW k \in 1..Len(runEnds') PROVE runEnds'[k] \in ended
  <2>1. sent + 1 \in Int /\ Len(queue) \in Int /\ \A i \in sent + 1..Len(queue) : queue[i] \in Runs
    BY <1>3, <1>5
  <2>2. /\ Len(runEnds') = IF sent + 1 <= Len(queue) THEN Len(queue) - (sent + 1) + 1 ELSE 0
        /\ \A i \in 1..Len(queue) - (sent + 1) + 1 : runEnds'[i] = queue[sent + 1 + i - 1]
    BY SMTT(30), <1>1, <2>1, SubSeqProperties
  <2>3. k \in 1..Len(queue) - (sent + 1) + 1 /\ sent + 1 + k - 1 \in 1..Len(queue)
    BY <1>3, <1>5, <2>2
  <2>. QED BY <1>4, <2>2, <2>3
<1>. QED BY <1>11, <1>13, <1>14, <1>15 DEF LineInvariant, Carried

\* What SendCommand and the end of a device's stream put on the line.
LEMMA CommandSent ==
  ASSUME Inv, NEW m \in Messages, NEW sent \in BOOLEAN, SendCommand(m, sent), m[1] # "op",
         ended \subseteq ended', m[1] = "run_ended" => m[2] \in ended'
  PROVE  LineInvariant' /\ \A c \in Calls : Carried(c)' => Carried(c)
<1>1. line' = line \/ line' = line \o <<m>> \/ line' = line \o <<<<"eof">>>>
  BY DEF SendCommand, Put
<1>2. <<"eof">> \in Messages /\ <<"eof">>[1] = "eof" BY DEF Messages, Finals
<1>. QED BY <1>1, <1>2, LineStays, LineGrows DEF Inv

LEMMA DeviceEnded ==
  ASSUME Inv, NEW final \in {"disabled", "unauthorized"}, EndDevice(final), UNCHANGED ended
  PROVE  LineInvariant' /\ \A c \in Calls : Carried(c)' => Carried(c)
<1>1. line' = line \/ line' = line \o <<<<final>>>>
  BY DEF EndDevice, Put
<1>2. <<final>> \in Messages /\ <<final>>[1] = final BY DEF Messages, Finals
<1>. QED BY <1>1, <1>2, LineStays, LineGrows DEF Inv

\* The client reads a message, or its stream ends with it.
LEMMA LineReadBy ==
  ASSUME Inv, Read
  PROVE  LineInvariant' /\ \A c \in Calls : Carried(c)' => Carried(c)
<1>1. line # <<>> /\ UNCHANGED ended /\ (line' = Tail(line) \/ Leave) BY DEF Read
<1>2. CASE line' = Tail(line) BY <1>1, <1>2, LineRead DEF Inv
<1>3. CASE Leave
  <2>1. line' = <<>> BY <1>3 DEF Leave
  <2>. QED BY <1>1, <2>1, LineStays DEF Inv
<1>. QED BY <1>1, <1>2, <1>3

\* Every step keeps the line's order, and an operation is on it only since it was asked for.
LEMMA LineStep ==
  ASSUME Inv, [Next]_vars
  PROVE  LineInvariant' /\ \A c \in Calls : Carried(c)' => Carried(c) \/ (CallOp(c) /\ calls'[c] = "pending")
<1>. DEFINE Goal == LineInvariant' /\ \A c \in Calls :
                      Carried(c)' => Carried(c) \/ (CallOp(c) /\ calls'[c] = "pending")
<1>. USE DEF relay, access, wire, bounds
<1>1. ASSUME NEW c \in Calls, CallOp(c) PROVE Goal
  <2>1. UNCHANGED ended /\ RunOf[c] \notin ended /\ calls[c] = "new" BY <1>1 DEF CallOp
  <2>2. ~Carried(c) BY <2>1 DEF Inv, CarriedInvariant, Untouched
  <2>3. CASE line' = line BY <2>1, <2>3, LineStays DEF Inv
  <2>4. CASE line' = line \o <<<<"eof">>>>
    <3>1. <<"eof">> \in Messages /\ <<"eof">>[1] = "eof" BY DEF Messages, Finals
    <3>. QED BY <2>1, <2>4, <3>1, LineGrows DEF Inv
  <2>5. CASE line' = line \o <<<<"op", c>>>> /\ calls' = [calls EXCEPT ![c] = "pending"]
    <3>1. calls'[c] = "pending" BY <2>5 DEF Inv, TypeOK
    <3>. QED BY <1>1, <2>1, <2>2, <2>5, <3>1, OperationSent DEF Inv
  <2>. QED BY <1>1, <2>3, <2>4, <2>5 DEF CallOp, SendCommand, Put
<1>2. ASSUME NEW c \in Calls, GiveUp(c) PROVE Goal
  <2>1. <<"cancel", c>> \in Messages /\ <<"cancel", c>>[1] = "cancel" BY DEF Messages
  <2>2. UNCHANGED ended BY <1>2 DEF GiveUp
  <2>. QED BY <1>2, <2>1, <2>2, LineStays, CommandSent DEF GiveUp, Inv
<1>3. ASSUME NEW r \in Runs, RunEnded(r) PROVE Goal
  <2>1. /\ <<"run_ended", r>> \in Messages /\ <<"run_ended", r>>[1] = "run_ended"
        /\ <<"run_ended", r>>[2] = r
    BY DEF Messages
  <2>2. ended \subseteq ended' /\ r \in ended' BY <1>3 DEF RunEnded
  <2>. QED BY <1>3, <2>1, <2>2, LineStays, CommandSent DEF RunEnded, Inv
<1>4. ASSUME Heartbeat \/ Disable \/ Disconnect PROVE Goal
  <2>1. UNCHANGED ended /\ \E final \in {"disabled", "unauthorized"} : EndDevice(final)
    BY <1>4 DEF Heartbeat, Disable, Disconnect
  <2>. QED BY <2>1, DeviceEnded
<1>5. ASSUME AttachDevice PROVE Goal
  BY <1>5, LineAttached
<1>6. ASSUME Read PROVE Goal
  BY <1>6, LineReadBy
<1>7. ASSUME Drop \/ StopClient \/ PostRefused PROVE Goal
  <2>1. line' = <<>> /\ UNCHANGED ended BY <1>7 DEF Drop, StopClient, PostRefused, Hangup, Leave
  <2>. QED BY <2>1, LineStays DEF Inv
<1>8. ASSUME UNCHANGED <<line, ended>> PROVE Goal
  BY <1>8, LineStays DEF Inv
<1>9. ASSUME \/ DetachDevice \/ Restart \/ SwitchOff \/ SwitchOn \/ Remember \/ DeleteDevice \/ RevokeAccount
             \/ EndRevocation \/ Dial \/ NoteEpoch \/ FindDevice \/ PostEvents \/ UNCHANGED vars
             \/ (\E r \in Runs : LeaseExpires(r))
             \/ \E c \in Calls : Begin(c) \/ Register(c) \/ Complete(c) \/ Deadline(c) \/ Finish(c) \/ JobExits(c)
      PROVE  UNCHANGED <<line, ended>>
  BY <1>9 DEF DetachDevice, Restart, SwitchOff, SwitchOn, Remember, DeleteDevice, RevokeAccount, EndRevocation,
     Dial, NoteEpoch, FindDevice, PostEvents, LeaseExpires, Begin, Register, Complete, Deadline, Finish,
     JobExits, vars
<1>. QED BY <1>1, <1>2, <1>3, <1>4, <1>5, <1>6, <1>7, <1>8, <1>9 DEF Next

(***************************************************************************)
(* Run ends, callers and processes.                                        *)
(***************************************************************************)
\* Only ended runs' ends wait or are read.
LEMMA EndsHold ==
  ASSUME Inv, [Next]_vars
  PROVE  EndsInvariant'
<1>. USE DEF Inv, EndsInvariant, relay, access, wire, bounds
<1>1. ASSUME NEW r \in Runs, RunEnded(r) PROVE EndsInvariant'
  <2>1. heard' \subseteq ended' /\ ended \subseteq ended' /\ r \in ended' BY <1>1 DEF RunEnded
  <2>2. ASSUME NEW kept \in Fresh(runEnds), runEnds' = Newest(Append(kept, r))
        PROVE  \A k \in 1..Len(runEnds') : runEnds'[k] \in ended'
    <3>1. /\ kept \in Seq(Runs) /\ \A i \in 1..Len(kept) : kept[i] \in ended
      <4>1. runEnds \in Seq(Runs) BY DEF TypeOK
      <4>2. kept \in Seq(Runs) /\ \A i \in 1..Len(kept) : \E j \in 1..Len(runEnds) : kept[i] = runEnds[j]
        BY <4>1, FreshTypes
      <4>. QED BY <4>2
    <3>2. /\ Append(kept, r) \in Seq(Runs) /\ Len(kept) \in Nat
          /\ Len(Append(kept, r)) = Len(kept) + 1 /\ Append(kept, r)[Len(kept) + 1] = r
          /\ \A i \in 1..Len(kept) : Append(kept, r)[i] = kept[i]
      BY <3>1, AppendProperties, LenProperties
    <3>3. \A i \in 1..Len(Append(kept, r)) : Append(kept, r)[i] \in ended'
      BY <2>1, <3>1, <3>2
    <3>. QED BY <2>2, <3>2, <3>3, NewestTypes
  <2>. QED BY <1>1, <2>1, <2>2 DEF RunEnded
<1>2. ASSUME AttachDevice PROVE EndsInvariant'
  BY <1>2, LineAttached DEF AttachDevice
<1>3. ASSUME Restart \/ Disconnect PROVE EndsInvariant'
  <2>1. runEnds' = <<>> /\ UNCHANGED <<heard, ended>> BY <1>3 DEF Restart, Disconnect
  <2>2. Len(runEnds') = 0 BY <2>1, EmptySeq
  <2>. QED BY <2>1, <2>2
<1>4. ASSUME Read PROVE EndsInvariant'
  <2>1. UNCHANGED <<runEnds, ended>> BY <1>4 DEF Read
  <2>2. CASE UNCHANGED heard BY <2>1, <2>2
  <2>3. CASE Head(line)[1] = "run_ended" /\ heard' = heard \cup {Head(line)[2]} /\ line' = Tail(line)
    <3>1. Head(line) = line[1] /\ 1 \in 1..Len(line) BY <1>4, <2>1, <2>3, LineRead DEF Read
    <3>2. line[1][2] \in ended BY <2>3, <3>1 DEF LineInvariant
    <3>. QED BY <2>1, <2>3, <3>1, <3>2
  <2>. QED BY <1>4, <2>2, <2>3 DEF Read
<1>5. ASSUME UNCHANGED <<runEnds, heard, ended>> PROVE EndsInvariant'
  BY <1>5
<1>6. ASSUME \/ DetachDevice \/ Heartbeat \/ SwitchOff \/ SwitchOn \/ Remember \/ Disable \/ DeleteDevice \/ RevokeAccount
             \/ EndRevocation \/ Dial \/ NoteEpoch \/ FindDevice \/ PostEvents \/ Drop \/ StopClient
             \/ PostRefused \/ UNCHANGED vars \/ (\E r \in Runs : LeaseExpires(r))
             \/ \E c \in Calls : \/ CallOp(c) \/ GiveUp(c) \/ Begin(c) \/ Register(c) \/ Complete(c)
                                 \/ Deadline(c) \/ Finish(c) \/ JobExits(c)
      PROVE  UNCHANGED <<runEnds, heard, ended>>
  BY <1>6 DEF DetachDevice, Heartbeat, SwitchOff, SwitchOn, Remember, Disable, DeleteDevice, RevokeAccount,
     EndRevocation, Dial, NoteEpoch, FindDevice, PostEvents, Drop, StopClient, PostRefused, Hangup,
     LeaseExpires, CallOp, GiveUp, Begin, Register, Complete, Deadline, Finish, JobExits, vars
<1>. QED BY <1>1, <1>2, <1>3, <1>4, <1>5, <1>6 DEF Next

\* What becomes of the callers when nothing is answered: one asks and is refused or waits, or
\* one that waits gives up.
Waits == /\ \A c \in Calls : \/ calls'[c] = calls[c]
                             \/ calls'[c] \in {"pending", "given_up", "disconnected", "lost"}
                             \/ calls[c] = "new" /\ calls'[c] = "unsent"
         /\ UNCHANGED <<begun, finished>> /\ (out' = out \/ out' = <<>>)

LEMMA AfterKeepsOperations ==
  ASSUME NEW end, After(end)
  PROVE  op' = op
BY DEF After, StopCalls, executor

LEMMA OutElements ==
  ASSUME TypeOK
  PROVE  /\ Len(out) \in Nat
         /\ \A k \in 1..Len(out) : out[k] \in Calls \X Results /\ out[k][1] \in Calls /\ out[k][2] \in Results
<1>1. out \in Seq(Calls \X Results) BY DEF TypeOK
<1>2. Len(out) \in Nat /\ \A k \in 1..Len(out) : out[k] \in Calls \X Results
  BY <1>1, LenProperties, ElementOfSeq
<1>. QED BY <1>2

\* A step that begins and answers nothing keeps what callers know true.
LEMMA WaitsOutcome ==
  ASSUME Inv, Waits, UNCHANGED op
  PROVE  OutcomeInvariant'
<1>1. \A c \in Calls :
        /\ begun'[c] <= 1
        /\ calls'[c] \in {"new", "unsent"} => begun'[c] = 0 /\ op'[c] = "none" /\ finished'[c] = "none"
        /\ op'[c] = "accepted" => begun'[c] = 0
        /\ op'[c] = "executing" => begun'[c] = 1
        /\ finished'[c] # "none" => op'[c] = "none"
        /\ calls'[c] \in Results => finished'[c] = calls'[c]
  BY DEF Inv, OutcomeInvariant, Waits, Results
<1>2. \A k \in 1..Len(out') : finished'[out'[k][1]] = out'[k][2]
  <2>1. CASE out' = out BY <2>1 DEF Inv, OutcomeInvariant, Waits
  <2>2. CASE out' = <<>>
    <3>1. Len(out') = 0 BY <2>2, EmptySeq
    <3>. QED BY <3>1
  <2>. QED BY <2>1, <2>2 DEF Waits
<1>. QED BY <1>1, <1>2 DEF OutcomeInvariant

\* A step at one operation, which is under way or just read, and answers it at most.
LEMMA OperationOutcome ==
  ASSUME Inv, NEW c \in Calls, op[c] # "none" \/ Carried(c), UNCHANGED calls,
         op' \in [Calls -> {"none", "accepted", "executing", "succeeded", "failed"}],
         begun' \in [Calls -> Nat], finished' \in [Calls -> {"none"} \cup Results],
         \A d \in Calls \ {c} : UNCHANGED <<op[d], begun[d], finished[d]>>,
         begun'[c] <= 1, op'[c] = "accepted" => begun'[c] = 0, op'[c] = "executing" => begun'[c] = 1,
         \/ finished'[c] = "none" /\ out' = out
         \/ finished'[c] \in Results /\ op'[c] = "none"
            /\ (out' = out \/ out' = Append(out, <<c, finished'[c]>>))
  PROVE  OutcomeInvariant'
<1>1. finished[c] = "none" /\ calls[c] \notin {"new", "unsent"} /\ calls[c] \notin Results
  <2>1. finished[c] = "none" /\ calls[c] \notin {"new", "unsent"}
    BY DEF Inv, OutcomeInvariant, CarriedInvariant, Untouched
  <2>. QED BY <2>1 DEF Inv, OutcomeInvariant, Results
<1>2. \A d \in Calls :
        /\ begun'[d] <= 1
        /\ calls'[d] \in {"new", "unsent"} => begun'[d] = 0 /\ op'[d] = "none" /\ finished'[d] = "none"
        /\ op'[d] = "accepted" => begun'[d] = 0
        /\ op'[d] = "executing" => begun'[d] = 1
        /\ finished'[d] # "none" => op'[d] = "none"
        /\ calls'[d] \in Results => finished'[d] = calls'[d]
  BY <1>1 DEF Inv, OutcomeInvariant, Results
<1>3. \A k \in 1..Len(out) : finished'[out[k][1]] = out[k][2]
  <2>. SUFFICES ASSUME NEW k \in 1..Len(out) PROVE finished'[out[k][1]] = out[k][2] OBVIOUS
  <2>1. finished[out[k][1]] = out[k][2] /\ out[k][1] \in Calls /\ out[k][2] \in Results
    BY OutElements DEF Inv, OutcomeInvariant
  <2>2. out[k][1] # c BY <1>1, <2>1 DEF Results
  <2>. QED BY <2>1, <2>2
<1>4. \A k \in 1..Len(out') : finished'[out'[k][1]] = out'[k][2]
  <2>1. CASE out' = out BY <1>3, <2>1
  <2>2. CASE finished'[c] \in Results /\ out' = Append(out, <<c, finished'[c]>>)
    <3>1. <<c, finished'[c]>> \in Calls \X Results /\ out \in Seq(Calls \X Results)
      BY <2>2 DEF Inv, TypeOK
    <3>2. /\ Len(out') = Len(out) + 1 /\ \A k \in 1..Len(out) : out'[k] = out[k]
          /\ out'[Len(out) + 1] = <<c, finished'[c]>> /\ Len(out) \in Nat
      BY <2>2, <3>1, AppendProperties, LenProperties
    <3>. QED BY <1>3, <3>2
  <2>. QED BY <2>1, <2>2
<1>. QED BY <1>2, <1>4 DEF OutcomeInvariant

LEMMA SettlePendingWaits ==
  ASSUME Inv, NEW outcome \in {"disconnected", "lost"}, SettlePending(outcome),
         UNCHANGED <<begun, finished, op>>, out' = out \/ out' = <<>>
  PROVE  OutcomeInvariant'
<1>1. Waits BY DEF SettlePending, Waits
<1>. QED BY <1>1, WaitsOutcome

\* What a caller is told stays true.
LEMMA OutcomesHold ==
  ASSUME Inv, [Next]_vars
  PROVE  OutcomeInvariant'
<1>. USE DEF relay, access, wire, bounds, executor
<1>t. /\ op \in [Calls -> {"none", "accepted", "executing", "succeeded", "failed"}]
      /\ begun \in [Calls -> Nat] /\ finished \in [Calls -> {"none"} \cup Results]
  BY DEF Inv, TypeOK
<1>t2. TypeOK' BY TypesStep
<1>t3. /\ op' \in [Calls -> {"none", "accepted", "executing", "succeeded", "failed"}]
       /\ begun' \in [Calls -> Nat] /\ finished' \in [Calls -> {"none"} \cup Results]
  BY <1>t2 DEF TypeOK
<1>1. ASSUME NEW c \in Calls, CallOp(c) \/ GiveUp(c) PROVE OutcomeInvariant'
  <2>1. Waits /\ UNCHANGED op BY <1>1 DEF CallOp, GiveUp, Waits, Inv, TypeOK
  <2>. QED BY <2>1, WaitsOutcome
<1>2. ASSUME Heartbeat \/ Disable \/ Disconnect \/ Restart PROVE OutcomeInvariant'
  <2>1. /\ SettlePending("disconnected") \/ SettlePending("lost")
        /\ UNCHANGED <<begun, finished, op, out>>
    BY <1>2 DEF Heartbeat, Disable, Disconnect, Restart, EndDevice
  <2>. QED BY <2>1, SettlePendingWaits
<1>3. ASSUME UNCHANGED <<calls, begun, finished, op>>, out' = out \/ out' = <<>> PROVE OutcomeInvariant'
  BY <1>3, WaitsOutcome DEF Waits
<1>4. ASSUME NEW c \in Calls, Begin(c) PROVE OutcomeInvariant'
  <2>1. op[c] # "none" /\ begun[c] = 0 BY <1>4 DEF Begin, Inv, OutcomeInvariant
  <2>2. /\ UNCHANGED <<calls, finished, out>> /\ finished[c] = "none"
        /\ \A d \in Calls \ {c} : UNCHANGED <<op[d], begun[d], finished[d]>>
        /\ begun'[c] <= 1 /\ op'[c] # "accepted" /\ (op'[c] = "executing" => begun'[c] = 1)
    BY <1>4, <1>t, <2>1 DEF Begin, Inv, OutcomeInvariant
  <2>. QED BY <1>t3, <2>1, <2>2, OperationOutcome
<1>5. ASSUME NEW c \in Calls, Register(c) \/ Complete(c) PROVE OutcomeInvariant'
  <2>1. op[c] # "none" BY <1>5 DEF Register, Complete
  <2>2. /\ UNCHANGED <<calls, finished, begun, out>> /\ finished[c] = "none"
        /\ \A d \in Calls \ {c} : UNCHANGED <<op[d], begun[d], finished[d]>>
        /\ begun'[c] <= 1 /\ op'[c] # "accepted" /\ op'[c] # "executing"
    BY <1>5, <1>t, <2>1 DEF Register, Complete, Inv, OutcomeInvariant
  <2>. QED BY <1>t3, <2>1, <2>2, OperationOutcome
<1>6. ASSUME NEW c \in Calls, Finish(c) PROVE OutcomeInvariant'
  <2>1. op[c] # "none" /\ finished[c] = "none" BY <1>6 DEF Finish, Inv, OutcomeInvariant
  <2>2. /\ UNCHANGED <<calls, begun>> /\ op'[c] = "none"
        /\ \A d \in Calls \ {c} : UNCHANGED <<op[d], begun[d], finished[d]>>
        /\ begun'[c] <= 1
    BY <1>6, <1>t DEF Finish, PushReply, Inv, OutcomeInvariant
  <2>3. \/ finished'[c] = "none" /\ out' = out
        \/ finished'[c] \in Results /\ (out' = out \/ out' = Append(out, <<c, finished'[c]>>))
    BY <1>6, <1>t, <2>1 DEF Finish, PushReply, Results
  <2>. QED BY <1>t3, <2>1, <2>2, <2>3, OperationOutcome
<1>7. ASSUME Read PROVE OutcomeInvariant'
  <2>. DEFINE message == Head(line)
  <2>1. UNCHANGED <<calls, begun, ended>> BY <1>7 DEF Read
  <2>2. CASE message[1] = "op" /\ Start(message[2]) /\ line' = Tail(line) /\ UNCHANGED conn
    <3>1. message = line[1] /\ 1 \in 1..Len(line) /\ line[1] \in Messages
      BY <1>7, <2>1, <2>2, LineRead DEF Read, Inv
    <3>2. message[2] \in Calls /\ message = <<"op", message[2]>> BY <2>2, <3>1, MessageKinds
    <3>3. Carried(message[2]) BY <3>1, <3>2 DEF Carried
    <3>4. Untouched(message[2]) BY <3>2, <3>3 DEF Inv, CarriedInvariant
    <3>. HIDE DEF message
    <3>5. CASE UNCHANGED <<executor, out, finished>> BY <1>3, <2>1, <3>5
    <3>6. CASE op' = [op EXCEPT ![message[2]] = "accepted"] /\ UNCHANGED <<out, finished>>
      <4>1. /\ finished'[message[2]] = "none" /\ begun'[message[2]] = 0
            /\ \A d \in Calls \ {message[2]} : UNCHANGED <<op[d], begun[d], finished[d]>>
        BY <1>t, <2>1, <3>2, <3>4, <3>6 DEF Untouched
      <4>. QED BY <1>t3, <2>1, <3>2, <3>3, <3>6, <4>1, OperationOutcome
    <3>7. CASE PushReply(message[2], "error") /\ UNCHANGED op
      <4>1. /\ finished'[message[2]] = "error" /\ op'[message[2]] = "none" /\ begun'[message[2]] <= 1
            /\ \A d \in Calls \ {message[2]} : UNCHANGED <<op[d], begun[d], finished[d]>>
            /\ out' = out \/ out' = Append(out, <<message[2], finished'[message[2]]>>)
        BY <1>t, <2>1, <3>2, <3>4, <3>7 DEF PushReply, Untouched
      <4>. QED BY <1>t3, <2>1, <3>2, <3>3, <4>1, OperationOutcome DEF Results
    <3>. QED BY <2>2, <3>5, <3>6, <3>7 DEF Start
  <2>3. CASE UNCHANGED finished /\ op' = op /\ (out' = out \/ out' = <<>>)
    BY <1>3, <2>1, <2>3
  <2>4. ASSUME Leave, After(message[1]) PROVE op' = op /\ out' = <<>>
    BY <2>4, AfterKeepsOperations DEF Leave
  <2>. QED BY <1>7, <2>2, <2>3, <2>4 DEF Read, StopCalls
<1>8. ASSUME PostEvents PROVE OutcomeInvariant'
  <2>1. /\ out # <<>> /\ ApplyEvent(Head(out)) /\ (out' = Tail(out) \/ out' = out)
        /\ UNCHANGED <<begun, finished, op>>
    BY <1>8 DEF PostEvents
  <2>2. /\ Head(out) = out[1] /\ Tail(out) \in Seq(Calls \X Results) /\ Len(Tail(out)) = Len(out) - 1
        /\ \A k \in 1..Len(Tail(out)) : Tail(out)[k] = out[k + 1]
    BY <2>1, HeadTailProperties DEF Inv, TypeOK
  <2>3. Len(out) \in Nat \ {0} /\ out[1][1] \in Calls
    BY <2>1, EmptySeq, OutElements DEF Inv, TypeOK
  <2>4. finished[out[1][1]] = out[1][2] /\ out[1][2] \in Results
    BY <2>3, OutElements DEF Inv, OutcomeInvariant
  <2>5. \A k \in 1..Len(out') : finished'[out'[k][1]] = out'[k][2]
    <3>1. CASE out' = out BY <2>1, <3>1 DEF Inv, OutcomeInvariant
    <3>2. CASE out' = Tail(out)
      <4>. SUFFICES ASSUME NEW k \in 1..Len(Tail(out)) PROVE finished[out[k + 1][1]] = out[k + 1][2]
        BY <2>1, <2>2, <3>2
      <4>1. k + 1 \in 1..Len(out) BY <2>2, <2>3
      <4>. QED BY <4>1 DEF Inv, OutcomeInvariant
    <3>. QED BY <2>1, <3>1, <3>2
  <2>6. \A c \in Calls :
          /\ begun'[c] <= 1
          /\ calls'[c] \in {"new", "unsent"} => begun'[c] = 0 /\ op'[c] = "none" /\ finished'[c] = "none"
          /\ op'[c] = "accepted" => begun'[c] = 0
          /\ op'[c] = "executing" => begun'[c] = 1
          /\ finished'[c] # "none" => op'[c] = "none"
          /\ calls'[c] \in Results => finished'[c] = calls'[c]
    <3>1. \A c \in Calls : calls'[c] = calls[c] \/ (c = out[1][1] /\ calls'[c] = out[1][2])
      BY <2>1, <2>2, <2>3 DEF ApplyEvent, Inv, TypeOK
    <3>. QED BY <2>1, <2>4, <3>1 DEF Inv, OutcomeInvariant, Results
  <2>. QED BY <2>5, <2>6 DEF OutcomeInvariant
<1>9. ASSUME \/ Drop \/ StopClient \/ PostRefused \/ (\E r \in Runs : RunEnded(r) \/ LeaseExpires(r))
             \/ (\E c \in Calls : Deadline(c) \/ JobExits(c))
             \/ DetachDevice \/ SwitchOff \/ SwitchOn \/ Remember \/ DeleteDevice \/ RevokeAccount
             \/ EndRevocation \/ Dial \/ NoteEpoch \/ FindDevice \/ AttachDevice \/ UNCHANGED vars
      PROVE  UNCHANGED <<calls, begun, finished, op>> /\ (out' = out \/ out' = <<>>)
  BY <1>9, AfterKeepsOperations DEF Drop, StopClient, PostRefused, Hangup, Leave, RunEnded,
     LeaseExpires, StopCalls, Deadline, JobExits, DetachDevice, SwitchOff, SwitchOn, Remember,
     DeleteDevice, RevokeAccount, EndRevocation, Dial, NoteEpoch, FindDevice, AttachDevice, vars
<1>. QED BY <1>1, <1>2, <1>3, <1>4, <1>5, <1>6, <1>7, <1>8, <1>9 DEF Next

\* An operation still on its way is untouched.
LEMMA CarriedHolds ==
  ASSUME Inv, [Next]_vars
  PROVE  CarriedInvariant'
<1>. USE DEF relay, access, wire, bounds, executor
<1>t. /\ op \in [Calls -> {"none", "accepted", "executing", "succeeded", "failed"}]
      /\ begun \in [Calls -> Nat] /\ finished \in [Calls -> {"none"} \cup Results]
  BY DEF Inv, TypeOK
<1>. SUFFICES ASSUME NEW c \in Calls, Carried(c)' PROVE Untouched(c)'
  BY DEF CarriedInvariant
<1>1. CASE CallOp(c) /\ calls'[c] = "pending"
  BY <1>1 DEF CallOp, Inv, OutcomeInvariant, EndsInvariant, Untouched
<1>. SUFFICES ASSUME Carried(c) PROVE Untouched(c)'
  BY <1>1, LineStep
<1>2. Untouched(c) BY DEF Inv, CarriedInvariant
<1>3. ASSUME Waits, op' = op, heard' = heard PROVE Untouched(c)'
  BY <1>2, <1>3 DEF Waits, Untouched
<1>4. ASSUME NEW d \in Calls, CallOp(d) \/ GiveUp(d) PROVE Untouched(c)'
  <2>1. Waits /\ op' = op /\ heard' = heard BY <1>4 DEF CallOp, GiveUp, Waits, Inv, TypeOK
  <2>. QED BY <1>3, <2>1
<1>5. ASSUME Heartbeat \/ Disable \/ Disconnect \/ Restart PROVE Untouched(c)'
  <2>1. /\ SettlePending("disconnected") \/ SettlePending("lost")
        /\ UNCHANGED <<begun, finished, op, out, heard>>
    BY <1>5 DEF Heartbeat, Disable, Disconnect, Restart, EndDevice
  <2>2. Waits BY <2>1 DEF SettlePending, Waits
  <2>. QED BY <1>3, <2>1, <2>2
<1>6. ASSUME NEW d \in Calls, Begin(d) \/ Register(d) \/ Complete(d) \/ Finish(d) PROVE Untouched(c)'
  <2>1. op[d] # "none" /\ UNCHANGED <<calls, heard>> BY <1>6 DEF Begin, Register, Complete, Finish
  <2>2. d # c BY <1>2, <2>1 DEF Untouched
  <2>3. op'[c] = op[c] /\ begun'[c] = begun[c] /\ finished'[c] = finished[c]
    BY <1>t, <1>6, <2>2 DEF Begin, Register, Complete, Finish, PushReply
  <2>. QED BY <1>2, <2>1, <2>3 DEF Untouched
<1>7. ASSUME Read PROVE Untouched(c)'
  <2>. DEFINE message == Head(line)
  <2>1. UNCHANGED <<calls, begun, ended>> /\ line # <<>> BY <1>7 DEF Read
  <2>2. CASE UNCHANGED <<op, finished, heard>> BY <1>2, <2>1, <2>2 DEF Untouched
  <2>3. CASE line' = Tail(line)
    <3>1. /\ message = line[1] /\ line[1] \in Messages
          /\ line[1] # <<"op", c>> /\ line[1] # <<"run_ended", RunOf[c]>>
      BY <2>1, <2>3, LineRead DEF Inv
    <3>2. CASE message[1] = "op" /\ Start(message[2]) /\ UNCHANGED heard
      <4>1. message[2] # c BY <3>1, <3>2, MessageKinds
      <4>2. op'[c] = op[c] /\ finished'[c] = finished[c]
        BY <1>t, <3>2, <4>1 DEF Start, PushReply
      <4>. QED BY <1>2, <2>1, <3>2, <4>2 DEF Untouched
    <3>3. CASE message[1] = "run_ended" /\ heard' = heard \cup {message[2]} /\ UNCHANGED <<op, finished>>
      <4>1. message[2] # RunOf[c] BY <3>1, <3>3, MessageKinds
      <4>. QED BY <1>2, <2>1, <3>3, <4>1 DEF Untouched
    <3>4. \/ UNCHANGED <<op, finished, heard>>
          \/ message[1] = "op" /\ Start(message[2]) /\ UNCHANGED heard
          \/ message[1] = "run_ended" /\ heard' = heard \cup {message[2]} /\ UNCHANGED <<op, finished>>
      BY <1>7, AfterKeepsOperations DEF Read, StopCalls
    <3>. QED BY <2>2, <3>2, <3>3, <3>4
  <2>4. CASE Leave /\ After(message[1]) /\ UNCHANGED <<heard, finished>>
    BY <2>2, <2>4, AfterKeepsOperations
  <2>. QED BY <1>7, <2>2, <2>3, <2>4 DEF Read
<1>8. ASSUME PostEvents PROVE Untouched(c)'
  <2>1. UNCHANGED <<op, begun, finished, heard>> /\ out # <<>> /\ ApplyEvent(Head(out)) BY <1>8 DEF PostEvents
  <2>2. Head(out) \in Calls \X Results BY <2>1, HeadTailProperties DEF Inv, TypeOK
  <2>3. calls'[c] = calls[c] \/ calls'[c] \in Results
    BY <2>1, <2>2 DEF ApplyEvent, Inv, TypeOK
  <2>. QED BY <1>2, <2>1, <2>3 DEF Untouched, Results
<1>9. ASSUME UNCHANGED <<calls, begun, finished, op, heard>> PROVE Untouched(c)'
  BY <1>2, <1>9 DEF Untouched
<1>10. ASSUME \/ Drop \/ StopClient \/ PostRefused \/ (\E r \in Runs : RunEnded(r) \/ LeaseExpires(r))
              \/ (\E d \in Calls : Deadline(d) \/ JobExits(d))
              \/ DetachDevice \/ SwitchOff \/ SwitchOn \/ Remember \/ DeleteDevice \/ RevokeAccount
              \/ EndRevocation \/ Dial \/ NoteEpoch \/ FindDevice \/ AttachDevice \/ UNCHANGED vars
       PROVE  UNCHANGED <<calls, begun, finished, op, heard>>
  BY <1>10, AfterKeepsOperations DEF Drop, StopClient, PostRefused, Hangup, Leave, RunEnded,
     LeaseExpires, StopCalls, Deadline, JobExits, DetachDevice, SwitchOff, SwitchOn, Remember,
     DeleteDevice, RevokeAccount, EndRevocation, Dial, NoteEpoch, FindDevice, AttachDevice, vars
<1>. QED BY <1>4, <1>5, <1>6, <1>7, <1>8, <1>9, <1>10 DEF Next

\* What stopping some operations does to the processes: their jobs are gone, those under way
\* cancelled, and the rest are as they were.
LEMMA StopCallsProcesses ==
  ASSUME Inv, NEW cs, NEW why \in {"run_ended", "stopped", "closed"}, StopCalls(cs, why)
  PROVE  /\ \A c \in procs' \cup jobs' : c \in procs \cup jobs
         /\ \A c \in procs' : c \in jobs' \/ op'[c] = "executing"
         /\ \A c \in Calls : c \in jobs' => c \in jobs
         /\ \A c \in Calls : op'[c] # "none" /\ cause[c] # "none" => cause'[c] # "none"
         /\ \A c \in Calls \cap cs : c \notin jobs' /\ (op'[c] # "none" => cause'[c] # "none")
<1>1. /\ op' = op /\ jobs' = jobs \ cs /\ procs' = procs \ (jobs \cap cs)
      /\ \A c \in Calls : cause'[c] = IF c \in cs /\ op[c] # "none" /\ cause[c] = "none" THEN why ELSE cause[c]
  BY DEF StopCalls, Running
<1>2. \A c \in procs' : c \in jobs' \/ op'[c] = "executing"
  BY <1>1 DEF Inv, ProcessInvariant
<1>. QED BY <1>1, <1>2

LEMMA StoppedHold ==
  ASSUME Inv, NEW cs, NEW why \in {"run_ended", "stopped", "closed"}, StopCalls(cs, why),
         UNCHANGED begun,
         \A c \in Calls : client' = "closed" \/ RunOf[c] \in heard' =>
           c \in cs \/ client = "closed" \/ RunOf[c] \in heard
  PROVE  ProcessInvariant'
<1>1. \A c \in procs' \cup jobs' : begun'[c] = 1
  BY StopCallsProcesses DEF Inv, ProcessInvariant
<1>2. \A c \in procs' : c \in jobs' \/ op'[c] = "executing" BY StopCallsProcesses
<1>3. ASSUME NEW c \in Calls, client' = "closed" \/ RunOf[c] \in heard'
      PROVE  c \notin jobs' /\ (op'[c] # "none" => cause'[c] # "none")
  <2>1. CASE c \in cs BY <2>1, StopCallsProcesses
  <2>2. CASE c \notin cs
    <3>1. c \notin jobs /\ (op[c] # "none" => cause[c] # "none")
      BY <1>3, <2>2 DEF Inv, ProcessInvariant
    <3>2. op' = op BY DEF StopCalls
    <3>. QED BY <3>1, <3>2, StopCallsProcesses
  <2>. QED BY <2>1, <2>2
<1>. QED BY <1>1, <1>2, <1>3 DEF ProcessInvariant

LEMMA AfterHolds ==
  ASSUME Inv, NEW end, After(end), UNCHANGED <<begun, heard>>
  PROVE  ProcessInvariant'
<1>1. CASE end = "disabled" BY <1>1, StoppedHold DEF After
<1>2. CASE end = "unauthorized" BY <1>2, StoppedHold DEF After
<1>3. CASE end # "disabled" /\ end # "unauthorized"
  BY <1>3 DEF After, executor, Inv, ProcessInvariant
<1>. QED BY <1>1, <1>2, <1>3

\* No process escapes.
LEMMA ProcessesHold ==
  ASSUME Inv, [Next]_vars
  PROVE  ProcessInvariant'
<1>. USE DEF relay, access, wire, bounds
<1>t. /\ op \in [Calls -> {"none", "accepted", "executing", "succeeded", "failed"}]
      /\ cause \in [Calls -> {"none", "cancelled", "run_ended", "deadline", "stopped", "closed"}]
      /\ begun \in [Calls -> Nat] /\ procs \subseteq Calls /\ jobs \subseteq Calls
  BY CallsAssumption DEF Inv, TypeOK
<1>1. ASSUME NEW c \in Calls, Begin(c) PROVE ProcessInvariant'
  <2>1. begun[c] = 0 /\ UNCHANGED <<cause, jobs, client, heard>> BY <1>1 DEF Begin, Inv, OutcomeInvariant
  <2>2. c \notin procs /\ c \notin jobs BY <2>1 DEF Inv, ProcessInvariant
  <2>3. CASE cause[c] = "none"
    <3>1. /\ op' = [op EXCEPT ![c] = "executing"] /\ procs' = procs \cup {c}
          /\ begun' = [begun EXCEPT ![c] = begun[c] + 1]
      BY <1>1, <2>3 DEF Begin
    <3>2. \A d \in procs' \cup jobs' : begun'[d] = 1
      BY <1>t, <2>1, <2>2, <3>1 DEF Inv, ProcessInvariant
    <3>3. \A d \in procs' : d \in jobs' \/ op'[d] = "executing"
      BY <1>t, <2>1, <3>1 DEF Inv, ProcessInvariant
    <3>4. \A d \in Calls : op'[d] # "none" => op[d] # "none"
      BY <1>t, <1>1, <3>1 DEF Begin
    <3>. QED BY <2>1, <3>2, <3>3, <3>4 DEF Inv, ProcessInvariant
  <2>4. CASE cause[c] # "none"
    <3>1. op' = [op EXCEPT ![c] = "failed"] /\ UNCHANGED <<procs, begun>> BY <1>1, <2>4 DEF Begin
    <3>2. \A d \in procs' : d \in jobs' \/ op'[d] = "executing"
      BY <1>t, <2>1, <2>2, <3>1 DEF Inv, ProcessInvariant
    <3>3. \A d \in Calls : op'[d] # "none" => op[d] # "none"
      BY <1>t, <1>1, <3>1 DEF Begin
    <3>. QED BY <2>1, <3>1, <3>2, <3>3 DEF Inv, ProcessInvariant
  <2>. QED BY <2>3, <2>4
<1>2. ASSUME NEW c \in Calls, Register(c) PROVE ProcessInvariant'
  <2>1. op[c] = "executing" /\ UNCHANGED <<cause, begun, client, heard>> BY <1>2 DEF Register
  <2>2. \A d \in Calls : op'[d] # "none" => op[d] # "none"
    BY <1>t, <1>2 DEF Register
  <2>3. CASE cause[c] = "none"
    <3>1. op' = [op EXCEPT ![c] = "succeeded"] /\ jobs' = jobs \cup {c} /\ UNCHANGED procs
      BY <1>2, <2>3 DEF Register
    <3>2. client # "closed" /\ RunOf[c] \notin heard
      BY <2>1, <2>3 DEF Inv, ProcessInvariant
    <3>3. begun[c] = 1
      BY <1>t, <1>2, <2>1 DEF Inv, OutcomeInvariant, ProcessInvariant
    <3>4. \A d \in procs' : d \in jobs' \/ op'[d] = "executing"
      BY <1>t, <3>1 DEF Inv, ProcessInvariant
    <3>. QED BY <2>1, <2>2, <3>1, <3>2, <3>3, <3>4 DEF Inv, ProcessInvariant
  <2>4. CASE cause[c] # "none"
    <3>1. op' = [op EXCEPT ![c] = "failed"] /\ procs' = procs \ {c} /\ UNCHANGED jobs
      BY <1>2, <2>4 DEF Register
    <3>2. \A d \in procs' : d \in jobs' \/ op'[d] = "executing"
      BY <1>t, <3>1 DEF Inv, ProcessInvariant
    <3>. QED BY <2>1, <2>2, <3>1, <3>2 DEF Inv, ProcessInvariant
  <2>. QED BY <2>3, <2>4
<1>3. ASSUME NEW c \in Calls, Complete(c) PROVE ProcessInvariant'
  <2>1. /\ op[c] = "executing" /\ procs' = procs \ {c} /\ UNCHANGED <<cause, jobs, begun, client, heard>>
        /\ op' = [op EXCEPT ![c] = "succeeded"] \/ op' = [op EXCEPT ![c] = "failed"]
    BY <1>3 DEF Complete
  <2>2. \A d \in Calls : op'[d] # "none" => op[d] # "none"
    BY <1>t, <2>1
  <2>3. \A d \in procs' : d \in jobs' \/ op'[d] = "executing"
    BY <1>t, <2>1 DEF Inv, ProcessInvariant
  <2>. QED BY <2>1, <2>2, <2>3 DEF Inv, ProcessInvariant
<1>4. ASSUME NEW c \in Calls, Deadline(c) \/ JobExits(c) PROVE ProcessInvariant'
  BY <1>t, <1>4 DEF Deadline, JobExits, Inv, ProcessInvariant
<1>5. ASSUME NEW c \in Calls, Finish(c) PROVE ProcessInvariant'
  <2>1. /\ op' = [op EXCEPT ![c] = "none"] /\ cause' = [cause EXCEPT ![c] = "none"]
        /\ \/ cause[c] = "none" /\ UNCHANGED <<procs, jobs>>
           \/ procs' = procs \ {c} /\ jobs' = jobs \ {c}
        /\ op[c] # "executing" /\ UNCHANGED <<begun, client, heard>>
    BY <1>5 DEF Finish
  <2>2. \A d \in procs' : d \in jobs' \/ op'[d] = "executing"
    BY <1>t, <2>1 DEF Inv, ProcessInvariant
  <2>. QED BY <1>t, <2>1, <2>2 DEF Inv, ProcessInvariant
<1>6. ASSUME NEW r \in Runs, LeaseExpires(r) PROVE ProcessInvariant'
  BY <1>6, StoppedHold DEF LeaseExpires
<1>7. ASSUME Drop \/ PostRefused PROVE ProcessInvariant'
  <2>1. (\E end : After(end)) /\ UNCHANGED <<begun, heard>> BY <1>7 DEF Drop, PostRefused, Hangup
  <2>. QED BY <2>1, AfterHolds
<1>8. ASSUME StopClient PROVE ProcessInvariant'
  BY <1>8, StoppedHold DEF StopClient
<1>9. ASSUME UNCHANGED <<executor, client, begun, heard>> PROVE ProcessInvariant'
  BY <1>9 DEF executor, Inv, ProcessInvariant
<1>10. ASSUME Dial \/ FindDevice PROVE ProcessInvariant'
  <2>1. UNCHANGED <<begun, heard>> /\ ((\E end : After(end)) \/ UNCHANGED <<executor, client>>)
    BY <1>10 DEF Dial, FindDevice
  <2>. QED BY <1>9, <2>1, AfterHolds
<1>11. ASSUME Read PROVE ProcessInvariant'
  <2>. DEFINE message == Head(line)
  <2>1. UNCHANGED <<begun, ended>> /\ line # <<>> BY <1>11 DEF Read
  <2>2. CASE UNCHANGED <<executor, client, heard>> BY <1>9, <2>1, <2>2
  <2>3. CASE message[1] = "op" /\ Start(message[2]) /\ line' = Tail(line) /\ UNCHANGED <<client, heard>>
    <3>1. message = line[1] /\ 1 \in 1..Len(line) /\ line[1] \in Messages
      BY <2>1, <2>3, LineRead DEF Inv
    <3>2. message[2] \in Calls /\ message = <<"op", message[2]>> BY <2>3, <3>1, MessageKinds
    <3>3. Carried(message[2]) BY <3>1, <3>2 DEF Carried
    <3>4. Untouched(message[2]) BY <3>2, <3>3 DEF Inv, CarriedInvariant
    <3>. HIDE DEF message
    <3>5. CASE op' = op /\ UNCHANGED <<cause, procs, jobs>>
      BY <2>1, <2>2, <2>3, <3>5 DEF executor
    <3>6. CASE op' = [op EXCEPT ![message[2]] = "accepted"] /\ UNCHANGED <<cause, procs, jobs>> /\ client # "closed"
      <4>1. message[2] \notin procs /\ RunOf[message[2]] \notin heard
        BY <3>4 DEF Untouched, Inv, ProcessInvariant
      <4>2. \A d \in procs' : d \in jobs' \/ op'[d] = "executing"
        BY <1>t, <3>6, <4>1 DEF Inv, ProcessInvariant
      <4>. QED BY <1>t, <2>1, <2>3, <3>2, <3>6, <4>1, <4>2 DEF Inv, ProcessInvariant
    <3>. QED BY <2>3, <3>5, <3>6 DEF Start, executor
  <2>4. CASE /\ cause' = IF op[message[2]] # "none" /\ cause[message[2]] = "none"
                         THEN [cause EXCEPT ![message[2]] = "cancelled"] ELSE cause
             /\ UNCHANGED <<client, op, procs, jobs, heard>>
    <3>1. \A c \in Calls : cause[c] # "none" => cause'[c] # "none" BY <1>t, <2>4
    <3>. QED BY <2>1, <2>4, <3>1 DEF Inv, ProcessInvariant
  <2>5. CASE /\ StopCalls({c \in Calls : RunOf[c] = message[2]}, "run_ended")
             /\ heard' = heard \cup {message[2]} /\ UNCHANGED client
    BY <2>1, <2>5, StoppedHold
  <2>6. CASE After(message[1]) /\ UNCHANGED heard
    BY <2>1, <2>6, AfterHolds
  <2>. QED BY <1>11, <2>2, <2>3, <2>4, <2>5, <2>6 DEF Read
<1>12. ASSUME \/ DetachDevice \/ Heartbeat \/ Restart \/ SwitchOff \/ SwitchOn \/ Remember \/ Disable
              \/ DeleteDevice \/ RevokeAccount \/ Disconnect \/ EndRevocation \/ NoteEpoch \/ AttachDevice \/ PostEvents
              \/ UNCHANGED vars \/ (\E r \in Runs : RunEnded(r)) \/ (\E c \in Calls : CallOp(c) \/ GiveUp(c))
       PROVE  UNCHANGED <<executor, client, begun, heard>>
  BY <1>12 DEF DetachDevice, Heartbeat, Restart, SwitchOff, SwitchOn, Remember, Disable, DeleteDevice,
     RevokeAccount, Disconnect, EndRevocation, NoteEpoch, AttachDevice, PostEvents, RunEnded, CallOp, GiveUp, vars
<1>. QED BY <1>1, <1>2, <1>3, <1>4, <1>5, <1>6, <1>7, <1>8, <1>9, <1>10, <1>11, <1>12 DEF Next

(***************************************************************************)
(* Revocation and the switch.                                              *)
(***************************************************************************)
LEMMA AccessHolds ==
  ASSUME Inv, [Next]_vars
  PROVE  AccessInvariant'
<1>. USE DEF relay, access, wire, bounds, Inv, TypeOK, AccessInvariant
<1>1. ASSUME UNCHANGED access, told => dial' # "verified", told => stream' = "none",
             Pending' \subseteq Pending
      PROVE  AccessInvariant'
  BY <1>1
<1>2. ASSUME NEW c \in Calls, CallOp(c) PROVE AccessInvariant'
  <2>1. UNCHANGED <<access, dial>> BY <1>2 DEF CallOp
  <2>2. CASE calls' = [calls EXCEPT ![c] = "unsent"] /\ UNCHANGED stream
    <3>1. Pending' \subseteq Pending BY <2>2 DEF Pending
    <3>. QED BY <1>1, <2>1, <2>2, <3>1
  <2>3. CASE TRUE \in Seen /\ stream # "none"
    <3>1. ~told /\ ~(~enabled /\ untold = <<>>) BY <2>3 DEF Seen
    <3>. QED BY <2>1, <3>1
  <2>. QED BY <1>2, <2>2, <2>3 DEF CallOp
<1>3. ASSUME NEW c \in Calls, GiveUp(c) PROVE AccessInvariant'
  <2>1. UNCHANGED <<access, dial>> /\ (stream = "none" => stream' = "none") BY <1>3 DEF GiveUp
  <2>2. Pending' \subseteq Pending BY <1>3 DEF GiveUp, Pending
  <2>. QED BY <1>1, <2>1, <2>2
<1>4. ASSUME NEW final, EndDevice(final)
      PROVE  stream' = "none" /\ dial' # "verified" /\ Pending' = {}
  BY <1>4 DEF EndDevice, Bump, SettlePending, Pending
<1>5. ASSUME Heartbeat \/ Disable \/ Disconnect PROVE AccessInvariant'
  <2>1. stream' = "none" /\ dial' # "verified" /\ Pending' = {}
    BY <1>4, <1>5 DEF Heartbeat, Disable, Disconnect
  <2>2. CASE Heartbeat \/ Disconnect
    <3>1. UNCHANGED <<row, enabled, untold>> BY <2>2 DEF Heartbeat, Disconnect
    <3>2. told' => row # "here" BY <2>2 DEF Heartbeat, Disconnect
    <3>. QED BY <2>1, <3>1, <3>2
  <2>3. CASE Disable
    <3>1. untold # <<>> /\ untold' = Tail(untold) /\ UNCHANGED <<row, told, enabled>>
      BY <2>3 DEF Disable
    <3>2. untold' # <<>> => untold'[Len(untold')] = enabled BY <3>1, ChangeTold
    <3>. QED BY <2>1, <3>1, <3>2
  <2>. QED BY <1>5, <2>2, <2>3
<1>6. ASSUME Restart PROVE AccessInvariant'
  <2>1. Pending' = {} BY <1>6 DEF Restart, SettlePending, Pending
  <2>. QED BY <1>6, <2>1 DEF Restart
<1>7. ASSUME NEW r \in Runs, RunEnded(r) PROVE AccessInvariant'
  <2>1. UNCHANGED <<access, dial, calls>> /\ (stream = "none" => stream' = "none") BY <1>7 DEF RunEnded
  <2>. QED BY <1>1, <2>1 DEF Pending
<1>8. ASSUME SwitchOff \/ SwitchOn \/ Remember \/ DeleteDevice \/ RevokeAccount \/ EndRevocation
      PROVE  AccessInvariant'
  <2>1. UNCHANGED <<dial, stream>> /\ Pending' = Pending
    BY <1>8 DEF SwitchOff, SwitchOn, Remember, DeleteDevice, RevokeAccount, EndRevocation, Pending
  <2>2. CASE SwitchOff \/ SwitchOn
    <3>1. untold' # <<>> /\ untold'[Len(untold')] = enabled'
      BY <2>2, ChangeCommitted DEF SwitchOff, SwitchOn
    <3>2. UNCHANGED <<row, told>> BY <2>2 DEF SwitchOff, SwitchOn
    <3>. QED BY <2>1, <3>1, <3>2
  <2>3. CASE Remember
    <3>1. /\ untold # <<>> /\ Head(untold) /\ untold' = Tail(untold)
          /\ UNCHANGED <<row, told, enabled>>
      BY <2>3 DEF Remember
    <3>2. /\ untold' # <<>> => untold'[Len(untold')] = enabled
          /\ untold' = <<>> => enabled
      BY <3>1, ChangeTold
    <3>. QED BY <2>1, <3>1, <3>2
  <2>4. CASE DeleteDevice \/ RevokeAccount \/ EndRevocation
    BY <2>1, <2>4 DEF DeleteDevice, RevokeAccount, EndRevocation
  <2>. QED BY <1>8, <2>2, <2>3, <2>4
<1>9. ASSUME Dial \/ NoteEpoch \/ FindDevice PROVE AccessInvariant'
  <2>1. UNCHANGED <<access, stream, calls>> BY <1>9 DEF Dial, NoteEpoch, FindDevice
  <2>2. told => dial' # "verified" BY <1>9 DEF Dial, NoteEpoch, FindDevice
  <2>. QED BY <1>1, <2>1, <2>2 DEF Pending
<1>10. ASSUME AttachDevice PROVE AccessInvariant'
  <2>1. UNCHANGED <<access, calls>> /\ dial = "verified" BY <1>10 DEF AttachDevice
  <2>. QED BY <2>1 DEF Pending
<1>11. ASSUME PostEvents PROVE AccessInvariant'
  <2>1. UNCHANGED <<access, stream, dial>> /\ out # <<>> /\ ApplyEvent(Head(out)) BY <1>11 DEF PostEvents
  <2>2. Head(out) \in Calls \X Results BY <2>1, HeadTailProperties
  <2>3. Pending' \subseteq Pending BY <2>1, <2>2 DEF ApplyEvent, Pending, Results
  <2>. QED BY <1>1, <2>1, <2>3
<1>12. ASSUME UNCHANGED <<access, calls>>, dial' # "verified" \/ dial' = dial,
              stream = "none" => stream' = "none"
       PROVE  AccessInvariant'
  BY <1>1, <1>12 DEF Pending
<1>13. ASSUME \/ Drop \/ StopClient \/ PostRefused \/ Read \/ DetachDevice \/ UNCHANGED vars
              \/ (\E r \in Runs : LeaseExpires(r))
              \/ (\E c \in Calls : Begin(c) \/ Register(c) \/ Complete(c) \/ Deadline(c) \/ Finish(c) \/ JobExits(c))
       PROVE  /\ UNCHANGED <<access, calls>> /\ (dial' # "verified" \/ dial' = dial)
              /\ stream = "none" => stream' = "none"
  BY <1>13 DEF Drop, StopClient, PostRefused, Hangup, Leave, Read, DetachDevice, LeaseExpires, Begin,
     Register, Complete, Deadline, Finish, JobExits, vars
<1>. QED BY <1>2, <1>3, <1>5, <1>6, <1>7, <1>8, <1>9, <1>10, <1>11, <1>12, <1>13 DEF Next

(***************************************************************************)
(* The theorems.                                                           *)
(***************************************************************************)
LEMMA InitHolds == Init => Inv
<1>. SUFFICES ASSUME Init PROVE Inv OBVIOUS
<1>1. /\ <<>> \in Seq(Messages) /\ <<>> \in Seq(Runs) /\ <<>> \in Seq(Calls \X Results) /\ Len(<<>>) = 0
  BY EmptySeq
<1>2. TypeOK
  <2>1. MaxRunEnds \in Nat BY BoundsAssumption
  <2>2. /\ runEnds \in Seq(Runs) /\ Len(runEnds) <= MaxRunEnds /\ out \in Seq(Calls \X Results)
    BY <1>1, <2>1 DEF Init
  <2>3. untold \in Seq(BOOLEAN) BY EmptySeq DEF Init
  <2>. QED BY <2>2, <2>3 DEF Init, TypeOK
<1>3. \A c \in Calls : ~Carried(c) BY <1>1 DEF Init, Carried
<1>4. LineInvariant /\ CarriedInvariant /\ EndsInvariant
  BY <1>1, <1>3 DEF Init, LineInvariant, CarriedInvariant, EndsInvariant
<1>5. OutcomeInvariant BY <1>1 DEF Init, OutcomeInvariant, Results
<1>6. ProcessInvariant BY DEF Init, ProcessInvariant
<1>7. AccessInvariant BY DEF Init, AccessInvariant
<1>. QED BY <1>2, <1>4, <1>5, <1>6, <1>7 DEF Inv

\* The inductive invariant holds of every state the relay and the client reach.
THEOREM InvariantHolds == Spec => []Inv
<1>1. Inv /\ [Next]_vars => Inv'
  BY TypesStep, LineStep, CarriedHolds, EndsHold, OutcomesHold, ProcessesHold, AccessHolds DEF Inv
<1>. QED BY <1>1, InitHolds, PTL DEF Spec

\* Every variable keeps its type.
THEOREM TypesHold == Spec => []TypeOK
BY InvariantHolds, PTL DEF Inv

\* What a caller is told is what happened, and no operation is executed twice
\* (computerPort.ts:28).
THEOREM OutcomesAreTrue == Spec => []OutcomeIsTrue
<1>1. Inv => OutcomeIsTrue
  <2>. SUFFICES ASSUME Inv, NEW c \in Calls
                PROVE  /\ begun[c] <= 1
                       /\ calls[c] = "unsent" => /\ begun[c] = 0 /\ op[c] = "none"
                                                 /\ \A k \in DOMAIN line : line[k] # <<"op", c>>
                       /\ calls[c] = "ok" => finished[c] = "ok"
    BY DEF OutcomeIsTrue
  <2>1. calls[c] = "unsent" => ~Carried(c) BY DEF Inv, CarriedInvariant, Untouched
  <2>2. DOMAIN line = 1..Len(line) BY LenProperties DEF Inv, LineInvariant
  <2>. QED BY <2>1, <2>2 DEF Inv, OutcomeInvariant, Carried, Results
<1>. QED BY <1>1, InvariantHolds, PTL

\* No process escapes the client, nor outlives what the client heard of its run's end.
THEOREM ProcessesEnd == Spec => []NoProcessOutlivesItsRunsEnd
<1>1. Inv => NoProcessOutlivesItsRunsEnd
  BY DEF Inv, TypeOK, ProcessInvariant, NoProcessOutlivesItsRunsEnd
<1>. QED BY <1>1, InvariantHolds, PTL

\* A device revoked has no stream, and nobody waits for it, nor for any once the process
\* was told that Connect is off (connect/policy.ts:34).
THEOREM ClosedIsClosed == Spec => []ClosedToTheRelay
<1>1. Inv => ClosedToTheRelay
  BY DEF Inv, AccessInvariant, ClosedToTheRelay
<1>. QED BY <1>1, InvariantHolds, PTL
=============================================================================
