----------------------- MODULE SubagentCallbacksProofs -----------------------
(***************************************************************************)
(* What a chat's background sub-agents owe its main agent, for any number  *)
(* of sub-agents, questions, runs, flushes, failures and restarts: it is   *)
(* never lost before the main agent has read it, and is read once.         *)
(***************************************************************************)
EXTENDS SubagentCallbacks, Greatest, SequenceTheorems

\* The run r holds the item i as a follow-up it has not read.
Awaits(r, i) == \E n \in Unread(r) : n.item = i

\* What a run may still read was never read and is in no other run, and the turn that
\* still owes it is claimed by that run.
NotesInvariant ==
  /\ \A r, s \in Runs : \A i \in Items : Awaits(r, i) /\ Awaits(s, i) => r = s
  /\ \A r \in Runs, i \in Items : Awaits(r, i) => told[i] = 0
  /\ \A r \in Runs, t \in Turns : OwesAnything(t) /\ Awaits(r, Item(t)) => claim[t] = r

\* Nothing was told or delivered that its turn has not asked, or ended with.
HistoryInvariant == \A t \in Turns :
  /\ turn[t] = "asking" => asks[t] # 0
  /\ \A m \in 0..MaxAsks : told[<<t, m>>] > 0 \/ (\E r \in Runs : Awaits(r, <<t, m>>)) =>
       m <= asks[t] /\ (m = 0 => turn[t] = "ended")

\* What a turn owes and has told stays claimed, and the run that claimed it has nothing of
\* the turn left to read: nothing of it is stranded.
ToldInvariant == \A t \in Turns : OwesAnything(t) /\ told[Item(t)] > 0 =>
  claim[t] # 0 /\ \A n \in Unread(claim[t]) : n.item[1] # t

\* A flush that delivers has a run to deliver into, and has picked nothing for a wake-up
\* before it renders one; an entry whose timer runs has a recheck left.
FlushInvariant ==
  /\ flush.step = "deliver" => flush.run # 0
  /\ flush.step \in {"read", "deliver", "wake"} => flush.fits = {}
  /\ recheck.timer => recheck.index < Rechecks

\* A run's follow-ups are finite.
RowInvariant == \A r \in Runs : IsFiniteSet(runs[r].notes)

Inv == /\ TypeOK /\ FlushInvariant /\ RowInvariant
       /\ NotesInvariant /\ HistoryInvariant /\ ToldInvariant
       /\ NothingIsLost /\ ToldOnce /\ AFlushWillSee

------------------------------------------------------------------------------
(* Lemmas about the model's operators. *)

\* A bounded nonempty set of numbers has a greatest element, and Max is it.
LEMMA MaxExists ==
  ASSUME NEW n \in Nat, NEW S, S \subseteq 0..n, S # {}
  PROVE  Max(S) \in S /\ \A x \in S : x <= Max(S)
<1>1. \E m \in S : \A x \in S : x <= m BY GreatestExists
<1>2. \A x \in S : x \in Nat OBVIOUS
<1>. QED BY <1>1, <1>2 DEF Max

\* The active runs are among the rows, the main agent's run is one of them or none, and
\* the active leaf is an answer or none.
LEMMA RunsFound ==
  ASSUME runs \in Seq(RunRows), away \in BOOLEAN
  PROVE  /\ Len(runs) \in Nat /\ Runs = 1..Len(runs)
         /\ \A r \in Runs : runs[r] \in RunRows
         /\ MainRun \in 0..Len(runs)
         /\ Leaf \in BOOLEAN \X Nat
<1>1. /\ Len(runs) \in Nat /\ Runs = 1..Len(runs)
      /\ \A r \in Runs : runs[r] \in RunRows
  BY DEF Runs
<1>2. MainRun \in 0..Len(runs)
  <2>1. Active \subseteq 0..Len(runs) BY <1>1 DEF Active, Runs
  <2>2. Active # {} => Max(Active) \in 0..Len(runs) BY <1>1, <2>1, MaxExists
  <2>. QED BY <1>1, <2>2 DEF MainRun
<1>3. Leaf \in BOOLEAN \X Nat
  <2>. DEFINE S == {0} \cup {r \in DOMAIN runs : runs[r].home = ~away}
  <2>1. S \subseteq 0..Len(runs) /\ S # {} BY <1>1 DEF Runs
  <2>2. Max(S) \in S BY <1>1, <2>1, MaxExists
  <2>3. Max(S) \in Nat BY <1>1, <2>1, <2>2
  <2>. QED BY <2>3 DEF Leaf
<1>. QED BY <1>1, <1>2, <1>3

\* What a turn owes is one of the items.
LEMMA OwedItemsTyped == TurnTypes => \A t \in Turns : Item(t) \in Items
BY SizesAreNatural DEF TurnTypes, Item, Items

\* However a flush ends, its chat's entry keeps its shape.
LEMMA ReportTyped ==
  ASSUME FlushTypes, FlushInvariant, NEW d, NEW retry, Report(d, retry)
  PROVE  /\ flush' = NoFlush
         /\ recheck' \in [index : 0..Rechecks, timer : BOOLEAN] /\ (recheck'.timer => recheck'.index < Rechecks)
         /\ deferred' \subseteq Turns
<1>0. recheck.timer => recheck.index < Rechecks BY DEF FlushInvariant
<1>1. PICK clears : recheck' = AfterFlush(clears) BY Zenon DEF Report
<1>2. Rechecks \in Nat BY SizesAreNatural
<1>3. recheck \in [index : 0..Rechecks, timer : BOOLEAN] BY DEF FlushTypes
<1>4. recheck' \in [index : 0..Rechecks, timer : BOOLEAN] /\ (recheck'.timer => recheck'.index < Rechecks)
  <2>1. CASE recheck.timer BY <1>0, <1>1, <1>3, <2>1 DEF AfterFlush
  <2>2. CASE ~recheck.timer /\ clears /\ recheck.index < Rechecks
    BY <1>1, <1>3, <2>2 DEF AfterFlush
  <2>3. CASE ~recheck.timer /\ ~(clears /\ recheck.index < Rechecks)
    <3>1. recheck' = [index |-> 0, timer |-> FALSE] BY <1>1, <2>3, Zenon DEF AfterFlush
    <3>. QED BY <1>2, <3>1
  <2>. QED BY <2>1, <2>2, <2>3
<1>5. deferred' \subseteq Turns BY DEF Report, FlushTypes
<1>. QED BY <1>4, <1>5 DEF Report

\* A round begins with the shape of a flush, and with nothing picked.
LEMMA RoundTyped ==
  ASSUME NEW n \in 1..FlushAttempts, NEW b \in BOOLEAN, NEW d \in [Turns -> Dispositions],
         NEW rows, Len(rows) \in Nat
  PROVE  /\ Round(n, b, d) \in [step : Steps, round : 1..FlushAttempts, swept : BOOLEAN,
                                run : 0..Len(rows), items : SUBSET Items, fits : SUBSET Items,
                                leaf : BOOLEAN \X Nat, disposition : [Turns -> Dispositions]]
         /\ Round(n, b, d).items = {} /\ Round(n, b, d).fits = {} /\ Round(n, b, d).step = "read"
<1>1. "read" \in Steps BY DEF Steps
<1>2. 0 \in 0..Len(rows) OBVIOUS
<1>3. <<FALSE, 0>> \in BOOLEAN \X Nat OBVIOUS
<1>. QED BY <1>1, <1>2, <1>3 DEF Round

\* A round follows with the shape of a flush, or the flush ends.
LEMMA NextRoundTyped ==
  ASSUME FlushTypes, FlushInvariant, flush \in Flushes, NEW d \in [Turns -> Dispositions], NextRound(d),
         Len(runs) \in Nat, Len(runs)' \in Nat
  PROVE  /\ \/ flush' = NoFlush
            \/ flush' \in Flushes' /\ flush'.fits = {} /\ flush'.step = "read"
         /\ recheck' \in [index : 0..Rechecks, timer : BOOLEAN] /\ (recheck'.timer => recheck'.index < Rechecks)
         /\ deferred' \subseteq Turns
<1>1. CASE flush.round < FlushAttempts
  <2>1. flush' = Round(flush.round + 1, flush.swept, d) /\ UNCHANGED <<recheck, deferred>>
    BY <1>1 DEF NextRound
  <2>2. flush.round + 1 \in 1..FlushAttempts BY <1>1, SizesAreNatural DEF Flushes
  <2>3. flush.swept \in BOOLEAN BY DEF Flushes
  <2>4. flush' \in Flushes' /\ flush'.fits = {} /\ flush'.step = "read"
    BY <2>1, <2>2, <2>3, RoundTyped DEF Flushes
  <2>. QED BY <2>1, <2>4 DEF FlushTypes, FlushInvariant
<1>2. CASE ~(flush.round < FlushAttempts)
  <2>1. Report(d, {}) BY <1>2 DEF NextRound
  <2>. QED BY <2>1, ReportTyped
<1>. QED BY <1>1, <1>2

------------------------------------------------------------------------------
(* Every step does one of a few things to the rows: the turns, the claims, the runs and
   what was told. *)

TurnMoves(t) ==
  /\ claim' = [claim EXCEPT ![t] = 0]
  /\ \/ /\ turn[t] = "running" /\ asks[t] < MaxAsks
        /\ turn' = [turn EXCEPT ![t] = "asking"] /\ asks' = [asks EXCEPT ![t] = @ + 1]
     \/ turn[t] = "asking" /\ turn' = [turn EXCEPT ![t] = "running"] /\ asks' = asks
     \/ turn[t] # "ended" /\ turn' = [turn EXCEPT ![t] = "ended"] /\ asks' = asks
  /\ UNCHANGED <<runs, told>>

\* One run goes to another phase, ends, is admitted, or all of them lose their process.
RunMoves ==
  \/ \E r \in Runs, p \in {"answering", "closed", "handing"} :
       runs[r].phase # "ended" /\ runs' = [runs EXCEPT ![r].phase = p]
  \/ \E r \in Runs : End(r)
  \/ \E atHome \in BOOLEAN : Admits /\ runs' = Append(runs, NewRun(atHome, "preparing"))
  \/ runs' = [r \in Runs |-> [runs[r] EXCEPT !.alive = FALSE]]

Takes(S) ==
  /\ Admits /\ S \subseteq Items /\ \A i \in S : Claimable(i)
  /\ runs' = Append(runs, NewRun(TRUE, "preparing"))
  /\ claim' = [t \in Turns |-> IF \E i \in S : i[1] = t THEN Len(runs) + 1 ELSE claim[t]]
  /\ told' = [i \in Items |-> told[i] + (IF i \in S THEN 1 ELSE 0)]

Reads(r) ==
  /\ runs' = [runs EXCEPT ![r].notes = {[n EXCEPT !.read = TRUE] : n \in @}]
  /\ told' = [i \in Items |-> told[i] + Cardinality({n \in Unread(r) : n.item = i})]
  /\ UNCHANGED <<claim>>

Delivers(r, t) ==
  /\ Receives(r) /\ Claimable(Item(t))
  /\ claim' = [claim EXCEPT ![t] = r]
  /\ runs' = [runs EXCEPT ![r].notes = @ \cup {[item |-> Item(t), read |-> FALSE]}]
  /\ UNCHANGED <<told>>

RowStep ==
  \/ \E t \in Turns : TurnMoves(t)
  \/ UNCHANGED <<turn, asks>> /\
       \/ RunMoves /\ UNCHANGED <<claim, told>>
       \/ \E r \in Runs : Reads(r)
       \/ OweAgain({t \in Turns : Stranded(t)}) /\ UNCHANGED told
       \/ \E r \in Runs, t \in Turns : Delivers(r, t)
       \/ \E S \in SUBSET Items : Takes(S)
       \/ UNCHANGED <<claim, runs, told>>

\* The steps are those.
LEMMA StepShape ==
  ASSUME TypeOK, flush.step = "deliver" => flush.run # 0, [Next]_vars
  PROVE  RowStep
<1>. USE DEF TypeOK, TurnTypes, RunTypes
<1>0. /\ Len(runs) \in Nat /\ Runs = 1..Len(runs)
      /\ \A r \in Runs : runs[r] \in RunRows
  BY RunsFound DEF FlushTypes
<1>1. ASSUME NEW t \in Turns, Ask(t) \/ Answered(t) \/ Settle(t) \/ SettleOrphan(t) PROVE RowStep
  <2>1. TurnMoves(t)
    BY <1>1 DEF Ask, Answered, Settle, SettleOrphan, Orphans, NoLongerAsked, TurnMoves
  <2>. QED BY <2>1 DEF RowStep
<1>10. ASSUME NEW t \in Turns, SettleUnconfirmed(t) PROVE RowStep
  <2>1. TurnMoves(t) \/ UNCHANGED <<turn, asks, claim, runs, told>>
    BY <1>10 DEF SettleUnconfirmed, NoLongerAsked, TurnMoves
  <2>. QED BY <2>1 DEF RowStep
<1>2. ASSUME NEW r \in Runs, Publish(r) \/ Stop(r) \/ Fail(r) \/ Start(r) \/ Close(r) \/ Complete(r)
      PROVE  RowStep
  <2>1. RunMoves
    BY <1>2 DEF RunMoves, Publish, Stop, Fail, Start, Close, Complete, Phase
  <2>2. UNCHANGED <<turn, asks, claim, told>>
    BY <1>2 DEF Publish, Stop, Fail, Start, Close, Complete, turnVars
  <2>. QED BY <2>1, <2>2 DEF RowStep
<1>3. ASSUME NEW r \in Runs, ReadNotes(r) PROVE RowStep
  BY <1>3 DEF ReadNotes, Reads, RowStep, turnVars
<1>4. CASE ReadOwed
  BY <1>4 DEF ReadOwed, RowStep, turnVars
<1>5. ASSUME NEW t \in Turns, DeliverIntoRun(t) PROVE RowStep
  <2>1. flush.run \in Runs
    <3>1. flush \in Flushes BY <1>5 DEF FlushTypes, DeliverIntoRun, NoFlush
    <3>. QED BY <1>5, <3>1, <1>0 DEF DeliverIntoRun, Flushes, Receives
  <2>2. Delivers(flush.run, t) \/ UNCHANGED <<claim, runs, told>>
    BY <1>5 DEF DeliverIntoRun, Delivers
  <2>3. UNCHANGED <<turn, asks, told>> BY <1>5 DEF DeliverIntoRun, turnVars
  <2>. QED BY <2>1, <2>2, <2>3 DEF RowStep
<1>6. CASE Admitted
  <2>1. flush \in Flushes BY <1>6 DEF FlushTypes, Admitted, NoFlush
  <2>2. flush.fits \in SUBSET Items BY <2>1 DEF Flushes
  <2>3. Takes(flush.fits) BY <1>6, <2>2 DEF Takes, Admitted, TakesEveryClaim
  <2>. QED BY <1>6, <2>2, <2>3 DEF RowStep, Admitted, turnVars
<1>7. CASE Send
  <2>1. RunMoves BY <1>7 DEF Send, RunMoves, FlushTypes
  <2>. QED BY <1>7, <2>1 DEF Send, RowStep, turnVars
<1>8. CASE Crash
  <2>1. RunMoves BY <1>8 DEF Crash, RunMoves, Runs
  <2>. QED BY <1>8, <2>1 DEF Crash, RowStep
<1>9. CASE \/ Fire \/ FindClosed \/ RenderWakeUp \/ Busy \/ Stale \/ Refused
           \/ SwitchBranch \/ Throw \/ RecheckFires \/ Sweep \/ UNCHANGED vars
  <2>1. UNCHANGED <<turn, asks, claim, runs, told>>
    BY <1>9 DEF Fire, FindClosed, RenderWakeUp, Busy, Stale, Refused, SwitchBranch, Throw,
                RecheckFires, Sweep, vars, turnVars
  <2>. QED BY <2>1 DEF RowStep
<1>. QED BY <1>1, <1>2, <1>3, <1>4, <1>5, <1>6, <1>7, <1>8, <1>9, <1>10
     DEF Next, RunStep, FlushStep

------------------------------------------------------------------------------
(* The rows keep their types. *)

\* One row replaced by another.
LEMMA RowReplaced ==
  ASSUME runs \in Seq(RunRows), NEW r \in Runs, NEW row \in RunRows, runs' = [runs EXCEPT ![r] = row]
  PROVE  /\ runs' \in Seq(RunRows) /\ Len(runs)' = Len(runs) /\ Runs' = Runs
         /\ runs'[r] = row /\ \A s \in Runs \ {r} : runs'[s] = runs[s]
BY DEF Runs

\* A run admitted beside the others.
LEMMA RowAppended ==
  ASSUME runs \in Seq(RunRows), NEW row \in RunRows, runs' = Append(runs, row)
  PROVE  /\ runs' \in Seq(RunRows) /\ Len(runs)' = Len(runs) + 1
         /\ Len(runs) + 1 \notin Runs /\ Runs' = Runs \cup {Len(runs) + 1}
         /\ runs'[Len(runs) + 1] = row /\ \A s \in Runs : runs'[s] = runs[s]
BY DEF Runs

\* Rows numbered from 1 are a sequence, of that length.
LEMMA RowsFormASeq ==
  ASSUME NEW n \in Nat, NEW S, NEW f \in [1..n -> S]
  PROVE  f \in Seq(S)
BY SeqDef

LEMMA LenDomain ==
  ASSUME NEW S, NEW s \in Seq(S), NEW n \in Nat, DOMAIN s = 1..n
  PROVE  Len(s) = n
BY LenProperties

\* Follow-ups that are a part of the old ones, or their image, keep the run's bound.
LEMMA NotesKept ==
  ASSUME NEW N, IsFiniteSet(N), NEW bound \in Nat, Cardinality(N) <= bound, NEW M,
         M \subseteq N \/ M = {[n EXCEPT !.read = TRUE] : n \in N}
  PROVE  IsFiniteSet(M) /\ Cardinality(M) <= bound
<1>0. Cardinality(N) \in Nat BY FS_CardinalityType
<1>1. CASE M \subseteq N
  <2>1. IsFiniteSet(M) /\ Cardinality(M) <= Cardinality(N) BY <1>1, FS_Subset
  <2>2. Cardinality(M) \in Nat BY <2>1, FS_CardinalityType
  <2>. QED BY <1>0, <2>1, <2>2
<1>2. CASE M = {[n EXCEPT !.read = TRUE] : n \in N}
  <2>. DEFINE f == [n \in N |-> [n EXCEPT !.read = TRUE]]
  <2>1. f \in Surjection(N, M) BY <1>2 DEF Surjection
  <2>2. IsFiniteSet(M) /\ Cardinality(M) <= Cardinality(N) BY <2>1, FS_Surjection
  <2>3. Cardinality(M) \in Nat BY <2>2, FS_CardinalityType
  <2>. QED BY <1>0, <2>2, <2>3
<1>. QED BY <1>1, <1>2

\* A follow-up more, below the bound, keeps it.
LEMMA NoteAdded ==
  ASSUME NEW N, IsFiniteSet(N), NEW bound \in Nat, Cardinality(N) < bound, NEW x
  PROVE  IsFiniteSet(N \cup {x}) /\ Cardinality(N \cup {x}) <= bound
<1>1. Cardinality(N) \in Nat BY FS_CardinalityType
<1>2. IsFiniteSet(N \cup {x})
      /\ (Cardinality(N \cup {x}) = Cardinality(N) \/ Cardinality(N \cup {x}) = Cardinality(N) + 1)
  BY FS_AddElement
<1>. QED BY <1>1, <1>2

\* At most two runs stay active: a step that admits one finds one at most.
LEMMA ActiveBound ==
  ASSUME runs \in Seq(RunRows), Cardinality(Active) <= 2,
         NEW A, A \subseteq Active \/ (Admits /\ \E x : A = Active \cup {x})
  PROVE  Cardinality(A) <= 2
<1>1. IsFiniteSet(Active)
  <2>1. Active \subseteq 1..Len(runs) BY DEF Active
  <2>2. IsFiniteSet(1..Len(runs))
    <3>1. 1 \in Int /\ Len(runs) \in Int OBVIOUS
    <3>. QED BY <3>1, FS_Interval
  <2>. QED BY <2>1, <2>2, FS_Subset
<1>2. CASE A \subseteq Active
  <2>1. IsFiniteSet(A) /\ Cardinality(A) <= Cardinality(Active) BY <1>1, <1>2, FS_Subset
  <2>2. Cardinality(A) \in Nat /\ Cardinality(Active) \in Nat BY <1>1, <2>1, FS_CardinalityType
  <2>. QED BY <2>1, <2>2
<1>3. ASSUME Admits, NEW x, A = Active \cup {x} PROVE Cardinality(A) <= 2
  <2>1. Cardinality(Active) <= 1
    <3>1. CASE Active = {} BY <3>1, FS_EmptySet
    <3>2. ASSUME NEW r \in Active PROVE Cardinality(Active) <= 1
      <4>1. Active = {r} BY <1>3 DEF Admits
      <4>2. Cardinality({r}) = 1 BY FS_Singleton
      <4>. QED BY <4>1, <4>2
    <3>. QED BY <3>1, <3>2
  <2>2. Cardinality(Active) \in Nat BY <1>1, FS_CardinalityType
  <2>3. Cardinality(Active \cup {x}) = Cardinality(Active) \/ Cardinality(Active \cup {x}) = Cardinality(Active) + 1
    BY <1>1, FS_AddElement
  <2>. QED BY <1>3, <2>1, <2>2, <2>3
<1>. QED BY <1>2, <1>3

RowsTyped ==
  /\ RunTypes
  /\ \A r \in Runs : IsFiniteSet(runs[r].notes) /\ Cardinality(runs[r].notes) <= CallbacksPerRun
  /\ Cardinality(Active) <= 2

\* Every step keeps the types and bounds of the rows, and drops no run.
LEMMA RowStepTypes ==
  ASSUME TypeOK, RowInvariant, RowStep
  PROVE  /\ turn' \in [Turns -> {"running", "asking", "ended"}] /\ asks' \in [Turns -> 0..MaxAsks]
         /\ RowsTyped' /\ Len(runs)' \in Nat /\ Len(runs) <= Len(runs)'
<1>. USE DEF TypeOK, TurnTypes, RunTypes
<1>0. /\ Len(runs) \in Nat /\ Runs = 1..Len(runs)
      /\ \A r \in Runs : runs[r] \in RunRows
      /\ CallbacksPerRun \in Nat /\ MaxAsks \in Nat
  BY RunsFound, SizesAreNatural DEF FlushTypes
<1>. DEFINE Kept == /\ runs' \in Seq(RunRows) /\ Len(runs) <= Len(runs)' /\ Len(runs)' \in Nat
                    /\ \A r \in Runs' : IsFiniteSet(runs'[r].notes) /\ Cardinality(runs'[r].notes) <= CallbacksPerRun
                    /\ Cardinality(Active)' <= 2
            Good(row) == row \in RunRows /\ IsFiniteSet(row.notes) /\ Cardinality(row.notes) <= CallbacksPerRun
<1>1. \A r \in Runs : Good(runs[r]) BY <1>0 DEF RowInvariant, Runs
<1>2. ASSUME NEW r \in Runs, NEW row, Good(row), runs' = [runs EXCEPT ![r] = row],
             row.phase = "ended" \/ runs[r].phase # "ended"
      PROVE  Kept
  <2>1. /\ runs' \in Seq(RunRows) /\ Len(runs)' = Len(runs) /\ Runs' = Runs
        /\ runs'[r] = row /\ \A s \in Runs \ {r} : runs'[s] = runs[s]
    BY <1>2, RowReplaced
  <2>2. Active' \subseteq Active BY <1>2, <2>1 DEF Active, Runs
  <2>3. Cardinality(Active)' <= 2 BY <2>2, ActiveBound
  <2>4. \A s \in Runs' : Good(runs'[s]) BY <1>1, <1>2, <2>1
  <2>. QED BY <1>0, <2>1, <2>3, <2>4
<1>3. ASSUME NEW row, Good(row), runs' = Append(runs, row), Admits PROVE Kept
  <2>1. /\ runs' \in Seq(RunRows) /\ Len(runs)' = Len(runs) + 1
        /\ Runs' = Runs \cup {Len(runs) + 1}
        /\ runs'[Len(runs) + 1] = row /\ \A s \in Runs : runs'[s] = runs[s]
    BY <1>3, RowAppended
  <2>2. Active' \subseteq Active \/ Active' = Active \cup {Len(runs) + 1}
    BY <2>1 DEF Active, Runs
  <2>3. Cardinality(Active)' <= 2 BY <1>3, <2>2, ActiveBound
  <2>4. \A s \in Runs' : Good(runs'[s]) BY <1>1, <1>3, <2>1
  <2>. QED BY <1>0, <2>1, <2>3, <2>4
<1>4. ASSUME UNCHANGED runs PROVE Kept
  BY <1>0, <1>1, <1>4 DEF Active, Runs
<1>5. ASSUME NEW atHome \in BOOLEAN PROVE Good(NewRun(atHome, "preparing"))
  <2>1. {} \subseteq Notes /\ "preparing" \in Phases BY DEF Phases
  <2>2. IsFiniteSet({}) /\ Cardinality({}) = 0 BY FS_EmptySet
  <2>. QED BY <1>0, <2>1, <2>2 DEF NewRun, RunRows
<1>6. ASSUME DOMAIN runs' = Runs, \A r \in Runs : Good(runs'[r]) /\ runs'[r].phase = runs[r].phase,
             runs' = [r \in Runs |-> runs'[r]]
      PROVE  Kept
  <2>1. runs' \in Seq(RunRows) /\ Len(runs)' = Len(runs) /\ Runs' = Runs
    <3>1. runs' \in [1..Len(runs) -> RunRows] BY <1>0, <1>6
    <3>2. runs' \in Seq(RunRows) BY <1>0, <3>1, RowsFormASeq
    <3>3. DOMAIN runs' = 1..Len(runs)' BY <3>2
    <3>4. Len(runs)' = Len(runs) BY <1>0, <3>1, <3>2, LenDomain
    <3>. QED BY <1>0, <3>2, <3>3, <3>4 DEF Runs
  <2>2. Active' \subseteq Active BY <1>6 DEF Active, Runs
  <2>3. Cardinality(Active)' <= 2 BY <2>2, ActiveBound
  <2>. QED BY <1>0, <1>6, <2>1, <2>3
<1>7. ASSUME NEW t \in Turns, TurnMoves(t)
      PROVE  /\ RowsTyped' /\ Kept
             /\ turn' \in [Turns -> {"running", "asking", "ended"}] /\ asks' \in [Turns -> 0..MaxAsks]
  <2>1. Kept BY <1>4, <1>7 DEF TurnMoves
  <2>2. claim' \in [Turns -> 0..Len(runs)] /\ told' \in [Items -> Nat] /\ runs' = runs
    BY <1>0, <1>7 DEF TurnMoves
  <2>3. turn' \in [Turns -> {"running", "asking", "ended"}] BY <1>7 DEF TurnMoves
  <2>4. asks' \in [Turns -> 0..MaxAsks]
    <3>1. asks[t] < MaxAsks => asks[t] + 1 \in 0..MaxAsks BY <1>0
    <3>. QED BY <1>7, <3>1 DEF TurnMoves
  <2>. QED BY <2>1, <2>2, <2>3, <2>4 DEF RowsTyped
<1>8. ASSUME RunMoves PROVE Kept
  <2>1. ASSUME NEW r \in Runs, NEW p \in {"answering", "closed", "handing"},
               runs[r].phase # "ended", runs' = [runs EXCEPT ![r].phase = p]
        PROVE  Kept
    <3>1. Good([runs[r] EXCEPT !.phase = p]) BY <1>1 DEF RunRows, Phases
    <3>2. runs' = [runs EXCEPT ![r] = [runs[r] EXCEPT !.phase = p]] BY <2>1
    <3>. QED BY <1>2, <2>1, <3>1, <3>2
  <2>2. ASSUME NEW r \in Runs, End(r) PROVE Kept
    <3>1. EndOf(runs[r]) \in RunRows /\ EndOf(runs[r]).phase = "ended"
      BY <1>1 DEF EndOf, RunRows, Phases
    <3>2. EndOf(runs[r]).notes \subseteq runs[r].notes BY <1>1 DEF EndOf, RunRows
    <3>3. Good(EndOf(runs[r])) BY <1>0, <1>1, <3>1, <3>2, NotesKept
    <3>4. runs' = [runs EXCEPT ![r] = EndOf(runs[r])] BY <2>2 DEF End
    <3>. QED BY <1>2, <3>1, <3>3, <3>4
  <2>3. ASSUME NEW atHome \in BOOLEAN, Admits, runs' = Append(runs, NewRun(atHome, "preparing"))
        PROVE  Kept
    BY <1>3, <1>5, <2>3
  <2>4. CASE runs' = [r \in Runs |-> [runs[r] EXCEPT !.alive = FALSE]]
    <3>1. \A r \in Runs : Good(runs'[r]) /\ runs'[r].phase = runs[r].phase
      BY <1>1, <2>4 DEF RunRows
    <3>. QED BY <1>6, <2>4, <3>1
  <2>. QED BY <1>8, <2>1, <2>2, <2>3, <2>4 DEF RunMoves
<1>9. ASSUME NEW r \in Runs, Reads(r) PROVE Kept /\ told' \in [Items -> Nat]
  <2>. DEFINE M == {[n EXCEPT !.read = TRUE] : n \in runs[r].notes}
  <2>1. Good([runs[r] EXCEPT !.notes = M])
    <3>1. M \subseteq Notes BY <1>1 DEF RunRows, Notes
    <3>2. IsFiniteSet(M) /\ Cardinality(M) <= CallbacksPerRun BY <1>0, <1>1, NotesKept
    <3>. QED BY <1>1, <3>1, <3>2 DEF RunRows
  <2>2. runs' = [runs EXCEPT ![r] = [runs[r] EXCEPT !.notes = M]] BY <1>9 DEF Reads
  <2>3. Kept
    <3>1. [runs[r] EXCEPT !.notes = M].phase = runs[r].phase BY <1>1 DEF RunRows
    <3>. QED BY <1>2, <2>1, <2>2, <3>1
  <2>4. told' \in [Items -> Nat]
    <3>1. ASSUME NEW i \in Items PROVE told[i] + Cardinality({n \in Unread(r) : n.item = i}) \in Nat
      <4>1. IsFiniteSet({n \in Unread(r) : n.item = i})
        <5>1. {n \in Unread(r) : n.item = i} \subseteq runs[r].notes BY DEF Unread
        <5>. QED BY <1>1, <5>1, FS_Subset
      <4>. QED BY <4>1, FS_CardinalityType
    <3>. QED BY <1>9, <3>1 DEF Reads
  <2>. QED BY <2>3, <2>4
<1>10. ASSUME NEW S, OweAgain(S) PROVE Kept
  <2>1. ASSUME NEW r \in Runs PROVE Good(runs'[r]) /\ runs'[r].phase = runs[r].phase
    <3>. DEFINE M == {n \in runs[r].notes : ~(~n.read /\ n.item[1] \in S /\ claim[n.item[1]] = r)}
    <3>1. runs'[r] = [runs[r] EXCEPT !.notes = M] BY <1>10 DEF OweAgain, Runs
    <3>2. IsFiniteSet(M) /\ Cardinality(M) <= CallbacksPerRun BY <1>0, <1>1, NotesKept
    <3>. QED BY <1>1, <3>1, <3>2 DEF RunRows
  <2>. QED BY <1>6, <1>10, <2>1 DEF OweAgain, Runs
<1>11. ASSUME NEW r \in Runs, NEW t \in Turns, Delivers(r, t) PROVE Kept
  <2>. DEFINE M == runs[r].notes \cup {[item |-> Item(t), read |-> FALSE]}
  <2>1. Good([runs[r] EXCEPT !.notes = M])
    <3>1. M \subseteq Notes
      <4>1. Item(t) \in Items BY OwedItemsTyped
      <4>2. [item |-> Item(t), read |-> FALSE] \in Notes BY <4>1 DEF Notes
      <4>3. runs[r].notes \subseteq Notes BY <1>1 DEF RunRows
      <4>. QED BY <4>2, <4>3
    <3>2. IsFiniteSet(M) /\ Cardinality(M) <= CallbacksPerRun
      BY <1>0, <1>1, <1>11, NoteAdded DEF Delivers, Receives
    <3>. QED BY <1>1, <3>1, <3>2 DEF RunRows
  <2>2. runs' = [runs EXCEPT ![r] = [runs[r] EXCEPT !.notes = M]] BY <1>11 DEF Delivers
  <2>3. [runs[r] EXCEPT !.notes = M].phase = runs[r].phase BY <1>1 DEF RunRows
  <2>. QED BY <1>2, <2>1, <2>2, <2>3
<1>12. ASSUME NEW S \in SUBSET Items, Takes(S) PROVE Kept /\ Len(runs)' = Len(runs) + 1 /\ told' \in [Items -> Nat]
  <2>1. Kept BY <1>3, <1>5, <1>12 DEF Takes
  <2>2. Len(runs)' = Len(runs) + 1
    <3>1. Good(NewRun(TRUE, "preparing")) BY <1>5
    <3>. QED BY <1>12, <3>1, RowAppended DEF Takes
  <2>3. told' \in [Items -> Nat] BY <1>12 DEF Takes
  <2>. QED BY <2>1, <2>2, <2>3
<1>13. CASE \E t \in Turns : TurnMoves(t) BY <1>7, <1>13
<1>14. ASSUME Kept, claim' \in [Turns -> 0..Len(runs)'], told' \in [Items -> Nat] PROVE RowsTyped'
  BY <1>14 DEF RowsTyped
<1>15. CASE UNCHANGED <<turn, asks>> /\
            \/ RunMoves /\ UNCHANGED <<claim, told>>
            \/ \E r \in Runs : Reads(r)
            \/ UNCHANGED <<claim, runs, told>>
  <2>1. Kept /\ told' \in [Items -> Nat] /\ claim' = claim BY <1>4, <1>8, <1>9, <1>15 DEF Reads
  <2>2. claim' \in [Turns -> 0..Len(runs)'] BY <1>0, <2>1
  <2>. QED BY <1>14, <1>15, <2>1, <2>2
<1>16. CASE UNCHANGED <<turn, asks>> /\
            \/ OweAgain({t \in Turns : Stranded(t)}) /\ UNCHANGED told
            \/ \E r \in Runs, t \in Turns : Delivers(r, t)
            \/ \E S \in SUBSET Items : Takes(S)
  <2>1. Kept /\ told' \in [Items -> Nat] BY <1>10, <1>11, <1>12, <1>16 DEF Delivers
  <2>2. claim' \in [Turns -> 0..Len(runs)']
    <3>1. \A k \in 0..Len(runs) : k \in 0..Len(runs)' BY <1>0, <2>1
    <3>2. 0 \in 0..Len(runs)' BY <2>1
    <3>3. ASSUME OweAgain({t \in Turns : Stranded(t)}) PROVE claim' \in [Turns -> 0..Len(runs)']
      BY <3>1, <3>2, <3>3 DEF OweAgain
    <3>4. ASSUME NEW r \in Runs, NEW t \in Turns, Delivers(r, t) PROVE claim' \in [Turns -> 0..Len(runs)']
      <4>1. r \in 0..Len(runs) BY <1>0
      <4>. QED BY <3>1, <3>4, <4>1 DEF Delivers
    <3>5. ASSUME NEW S \in SUBSET Items, Takes(S) PROVE claim' \in [Turns -> 0..Len(runs)']
      <4>1. Len(runs) + 1 \in 0..Len(runs)' BY <1>0, <1>12, <3>5
      <4>. QED BY <3>1, <3>5, <4>1 DEF Takes
    <3>. QED BY <1>16, <3>3, <3>4, <3>5
  <2>. QED BY <1>14, <1>16, <2>1, <2>2
<1>. QED BY <1>7, <1>13, <1>15, <1>16 DEF RowStep

\* No process executes a turn that ended.
LEMMA LiveTyped ==
  ASSUME TypeOK, [Next]_vars
  PROVE  live' \subseteq {t \in Turns : turn'[t] # "ended"}
<1>. USE DEF TypeOK, TurnTypes
<1>1. ASSUME NEW t \in Turns, Ask(t) \/ Answered(t) \/ Settle(t) \/ SettleUnconfirmed(t)
      PROVE  live' \subseteq {u \in Turns : turn'[u] # "ended"}
  BY <1>1 DEF Ask, Answered, Settle, SettleUnconfirmed
<1>2. ASSUME NEW t \in Turns, SettleOrphan(t)
      PROVE  live' \subseteq {u \in Turns : turn'[u] # "ended"}
  BY <1>2 DEF SettleOrphan, Orphans
<1>3. CASE Crash BY <1>3 DEF Crash
<1>4. CASE UNCHANGED <<turn, live>> BY <1>4
<1>5. ASSUME NEW r \in Runs, Publish(r) \/ Stop(r) \/ Fail(r) \/ Start(r) \/ ReadNotes(r) \/ Close(r) \/ Complete(r)
      PROVE  UNCHANGED <<turn, live>>
  BY <1>5 DEF Publish, Stop, Fail, Start, ReadNotes, Close, Complete, turnVars
<1>6. CASE FlushStep
  BY <1>4, <1>6 DEF FlushStep, Fire, ReadOwed, FindClosed, RenderWakeUp, DeliverIntoRun, Admitted,
     Busy, Stale, Refused, turnVars
<1>7. CASE Send \/ SwitchBranch \/ Throw \/ RecheckFires \/ Sweep \/ UNCHANGED vars
  BY <1>4, <1>7 DEF Send, SwitchBranch, Throw, RecheckFires, Sweep, vars, turnVars
<1>. QED BY <1>1, <1>2, <1>3, <1>4, <1>5, <1>6, <1>7 DEF Next, RunStep

\* A flush under way keeps its shape while the rows grow.
LEMMA FlushKept ==
  ASSUME flush \in Flushes, Len(runs) \in Nat, Len(runs)' \in Nat, Len(runs) <= Len(runs)',
         UNCHANGED flush
  PROVE  flush' \in Flushes'
BY DEF Flushes

\* A record stays one of its set when fields of it are replaced by values of their types.
LEMMA AttemptTyped ==
  ASSUME NEW S, NEW N, NEW B, NEW R, NEW I, NEW L, NEW D,
         NEW f \in [step : S, round : N, swept : B, run : R, items : I, fits : I, leaf : L, disposition : D],
         NEW s \in S, NEW r \in R, NEW items \in I, NEW fits \in I, NEW leaf \in L, NEW d \in D,
         NEW g, \/ g = [f EXCEPT !.disposition = d, !.run = r, !.items = items, !.step = s] /\ fits = f.fits
                \/ /\ g = [f EXCEPT !.items = items, !.disposition = d]
                   /\ fits = f.fits /\ s = f.step /\ r = f.run
                \/ g = [f EXCEPT !.step = s, !.disposition = d] /\ fits = f.fits /\ items = f.items /\ r = f.run
                \/ g = [f EXCEPT !.step = s, !.leaf = leaf, !.fits = fits] /\ items = f.items /\ r = f.run
  PROVE  /\ g \in [step : S, round : N, swept : B, run : R, items : I, fits : I, leaf : L, disposition : D]
         /\ g.step = s /\ g.run = r /\ g.items = items /\ g.fits = fits
OBVIOUS

FlushTyped == FlushTypes /\ FlushInvariant

\* Every step keeps the shape of the flushes' memory, as long as the rows only grow.
LEMMA FlushStepTypes ==
  ASSUME TypeOK, FlushInvariant, [Next]_vars, Len(runs)' \in Nat, Len(runs) <= Len(runs)'
  PROVE  FlushTyped'
<1>. USE DEF TypeOK, FlushInvariant
<1>0. /\ Len(runs) \in Nat /\ MainRun \in 0..Len(runs) /\ Leaf \in BOOLEAN \X Nat
      /\ Rechecks \in Nat /\ 1 \in 1..FlushAttempts
  BY RunsFound, SizesAreNatural DEF FlushTypes, RunTypes
<1>1. FlushTypes /\ FlushInvariant OBVIOUS
<1>. DEFINE Attempt == /\ flush' = NoFlush \/ (flush' \in Flushes' /\ flush'.fits \subseteq flush'.items)
                       /\ flush'.step = "deliver" => flush'.run # 0
                       /\ flush'.step \in {"read", "deliver", "wake"} => flush'.fits = {}
            Entry == /\ recheck' \in [index : 0..Rechecks, timer : BOOLEAN]
                     /\ recheck'.timer => recheck'.index < Rechecks
                     /\ deferred' \subseteq Turns
            Rest == /\ asked' \in {"none", "plain", "swept"}
                    /\ away' \in BOOLEAN /\ interrupted' \in BOOLEAN
                    /\ unseen' \subseteq Turns
<1>. HIDE DEF Attempt, Entry, Rest
<1>a. ASSUME Attempt, Entry, Rest PROVE FlushTyped'
  BY <1>a DEF FlushTyped, FlushTypes, Attempt, Entry, Rest
<1>b. ASSUME flush' = NoFlush PROVE Attempt
  BY <1>b DEF Attempt, NoFlush
<1>c. ASSUME NEW d, NEW retry, Report(d, retry) PROVE Attempt /\ Entry
  BY <1>b, <1>c, <1>1, ReportTyped DEF Entry
<1>d. ASSUME flush \in Flushes, NEW d \in [Turns -> Dispositions], NextRound(d) PROVE Attempt /\ Entry
  <2>1. /\ \/ flush' = NoFlush
           \/ flush' \in Flushes' /\ flush'.fits = {} /\ flush'.step = "read"
        /\ Entry
    BY <1>0, <1>1, <1>d, NextRoundTyped DEF Entry
  <2>2. CASE flush' = NoFlush BY <1>b, <2>1, <2>2
  <2>3. CASE flush' \in Flushes' /\ flush'.fits = {} /\ flush'.step = "read" BY <2>1, <2>3 DEF Attempt
  <2>. QED BY <2>1, <2>2, <2>3
<1>2. ASSUME UNCHANGED flush PROVE Attempt
  BY <1>0, <1>1, <1>2, FlushKept DEF FlushTypes, Attempt
<1>e. ASSUME UNCHANGED <<recheck, deferred>> PROVE Entry
  BY <1>1, <1>e DEF FlushTypes, Entry
<1>f. ASSUME flush.step # "idle" PROVE flush \in Flushes /\ flush.fits \subseteq flush.items
  BY <1>1, <1>f DEF FlushTypes, NoFlush
<1>g. ASSUME Len(runs)' = Len(runs), flush' \in Flushes, flush'.fits \subseteq flush'.items,
             flush'.step = "deliver" => flush'.run # 0,
             flush'.step \in {"read", "deliver", "wake"} => flush'.fits = {}
      PROVE  Attempt
  BY <1>g DEF Attempt, Flushes
<1>h. ASSUME flush \in Flushes PROVE /\ flush.fits \in SUBSET Items /\ flush.leaf \in BOOLEAN \X Nat
                                     /\ flush.run \in 0..Len(runs) /\ flush.items \in SUBSET Items
                                     /\ flush.step \in Steps /\ flush.disposition \in [Turns -> Dispositions]
  BY <1>h DEF Flushes
<1>i. ASSUME NEW S, NEW d \in Dispositions, flush \in Flushes PROVE Disposed(S, d) \in [Turns -> Dispositions]
  BY <1>h, <1>i DEF Disposed
<1>3. Joined("plain") \in {"none", "plain", "swept"} BY DEF Joined
<1>4. ASSUME NEW t \in Turns, Ask(t) \/ Answered(t) \/ Settle(t) \/ SettleUnconfirmed(t) \/ SettleOrphan(t)
      PROVE  FlushTyped'
  <2>1. Rest
    BY <1>1, <1>3, <1>4 DEF FlushTypes, Rest, Ask, Answered, Settle, SettleUnconfirmed, SettleOrphan,
       RequestFlush, flushVars
  <2>2. UNCHANGED <<flush, recheck, deferred>>
    BY <1>4 DEF Ask, Answered, Settle, SettleUnconfirmed, SettleOrphan, flushVars
  <2>. QED BY <1>2, <1>a, <1>e, <2>1, <2>2
<1>5. ASSUME NEW r \in Runs, Publish(r) \/ Stop(r) \/ Fail(r) \/ Start(r) \/ ReadNotes(r) \/ Close(r) \/ Complete(r)
      PROVE  FlushTyped'
  <2>. USE DEF Publish, Stop, Fail, Start, ReadNotes, Close, Complete, flushVars
  <2>1. Rest BY <1>1, <1>3, <1>5 DEF FlushTypes, Rest, RequestFlush
  <2>2. UNCHANGED <<flush, recheck, deferred>> BY <1>5
  <2>. QED BY <1>2, <1>a, <1>e, <2>1, <2>2
<1>6. CASE Send \/ SwitchBranch \/ Sweep \/ UNCHANGED vars
  <2>1. Rest BY <1>1, <1>3, <1>6 DEF FlushTypes, Rest, Send, SwitchBranch, Sweep, RequestFlush, flushVars, vars
  <2>2. UNCHANGED <<flush, recheck, deferred>> BY <1>6 DEF Send, SwitchBranch, Sweep, flushVars, vars
  <2>. QED BY <1>2, <1>a, <1>e, <2>1, <2>2
<1>7. CASE Crash
  <2>1. Rest BY <1>1, <1>7 DEF FlushTypes, Rest, Crash
  <2>2. Entry BY <1>0, <1>7 DEF Entry, Crash
  <2>3. Attempt BY <1>7, <1>b DEF Crash
  <2>. QED BY <1>a, <2>1, <2>2, <2>3
<1>8. CASE RecheckFires
  <2>1. Rest BY <1>1, <1>3, <1>8 DEF FlushTypes, Rest, RecheckFires, RequestFlush
  <2>2. UNCHANGED <<flush, deferred>> BY <1>8 DEF RecheckFires
  <2>3. recheck.index + 1 \in 0..Rechecks BY <1>0, <1>1, <1>8 DEF RecheckFires, FlushTypes
  <2>4. Entry BY <1>1, <1>8, <2>2, <2>3 DEF Entry, RecheckFires, FlushTypes
  <2>. QED BY <1>2, <1>a, <2>1, <2>2, <2>4
<1>9. CASE Throw
  <2>1. Rest BY <1>1, <1>9 DEF FlushTypes, Rest, Throw
  <2>2. Attempt BY <1>9, <1>b DEF Throw
  <2>3. \/ recheck' = [recheck EXCEPT !.timer = TRUE] /\ recheck.index < Rechecks
        \/ recheck' = recheck
        \/ recheck' = [index |-> 0, timer |-> FALSE]
    BY <1>9, Zenon DEF Throw, AfterFlush
  <2>4. deferred' \subseteq Turns BY <1>1, <1>9 DEF Throw, FlushTypes
  <2>5. recheck \in [index : 0..Rechecks, timer : BOOLEAN] BY <1>1 DEF FlushTypes
  <2>a. [recheck EXCEPT !.timer = TRUE] \in [index : 0..Rechecks, timer : BOOLEAN] BY <2>5
  <2>b. [index |-> 0, timer |-> FALSE] \in [index : 0..Rechecks, timer : BOOLEAN] BY <1>0
  <2>6. recheck' \in [index : 0..Rechecks, timer : BOOLEAN] BY <2>3, <2>5, <2>a, <2>b
  <2>7. recheck'.timer => recheck'.index < Rechecks BY <1>1, <2>3, <2>5
  <2>8. Entry BY <2>4, <2>6, <2>7 DEF Entry
  <2>. QED BY <1>a, <2>1, <2>2, <2>8
<1>10. CASE Fire
  <2>1. Rest BY <1>1, <1>10 DEF FlushTypes, Rest, Fire
  <2>2. UNCHANGED <<recheck, deferred>> BY <1>10 DEF Fire
  <2>3. [t \in Turns |-> "none"] \in [Turns -> Dispositions] BY DEF Dispositions
  <2>4. (asked = "swept") \in BOOLEAN OBVIOUS
  <2>5. flush' = Round(1, asked = "swept", [t \in Turns |-> "none"]) BY <1>10 DEF Fire
  <2>6. flush' \in Flushes' /\ flush'.fits = {} BY <1>0, <2>3, <2>4, <2>5, RoundTyped DEF Flushes
  <2>7. flush'.step = "read" BY <2>5 DEF Round
  <2>8. Attempt BY <2>6, <2>7 DEF Attempt
  <2>. QED BY <1>a, <1>e, <2>1, <2>2, <2>8
<1>11. CASE ReadOwed
  <2>1. Rest BY <1>1, <1>11 DEF FlushTypes, Rest, ReadOwed
  <2>2. flush \in Flushes BY <1>11, <1>f DEF ReadOwed
  <2>. DEFINE d == [t \in Turns |-> IF away /\ t \in Owed THEN "inactive_branch" ELSE flush.disposition[t]]
              callbacks == {Item(t) : t \in {u \in Owed : ~away /\ d[u] \in {"none", "pending"}}}
              s == IF MainRun = 0 THEN "wake" ELSE "deliver"
  <2>3. d \in [Turns -> Dispositions] BY <2>2 DEF Flushes, Dispositions
  <2>4. callbacks \in SUBSET Items BY OwedItemsTyped DEF Owed
  <2>5. s \in Steps BY DEF Steps
  <2>6. Len(runs)' = Len(runs)
    <3>1. OweAgain({t \in Turns : Stranded(t)}) BY <1>11 DEF ReadOwed
    <3>2. DOMAIN runs' = DOMAIN runs BY <3>1 DEF OweAgain
    <3>3. runs \in Seq(RunRows) BY DEF RunTypes
    <3>. QED BY <1>0, <3>1, <3>2, <3>3
  <2>7. CASE callbacks = {}
    <3>1. Report(d, {}) BY <1>11, <2>7 DEF ReadOwed
    <3>. QED BY <1>a, <1>c, <2>1, <3>1
  <2>8. CASE callbacks # {}
    <3>1. /\ flush' = [flush EXCEPT !.disposition = d, !.run = MainRun, !.items = callbacks, !.step = s]
          /\ UNCHANGED <<recheck, deferred>>
      BY <1>11, <2>8 DEF ReadOwed
    <3>2. /\ flush' \in Flushes /\ flush'.step = s /\ flush'.run = MainRun
          /\ flush'.items = callbacks /\ flush'.fits = flush.fits
      <4>. HIDE DEF d, callbacks, s
      <4>1. flush.fits \in SUBSET Items /\ flush.leaf \in BOOLEAN \X Nat BY <2>2 DEF Flushes
      <4>. QED BY <1>0, <2>2, <2>3, <2>4, <2>5, <3>1, <4>1, AttemptTyped DEF Flushes
    <3>3. flush.fits = {} BY <1>1, <1>11 DEF ReadOwed
    <3>4. Attempt BY <2>6, <3>2, <3>3 DEF Attempt, Flushes
    <3>. QED BY <1>a, <1>e, <2>1, <3>1, <3>4
  <2>. QED BY <2>7, <2>8
<1>12. ASSUME NEW t \in Turns, DeliverIntoRun(t) PROVE FlushTyped'
  <2>1. Rest BY <1>1, <1>12 DEF FlushTypes, Rest, DeliverIntoRun
  <2>2. flush \in Flushes /\ flush.step = "deliver" BY <1>12, <1>f DEF DeliverIntoRun
  <2>. DEFINE left == {i \in flush.items : i[1] # t}
              d == [flush.disposition EXCEPT ![t] = "delivered"]
  <2>3. d \in [Turns -> Dispositions] BY <1>h, <2>2 DEF Dispositions
  <2>4. left \in SUBSET Items BY <1>h, <2>2
  <2>5. Len(runs)' = Len(runs)
    <3>1. runs \in Seq(RunRows) BY DEF RunTypes
    <3>2. runs' = runs \/ runs' = [runs EXCEPT ![flush.run].notes = @ \cup {[item |-> Item(t), read |-> FALSE]}]
      BY <1>12 DEF DeliverIntoRun
    <3>. QED BY <1>0, <3>1, <3>2
  <2>6. CASE left = {}
    <3>1. Report(d, {}) BY <1>12, <2>6 DEF DeliverIntoRun
    <3>. QED BY <1>a, <1>c, <2>1, <3>1
  <2>7. CASE left # {}
    <3>1. flush' = [flush EXCEPT !.items = left, !.disposition = d] /\ UNCHANGED <<recheck, deferred>>
      BY <1>12, <2>7 DEF DeliverIntoRun
    <3>2. /\ flush' \in Flushes /\ flush'.step = "deliver" /\ flush'.run = flush.run
          /\ flush'.fits = flush.fits
      <4>. HIDE DEF d, left
      <4>. QED BY <1>h, <2>2, <2>3, <2>4, <3>1, AttemptTyped DEF Flushes
    <3>3. flush.fits = {} /\ flush.run # 0 BY <1>1, <2>2
    <3>4. Attempt BY <1>g, <2>5, <3>2, <3>3
    <3>. QED BY <1>a, <1>e, <2>1, <3>1, <3>4
  <2>. QED BY <2>6, <2>7
<1>13. CASE FindClosed
  <2>1. Rest /\ UNCHANGED <<runs, recheck, deferred>> BY <1>1, <1>13 DEF FlushTypes, Rest, FindClosed
  <2>2. flush \in Flushes /\ flush.step = "deliver" BY <1>13, <1>f DEF FindClosed
  <2>. DEFINE d == [t \in Turns |-> IF \E i \in flush.items : i[1] = t THEN "after_run" ELSE flush.disposition[t]]
  <2>3. d \in [Turns -> Dispositions] BY <1>h, <2>2 DEF Dispositions
  <2>4. flush' = [flush EXCEPT !.step = "wake", !.disposition = d] BY <1>13 DEF FindClosed
  <2>5. flush' \in Flushes /\ flush'.step = "wake" /\ flush'.fits = flush.fits
    <3>1. "wake" \in Steps BY DEF Steps
    <3>. HIDE DEF d
    <3>. QED BY <1>h, <2>2, <2>3, <2>4, <3>1, AttemptTyped DEF Flushes
  <2>6. flush.fits = {} BY <1>1, <2>2
  <2>7. Attempt BY <1>g, <2>1, <2>5, <2>6
  <2>. QED BY <1>a, <1>e, <2>1, <2>7
<1>14. CASE RenderWakeUp
  <2>1. Rest /\ UNCHANGED <<runs, recheck, deferred>> BY <1>1, <1>14 DEF FlushTypes, Rest, RenderWakeUp
  <2>2. flush \in Flushes BY <1>14, <1>f DEF RenderWakeUp
  <2>3. PICK fits \in SUBSET flush.items : flush' = [flush EXCEPT !.step = "admit", !.leaf = Leaf, !.fits = fits]
    BY <1>14 DEF RenderWakeUp
  <2>4. flush' \in Flushes /\ flush'.step = "admit" /\ flush'.fits \subseteq flush'.items
    <3>1. "admit" \in Steps BY DEF Steps
    <3>2. fits \in SUBSET Items BY <1>h, <2>2
    <3>. QED BY <1>0, <1>h, <2>2, <2>3, <3>1, <3>2, AttemptTyped DEF Flushes
  <2>5. Attempt BY <1>g, <2>1, <2>4
  <2>. QED BY <1>a, <1>e, <2>1, <2>5
<1>15. CASE Admitted
  <2>1. Rest BY <1>1, <1>3, <1>15 DEF FlushTypes, Rest, Admitted, RequestFlush
  <2>2. flush \in Flushes BY <1>15, <1>f DEF Admitted
  <2>3. Disposed(flush.fits, "wake_up") \in [Turns -> Dispositions] BY <1>i, <2>2 DEF Dispositions
  <2>4. Report(Disposed(flush.fits, "wake_up"), {}) \/ NextRound(Disposed(flush.fits, "wake_up"))
    BY <1>15 DEF Admitted
  <2>. QED BY <1>a, <1>c, <1>d, <2>1, <2>2, <2>3, <2>4
<1>16. CASE Busy \/ Stale
  <2>1. Rest BY <1>1, <1>16 DEF FlushTypes, Rest, Busy, Stale
  <2>2. flush \in Flushes BY <1>16, <1>f DEF Busy, Stale
  <2>3. Report(flush.disposition, {}) \/ NextRound(flush.disposition) BY <1>16 DEF Busy, Stale
  <2>. QED BY <1>a, <1>c, <1>d, <1>h, <2>1, <2>2, <2>3
<1>17. CASE Refused
  <2>1. Rest BY <1>1, <1>17 DEF FlushTypes, Rest, Refused
  <2>2. PICK clears \in BOOLEAN :
          Report(Disposed(flush.items, "pending"), IF clears THEN {i[1] : i \in flush.items} ELSE {})
    BY <1>17 DEF Refused
  <2>. QED BY <1>a, <1>c, <2>1, <2>2
<1>. QED BY <1>4, <1>5, <1>6, <1>7, <1>8, <1>9, <1>10, <1>11, <1>12, <1>13, <1>14, <1>15,
            <1>16, <1>17 DEF Next, RunStep, FlushStep

------------------------------------------------------------------------------
(* What the runs may still read, after each kind of step. *)

\* A run that moves, ends or loses its process keeps what it never read; a new one has nothing.
LEMMA UnreadAfterRunMoves ==
  ASSUME runs \in Seq(RunRows), RunMoves
  PROVE  /\ Runs \subseteq Runs'
         /\ \A r \in Runs : Unread(r)' = Unread(r)
         /\ \A r \in Runs' \ Runs : Unread(r)' = {}
<1>1. \A r \in Runs : runs[r] \in RunRows BY DEF Runs
<1>2. ASSUME NEW r \in Runs, NEW p \in {"answering", "closed", "handing"}, runs' = [runs EXCEPT ![r].phase = p]
      PROVE  Runs' = Runs /\ \A s \in Runs : Unread(s)' = Unread(s)
  BY <1>1, <1>2 DEF Unread, Runs, RunRows
<1>3. ASSUME NEW r \in Runs, End(r)
      PROVE  Runs' = Runs /\ \A s \in Runs : Unread(s)' = Unread(s)
  <2>1. Runs' = Runs /\ runs'[r] = EndOf(runs[r]) /\ \A s \in Runs \ {r} : runs'[s] = runs[s]
    BY <1>3 DEF End, Runs
  <2>2. runs'[r].notes = {n \in runs[r].notes : ~n.read} BY <1>1, <2>1 DEF EndOf, RunRows
  <2>. QED BY <2>1, <2>2 DEF Unread
<1>4. ASSUME NEW atHome \in BOOLEAN, runs' = Append(runs, NewRun(atHome, "preparing"))
      PROVE  /\ Runs \subseteq Runs'
             /\ \A r \in Runs : Unread(r)' = Unread(r)
             /\ \A r \in Runs' \ Runs : Unread(r)' = {}
  BY <1>4 DEF Unread, Runs, NewRun
<1>5. ASSUME runs' = [r \in Runs |-> [runs[r] EXCEPT !.alive = FALSE]]
      PROVE  Runs' = Runs /\ \A s \in Runs : Unread(s)' = Unread(s)
  BY <1>1, <1>5 DEF Unread, Runs, RunRows
<1>. QED BY <1>2, <1>3, <1>4, <1>5 DEF RunMoves

\* A run that reads has nothing left to read.
LEMMA UnreadAfterReads ==
  ASSUME runs \in Seq(RunRows), NEW r \in Runs, Reads(r)
  PROVE  Runs' = Runs /\ Unread(r)' = {} /\ \A s \in Runs \ {r} : Unread(s)' = Unread(s)
<1>1. \A s \in Runs : runs[s] \in RunRows BY DEF Runs
<1>2. Runs' = Runs /\ \A s \in Runs \ {r} : runs'[s] = runs[s] BY DEF Reads, Runs
<1>3. runs'[r].notes = {[n EXCEPT !.read = TRUE] : n \in runs[r].notes} BY <1>1 DEF Reads, RunRows, Runs
<1>4. \A n \in runs'[r].notes : n.read BY <1>1, <1>3 DEF RunRows, Notes
<1>. QED BY <1>2, <1>4 DEF Unread

\* What is owed again is taken out of the run that claimed it.
LEMMA UnreadAfterOweAgain ==
  ASSUME runs \in Seq(RunRows), NEW S, OweAgain(S)
  PROVE  /\ Runs' = Runs
         /\ \A r \in Runs : Unread(r)' = {n \in Unread(r) : ~(n.item[1] \in S /\ claim[n.item[1]] = r)}
<1>1. \A s \in Runs : runs[s] \in RunRows BY DEF Runs
<1>2. Runs' = Runs BY DEF OweAgain, Runs
<1>3. ASSUME NEW r \in Runs
      PROVE  runs'[r].notes = {n \in runs[r].notes : ~(~n.read /\ n.item[1] \in S /\ claim[n.item[1]] = r)}
  BY <1>1 DEF OweAgain, Runs, RunRows
<1>. QED BY <1>2, <1>3 DEF Unread

\* A delivery puts one item into one run.
LEMMA UnreadAfterDelivers ==
  ASSUME runs \in Seq(RunRows), NEW r \in Runs, NEW t \in Turns, Delivers(r, t)
  PROVE  /\ Runs' = Runs /\ \A s \in Runs \ {r} : Unread(s)' = Unread(s)
         /\ Unread(r)' = Unread(r) \cup {[item |-> Item(t), read |-> FALSE]}
<1>1. \A s \in Runs : runs[s] \in RunRows BY DEF Runs
<1>2. Runs' = Runs /\ \A s \in Runs \ {r} : runs'[s] = runs[s] BY DEF Delivers, Runs
<1>3. runs'[r].notes = runs[r].notes \cup {[item |-> Item(t), read |-> FALSE]}
  BY <1>1 DEF Delivers, RunRows, Runs
<1>. QED BY <1>2, <1>3 DEF Unread

------------------------------------------------------------------------------
(* What is owed, after each kind of step. *)

Owing == NotesInvariant /\ HistoryInvariant /\ ToldInvariant /\ NothingIsLost /\ ToldOnce

\* A step that leaves what is owed, told and unread alone.
LEMMA QuietStep ==
  ASSUME TypeOK, Owing, UNCHANGED <<turn, asks, claim, told>>, Runs \subseteq Runs',
         \A r \in Runs : Unread(r)' = Unread(r), \A r \in Runs' \ Runs : Unread(r)' = {}
  PROVE  Owing'
<1>1. Runs = 1..Len(runs) /\ Len(runs) \in Nat /\ \A t \in Turns : claim[t] # 0 => claim[t] \in Runs
  BY RunsFound DEF TypeOK, RunTypes, FlushTypes
<1>2. \A t \in Turns : Item(t)' = Item(t) /\ OwesAnything(t)' = OwesAnything(t)
  BY DEF Item, OwesAnything
<1>3. \A r \in Runs', i \in Items : Awaits(r, i)' => r \in Runs /\ Awaits(r, i)
  BY DEF Awaits
<1>4. \A t \in Turns : Item(t) \in Items BY OwedItemsTyped DEF TypeOK
<1>5. NotesInvariant' BY <1>2, <1>3, <1>4 DEF NotesInvariant, Owing
<1>6. HistoryInvariant' BY <1>3 DEF HistoryInvariant, Owing, Items
<1>7. ToldInvariant' BY <1>1, <1>2 DEF ToldInvariant, Owing
<1>8. NothingIsLost' BY <1>1, <1>2 DEF NothingIsLost, Owing
<1>9. ToldOnce' BY DEF ToldOnce, Owing
<1>. QED BY <1>5, <1>6, <1>7, <1>8, <1>9 DEF Owing

\* What a turn comes to owe was never told, and no run has it.
LEMMA TurnStep ==
  ASSUME TypeOK, Owing, NEW t \in Turns, TurnMoves(t)
  PROVE  Owing'
<1>. USE DEF TypeOK, TurnTypes, RunTypes
<1>1. Runs = 1..Len(runs) /\ Len(runs) \in Nat /\ \A u \in Turns : claim[u] # 0 => claim[u] \in Runs
  BY RunsFound DEF FlushTypes
<1>2. \A u \in Turns \ {t} : Item(u)' = Item(u) /\ OwesAnything(u)' = OwesAnything(u) /\ claim'[u] = claim[u]
  BY DEF Item, OwesAnything, TurnMoves
<1>3. claim'[t] = 0 BY DEF TurnMoves
<1>4. Runs' = Runs /\ \A r \in Runs : Unread(r)' = Unread(r) BY DEF TurnMoves, Runs, Unread
<1>5. \A r \in Runs, i \in Items : Awaits(r, i)' = Awaits(r, i) BY <1>4 DEF Awaits
<1>6. \A u \in Turns : Item(u) \in Items BY OwedItemsTyped
<1>7. Item(t)' \in Items
  BY SizesAreNatural DEF Item, Items, TurnMoves
<1>8. ASSUME OwesAnything(t)' PROVE told[Item(t)'] = 0 /\ \A r \in Runs : ~Awaits(r, Item(t)')
  <2>1. PICK m \in 0..MaxAsks : Item(t)' = <<t, m>> /\ (m > asks[t] \/ (m = 0 /\ turn[t] # "ended"))
    <3>1. CASE turn' = [turn EXCEPT ![t] = "asking"] /\ asks' = [asks EXCEPT ![t] = @ + 1]
      BY <1>7, <3>1 DEF Item, Items, TurnMoves
    <3>2. CASE turn[t] # "ended" /\ turn' = [turn EXCEPT ![t] = "ended"]
      BY <1>7, <3>2 DEF Item, Items
    <3>. QED BY <1>8, <3>1, <3>2 DEF OwesAnything, TurnMoves
  <2>2. told[<<t, m>>] \in Nat BY DEF Items
  <2>. QED BY <2>1, <2>2 DEF HistoryInvariant, Owing
<1>9. NotesInvariant' BY <1>2, <1>3, <1>4, <1>5, <1>6, <1>7, <1>8 DEF NotesInvariant, Owing, TurnMoves
<1>10. HistoryInvariant'
  <2>1. ASSUME NEW u \in Turns PROVE turn'[u] = "asking" => asks'[u] # 0
    BY DEF HistoryInvariant, Owing, TurnMoves
  <2>2. ASSUME NEW u \in Turns, NEW m \in 0..MaxAsks,
               told'[<<u, m>>] > 0 \/ (\E r \in Runs : Awaits(r, <<u, m>>))'
        PROVE  m <= asks'[u] /\ (m = 0 => turn'[u] = "ended")
    <3>1. told[<<u, m>>] > 0 \/ (\E r \in Runs : Awaits(r, <<u, m>>))
      BY <1>4, <1>5, <2>2 DEF TurnMoves, Items
    <3>2. m <= asks[u] /\ (m = 0 => turn[u] = "ended") BY <3>1 DEF HistoryInvariant, Owing
    <3>3. asks'[u] = asks[u] \/ asks'[u] = asks[u] + 1 BY DEF TurnMoves
    <3>4. turn[u] = "ended" => turn'[u] = "ended" BY DEF TurnMoves
    <3>5. asks[u] \in Nat /\ m \in Nat BY SizesAreNatural
    <3>. QED BY <3>2, <3>3, <3>4, <3>5
  <2>. QED BY <2>1, <2>2 DEF HistoryInvariant
<1>11. ToldInvariant' BY <1>1, <1>2, <1>3, <1>4, <1>7, <1>8 DEF ToldInvariant, Owing, TurnMoves
<1>12. NothingIsLost' BY <1>1, <1>2, <1>3, <1>4 DEF NothingIsLost, Owing, TurnMoves
<1>13. ToldOnce' BY DEF ToldOnce, Owing, TurnMoves
<1>. QED BY <1>9, <1>10, <1>11, <1>12, <1>13 DEF Owing

\* A run reads what it claimed, once.
LEMMA ReadsStep ==
  ASSUME TypeOK, Owing, NEW r \in Runs, Reads(r), UNCHANGED <<turn, asks>>
  PROVE  Owing'
<1>. USE DEF TypeOK, TurnTypes, RunTypes
<1>1. Runs = 1..Len(runs) /\ Len(runs) \in Nat /\ \A u \in Turns : claim[u] # 0 => claim[u] \in Runs
  BY RunsFound DEF FlushTypes
<1>2. \A t \in Turns : Item(t)' = Item(t) /\ OwesAnything(t)' = OwesAnything(t) /\ Item(t) \in Items
  BY OwedItemsTyped DEF Item, OwesAnything
<1>3. Runs' = Runs /\ Unread(r)' = {} /\ \A s \in Runs \ {r} : Unread(s)' = Unread(s)
  BY UnreadAfterReads
<1>4. \A s \in Runs, i \in Items : Awaits(s, i)' = (s # r /\ Awaits(s, i)) BY <1>3 DEF Awaits
<1>5. ASSUME NEW i \in Items
      PROVE  /\ Awaits(r, i) => told'[i] = told[i] + 1
             /\ ~Awaits(r, i) => told'[i] = told[i]
  <2>. DEFINE N == {n \in Unread(r) : n.item = i}
  <2>1. told'[i] = told[i] + Cardinality(N) BY <1>5 DEF Reads
  <2>2. CASE ~Awaits(r, i)
    <3>1. N = {} BY <2>2 DEF Awaits
    <3>2. Cardinality(N) = 0 BY <3>1, FS_EmptySet
    <3>3. told[i] \in Nat OBVIOUS
    <3>. QED BY <2>1, <2>2, <3>2, <3>3
  <2>3. CASE Awaits(r, i)
    <3>1. \A n \in Unread(r) : n = [item |-> n.item, read |-> FALSE]
      <4>1. runs[r] \in RunRows BY DEF Runs
      <4>. QED BY <4>1 DEF Unread, RunRows, Notes
    <3>2. N = {[item |-> i, read |-> FALSE]} BY <2>3, <3>1 DEF Awaits
    <3>3. Cardinality(N) = 1 BY <3>2, FS_Singleton
    <3>. QED BY <2>1, <2>3, <3>3
  <2>. QED BY <2>2, <2>3
<1>6. ASSUME NEW i \in Items PROVE told[i] \in Nat /\ told'[i] \in Nat
  <2>1. told[i] \in Nat OBVIOUS
  <2>2. told'[i] = told[i] \/ told'[i] = told[i] + 1 BY <1>5
  <2>. QED BY <2>1, <2>2
<1>7. claim' = claim BY DEF Reads
<1>8. \A i \in Items : Awaits(r, i) => told[i] = 0 BY DEF NotesInvariant, Owing
<1>9. NotesInvariant'
  <2>1. ASSUME NEW s \in Runs', NEW i \in Items, Awaits(s, i)' PROVE told'[i] = 0
    <3>1. s # r /\ Awaits(s, i) /\ s \in Runs BY <1>3, <1>4, <2>1
    <3>2. told[i] = 0 /\ ~Awaits(r, i) BY <3>1 DEF NotesInvariant, Owing
    <3>. QED BY <1>5, <3>2
  <2>. QED BY <1>2, <1>3, <1>4, <1>7, <2>1 DEF NotesInvariant, Owing
<1>10. HistoryInvariant'
  <2>1. ASSUME NEW u \in Turns, NEW m \in 0..MaxAsks,
               told'[<<u, m>>] > 0 \/ (\E s \in Runs : Awaits(s, <<u, m>>))'
        PROVE  told[<<u, m>>] > 0 \/ (\E s \in Runs : Awaits(s, <<u, m>>))
    <3>1. <<u, m>> \in Items BY DEF Items
    <3>. QED BY <1>3, <1>4, <1>5, <1>6, <2>1, <3>1
  <2>. QED BY <2>1 DEF HistoryInvariant, Owing
<1>11. ToldInvariant'
  <2>. SUFFICES ASSUME NEW t \in Turns, OwesAnything(t), told'[Item(t)] > 0
                PROVE  claim[t] # 0 /\ \A n \in Unread(claim[t])' : n.item[1] # t
    BY <1>2, <1>7 DEF ToldInvariant
  <2>1. CASE told[Item(t)] > 0
    BY <1>1, <1>3, <1>7, <2>1 DEF ToldInvariant, Owing
  <2>2. CASE Awaits(r, Item(t))
    <3>1. claim[t] = r BY <1>2, <2>2 DEF NotesInvariant, Owing
    <3>. QED BY <1>1, <1>3, <1>7, <3>1
  <2>. QED BY <1>2, <1>5, <2>1, <2>2
<1>12. NothingIsLost'
  <2>. SUFFICES ASSUME NEW t \in Turns, OwesAnything(t), told'[Item(t)] = 0, claim[t] # 0
                PROVE  \E n \in Unread(claim[t])' : n.item = Item(t)
    BY <1>2, <1>7 DEF NothingIsLost
  <2>1. told[Item(t)] = 0 /\ ~Awaits(r, Item(t)) BY <1>2, <1>5, <1>6
  <2>2. Awaits(claim[t], Item(t)) BY <2>1 DEF NothingIsLost, Owing, Awaits
  <2>. QED BY <1>1, <1>3, <1>7, <2>1, <2>2 DEF Awaits
<1>13. ToldOnce' BY SMTT(30), <1>5, <1>6, <1>8 DEF ToldOnce, Owing
<1>. QED BY <1>9, <1>10, <1>11, <1>12, <1>13 DEF Owing

\* What a stopped run never read is owed again, and was not told.
LEMMA OweAgainStep ==
  ASSUME TypeOK, Owing, OweAgain({t \in Turns : Stranded(t)}), UNCHANGED <<turn, asks, told>>
  PROVE  Owing'
<1>. USE DEF TypeOK, TurnTypes, RunTypes
<1>. DEFINE S == {t \in Turns : Stranded(t)}
<1>1. Runs = 1..Len(runs) /\ Len(runs) \in Nat /\ \A u \in Turns : claim[u] # 0 => claim[u] \in Runs
  BY RunsFound DEF FlushTypes
<1>2. \A t \in Turns : Item(t)' = Item(t) /\ OwesAnything(t)' = OwesAnything(t) /\ Item(t) \in Items /\ Item(t)[1] = t
  BY OwedItemsTyped DEF Item, OwesAnything
<1>3. /\ Runs' = Runs
      /\ \A r \in Runs : Unread(r)' = {n \in Unread(r) : ~(n.item[1] \in S /\ claim[n.item[1]] = r)}
  BY UnreadAfterOweAgain
<1>4. \A t \in Turns : claim'[t] = IF t \in S THEN 0 ELSE claim[t] BY DEF OweAgain
<1>5. \A r \in Runs, i \in Items : Awaits(r, i)' = (Awaits(r, i) /\ ~(i[1] \in S /\ claim[i[1]] = r))
  BY ZenonT(30), <1>3 DEF Awaits
<1>6. NotesInvariant'
  <2>1. ASSUME NEW r \in Runs', NEW t \in Turns, OwesAnything(t)', Awaits(r, Item(t))' PROVE claim'[t] = r
    <3>1. r \in Runs /\ Awaits(r, Item(t)) /\ ~(t \in S /\ claim[t] = r) BY <1>2, <1>3, <1>5, <2>1
    <3>2. claim[t] = r BY <1>2, <2>1, <3>1 DEF NotesInvariant, Owing
    <3>. QED BY <1>4, <3>1, <3>2
  <2>. QED BY <1>3, <1>5, <2>1 DEF NotesInvariant, Owing
<1>7. HistoryInvariant'
  <2>1. \A u \in Turns, m \in 0..MaxAsks : <<u, m>> \in Items BY DEF Items
  <2>. QED BY <1>3, <1>5, <2>1 DEF HistoryInvariant, Owing
<1>8. ToldInvariant'
  <2>. SUFFICES ASSUME NEW t \in Turns, OwesAnything(t), told[Item(t)] > 0
                PROVE  claim'[t] # 0 /\ \A n \in Unread(claim[t])' : n.item[1] # t
    BY <1>2 DEF ToldInvariant
  <2>1. claim[t] # 0 /\ \A n \in Unread(claim[t]) : n.item[1] # t BY DEF ToldInvariant, Owing
  <2>2. t \notin S BY <2>1 DEF Stranded
  <2>. QED BY <1>1, <1>3, <1>4, <2>1, <2>2
<1>9. NothingIsLost'
  <2>. SUFFICES ASSUME NEW t \in Turns, OwesAnything(t), told[Item(t)] = 0, claim'[t] # 0
                PROVE  \E n \in Unread(claim[t])' : n.item = Item(t)
    BY <1>2 DEF NothingIsLost
  <2>1. t \notin S /\ claim'[t] = claim[t] BY <1>4
  <2>2. Awaits(claim[t], Item(t)) BY <2>1 DEF NothingIsLost, Owing, Awaits
  <2>. QED BY <1>1, <1>2, <1>3, <2>1, <2>2 DEF Awaits
<1>10. ToldOnce' BY DEF ToldOnce, Owing
<1>. QED BY <1>6, <1>7, <1>8, <1>9, <1>10 DEF Owing

\* A delivery claims what no run awaits, and puts it where it is claimed.
LEMMA DeliversStep ==
  ASSUME TypeOK, Owing, NEW r \in Runs, NEW t \in Turns, Delivers(r, t), UNCHANGED <<turn, asks>>
  PROVE  Owing'
<1>. USE DEF TypeOK, TurnTypes, RunTypes
<1>1. Runs = 1..Len(runs) /\ Len(runs) \in Nat /\ \A u \in Turns : claim[u] # 0 => claim[u] \in Runs
  BY RunsFound DEF FlushTypes
<1>2. \A u \in Turns : Item(u)' = Item(u) /\ OwesAnything(u)' = OwesAnything(u) /\ Item(u) \in Items /\ Item(u)[1] = u
  BY OwedItemsTyped DEF Item, OwesAnything
<1>3. /\ Runs' = Runs /\ \A s \in Runs \ {r} : Unread(s)' = Unread(s)
      /\ Unread(r)' = Unread(r) \cup {[item |-> Item(t), read |-> FALSE]}
  BY UnreadAfterDelivers
<1>4. claim'[t] = r /\ claim[t] = 0 /\ OwesAnything(t) /\ \A u \in Turns \ {t} : claim'[u] = claim[u]
  BY <1>2 DEF Delivers, Claimable
<1>5. \A s \in Runs, i \in Items : Awaits(s, i)' <=> (Awaits(s, i) \/ (s = r /\ i = Item(t)))
  <2>. DEFINE note == [item |-> Item(t), read |-> FALSE]
  <2>1. note.item = Item(t) OBVIOUS
  <2>. HIDE DEF note
  <2>2. Unread(r)' = Unread(r) \cup {note} BY <1>3 DEF note
  <2>3. \A i \in Items : (\E n \in Unread(r)' : n.item = i) <=> ((\E n \in Unread(r) : n.item = i) \/ i = Item(t))
    BY <2>1, <2>2
  <2>4. \A s \in Runs \ {r}, i \in Items : Awaits(s, i)' <=> Awaits(s, i) BY <1>3 DEF Awaits
  <2>. QED BY <2>3, <2>4 DEF Awaits
<1>6. told' = told BY DEF Delivers
<1>7. told[Item(t)] = 0 /\ \A s \in Runs : ~Awaits(s, Item(t))
  <2>1. told[Item(t)] = 0 BY <1>2, <1>4 DEF ToldInvariant, Owing
  <2>2. \A s \in Runs : ~Awaits(s, Item(t)) BY <1>1, <1>2, <1>4 DEF NotesInvariant, Owing
  <2>. QED BY <2>1, <2>2
<1>8. NotesInvariant'
  <2>1. ASSUME NEW s \in Runs, NEW u \in Turns, OwesAnything(u), Awaits(s, Item(u)) \/ (s = r /\ Item(u) = Item(t))
        PROVE  claim'[u] = s
    <3>1. CASE u = t BY <1>4, <1>7, <2>1, <3>1
    <3>2. CASE u # t
      <4>1. Awaits(s, Item(u)) BY <1>2, <2>1, <3>2
      <4>. QED BY <1>2, <1>4, <2>1, <3>2, <4>1 DEF NotesInvariant, Owing
    <3>. QED BY <3>1, <3>2
  <2>2. ASSUME NEW s \in Runs, NEW q \in Runs, NEW i \in Items, Awaits(s, i)', Awaits(q, i)' PROVE s = q
    BY SMTT(30), <1>5, <1>7, <2>2 DEF NotesInvariant, Owing
  <2>3. ASSUME NEW s \in Runs, NEW i \in Items, Awaits(s, i)' PROVE told'[i] = 0
    BY <1>5, <1>6, <1>7, <2>3 DEF NotesInvariant, Owing
  <2>4. ASSUME NEW s \in Runs, NEW u \in Turns, OwesAnything(u)', Awaits(s, Item(u))' PROVE claim'[u] = s
    <3>1. OwesAnything(u) /\ (Awaits(s, Item(u)) \/ (s = r /\ Item(u) = Item(t))) BY <1>2, <1>5, <2>4
    <3>. QED BY <2>1, <3>1
  <2>. QED BY <1>3, <2>2, <2>3, <2>4 DEF NotesInvariant
<1>9. HistoryInvariant'
  <2>1. PICK m \in 0..MaxAsks : Item(t) = <<t, m>> /\ m <= asks[t] /\ (m = 0 => turn[t] = "ended")
    <3>1. turn[t] = "asking" => asks[t] # 0 BY DEF HistoryInvariant, Owing
    <3>2. asks[t] \in 0..MaxAsks /\ 0 \in 0..MaxAsks BY SizesAreNatural
    <3>3. turn[t] \in {"asking", "ended"} BY <1>4 DEF OwesAnything
    <3>. QED BY <3>1, <3>2, <3>3 DEF Item
  <2>2. \A u \in Turns, m0 \in 0..MaxAsks : <<u, m0>> \in Items BY DEF Items
  <2>3. ASSUME NEW u \in Turns, NEW k \in 0..MaxAsks,
               told'[<<u, k>>] > 0 \/ (\E s \in Runs : Awaits(s, <<u, k>>))'
        PROVE  k <= asks[u] /\ (k = 0 => turn[u] = "ended")
    <3>1. CASE told[<<u, k>>] > 0 \/ (\E s \in Runs : Awaits(s, <<u, k>>))
      BY <3>1 DEF HistoryInvariant, Owing
    <3>2. CASE <<u, k>> = Item(t) BY <2>1, <3>2
    <3>. QED BY <1>3, <1>5, <1>6, <2>2, <2>3, <3>1, <3>2
  <2>. QED BY <2>3 DEF HistoryInvariant, Owing
<1>10. ToldInvariant'
  <2>. SUFFICES ASSUME NEW u \in Turns, OwesAnything(u), told[Item(u)] > 0
                PROVE  claim'[u] # 0 /\ \A n \in Unread(claim[u])' : n.item[1] # u
    BY <1>2, <1>6 DEF ToldInvariant
  <2>1. u # t BY <1>2, <1>7
  <2>2. claim[u] # 0 /\ \A n \in Unread(claim[u]) : n.item[1] # u BY DEF ToldInvariant, Owing
  <2>3. [item |-> Item(t), read |-> FALSE].item[1] # u BY <1>2, <2>1
  <2>. QED BY <1>1, <1>3, <1>4, <2>1, <2>2, <2>3
<1>11. NothingIsLost'
  <2>. SUFFICES ASSUME NEW u \in Turns, OwesAnything(u), told[Item(u)] = 0, claim'[u] # 0
                PROVE  \E n \in Unread(claim[u])' : n.item = Item(u)
    BY <1>2, <1>6 DEF NothingIsLost
  <2>1. CASE u = t
    <3>1. [item |-> Item(t), read |-> FALSE] \in Unread(r)' BY <1>3
    <3>2. [item |-> Item(t), read |-> FALSE].item = Item(t) OBVIOUS
    <3>. QED BY <1>4, <2>1, <3>1, <3>2
  <2>2. CASE u # t
    <3>1. Awaits(claim[u], Item(u)) BY <1>4, <2>2 DEF NothingIsLost, Owing, Awaits
    <3>. QED BY <1>1, <1>3, <1>4, <2>2, <3>1 DEF Awaits
  <2>. QED BY <2>1, <2>2
<1>12. ToldOnce' BY <1>6 DEF ToldOnce, Owing
<1>. QED BY <1>8, <1>9, <1>10, <1>11, <1>12 DEF Owing

\* A wake-up takes what no run awaits, and its run tells all of it.
LEMMA TakesStep ==
  ASSUME TypeOK, Owing, NEW S \in SUBSET Items, Takes(S), UNCHANGED <<turn, asks>>
  PROVE  Owing'
<1>. USE DEF TypeOK, TurnTypes, RunTypes
<1>1. Runs = 1..Len(runs) /\ Len(runs) \in Nat /\ \A u \in Turns : claim[u] # 0 => claim[u] \in Runs
  BY RunsFound DEF FlushTypes
<1>2. \A u \in Turns : Item(u)' = Item(u) /\ OwesAnything(u)' = OwesAnything(u) /\ Item(u) \in Items /\ Item(u)[1] = u
  BY OwedItemsTyped DEF Item, OwesAnything
<1>3. /\ Runs' = Runs \cup {Len(runs) + 1} /\ Len(runs) + 1 \notin Runs
      /\ \A r \in Runs : Unread(r)' = Unread(r)
      /\ \A r \in Runs' \ Runs : Unread(r)' = {}
  <2>1. NewRun(TRUE, "preparing") \in RunRows /\ NewRun(TRUE, "preparing").notes = {}
    BY DEF NewRun, RunRows, Phases
  <2>2. /\ Len(runs) + 1 \notin Runs /\ Runs' = Runs \cup {Len(runs) + 1}
        /\ runs'[Len(runs) + 1] = NewRun(TRUE, "preparing") /\ \A s \in Runs : runs'[s] = runs[s]
    <3>1. runs' = Append(runs, NewRun(TRUE, "preparing")) BY DEF Takes
    <3>. QED BY <2>1, <3>1, RowAppended
  <2>. QED BY <2>1, <2>2 DEF Unread
<1>4. \A i \in S : i[1] \in Turns /\ Item(i[1]) = i /\ OwesAnything(i[1]) /\ claim[i[1]] = 0
  BY DEF Takes, Claimable, Items
<1>5. ASSUME NEW t \in Turns
      PROVE  claim'[t] = IF Item(t) \in S THEN Len(runs) + 1 ELSE claim[t]
  BY <1>2, <1>4 DEF Takes
<1>6. ASSUME NEW i \in Items PROVE told'[i] = IF i \in S THEN told[i] + 1 ELSE told[i]
  BY DEF Takes
<1>7. \A i \in S : told[i] = 0 /\ \A r \in Runs : ~Awaits(r, i)
  <2>1. ASSUME NEW i \in S PROVE told[i] = 0
    <3>1. i \in Items /\ told[i] \in Nat OBVIOUS
    <3>. QED BY SMTT(30), <1>4, <3>1 DEF ToldInvariant, Owing
  <2>2. \A i \in S, r \in Runs : ~Awaits(r, i) BY <1>1, <1>4 DEF NotesInvariant, Owing
  <2>. QED BY <2>1, <2>2
<1>8. \A r \in Runs', i \in Items : Awaits(r, i)' => r \in Runs /\ Awaits(r, i)
  <2>1. ASSUME NEW r \in Runs, NEW i \in Items PROVE Awaits(r, i)' <=> Awaits(r, i) BY <1>3 DEF Awaits
  <2>2. ASSUME NEW r \in Runs' \ Runs, NEW i \in Items PROVE ~Awaits(r, i)' BY <1>3 DEF Awaits
  <2>. QED BY <1>3, <2>1, <2>2
<1>9. NotesInvariant'
  <2>1. ASSUME NEW r \in Runs', NEW i \in Items, Awaits(r, i)' PROVE told'[i] = 0
    <3>1. r \in Runs /\ Awaits(r, i) /\ i \notin S BY <1>7, <1>8, <2>1
    <3>. QED BY <1>6, <3>1 DEF NotesInvariant, Owing
  <2>2. ASSUME NEW r \in Runs', NEW t \in Turns, OwesAnything(t)', Awaits(r, Item(t))' PROVE claim'[t] = r
    <3>1. OwesAnything(t) /\ r \in Runs /\ Awaits(r, Item(t)) /\ Item(t) \notin S BY <1>2, <1>7, <1>8, <2>2
    <3>. QED BY <1>5, <3>1 DEF NotesInvariant, Owing
  <2>. QED BY <1>8, <2>1, <2>2 DEF NotesInvariant, Owing
<1>10. HistoryInvariant'
  <2>1. ASSUME NEW u \in Turns, NEW k \in 0..MaxAsks,
               told'[<<u, k>>] > 0 \/ (\E s \in Runs : Awaits(s, <<u, k>>))'
        PROVE  k <= asks[u] /\ (k = 0 => turn[u] = "ended")
    <3>0. <<u, k>> \in Items BY DEF Items
    <3>1. CASE told[<<u, k>>] > 0 \/ (\E s \in Runs : Awaits(s, <<u, k>>))
      BY <3>1 DEF HistoryInvariant, Owing
    <3>2. CASE <<u, k>> \in S
      <4>1. <<u, k>> = Item(u) /\ OwesAnything(u) BY <1>4, <3>2
      <4>2. turn[u] = "asking" => asks[u] # 0 BY DEF HistoryInvariant, Owing
      <4>3. k = IF turn[u] = "ended" THEN 0 ELSE asks[u] BY <4>1 DEF Item
      <4>4. asks[u] \in Nat BY SizesAreNatural
      <4>. QED BY <4>1, <4>2, <4>3, <4>4 DEF OwesAnything
    <3>. QED BY <1>6, <1>8, <2>1, <3>0, <3>1, <3>2
  <2>. QED BY <2>1 DEF HistoryInvariant, Owing
<1>11. ToldInvariant'
  <2>. SUFFICES ASSUME NEW u \in Turns, OwesAnything(u), told'[Item(u)] > 0
                PROVE  claim'[u] # 0 /\ \A n \in Unread(claim[u])' : n.item[1] # u
    BY <1>2 DEF ToldInvariant
  <2>1. CASE Item(u) \in S BY <1>1, <1>3, <1>5, <2>1
  <2>2. CASE Item(u) \notin S
    <3>1. told[Item(u)] > 0 BY <1>2, <1>6, <2>2
    <3>2. claim[u] # 0 /\ \A n \in Unread(claim[u]) : n.item[1] # u BY <3>1 DEF ToldInvariant, Owing
    <3>. QED BY <1>1, <1>3, <1>5, <2>2, <3>2
  <2>. QED BY <2>1, <2>2
<1>12. NothingIsLost'
  <2>. SUFFICES ASSUME NEW u \in Turns, OwesAnything(u), told'[Item(u)] = 0, claim'[u] # 0
                PROVE  \E n \in Unread(claim[u])' : n.item = Item(u)
    BY <1>2 DEF NothingIsLost
  <2>1. Item(u) \in Items /\ told[Item(u)] \in Nat BY <1>2
  <2>2. Item(u) \notin S /\ told[Item(u)] = 0 BY <1>6, <2>1
  <2>3. claim'[u] = claim[u] BY <1>5, <2>2
  <2>4. Awaits(claim[u], Item(u)) BY <2>2, <2>3 DEF NothingIsLost, Owing, Awaits
  <2>. QED BY <1>1, <1>3, <2>3, <2>4 DEF Awaits
<1>13. ToldOnce' BY SMTT(30), <1>6, <1>7 DEF ToldOnce, Owing
<1>. QED BY <1>9, <1>10, <1>11, <1>12, <1>13 DEF Owing

------------------------------------------------------------------------------

\* Every step keeps what is owed, told and unread in agreement.
LEMMA OwingKept ==
  ASSUME TypeOK, Owing, RowStep
  PROVE  Owing'
<1>0. runs \in Seq(RunRows) BY DEF TypeOK, RunTypes
<1>1. ASSUME NEW t \in Turns, TurnMoves(t) PROVE Owing' BY <1>1, TurnStep
<1>2. CASE RunMoves /\ UNCHANGED <<turn, asks, claim, told>>
  BY <1>0, <1>2, UnreadAfterRunMoves, QuietStep
<1>3. ASSUME NEW r \in Runs, Reads(r), UNCHANGED <<turn, asks>> PROVE Owing' BY <1>3, ReadsStep
<1>4. CASE OweAgain({t \in Turns : Stranded(t)}) /\ UNCHANGED <<turn, asks, told>>
  BY <1>4, OweAgainStep
<1>5. ASSUME NEW r \in Runs, NEW t \in Turns, Delivers(r, t), UNCHANGED <<turn, asks>> PROVE Owing'
  BY <1>5, DeliversStep
<1>6. ASSUME NEW S \in SUBSET Items, Takes(S), UNCHANGED <<turn, asks>> PROVE Owing'
  BY <1>6, TakesStep
<1>7. CASE UNCHANGED <<turn, asks, claim, told, runs>>
  <2>1. Runs' = Runs /\ \A r \in Runs : Unread(r)' = Unread(r) BY <1>7 DEF Runs, Unread
  <2>. QED BY <1>7, <2>1, QuietStep
<1>. QED BY <1>1, <1>2, <1>3, <1>4, <1>5, <1>6, <1>7 DEF RowStep

\* A request joins a flush that has not fired, or a new one is chained.
LEMMA FlushWillSeeKept ==
  ASSUME TypeOK, AFlushWillSee, [Next]_vars
  PROVE  AFlushWillSee'
<1>. USE DEF AFlushWillSee
<1>1. Joined("plain") # "none" BY DEF Joined
<1>2. ASSUME NEW t \in Turns, Ask(t) \/ Settle(t) PROVE AFlushWillSee'
  BY <1>1, <1>2 DEF Ask, Settle, RequestFlush
<1>3. ASSUME NEW t \in Turns, Answered(t) \/ SettleOrphan(t) PROVE AFlushWillSee'
  BY <1>3 DEF Answered, SettleOrphan, flushVars, eventVars
<1>4. ASSUME NEW r \in Runs, Publish(r) \/ Stop(r) \/ Start(r) \/ ReadNotes(r) \/ Close(r)
      PROVE  AFlushWillSee'
  BY <1>4 DEF Publish, Stop, Start, ReadNotes, Close, flushVars, eventVars
<1>5. ASSUME NEW r \in Runs, Fail(r) \/ Complete(r) PROVE AFlushWillSee'
  BY <1>1, <1>5 DEF Fail, Complete, RequestFlush
<1>6. CASE Fire
  BY <1>6 DEF Fire, Round
<1>7. CASE ReadOwed
  BY <1>7 DEF ReadOwed, eventVars
<1>8. ASSUME NEW t \in Turns, DeliverIntoRun(t) PROVE AFlushWillSee'
  BY <1>8 DEF DeliverIntoRun, eventVars
<1>9. CASE FindClosed \/ RenderWakeUp \/ Busy \/ Stale
  BY <1>9 DEF FindClosed, RenderWakeUp, Busy, Stale, eventVars
<1>10. CASE Admitted \/ Send \/ RecheckFires
  BY <1>1, <1>10 DEF Admitted, Send, RecheckFires, RequestFlush
<1>11. ASSUME Refused \/ \E t \in Turns : SettleUnconfirmed(t) PROVE AFlushWillSee'
  BY <1>11 DEF Refused, SettleUnconfirmed, Event, flushVars
<1>12. CASE SwitchBranch \/ Throw \/ Crash
  BY <1>12 DEF SwitchBranch, Throw, Crash, Event, flushVars
<1>13. CASE Sweep
  BY <1>13 DEF Sweep
<1>14. CASE UNCHANGED vars
  BY <1>14 DEF vars, flushVars, eventVars
<1>. QED BY <1>2, <1>3, <1>4, <1>5, <1>6, <1>7, <1>8, <1>9, <1>10, <1>11, <1>12, <1>13, <1>14
     DEF Next, RunStep, FlushStep

\* The chat starts with an answer under way and nothing owed.
LEMMA InitInvariant == Init => Inv
<1>. SUFFICES ASSUME Init PROVE Inv OBVIOUS
<1>1. runs = <<NewRun(TRUE, "answering")>> /\ NewRun(TRUE, "answering") \in RunRows
  BY DEF Init, NewRun, RunRows, Phases
<1>2. /\ runs \in Seq(RunRows) /\ Len(runs) = 1 /\ Runs = {1} /\ runs[1].notes = {} /\ Active \subseteq {1}
  BY <1>1 DEF Runs, Active, NewRun
<1>3. IsFiniteSet({}) /\ Cardinality({}) = 0 BY FS_EmptySet
<1>4. \A r \in Runs : Unread(r) = {} BY <1>2 DEF Unread
<1>5. TypeOK
  <2>1. TurnTypes BY SizesAreNatural DEF Init, TurnTypes
  <2>2. RunTypes
    <3>1. 0 \in 0..Len(runs) BY <1>2
    <3>2. claim \in [Turns -> 0..Len(runs)] /\ told \in [Items -> Nat] BY <3>1 DEF Init
    <3>. QED BY <1>2, <3>2 DEF RunTypes
  <2>3. FlushTypes
    <3>1. 0 \in 0..Rechecks BY SizesAreNatural
    <3>2. recheck \in [index : 0..Rechecks, timer : BOOLEAN] BY <3>1 DEF Init
    <3>. QED BY <3>2 DEF Init, FlushTypes
  <2>4. Cardinality(Active) <= 2
    <3>1. Cardinality({1}) = 1 /\ IsFiniteSet({1}) BY FS_Singleton
    <3>2. Cardinality(Active) <= Cardinality({1}) /\ IsFiniteSet(Active) BY <1>2, <3>1, FS_Subset
    <3>3. Cardinality(Active) \in Nat BY <3>2, FS_CardinalityType
    <3>. QED BY <3>1, <3>2, <3>3
  <2>5. \A r \in Runs : Cardinality(runs[r].notes) <= CallbacksPerRun
    <3>1. CallbacksPerRun \in Nat BY SizesAreNatural
    <3>2. \A r \in Runs : runs[r].notes = {} BY <1>2
    <3>3. 0 <= CallbacksPerRun BY <3>1
    <3>. QED BY <1>3, <3>2, <3>3
  <2>. QED BY <2>1, <2>2, <2>3, <2>4, <2>5 DEF TypeOK
<1>6. FlushInvariant BY DEF Init, FlushInvariant, NoFlush
<1>7. RowInvariant BY <1>2, <1>3 DEF RowInvariant
<1>8. Owing
  <2>1. \A r \in Runs, i \in Items : ~Awaits(r, i) BY <1>4 DEF Awaits
  <2>2. NotesInvariant
    <3>1. \A t \in Turns : ~OwesAnything(t) BY DEF Init, OwesAnything
    <3>. QED BY <2>1, <3>1 DEF NotesInvariant
  <2>3. \A t \in Turns, m \in 0..MaxAsks : <<t, m>> \in Items BY DEF Items
  <2>4. HistoryInvariant BY <2>1, <2>3 DEF HistoryInvariant, Init
  <2>5. ToldInvariant /\ NothingIsLost /\ ToldOnce
    BY DEF ToldInvariant, NothingIsLost, ToldOnce, Init, OwesAnything
  <2>. QED BY <2>2, <2>4, <2>5 DEF Owing
<1>9. AFlushWillSee BY DEF AFlushWillSee, Init
<1>. QED BY <1>5, <1>6, <1>7, <1>8, <1>9 DEF Inv, Owing

\* Every step keeps the invariant.
LEMMA StepInvariant == Inv /\ [Next]_vars => Inv'
<1>. SUFFICES ASSUME Inv, [Next]_vars PROVE Inv' OBVIOUS
<1>1. RowStep BY StepShape DEF Inv, FlushInvariant
<1>2. /\ turn' \in [Turns -> {"running", "asking", "ended"}] /\ asks' \in [Turns -> 0..MaxAsks]
      /\ RowsTyped' /\ Len(runs)' \in Nat /\ Len(runs) <= Len(runs)'
  BY <1>1, RowStepTypes DEF Inv
<1>3. live' \in SUBSET {t \in Turns : turn'[t] # "ended"} BY LiveTyped DEF Inv
<1>4. FlushTyped' BY <1>2, FlushStepTypes DEF Inv
<1>5. TypeOK' /\ FlushInvariant' /\ RowInvariant'
  BY <1>2, <1>3, <1>4 DEF TypeOK, TurnTypes, RowsTyped, FlushTyped, RowInvariant
<1>6. Owing' BY <1>1, OwingKept DEF Inv, Owing
<1>7. AFlushWillSee' BY FlushWillSeeKept DEF Inv
<1>. QED BY <1>5, <1>6, <1>7 DEF Inv, Owing

\* The inductive invariant holds in every state: the flushes' memory, the claims and the
\* unread follow-ups agree through every answer, failure and restart.
THEOREM InvariantHolds == Spec => []Inv
BY InitInvariant, StepInvariant, PTL DEF Spec

\* Every row and every entry of the flushes' memory keeps its shape and its bounds: no run
\* takes more from sub-agents than its limit (store.ts deliverIntoRun), and no chat has a third
\* active run (handlers.ts createSendMessageHandler).
THEOREM TypesHold == Spec => []TypeOK
<1>1. Inv => TypeOK BY DEF Inv
<1>. QED BY <1>1, InvariantHolds, PTL

\* A callback or a question reaches a main agent at most once, however often its delivery
\* is retried, its run stopped or its process restarted (store.ts claimTurns).
THEOREM ToldAtMostOnce == Spec => []ToldOnce
<1>1. Inv => ToldOnce BY DEF Inv
<1>. QED BY <1>1, InvariantHolds, PTL

\* What a turn owes is unclaimed, or unread in the run that claimed it, until a main agent
\* has read it (store.ts owedCallbacks, claimSubagentCallbacksForRun).
THEOREM NothingLost == Spec => []NothingIsLost
<1>1. Inv => NothingIsLost BY DEF Inv
<1>. QED BY <1>1, InvariantHolds, PTL

\* Until a fault, whoever asked for a flush has one that reads after it
\* (callbacks.ts flush).
THEOREM FlushWillSee == Spec => []AFlushWillSee
<1>1. Inv => AFlushWillSee BY DEF Inv
<1>. QED BY <1>1, InvariantHolds, PTL
==============================================================================
