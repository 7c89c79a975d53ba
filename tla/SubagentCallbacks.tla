-------------------------- MODULE SubagentCallbacks --------------------------
(***************************************************************************)
(* What background sub-agents owe their chat's main agent: the callback of *)
(* a turn that ended, the question of a turn that waits for an answer      *)
(* (src/lib/server/runs/subagentBackground). One chat, one server process. *)
(* Rows (turn, claim, runs) outlive a crash; everything of the flushes     *)
(* (flush, asked, recheck, deferred) does not.                             *)
(*                                                                         *)
(* What is owed is a pair <<turn, n>>: n >= 1 its nth question, 0 its      *)
(* callback.                                                               *)
(***************************************************************************)
EXTENDS Naturals, Sequences, FiniteSets, FiniteSetsExt

CONSTANTS
    Turns,              \* background sub-agents the main agent started
    Askers,             \* those that may ask a question
    CallbacksPerRun,    \* SUBAGENT_FOLLOWUP_LIMITS.callbacksPerRun
    FlushAttempts,      \* FLUSH_ATTEMPTS
    Rechecks,           \* SUBAGENT_CALLBACK_RECHECK_MS.length
    MaxAsks, MaxEvents  \* bounds: questions of a turn; sends, branch switches, refusals
                        \* and faults together

ASSUME SizesAreNatural ==
    /\ {CallbacksPerRun, FlushAttempts, Rechecks} \subseteq Nat \ {0}
    /\ {MaxAsks, MaxEvents} \subseteq Nat

VARIABLES
    turn,        \* turn |-> "running", "asking" (waiting, for an answer) or "ended"
    asks,        \* turn |-> questions it has asked
    claim,       \* turn |-> callbackRunId, 0: none
    live,        \* turns the process executes
    runs,        \* the chat's main-agent runs, in the order they were admitted
    away,        \* the active leaf is on another branch than the sub-agents'
    asked,       \* the flush that waits its turn and its 1.5 s: "none", "plain" or
                 \* "swept" (recovery awaits its report)
    flush,       \* the flush whose attempt runs
    recheck,     \* the chat's entry in rechecks
    deferred,    \* turns recovery passes by
    interrupted, \* a pass of recovery ended turns it has not flushed yet
    told,        \* history: how often each item reached a main agent
    unseen,      \* history: turns that asked for a flush no owed list has answered yet
    events,      \* sends, branch switches, refusals and faults so far
    faulted      \* one of them was a fault

turnVars  == <<turn, asks, live>>
flushVars == <<asked, flush, recheck, deferred, interrupted>>
vars == <<turnVars, claim, runs, away, flushVars, told, unseen, events, faulted>>

Items == Turns \X (0..MaxAsks)
Item(t) == <<t, IF turn[t] = "ended" THEN 0 ELSE asks[t]>>

Phases == {"preparing", "answering", "closed", "handing", "ended"}
NewRun(atHome, phase) == [phase |-> phase, home |-> atHome, alive |-> TRUE, notes |-> {}]

Active == {r \in DOMAIN runs : runs[r].phase # "ended"}
\* owedCallbacks: the latest active run that is no sub-agent's.
MainRun == IF Active = {} THEN 0 ELSE Max(Active)
\* The active leaf: the latest answer of the branch the user is on.
Leaf == <<away, Max({0} \cup {r \in DOMAIN runs : runs[r].home = ~away})>>

\* The send handler admits beside no active run, or behind a published answer,
\* the active leaf, that still hands off its Workspace.
Admits == \A r \in Active : Active = {r} /\ runs[r].phase = "handing" /\ Leaf = <<away, r>>

NoFlush == [step |-> "idle"]
Idle == flush.step = "idle"

\* Of an ended run only what it never read matters.
EndOf(run) == [run EXCEPT !.phase = "ended", !.alive = FALSE, !.notes = {n \in @ : ~n.read}]

Init ==
    /\ turn = [t \in Turns |-> "running"]
    /\ asks = [t \in Turns |-> 0]
    /\ claim = [t \in Turns |-> 0]
    /\ live = Turns
    /\ runs = <<NewRun(TRUE, "answering")>>
    /\ away = FALSE
    /\ asked = "none" /\ flush = NoFlush
    /\ recheck = [index |-> 0, timer |-> FALSE]
    /\ deferred = {} /\ interrupted = FALSE
    /\ told = [i \in Items |-> 0]
    /\ unseen = {}
    /\ events = 0 /\ faulted = FALSE

Event(fault) ==
    /\ events < MaxEvents
    /\ events' = events + 1
    /\ faulted' = (faulted \/ fault)
eventVars == <<events, faulted>>

(* flush(): a flush that has not fired yet takes the request, else a new one
   is chained behind the one that runs. *)
Joined(kind) == IF asked = "swept" THEN "swept" ELSE kind

\* A request joins a flush that runs, though it may have read its list.
RequestFlush_JoinsAny == asked' = IF Idle \/ asked # "none" THEN Joined("plain") ELSE "none"
RequestFlush == asked' = Joined("plain")

------------------------------------------------------------------------------
(* The sub-agents. Every write of a turn's state clears the claim on what it
   asked: the answer to a question, or the turn's end. *)

NoLongerAsked(t) == claim' = [claim EXCEPT ![t] = 0]

Ask(t) ==
    /\ t \in live \cap Askers /\ turn[t] = "running" /\ asks[t] < MaxAsks
    /\ turn' = [turn EXCEPT ![t] = "asking"]
    /\ asks' = [asks EXCEPT ![t] = @ + 1]
    /\ NoLongerAsked(t)
    /\ RequestFlush
    /\ unseen' = unseen \cup {t}
    /\ UNCHANGED <<live, runs, away, flush, recheck, deferred, interrupted, told, eventVars>>

\* The main agent or the user answered, or the wait ran out.
Answered(t) ==
    /\ t \in live /\ turn[t] = "asking"
    /\ turn' = [turn EXCEPT ![t] = "running"]
    /\ NoLongerAsked(t)
    /\ unseen' = unseen \ {t}
    /\ UNCHANGED <<asks, live, runs, away, flushVars, told, eventVars>>

Settle(t) ==
    /\ t \in live /\ turn[t] # "ended"
    /\ turn' = [turn EXCEPT ![t] = "ended"]
    /\ live' = live \ {t}
    /\ NoLongerAsked(t)
    /\ RequestFlush
    /\ unseen' = unseen \cup {t}
    /\ UNCHANGED <<asks, runs, away, flush, recheck, deferred, interrupted, told, eventVars>>

\* No attempt to settle is confirmed: the turn is left to recovery, or it ended in a
\* commit whose reply was lost and nobody asks for the flush of its callback.
SettleUnconfirmed(t) ==
    /\ t \in live /\ turn[t] # "ended"
    /\ live' = live \ {t}
    /\ \/ turn' = [turn EXCEPT ![t] = "ended"] /\ NoLongerAsked(t)
       \/ UNCHANGED <<turn, claim>>
    /\ Event(TRUE)
    /\ UNCHANGED <<asks, runs, away, flushVars, told, unseen>>

------------------------------------------------------------------------------
(* The main agent's runs, and the user. *)

Phase(r, from, to) ==
    /\ runs[r].alive /\ runs[r].phase = from
    /\ runs' = [runs EXCEPT ![r].phase = to]

End(r) == runs' = [runs EXCEPT ![r] = EndOf(@)]

Start(r) ==
    /\ Active = {r}
    /\ Phase(r, "preparing", "answering")
    /\ UNCHANGED <<turnVars, claim, away, flushVars, told, unseen, eventVars>>

Unread(r) == {n \in runs[r].notes : ~n.read}

\* The engine delivers the run's own follow-ups up to its revision.
ReadNotes(r) ==
    /\ runs[r].alive /\ runs[r].phase = "answering" /\ Unread(r) # {}
    /\ runs' = [runs EXCEPT ![r].notes = {[n EXCEPT !.read = TRUE] : n \in @}]
    /\ told' = [i \in Items |-> told[i] + Cardinality({n \in Unread(r) : n.item = i})]
    /\ UNCHANGED <<turnVars, claim, away, flushVars, unseen, eventVars>>

\* The answer closes to follow-ups at the revision it read up to.
Close(r) ==
    /\ Unread(r) = {}
    /\ Phase(r, "answering", "closed")
    /\ UNCHANGED <<turnVars, claim, away, flushVars, told, unseen, eventVars>>

\* The answer is published while its Workspace is still handed off.
Publish(r) ==
    /\ Phase(r, "closed", "handing")
    /\ UNCHANGED <<turnVars, claim, away, flushVars, told, unseen, eventVars>>

Complete(r) ==
    /\ runs[r].alive /\ runs[r].phase \in {"closed", "handing"}
    /\ End(r)
    /\ RequestFlush
    /\ UNCHANGED <<turnVars, claim, away, flush, recheck, deferred, interrupted, told, unseen, eventVars>>

\* A failure, or recovery of a run its process left: the terminal signal flushes.
Fail(r) ==
    /\ r \in Active /\ End(r)
    /\ RequestFlush
    /\ UNCHANGED <<turnVars, claim, away, flush, recheck, deferred, interrupted, told, unseen, eventVars>>

\* Stop signals nothing.
Stop(r) ==
    /\ runs[r].alive /\ End(r)
    /\ UNCHANGED <<turnVars, claim, away, flushVars, told, unseen, eventVars>>

Send ==
    /\ Admits
    /\ runs' = Append(runs, NewRun(~away, "preparing"))
    /\ RequestFlush
    /\ Event(FALSE)
    /\ UNCHANGED <<turnVars, claim, away, flush, recheck, deferred, interrupted, told, unseen>>

SwitchBranch ==
    /\ away' = ~away
    /\ Event(FALSE)
    /\ UNCHANGED <<turnVars, claim, runs, flushVars, told, unseen>>

------------------------------------------------------------------------------
(* One flush: up to FlushAttempts rounds of reading what is owed, putting it
   into the running answer, and waking the main agent for the rest. *)

OwesAnything(t) == turn[t] \in {"asking", "ended"}

\* Whatever an ended run claimed is owed again, read or not.
Stranded_Read(t) == claim[t] # 0 /\ runs[claim[t]].phase = "ended"

\* A claim whose follow-up an ended run never read.
Stranded(t) == claim[t] # 0 /\ runs[claim[t]].phase = "ended"
                            /\ \E n \in Unread(claim[t]) : n.item[1] = t
Owed == {t \in Turns : OwesAnything(t) /\ (claim[t] = 0 \/ Stranded(t))}

\* recheck(): the entry after a flush whose report is `clears` (something is
\* owed for a reason that clears).
AfterFlush(clears) ==
    IF recheck.timer THEN recheck
    ELSE IF clears /\ recheck.index < Rechecks THEN [recheck EXCEPT !.timer = TRUE]
    ELSE [index |-> 0, timer |-> FALSE]

\* A flush ends with the dispositions d, retry among its pending ones.
Report(d, retry) ==
    /\ flush' = NoFlush
    /\ recheck' = AfterFlush(\E t \in Turns : d[t] = "after_run" \/ (d[t] = "pending" /\ t \in retry))
    /\ deferred' = IF flush.swept
                   THEN {t \in Turns : d[t] \in {"pending", "inactive_branch"}} \ retry
                   ELSE deferred

\* A round begins with reading what is owed.
Round(n, swept, d) ==
    [step |-> "read", round |-> n, swept |-> swept, run |-> 0,
     items |-> {}, fits |-> {}, leaf |-> <<FALSE, 0>>, disposition |-> d]

NextRound(d) ==
    IF flush.round < FlushAttempts
    THEN /\ flush' = Round(flush.round + 1, flush.swept, d)
         /\ UNCHANGED <<recheck, deferred>>
    ELSE Report(d, {})

\* The flush fires: 1.5 s after the one before it ended.
Fire ==
    /\ asked # "none" /\ Idle
    /\ flush' = Round(1, asked = "swept", [t \in Turns |-> "none"])
    /\ asked' = "none"
    /\ UNCHANGED <<turnVars, claim, runs, away, recheck, deferred, interrupted, told, unseen, eventVars>>

OweAgain(S) ==
    /\ claim' = [t \in Turns |-> IF t \in S THEN 0 ELSE claim[t]]
    /\ runs' = [r \in DOMAIN runs |-> [runs[r] EXCEPT !.notes =
                   {n \in @ : ~(~n.read /\ n.item[1] \in S /\ claim[n.item[1]] = r)}]]

\* owedCallbacks, and what the round does with its answer.
ReadOwed ==
    /\ flush.step = "read"
    /\ OweAgain({t \in Turns : Stranded(t)})
    /\ LET d == [t \in Turns |-> IF away /\ t \in Owed THEN "inactive_branch" ELSE flush.disposition[t]]
           callbacks == {Item(t) : t \in {u \in Owed : ~away /\ d[u] \in {"none", "pending"}}}
       IN  IF callbacks = {} THEN Report(d, {})
           ELSE /\ flush' = [flush EXCEPT !.disposition = d, !.run = MainRun, !.items = callbacks,
                                          !.step = IF MainRun = 0 THEN "wake" ELSE "deliver"]
                /\ UNCHANGED <<recheck, deferred>>
    /\ unseen' = IF flush.round = 1 THEN {} ELSE unseen
    /\ UNCHANGED <<turnVars, away, asked, interrupted, told, eventVars>>

\* One follow-up more than the run's bound.
Receives_OneMore(r) == /\ runs[r].phase = "answering" /\ runs[r].home
                     /\ Leaf = <<FALSE, r>>
                     /\ Cardinality(runs[r].notes) <= CallbacksPerRun

\* What a run must be to take a follow-up: receivingRun, the branch, and the bound on what
\* it takes from sub-agents.
Receives(r) == /\ runs[r].phase = "answering" /\ runs[r].home
               /\ Leaf = <<FALSE, r>>
               /\ Cardinality(runs[r].notes) < CallbacksPerRun

\* The claim is by turn, whatever was rendered of it.
Claimable_ByTurn(i) == OwesAnything(i[1]) /\ claim[i[1]] = 0

\* claimTurns, the compare-and-set of every delivery: only for what the turn owes now.
Claimable(i) == OwesAnything(i[1]) /\ Item(i[1]) = i /\ claim[i[1]] = 0

\* It renders what the turn owes now; a claim lost was delivered elsewhere.
DeliverIntoRun(t) ==
    /\ flush.step = "deliver" /\ \E i \in flush.items : i[1] = t
    /\ Receives(flush.run)
    /\ IF Claimable(Item(t))
       THEN /\ claim' = [claim EXCEPT ![t] = flush.run]
            /\ runs' = [runs EXCEPT ![flush.run].notes = @ \cup {[item |-> Item(t), read |-> FALSE]}]
       ELSE UNCHANGED <<claim, runs>>
    /\ LET left == {i \in flush.items : i[1] # t}
           d == [flush.disposition EXCEPT ![t] = "delivered"]
       IN  IF left = {} THEN Report(d, {})
           ELSE /\ flush' = [flush EXCEPT !.items = left, !.disposition = d]
                /\ UNCHANGED <<recheck, deferred>>
    /\ UNCHANGED <<turnVars, away, asked, interrupted, told, unseen, eventVars>>

\* The run takes no more: what is left is tried as a wake-up. It may also refuse for what
\* no row here shows (a scheduled task's run, one without a follow-up mode, a revision at
\* RUN_FOLLOWUP_REVISION_MAX).
FindClosed ==
    /\ flush.step = "deliver"
    /\ flush' = [flush EXCEPT !.step = "wake",
                    !.disposition = [t \in Turns |-> IF \E i \in flush.items : i[1] = t THEN "after_run" ELSE @[t]]]
    /\ UNCHANGED <<turnVars, claim, runs, away, asked, recheck, deferred, interrupted, told, unseen, eventVars>>

\* renderWakeUp takes what fits; the admitter reads the leaf it sends from.
RenderWakeUp ==
    /\ flush.step = "wake"
    /\ \E fits \in SUBSET flush.items :
         /\ fits # {}
         /\ flush' = [flush EXCEPT !.step = "admit", !.leaf = Leaf, !.fits = fits]
    /\ UNCHANGED <<turnVars, claim, runs, away, asked, recheck, deferred, interrupted, told, unseen, eventVars>>

Disposed(S, disposition) ==
    [t \in Turns |-> IF \E i \in S : i[1] = t THEN disposition ELSE flush.disposition[t]]

\* claimSubagentCallbacksForRun: every claim is taken, or the run is not created.
TakesEveryClaim == ~away /\ \A i \in flush.fits : Claimable(i)

Admitted ==
    /\ flush.step = "admit"
    /\ Admits /\ Leaf = flush.leaf /\ TakesEveryClaim
    /\ runs' = Append(runs, NewRun(TRUE, "preparing"))
    /\ claim' = [t \in Turns |-> IF \E i \in flush.fits : i[1] = t THEN Len(runs) + 1 ELSE claim[t]]
    /\ told' = [i \in Items |-> told[i] + (IF i \in flush.fits THEN 1 ELSE 0)]
    /\ RequestFlush
    /\ LET d == Disposed(flush.fits, "wake_up") IN
       IF flush.fits = flush.items THEN Report(d, {}) ELSE NextRound(d)
    /\ UNCHANGED <<turnVars, away, interrupted, unseen, eventVars>>

\* Behind a closed answer, a busy wake-up waits for its terminal flush.
Busy ==
    /\ flush.step = "admit" /\ ~Admits
    /\ IF flush.run # 0 THEN Report(flush.disposition, {}) ELSE NextRound(flush.disposition)
    /\ UNCHANGED <<turnVars, claim, runs, away, asked, interrupted, told, unseen, eventVars>>

Stale ==
    /\ flush.step = "admit"
    /\ Leaf # flush.leaf \/ (Admits /\ ~TakesEveryClaim)
    /\ NextRound(flush.disposition)
    /\ UNCHANGED <<turnVars, claim, runs, away, asked, interrupted, told, unseen, eventVars>>

\* Usage limits, or a failure that may clear (an archived chat, a missing model, a
\* predecessor that failed before its hand-off was over: any other refusal of the send).
Refused ==
    /\ flush.step = "admit"
    /\ \E clears \in BOOLEAN :
         Report(Disposed(flush.items, "pending"), IF clears THEN {i[1] : i \in flush.items} ELSE {})
    /\ Event(FALSE)
    /\ UNCHANGED <<turnVars, claim, runs, away, asked, interrupted, told, unseen>>

\* A transaction of the attempt fails: the flush rejects.
Throw ==
    /\ ~Idle
    /\ flush' = NoFlush
    /\ recheck' = AfterFlush(TRUE)
    /\ deferred' = IF flush.swept THEN {} ELSE deferred
    /\ Event(TRUE)
    /\ UNCHANGED <<turnVars, claim, runs, away, asked, interrupted, told, unseen>>

RecheckFires ==
    /\ recheck.timer
    /\ recheck' = [index |-> recheck.index + 1, timer |-> FALSE]
    /\ RequestFlush
    /\ UNCHANGED <<turnVars, claim, runs, away, flush, deferred, interrupted, told, unseen, eventVars>>

------------------------------------------------------------------------------
(* A crash, and recovery's passes. *)

Crash ==
    /\ runs' = [r \in DOMAIN runs |-> [runs[r] EXCEPT !.alive = FALSE]]
    /\ live' = {}
    /\ asked' = "none" /\ flush' = NoFlush
    /\ recheck' = [index |-> 0, timer |-> FALSE]
    /\ deferred' = {} /\ interrupted' = FALSE
    /\ unseen' = {}
    /\ Event(TRUE)
    /\ UNCHANGED <<turn, asks, claim, away, told>>

Orphans == {t \in Turns \ live : turn[t] # "ended"}

SettleOrphan(t) ==
    /\ t \in Orphans
    /\ turn' = [turn EXCEPT ![t] = "ended"]
    /\ NoLongerAsked(t)
    /\ interrupted' = TRUE
    /\ UNCHANGED <<asks, live, runs, away, asked, flush, recheck, deferred, told, unseen, eventVars>>

\* Only what no run has claimed.
OwedFromBefore_Unclaimed == {t \in Turns : OwesAnything(t) /\ claim[t] = 0}

\* findOwedCallbackChats: none claimed, or one left unread in an ended answer.
OwedFromBefore == Owed

\* The end of a pass: what it interrupted is flushed at once, and so is what is
\* owed from before while no main-agent run is active, unless a flush deferred it.
Sweep ==
    /\ \/ interrupted
       \/ Active = {} /\ ~(OwedFromBefore \subseteq deferred)
    /\ asked # "swept" /\ asked' = "swept"
    /\ interrupted' = FALSE
    /\ UNCHANGED <<turnVars, claim, runs, away, flush, recheck, deferred, told, unseen, eventVars>>

Runs == DOMAIN runs

FlushStep ==
    \/ Fire \/ ReadOwed \/ FindClosed \/ RenderWakeUp
    \/ \E t \in Turns : DeliverIntoRun(t)
    \/ Admitted \/ Busy \/ Stale \/ Refused
RunStep == \E r \in Runs :
    \/ Start(r) \/ ReadNotes(r) \/ Close(r) \/ Complete(r)
    \/ Fail(r) /\ ~runs[r].alive

Next ==
    \/ \E t \in Turns : Ask(t) \/ Answered(t) \/ Settle(t) \/ SettleUnconfirmed(t) \/ SettleOrphan(t)
    \/ \E r \in Runs : Publish(r) \/ Fail(r) \/ Stop(r)
    \/ RunStep \/ FlushStep
    \/ Send \/ SwitchBranch \/ Throw \/ RecheckFires \/ Crash \/ Sweep

(* Runs and flushes go on, timers fire, and recovery's passes come back. Nothing
   makes the user act, a sub-agent end or a limit refuse. *)
Spec == Init /\ [][Next]_vars
        /\ WF_vars(RunStep) /\ WF_vars(FlushStep) /\ WF_vars(RecheckFires) /\ WF_vars(Sweep)

------------------------------------------------------------------------------

Steps == {"read", "deliver", "wake", "admit"}
Dispositions == {"none", "inactive_branch", "delivered", "after_run", "wake_up", "pending"}
Notes == [item : Items, read : BOOLEAN]
RunRows == [phase : Phases, home : BOOLEAN, alive : BOOLEAN, notes : SUBSET Notes]
Flushes == [step : Steps, round : 1..FlushAttempts, swept : BOOLEAN, run : 0..Len(runs),
            items : SUBSET Items, fits : SUBSET Items, leaf : BOOLEAN \X Nat,
            disposition : [Turns -> Dispositions]]

TurnTypes ==
    /\ turn \in [Turns -> {"running", "asking", "ended"}]
    /\ asks \in [Turns -> 0..MaxAsks]
    /\ live \in SUBSET {t \in Turns : turn[t] # "ended"}
RunTypes ==
    /\ runs \in Seq(RunRows)
    /\ claim \in [Turns -> 0..Len(runs)]
    /\ told \in [Items -> Nat]
FlushTypes ==
    /\ asked \in {"none", "plain", "swept"}
    /\ flush = NoFlush \/ (flush \in Flushes /\ flush.fits \subseteq flush.items)
    /\ recheck \in [index : 0..Rechecks, timer : BOOLEAN]
    /\ deferred \subseteq Turns /\ away \in BOOLEAN /\ interrupted \in BOOLEAN
    /\ unseen \subseteq Turns

(* Every row and every entry of the flushes' memory has its shape; a run takes no
   more than its bound from sub-agents, and two runs of a chat are active at most,
   the first of them handing off its Workspace. *)
TypeOK ==
    /\ TurnTypes /\ RunTypes /\ FlushTypes
    /\ \A r \in Runs : Cardinality(runs[r].notes) <= CallbacksPerRun
    /\ Cardinality(Active) <= 2

(* Each callback and each question reaches a main agent at most once: an answer
   that ended without reading it gives it back, one that read it never does, and
   no two deliveries of what a turn owes both take it (store.ts claimTurns,
   owedCallbacks). *)
ToldOnce == \A i \in Items : told[i] <= 1

(* What a turn owes is never lost between its deliveries: until a main agent has
   read it, it is unclaimed or an unread follow-up of the very run that claimed
   it, whatever was asked, answered, ended, stopped or crashed in between
   (store.ts settle, claimSubagentCallbacksForRun, owedCallbacks). *)
NothingIsLost ==
    \A t \in Turns : OwesAnything(t) /\ told[Item(t)] = 0 =>
        \/ claim[t] = 0
        \/ \E n \in Unread(claim[t]) : n.item = Item(t)

(* A turn that ends or asks while a flush runs is seen by a flush that reads
   after it: the request never joins a flush that has already fired, unless a
   transaction failed or the process crashed (callbacks.ts flush). *)
AFlushWillSee ==
    unseen # {} /\ ~faulted =>
        asked # "none" \/ (flush.step = "read" /\ flush.round = 1)

(* The callback of a turn that ended reaches a main agent in the end, across
   stopped runs, failed flushes and restarts, unless recovery set it aside for
   usage limits or another branch (recovery.ts). *)
EveryCallbackIsTold ==
    \A t \in Turns : turn[t] = "ended" ~> told[<<t, 0>>] > 0 \/ t \in deferred
==============================================================================
