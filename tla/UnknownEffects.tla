---------------------------- MODULE UnknownEffects ----------------------------
(***************************************************************************)
(* Calls whose effect stayed unknown, on one branch of a chat.  Such a     *)
(* call may have happened, so an equivalent one is sent again only when    *)
(* the user decides: in an approval card (the carded effects, the MCP      *)
(* tools'), or by writing to the chat.  Every run rebuilds the fences of   *)
(* its agents from what their transcripts keep, records into them as calls *)
(* settle, and consumes approvals in the transaction that records a call.  *)
(* A run may end at any step: it is stopped, its process dies, or the      *)
(* records behind its answer are not written.                              *)
(***************************************************************************)
EXTENDS Naturals, FiniteSets, Functions

CONSTANTS
  Main, Threads,  \* the main agent, and the threads of its sub-agents
  Effects,        \* a tool and its arguments, of tools with external effects
  MaxRuns,        \* bound: runs of the chat
  MaxCalls,       \* bound: calls of all its agents
  MaxClock        \* bound: instants that stamps can tell apart

Agents == {Main} \cup Threads
Cards  == (1 .. MaxRuns) \X Effects    \* one run has one card of an effect
NoCard == <<>>
Clock  == 1 .. MaxClock

ASSUME AgentsAssumption == Main \notin Threads /\ IsFiniteSet(Agents)
ASSUME EffectsAssumption == IsFiniteSet(Effects)
ASSUME BoundsAssumption == MaxRuns \in Nat /\ MaxCalls \in Nat /\ MaxClock \in Nat \ {0}

VARIABLES
  carded,         \* effects whose tool has an approval card
  clock,
  \* The run: its number, whether it still runs, the card whose decision admission
  \* named, and the consent of the user as admission froze it.
  run,
  \* The number of the run that began the branch's last turn.
  turn,
  \* The run's calls without a result on record, numbered in the order of the responses.
  calls,
  \* What the transcripts say of each agent's effects, when the calls they leave
  \* without a result were last attempted, and the fences of the run.
  ledger, open, fence,
  \* Approval cards, and whether the user always allows the tools' server.
  cards, consent,
  \* The user's follow-up into the run: whether it was sent, who read it, and whether
  \* the main agent's record of it is still to be written.
  posted, readers, unwritten,
  \* Effects in doubt: whether the user's words were read since, and written since; and
  \* those that will be once the run is gone, since their result was not written.
  doubt, lost,
  made            \* calls made

vars == <<carded, clock, run, turn, calls, ledger, open, fence, cards, consent, posted, readers,
          unwritten, doubt, lost, made>>
records == <<ledger, open, fence>>
approvals == <<cards, consent>>
words == <<posted, readers, unwritten>>
doubts == <<doubt, lost>>

Max2(a, b) == IF a < b THEN b ELSE a

-----------------------------------------------------------------------------
(* One agent's fence: for each effect, when it was last left unknown (0 when it is  *)
(* not), and whether the user spoke since.                                           *)
Clear == [at |-> 0, spoke |-> FALSE]
Empty == [e \in Effects |-> Clear]
None  == [e \in Effects |-> 0]

Record_NotStrict(entry, outcome, at) ==
  CASE outcome = "unknown"  -> [at |-> Max2(entry.at, at), spoke |-> FALSE]
    [] outcome = "complete" -> IF entry.at <= at THEN Clear ELSE entry
    [] OTHER                -> entry
\* A completion settles the effect only when it is strictly newer.
Record(entry, outcome, at) ==
  CASE outcome = "unknown"  -> [at |-> Max2(entry.at, at), spoke |-> FALSE]
    [] outcome = "complete" -> IF entry.at < at THEN Clear ELSE entry
    [] OTHER                -> entry

Spoken(entries) == [e \in Effects |-> [entries[e] EXCEPT !.spoke = entries[e].at > 0]]

\* Calls left without a result are recorded as unknown.
CutOff(entries, at) == [e \in Effects |->
  IF at[e] = 0 THEN entries[e] ELSE [at |-> Max2(entries[e].at, at[e]), spoke |-> FALSE]]

Find_AnyAgentsWords(e) ==
  LET left == {fence[a][e] : a \in {b \in Agents : fence[b][e].at > 0}} IN
  [at    |-> IF left = {} THEN 0 ELSE (CHOOSE x \in left : \A y \in left : y.at <= x.at).at,
   spoke |-> \E x \in left : x.spoke]
\* What an agent's view finds: the latest attempt of any agent, released by the user's
\* words only when they came after every agent's.
Find(e) ==
  LET left == {fence[a][e] : a \in {b \in Agents : fence[b][e].at > 0}} IN
  [at    |-> IF left = {} THEN 0 ELSE (CHOOSE x \in left : \A y \in left : y.at <= x.at).at,
   spoke |-> \A x \in left : x.spoke]

-----------------------------------------------------------------------------
(* The calls, the approvals, and the doubts that remain.                            *)
NewCall_Untimed(a, e) == [agent |-> a, effect |-> e, phase |-> "listed", at |-> 0, need |-> 0,
                          card |-> NoCard, saw |-> {}]
NewCall(a, e) == [agent |-> a, effect |-> e, phase |-> "listed", at |-> clock, need |-> 0,
                  card |-> NoCard, saw |-> {}]

NoCalls == [i \in {} |-> NoCard]
CallsOf(a) == {i \in DOMAIN calls : calls[i].agent = a}
Unsent  == {"listed", "ready", "cleared"}
Settled == {"complete", "error", "unknown"}

\* The call waits for the user: its effect is unknown, whatever was consented to, or the
\* user does not always allow the tool.
Asks(c) == c.effect \in carded /\ (c.need > 0 \/ ~run.always)

Usable_NotNewer(k, c) ==
  /\ k[2] = c.effect /\ k[1] # run.n
  /\ ~cards[k].used /\ ~cards[k].expired
  /\ cards[k].at >= c.need
Usable(k, c) ==
  /\ k[2] = c.effect /\ k[1] # run.n
  /\ ~cards[k].used /\ ~cards[k].expired
  /\ cards[k].at > c.need

\* The decision a continuation names comes first, then the oldest Allow once.
Named(c) == {k \in {run.named} \ {NoCard} : cards[k].state \in {"once", "server"} /\ Usable(k, c)}
Oldest(c) ==
  LET once == {k \in Cards : cards[k].state = "once" /\ Usable(k, c)} IN
  {k \in once : \A o \in once :
     cards[k].at < cards[o].at \/ (cards[k].at = cards[o].at /\ k[1] <= o[1])}
Approval(c) == IF Named(c) # {} THEN Named(c) ELSE Oldest(c)

Doubts == [agent : Agents, effect : Effects, at : Clock, read : BOOLEAN, written : BOOLEAN]
Doubt(c, at) == [agent |-> c.agent, effect |-> c.effect, at |-> at, read |-> FALSE, written |-> FALSE]
\* An equivalent call of the same agent that completes settles them.
Unsettled(ds, c) == {d \in ds : d.agent # c.agent \/ d.effect # c.effect}
Read(ds)    == {[d EXCEPT !.read = TRUE] : d \in ds}
Written(ds) == {[d EXCEPT !.written = TRUE] : d \in ds}

Calls   == [agent : Agents, effect : Effects, phase : Unsent \cup {"running"} \cup Settled, at : Clock,
            need : 0 .. MaxClock, card : Cards \cup {NoCard}, saw : SUBSET Doubts]
Entries == [at : 0 .. MaxClock, spoke : BOOLEAN]
CardRows == [state : {"none", "pending", "once", "server", "deny"}, at : 0 .. MaxClock,
             asker : Agents, used : BOOLEAN, expired : BOOLEAN, sends : 0 .. MaxCalls]

RunTypes ==
  /\ carded \subseteq Effects
  /\ clock \in Clock /\ turn \in 0 .. MaxRuns /\ made \in 0 .. MaxCalls
  /\ run \in [n : 0 .. MaxRuns, live : BOOLEAN, named : Cards \cup {NoCard}, always : BOOLEAN]
  /\ consent \in BOOLEAN /\ posted \in BOOLEAN /\ readers \subseteq Agents /\ unwritten \in BOOLEAN
CallTypes ==
  /\ DOMAIN calls \subseteq 1 .. made
  /\ calls = [i \in DOMAIN calls |-> calls[i]] /\ \A i \in DOMAIN calls : calls[i] \in Calls
RecordTypes ==
  /\ ledger \in [Agents -> [Effects -> Entries]]
  /\ fence \in [Agents -> [Effects -> Entries]]
  /\ open \in [Agents -> [Effects -> 0 .. MaxClock]]
CardTypes == cards \in [Cards -> CardRows]
DoubtTypes == doubt \subseteq Doubts /\ lost \subseteq Doubts

TypeOK == RunTypes /\ CallTypes /\ RecordTypes /\ CardTypes /\ DoubtTypes

Init ==
  /\ carded \in SUBSET Effects
  /\ clock = 1 /\ turn = 0 /\ made = 0 /\ calls = NoCalls /\ doubt = {} /\ lost = {}
  /\ run = [n |-> 0, live |-> FALSE, named |-> NoCard, always |-> FALSE]
  /\ ledger = [a \in Agents |-> Empty] /\ fence = [a \in Agents |-> Empty]
  /\ open = [a \in Agents |-> None]
  /\ cards = [k \in Cards |-> [state |-> "none", at |-> 0, asker |-> Main, used |-> FALSE,
                               expired |-> FALSE, sends |-> 0]]
  /\ consent = FALSE /\ posted = FALSE /\ readers = {} /\ unwritten = FALSE

Tick ==
  /\ clock < MaxClock
  /\ clock' = clock + 1
  /\ UNCHANGED <<carded, run, turn, calls, records, approvals, words, doubts, made>>

-----------------------------------------------------------------------------
(* Runs.                                                                             *)
Admit(named) ==
  /\ ~run.live /\ run.n < MaxRuns
  /\ run' = [n |-> run.n + 1, live |-> TRUE, named |-> named, always |-> consent]
  /\ UNCHANGED <<carded, clock, approvals, words>>

Loaded_MainOnly == [a \in Agents |-> IF a = Main THEN CutOff(ledger[Main], open[Main]) ELSE Empty]
\* The fences of a run: the main agent's transcript, and every thread's.
Loaded == [a \in Agents |-> IF a = Main THEN CutOff(ledger[Main], open[Main]) ELSE ledger[a]]

\* The user sends a message, which is them speaking since everything on the branch.
StartUserRun ==
  /\ Admit(NoCard)
  /\ turn' = run.n + 1
  /\ fence' = [a \in Agents |-> Spoken(Loaded[a])]
  /\ ledger' = [ledger EXCEPT ![Main] = Spoken(Loaded[Main])]
  /\ open' = [open EXCEPT ![Main] = None]
  /\ doubt' = Read(Written(doubt))
  /\ UNCHANGED lost
  /\ UNCHANGED <<calls, made>>

\* The server writes the turn: a sub-agent's report wakes the chat up.
StartServerRun ==
  /\ Admit(NoCard)
  /\ turn' = run.n + 1
  /\ fence' = Loaded
  /\ UNCHANGED <<calls, ledger, open, doubts, made>>

\* The run that continues a decision sends the very call it allows, marked in flight
\* beforehand, unless that call is no longer one of the last turn's own.
Continue(k) ==
  /\ cards[k].state \in {"once", "server"} /\ ~cards[k].used /\ ~cards[k].expired
  /\ Admit(k)
  /\ fence' = Loaded
  /\ IF cards[k].asker = Main /\ k[1] >= turn
       THEN /\ made < MaxCalls /\ made' = made + 1
            /\ calls' = [i \in {made + 1} |-> NewCall(Main, k[2])]
            /\ UNCHANGED turn
       ELSE /\ turn' = run.n + 1
            /\ UNCHANGED <<calls, made>>
  /\ UNCHANGED <<ledger, open, doubts>>

Attempts_AsListed(a, e) == {calls[i].at : i \in {j \in CallsOf(a) : calls[j].effect = e}}
Attempts(a, e) == {IF calls[i].phase = "running" THEN clock ELSE calls[i].at :
                     i \in {j \in CallsOf(a) : calls[j].effect = e}}
\* When the calls that are left without a result were last attempted.
Left(a) == [e \in Effects |->
  LET at == Attempts(a, e) \cup {open[a][e]} IN CHOOSE t \in at : \A u \in at : u <= t]

EndRun ==
  /\ run.live
  /\ run' = [run EXCEPT !.live = FALSE, !.named = NoCard]
  /\ ledger' = [a \in Agents |-> IF a = Main THEN ledger[Main] ELSE CutOff(ledger[a], Left(a))]
  /\ open' = [a \in Agents |-> IF a = Main THEN Left(Main) ELSE None]
  /\ fence' = [a \in Agents |-> Empty]
  /\ doubt' = doubt \cup lost \cup
       {Doubt(calls[i], clock) : i \in {j \in DOMAIN calls : calls[j].phase = "running"}} \cup
       {Doubt(calls[i], calls[i].at) : i \in {j \in DOMAIN calls : calls[j].phase = "complete"}}
  /\ lost' = {}
  /\ calls' = NoCalls /\ posted' = FALSE /\ readers' = {} /\ unwritten' = FALSE
  /\ UNCHANGED <<carded, clock, turn, approvals, made>>

-----------------------------------------------------------------------------
(* Calls.  A response's calls are on record before any is sent.                      *)
List(a) ==
  /\ run.live /\ CallsOf(a) = {} /\ (a = Main => ~unwritten)
  /\ \E n \in 1 .. 2 : \E es \in [made + 1 .. made + n -> Effects] :
       /\ made + n <= MaxCalls
       /\ made' = made + n
       /\ calls' = [i \in DOMAIN calls \cup DOMAIN es |->
                      IF i \in DOMAIN es THEN NewCall(a, es[i]) ELSE calls[i]]
  /\ UNCHANGED <<carded, clock, run, turn, records, approvals, words, doubts>>

Close(i, phase) == calls' = [calls EXCEPT ![i] = [NewCall(@.agent, @.effect) EXCEPT !.phase = phase]]
CallUnchanged == UNCHANGED <<carded, clock, run, turn, words, made>>

\* What can be decided without sending anything.
Refused(e) == e \notin carded /\ Find(e).at > 0 /\ ~Find(e).spoke

Check(i) ==
  /\ calls[i].phase = "listed"
  /\ LET e == calls[i].effect IN
     IF Refused(e)
       THEN Close(i, "error")
       ELSE calls' = [calls EXCEPT ![i].phase = "ready",
                                   ![i].need = IF e \in carded THEN Find(e).at ELSE 0,
                                   ![i].saw = {d \in doubt : d.effect = e}]
  /\ CallUnchanged /\ UNCHANGED <<records, approvals, doubts>>

\* A sub-agent never asks the user itself: what would wait goes back to the main agent.
Preview(i) ==
  /\ calls[i].phase = "ready" /\ calls[i].agent # Main /\ Asks(calls[i])
  /\ IF Approval(calls[i]) = {} THEN Close(i, "error") ELSE calls' = [calls EXCEPT ![i].phase = "cleared"]
  /\ CallUnchanged /\ UNCHANGED <<records, approvals, doubts>>

Begins(i) ==
  \/ calls[i].phase = "cleared"
  \/ calls[i].phase = "ready" /\ (calls[i].agent = Main \/ ~Asks(calls[i]))

Dispatch(i) ==
  /\ Begins(i) /\ ~Asks(calls[i])
  /\ calls' = [calls EXCEPT ![i].phase = "running", ![i].at = clock]
  /\ CallUnchanged /\ UNCHANGED <<records, approvals, doubts>>

\* The approval is read again, and consumed, in the transaction that records the call;
\* an Always allow is a standing consent, never consumed.
Consumed_Kept(k) == IF cards[k].state = "server" THEN cards ELSE [cards EXCEPT ![k].sends = @ + 1]
Consumed(k) == IF cards[k].state = "server" THEN cards
               ELSE [cards EXCEPT ![k].used = TRUE, ![k].sends = @ + 1]

DispatchApproved(i) ==
  /\ Begins(i) /\ Asks(calls[i])
  /\ \E k \in Approval(calls[i]) :
       /\ calls' = [calls EXCEPT ![i].phase = "running", ![i].at = clock, ![i].card = k]
       /\ cards' = Consumed(k)
  /\ CallUnchanged /\ UNCHANGED <<records, consent, doubts>>

\* Never sent; the run keeps the one card it already has for the call.
Gate(i) ==
  /\ Begins(i) /\ Asks(calls[i]) /\ Approval(calls[i]) = {}
  /\ Close(i, "error")
  /\ cards' = [cards EXCEPT ![<<run.n, calls[i].effect>>] =
       IF @.state = "none" THEN [@ EXCEPT !.state = "pending", !.asker = calls[i].agent] ELSE @]
  /\ CallUnchanged /\ UNCHANGED <<records, consent, doubts>>

\* The call returns, fails for certain, or fails after it may have been sent.
Settle(i, outcome) ==
  /\ calls[i].phase = "running"
  /\ Close(i, outcome)
  /\ LET c == calls[i] IN
     /\ fence' = [fence EXCEPT ![c.agent][c.effect] = Record(@, outcome, clock)]
     /\ doubt' = CASE outcome = "unknown"  -> doubt \cup {Doubt(c, clock)}
                   [] outcome = "complete" -> Unsettled(doubt, c)
                   [] OTHER                -> doubt
     /\ lost' = IF outcome = "complete" THEN Unsettled(lost, c) ELSE lost
  /\ CallUnchanged /\ UNCHANGED <<ledger, open, approvals>>

\* A batch's results are written together, behind the answer, in the response's order.
Answered(a) == CallsOf(a) # {} /\ \A i \in CallsOf(a) : calls[i].phase \in Settled
Forget(a) == calls' = Restrict(calls, DOMAIN calls \ CallsOf(a))

\* Recorded at one instant, whatever came before an unknown result no longer shows: its
\* entry is that result, and then whatever completed behind every one of them.
Recorded(a, e) ==
  LET of(outcome) == {i \in CallsOf(a) : calls[i].effect = e /\ calls[i].phase = outcome}
      entry == IF of("unknown") = {} THEN ledger[a][e] ELSE Record(ledger[a][e], "unknown", clock)
  IN  IF \E i \in of("complete") : \A j \in of("unknown") : j < i
      THEN Record(entry, "complete", clock) ELSE entry

Save(a) ==
  /\ Answered(a)
  /\ ledger' = [ledger EXCEPT ![a] = [e \in Effects |-> Recorded(a, e)]]
  /\ Forget(a)
  /\ CallUnchanged /\ UNCHANGED <<open, fence, approvals, doubts>>

\* Their last attempt to be written failed: the run goes on, and its record has a gap.
Lose(a) ==
  /\ Answered(a)
  /\ open' = [open EXCEPT ![a] = Left(a)]
  /\ lost' = lost \cup {[Doubt(calls[i], calls[i].at) EXCEPT !.read = a = Main /\ unwritten] :
                          i \in {j \in CallsOf(a) : calls[j].phase = "complete"}}
  /\ Forget(a)
  /\ CallUnchanged /\ UNCHANGED <<ledger, fence, approvals, doubt>>

-----------------------------------------------------------------------------
(* The user: decisions on cards, once their run has ended, and follow-ups.           *)
Decide(k, decision) ==
  /\ cards[k].state = "pending" /\ (run.live => k[1] # run.n)
  /\ cards' = [cards EXCEPT ![k].state = decision, ![k].at = clock]
  /\ consent' = (consent \/ decision = "server")
  /\ UNCHANGED <<carded, clock, run, turn, calls, records, words, doubts, made>>

Expire(k) ==
  /\ cards[k].state \in {"once", "server"} /\ ~cards[k].used /\ ~cards[k].expired
  /\ cards' = [cards EXCEPT ![k].expired = TRUE]
  /\ UNCHANGED <<carded, clock, run, turn, calls, records, consent, words, doubts, made>>

PostFollowup ==
  /\ run.live /\ ~posted
  /\ posted' = TRUE /\ doubt' = Written(doubt) /\ lost' = Written(lost)
  /\ UNCHANGED <<carded, clock, run, turn, calls, records, approvals, readers, unwritten, made>>

\* An agent reads the follow-up between its rounds: the user spoke to every agent.
Deliver(a) ==
  /\ run.live /\ posted /\ a \notin readers
  /\ \A i \in CallsOf(a) : calls[i].phase \in Settled
  /\ readers' = readers \cup {a} /\ unwritten' = (unwritten \/ a = Main)
  /\ fence' = [b \in Agents |-> Spoken(fence[b])]
  /\ doubt' = Read(doubt) /\ lost' = Read(lost)
  /\ UNCHANGED <<carded, clock, run, turn, calls, ledger, open, approvals, posted, made>>

\* The main agent's record of it, behind the results of the round before.
WriteFollowup ==
  /\ unwritten /\ CallsOf(Main) = {}
  /\ unwritten' = FALSE
  /\ \/ /\ ledger' = [ledger EXCEPT ![Main] = Spoken(CutOff(@, open[Main]))]
        /\ open' = [open EXCEPT ![Main] = None]
     \/ UNCHANGED <<ledger, open>>    \* it could not be written
  /\ UNCHANGED <<carded, clock, run, turn, calls, fence, approvals, posted, readers, doubts, made>>

CallNext(i) ==
  \/ Check(i) \/ Preview(i) \/ Dispatch(i) \/ DispatchApproved(i) \/ Gate(i)
  \/ \E outcome \in {"complete", "error", "unknown"} : Settle(i, outcome)

Next ==
  \/ Tick \/ StartUserRun \/ StartServerRun \/ EndRun \/ PostFollowup \/ WriteFollowup
  \/ \E a \in Agents : List(a) \/ Save(a) \/ Lose(a) \/ Deliver(a)
  \/ \E i \in DOMAIN calls : CallNext(i)
  \/ \E k \in Cards :
       \/ Continue(k) \/ Expire(k)
       \/ \E decision \in {"once", "server", "deny"} : Decide(k, decision)

Spec == Init /\ [][Next]_vars

-----------------------------------------------------------------------------
(* Properties.                                                                       *)

\* A call equivalent to one in doubt when it was checked is sent only on a decision of
\* the user that is newer than every such doubt, taken in another run for this very call
\* (a tool with a card, even one the user always allows), or after the user's words
\* reached the chat since every such doubt (any other tool).
NothingInDoubtIsRepeatedUnasked == \A c \in Range(calls) : c.phase = "running" /\ c.saw # {} =>
  IF c.effect \in carded
    THEN /\ c.card # NoCard /\ c.card[2] = c.effect /\ c.card[1] # run.n
         /\ \A d \in c.saw : d.at < cards[c.card].at
    ELSE \A d \in c.saw : d.read

\* One Allow once sends at most one call, whoever continues it, however often, and
\* whichever of the run's agents asks for it at the same time.
OneDecisionSendsOneCall == \A k \in Cards : cards[k].state = "once" => cards[k].sends <= 1

\* Whatever a run, a stop or a crash left in doubt, the fences of the run know of it, and
\* so does what the transcripts let the next run load: no newer than it is, and not as
\* released by words the user said before it.
DoubtsAreKnown == \A d \in doubt :
  LET entry == IF run.live THEN fence[d.agent][d.effect] ELSE Loaded[d.agent][d.effect] IN
  entry.at >= d.at /\ (entry.spoke => d.read)

\* The comment of the user's words: they were written after the effect became unknown.
WordsAreNewerThanTheDoubt == \A c \in Range(calls) :
  c.phase = "running" /\ c.effect \notin carded => \A d \in c.saw : d.written
=============================================================================
