------------------------ MODULE UnknownEffectsProofs ------------------------
(***************************************************************************)
(* A call whose effect stayed unknown is not repeated unasked, for any     *)
(* number of agents, effects, runs, calls and instants: the fences and the *)
(* transcripts know of every doubt, through every run that is cut off.     *)
(***************************************************************************)
EXTENDS UnknownEffects, Greatest

\* An entry of a fence, or of a transcript, that holds the effect back for the doubt d.
Knows(entry, d) == entry.at >= d.at /\ (entry.spoke => d.read)
\* What the next run would load of an effect if its agent's calls were forgotten.
OnRecord(a, e) == CutOff(ledger[a], open[a])[e]
\* A call of the doubt's agent and effect that settled as unknown, no earlier than it.
StandsFor(j, d) == /\ j \in DOMAIN calls /\ calls[j].agent = d.agent /\ calls[j].effect = d.effect
                   /\ calls[j].phase = "unknown" /\ calls[j].at >= d.at

\* Between two runs there is no call, and only the main agent's record has a gap.
IdleInvariant == ~run.live =>
  /\ DOMAIN calls = {} /\ lost = {} /\ ~unwritten
  /\ \A a \in Threads : open[a] = None

\* A decision that sent a call is used; one that waits has sent none.
CardInvariant == \A k \in Cards :
  /\ cards[k].sends <= 1
  /\ ~cards[k].used => cards[k].sends = 0

\* What a call saw in doubt when it was checked it still waits for, or was released from;
\* the card it is sent with is decided for good, and newer.
Waits(c) ==
  /\ c.at <= clock
  /\ c.phase \in {"ready", "cleared", "running"} =>
       \A d \in c.saw : IF c.effect \in carded THEN d.at <= c.need ELSE d.read
  /\ c.phase = "running" /\ c.saw # {} /\ c.effect \in carded =>
       /\ c.card \in Cards /\ c.card[2] = c.effect /\ c.card[1] # run.n
       /\ cards[c.card].state \in {"once", "server"}
       /\ \A d \in c.saw : d.at < cards[c.card].at

CallInvariant == \A i \in DOMAIN calls : Waits(calls[i])

\* The fences of a run know of every doubt.
FenceInvariant == run.live => \A d \in doubt : Knows(fence[d.agent][d.effect], d)

\* A completed call has settled what it was equivalent to: a doubt that is left came after.
SettledInvariant == \A i \in DOMAIN calls : calls[i].phase = "complete" =>
  /\ \A d \in doubt : d.agent = calls[i].agent /\ d.effect = calls[i].effect =>
       \E j \in DOMAIN calls : StandsFor(j, d)
  /\ \A d \in lost : ~(d.agent = calls[i].agent /\ d.effect = calls[i].effect)

\* The transcripts know of every doubt, but for those of calls still to be recorded.
RecordInvariant ==
  /\ \A d \in doubt : (\E j \in DOMAIN calls : StandsFor(j, d)) \/ Knows(OnRecord(d.agent, d.effect), d)
  /\ \A d \in lost : Knows(OnRecord(d.agent, d.effect), d)

\* While the main agent's record of the user's words is to be written, its calls are
\* settled, and the words were read after all its doubts.
WordsInvariant == unwritten =>
  /\ \A d \in doubt \cup lost : d.agent = Main => d.read
  /\ \A i \in DOMAIN calls : calls[i].agent = Main => calls[i].phase \in Settled

Inv == /\ TypeOK /\ IdleInvariant /\ CardInvariant /\ CallInvariant
       /\ FenceInvariant /\ SettledInvariant /\ RecordInvariant /\ WordsInvariant

-----------------------------------------------------------------------------
(* Lemmas about the model's operators.                                               *)

\* What an agent's view finds is no older than any agent's entry, and released only with
\* all of them.
LEMMA Finds ==
  ASSUME RecordTypes, NEW e \in Effects
  PROVE  /\ Find(e) \in Entries
         /\ \A a \in Agents : fence[a][e].at <= Find(e).at
         /\ Find(e).spoke => \A a \in Agents : fence[a][e].at > 0 => fence[a][e].spoke
<1>. DEFINE left == {fence[a][e] : a \in {b \in Agents : fence[b][e].at > 0}}
            last == CHOOSE x \in left : \A y \in left : y.at <= x.at
<1>0. MaxClock \in Nat BY BoundsAssumption
<1>1. \A a \in Agents : fence[a][e] \in Entries BY DEF RecordTypes
<1>2. left \subseteq Entries BY <1>1
<1>3. /\ Find(e).at = IF left = {} THEN 0 ELSE last.at
      /\ Find(e).spoke = (\A x \in left : x.spoke)
  BY DEF Find
<1>4. ASSUME left # {} PROVE last \in left /\ \A y \in left : y.at <= last.at
  <2>1. {x.at : x \in left} \subseteq 0 .. MaxClock BY <1>2 DEF Entries
  <2>2. {x.at : x \in left} # {} BY <1>4
  <2>3. \E m \in {x.at : x \in left} : \A n \in {x.at : x \in left} : n <= m
    BY <1>0, <2>1, <2>2, GreatestExists
  <2>. HIDE DEF left
  <2>4. \E x \in left : \A y \in left : y.at <= x.at BY <2>3
  <2>. QED BY <2>4
<1>5. Find(e).at \in 0 .. MaxClock
  <2>. HIDE DEF left, last
  <2>1. left # {} => last.at \in 0 .. MaxClock BY <1>2, <1>4 DEF Entries
  <2>. QED BY <1>0, <1>3, <2>1
<1>6. Find(e) \in Entries
  <2>1. Find(e) = [at |-> Find(e).at, spoke |-> Find(e).spoke] BY DEF Find
  <2>2. Find(e).spoke \in BOOLEAN BY <1>3
  <2>. QED BY <1>5, <2>1, <2>2 DEF Entries
<1>7. ASSUME NEW a \in Agents PROVE fence[a][e].at <= Find(e).at
  <2>1. fence[a][e].at \in Nat BY <1>0, <1>1 DEF Entries
  <2>2. CASE fence[a][e].at > 0
    <3>1. fence[a][e] \in left BY <2>2
    <3>. HIDE DEF left, last
    <3>. QED BY <1>3, <1>4, <3>1
  <2>3. CASE fence[a][e].at = 0 BY <1>5, <2>3
  <2>. QED BY <2>1, <2>2, <2>3
<1>8. Find(e).spoke => \A a \in Agents : fence[a][e].at > 0 => fence[a][e].spoke BY <1>3
<1>. QED BY <1>6, <1>7, <1>8

\* An agent's effects were last attempted no earlier than any of its calls of them, and
\* than the gap its record already had.
LEMMA LeftIsLatest ==
  ASSUME RunTypes, CallTypes, RecordTypes, NEW a \in Agents
  PROVE  /\ Left(a) \in [Effects -> 0 .. MaxClock]
         /\ \A e \in Effects : open[a][e] <= Left(a)[e]
         /\ \A i \in DOMAIN calls : calls[i].agent = a =>
              /\ calls[i].phase # "running" => calls[i].at <= Left(a)[calls[i].effect]
              /\ calls[i].phase = "running" => clock <= Left(a)[calls[i].effect]
<1>0. MaxClock \in Nat /\ clock \in 0 .. MaxClock BY BoundsAssumption DEF RunTypes, Clock
<1>1. ASSUME NEW e \in Effects
      PROVE  Left(a)[e] \in Attempts(a, e) \cup {open[a][e]} /\ Left(a)[e] \in 0 .. MaxClock
             /\ \A u \in Attempts(a, e) \cup {open[a][e]} : u <= Left(a)[e]
  <2>. DEFINE at == Attempts(a, e) \cup {open[a][e]}
  <2>1. at \subseteq 0 .. MaxClock
    <3>1. Attempts(a, e) \subseteq 0 .. MaxClock BY <1>0 DEF Attempts, CallsOf, CallTypes, Calls, Clock
    <3>2. open[a][e] \in 0 .. MaxClock BY DEF RecordTypes
    <3>. QED BY <3>1, <3>2
  <2>2. \E t \in at : \A u \in at : u <= t BY <1>0, <2>1, GreatestExists
  <2>3. Left(a)[e] = CHOOSE t \in at : \A u \in at : u <= t BY DEF Left
  <2>. HIDE DEF at
  <2>4. Left(a)[e] \in at /\ \A u \in at : u <= Left(a)[e] BY <2>2, <2>3
  <2>. QED BY <2>1, <2>4 DEF at
<1>2. Left(a) \in [Effects -> 0 .. MaxClock] BY <1>1 DEF Left
<1>3. ASSUME NEW i \in DOMAIN calls, calls[i].agent = a
      PROVE  (IF calls[i].phase = "running" THEN clock ELSE calls[i].at) <= Left(a)[calls[i].effect]
  <2>1. calls[i].effect \in Effects BY DEF CallTypes, Calls
  <2>2. (IF calls[i].phase = "running" THEN clock ELSE calls[i].at) \in Attempts(a, calls[i].effect)
    BY <1>3 DEF Attempts, CallsOf
  <2>. QED BY <1>1, <2>1, <2>2
<1>. QED BY <1>1, <1>2, <1>3

\* What was cut off is held back: no older than it was, or than its last attempt, and
\* released by no words.
LEMMA CutOffHolds ==
  ASSUME NEW entries \in [Effects -> Entries], NEW at \in [Effects -> 0 .. MaxClock]
  PROVE  /\ CutOff(entries, at) \in [Effects -> Entries]
         /\ \A e \in Effects : /\ entries[e].at <= CutOff(entries, at)[e].at /\ at[e] <= CutOff(entries, at)[e].at
                               /\ at[e] > 0 => ~CutOff(entries, at)[e].spoke
                               /\ at[e] = 0 => CutOff(entries, at)[e] = entries[e]
<1>0. MaxClock \in Nat BY BoundsAssumption
<1>1. ASSUME NEW e \in Effects
      PROVE  /\ CutOff(entries, at)[e] \in Entries
             /\ entries[e].at <= CutOff(entries, at)[e].at /\ at[e] <= CutOff(entries, at)[e].at
             /\ at[e] > 0 => ~CutOff(entries, at)[e].spoke
             /\ at[e] = 0 => CutOff(entries, at)[e] = entries[e]
  <2>1. entries[e] \in Entries /\ entries[e].at \in 0 .. MaxClock /\ at[e] \in 0 .. MaxClock BY DEF Entries
  <2>2. CASE at[e] = 0
    <3>1. CutOff(entries, at)[e] = entries[e] BY <2>2 DEF CutOff
    <3>. QED BY <1>0, <2>1, <2>2, <3>1
  <2>3. CASE at[e] # 0
    <3>1. CutOff(entries, at)[e] = [at |-> Max2(entries[e].at, at[e]), spoke |-> FALSE] BY <2>3 DEF CutOff
    <3>2. /\ Max2(entries[e].at, at[e]) \in 0 .. MaxClock
          /\ entries[e].at <= Max2(entries[e].at, at[e]) /\ at[e] <= Max2(entries[e].at, at[e])
      BY <1>0, <2>1 DEF Max2
    <3>. QED BY <2>1, <2>3, <3>1, <3>2 DEF Entries
  <2>. QED BY <2>2, <2>3
<1>2. CutOff(entries, at) = [e \in Effects |-> CutOff(entries, at)[e]] BY DEF CutOff
<1>. QED BY <1>1, <1>2

\* The user's words leave the stamps as they are.
LEMMA SpokenKeepsStamps ==
  ASSUME NEW entries \in [Effects -> Entries]
  PROVE  /\ Spoken(entries) \in [Effects -> Entries]
         /\ \A e \in Effects : Spoken(entries)[e].at = entries[e].at
<1>1. ASSUME NEW e \in Effects PROVE Spoken(entries)[e] \in Entries /\ Spoken(entries)[e].at = entries[e].at
  <2>. DEFINE released == entries[e].at > 0
  <2>1. Spoken(entries)[e] = [entries[e] EXCEPT !.spoke = released] BY DEF Spoken
  <2>2. released \in BOOLEAN OBVIOUS
  <2>. HIDE DEF released
  <2>. QED BY <2>1, <2>2 DEF Entries
<1>2. Spoken(entries) = [e \in Effects |-> Spoken(entries)[e]] BY DEF Spoken
<1>. QED BY <1>1, <1>2

\* An unknown result is held back from its instant on; a completion clears the entry or
\* leaves it.
LEMMA Records ==
  ASSUME NEW entry \in Entries, NEW at \in Clock
  PROVE  /\ Record(entry, "unknown", at) \in Entries /\ Record(entry, "complete", at) \in Entries
         /\ Record(entry, "unknown", at).at >= at /\ Record(entry, "unknown", at).at >= entry.at
         /\ ~Record(entry, "unknown", at).spoke
         /\ entry.at >= at => Record(entry, "complete", at) = entry
         /\ Record(entry, "error", at) = entry
<1>0. MaxClock \in Nat /\ at \in Nat /\ at <= MaxClock BY BoundsAssumption DEF Clock
<1>1. entry.at \in 0 .. MaxClock /\ entry.spoke \in BOOLEAN BY DEF Entries
<1>2. Record(entry, "unknown", at) = [at |-> Max2(entry.at, at), spoke |-> FALSE] BY DEF Record
<1>3. Max2(entry.at, at) \in 0 .. MaxClock /\ Max2(entry.at, at) >= at /\ Max2(entry.at, at) >= entry.at
  BY <1>0, <1>1 DEF Max2
<1>4. Record(entry, "complete", at) = IF entry.at < at THEN Clear ELSE entry BY DEF Record
<1>5. Clear \in Entries BY <1>0 DEF Clear, Entries
<1>6. Record(entry, "error", at) = entry BY DEF Record
<1>7. Record(entry, "unknown", at) \in Entries
  <2>1. \A n \in 0 .. MaxClock : [at |-> n, spoke |-> FALSE] \in Entries BY DEF Entries
  <2>. QED BY <1>2, <1>3, <2>1
<1>8. entry.at >= at => ~(entry.at < at) BY <1>0, <1>1
<1>. QED BY <1>2, <1>3, <1>4, <1>5, <1>6, <1>7, <1>8

\* A batch with an unknown result is held back from its instant on; one with neither an
\* unknown result nor a completion leaves the entry as it was.
LEMMA BatchRecords ==
  ASSUME RunTypes, CallTypes, RecordTypes, NEW a \in Agents, NEW e \in Effects
  PROVE  /\ Recorded(a, e) \in Entries
         /\ (\E i \in CallsOf(a) : calls[i].effect = e /\ calls[i].phase = "unknown") =>
              Recorded(a, e).at >= clock /\ ~Recorded(a, e).spoke
         /\ (\A i \in CallsOf(a) : calls[i].effect = e => calls[i].phase \notin {"unknown", "complete"}) =>
              Recorded(a, e) = ledger[a][e]
<1>. DEFINE of(outcome) == {i \in CallsOf(a) : calls[i].effect = e /\ calls[i].phase = outcome}
            entry == IF of("unknown") = {} THEN ledger[a][e] ELSE Record(ledger[a][e], "unknown", clock)
            last == \E i \in of("complete") : \A j \in of("unknown") : j < i
<1>1. Recorded(a, e) = IF last THEN Record(entry, "complete", clock) ELSE entry BY DEF Recorded
<1>2. ledger[a][e] \in Entries /\ clock \in Clock BY DEF RecordTypes, RunTypes
<1>3. entry \in Entries BY <1>2, Records
<1>4. Recorded(a, e) \in Entries
  <2>. HIDE DEF entry, last
  <2>. QED BY <1>1, <1>2, <1>3, Records
<1>5. ASSUME of("unknown") # {} PROVE Recorded(a, e).at >= clock /\ ~Recorded(a, e).spoke
  <2>1. entry.at >= clock /\ ~entry.spoke BY <1>2, <1>5, Records
  <2>. HIDE DEF entry, last
  <2>2. Record(entry, "complete", clock) = entry BY <1>2, <1>3, <2>1, Records
  <2>. QED BY <1>1, <2>1, <2>2
<1>6. ASSUME of("unknown") = {}, of("complete") = {} PROVE Recorded(a, e) = ledger[a][e]
  BY <1>1, <1>6
<1>. QED BY <1>4, <1>5, <1>6

\* A batch's record is no older than the entry was, unless it completed and did not fail.
LEMMA BatchIsLater ==
  ASSUME RunTypes, CallTypes, RecordTypes, NEW a \in Agents, NEW e \in Effects,
         (\E i \in CallsOf(a) : calls[i].effect = e /\ calls[i].phase = "unknown")
         \/ (\A i \in CallsOf(a) : calls[i].effect = e => calls[i].phase # "complete")
  PROVE  Recorded(a, e).at >= ledger[a][e].at /\ (Recorded(a, e).spoke => ledger[a][e].spoke)
<1>. DEFINE of(outcome) == {i \in CallsOf(a) : calls[i].effect = e /\ calls[i].phase = outcome}
            entry == IF of("unknown") = {} THEN ledger[a][e] ELSE Record(ledger[a][e], "unknown", clock)
            last == \E i \in of("complete") : \A j \in of("unknown") : j < i
<1>1. Recorded(a, e) = IF last THEN Record(entry, "complete", clock) ELSE entry BY DEF Recorded
<1>2. ledger[a][e] \in Entries /\ clock \in Clock BY DEF RecordTypes, RunTypes
<1>3. entry \in Entries BY <1>2, Records
<1>4. CASE of("unknown") # {}
  <2>1. entry.at >= clock /\ entry.at >= ledger[a][e].at /\ ~entry.spoke BY <1>2, <1>4, Records
  <2>. HIDE DEF entry, last
  <2>2. Record(entry, "complete", clock) = entry BY <1>2, <1>3, <2>1, Records
  <2>. QED BY <1>1, <2>1, <2>2
<1>5. CASE of("unknown") = {}
  <2>1. of("complete") = {} BY <1>5
  <2>2. Recorded(a, e) = ledger[a][e] BY <1>1, <1>5, <2>1
  <2>3. ledger[a][e].at \in Nat BY <1>2, BoundsAssumption DEF Entries
  <2>. QED BY <2>2, <2>3
<1>. QED BY <1>4, <1>5

\* An entry that is no older, and released no sooner, knows of the doubts it knew of.
LEMMA StillKnows ==
  ASSUME NEW d \in Doubts, NEW x \in Entries, NEW y \in Entries, Knows(x, d),
         y.at >= x.at, y.spoke => x.spoke \/ d.read
  PROVE  Knows(y, d)
<1>1. x.at \in Nat /\ y.at \in Nat /\ d.at \in Nat BY BoundsAssumption DEF Entries, Doubts, Clock
<1>. QED BY <1>1 DEF Knows

\* What the next run would load of an agent whose calls are forgotten holds back what its
\* entry or its gap does.
LEMMA RecordHolds ==
  ASSUME RecordTypes, NEW a \in Agents, NEW e \in Effects
  PROVE  /\ OnRecord(a, e) \in Entries
         /\ ledger[a][e].at <= OnRecord(a, e).at /\ open[a][e] <= OnRecord(a, e).at
         /\ open[a][e] > 0 => ~OnRecord(a, e).spoke
         /\ open[a][e] = 0 => OnRecord(a, e) = ledger[a][e]
<1>1. ledger[a] \in [Effects -> Entries] /\ open[a] \in [Effects -> 0 .. MaxClock] BY DEF RecordTypes
<1>2. OnRecord(a, e) = CutOff(ledger[a], open[a])[e] BY DEF OnRecord
<1>. QED BY <1>1, <1>2, CutOffHolds

\* What is cut off later, of a later record, is held back as long.
LEMMA CutOffGrows ==
  ASSUME NEW x \in [Effects -> Entries], NEW y \in [Effects -> Entries],
         NEW s \in [Effects -> 0 .. MaxClock], NEW t \in [Effects -> 0 .. MaxClock], NEW e \in Effects,
         x[e].at <= y[e].at, y[e].spoke => x[e].spoke, s[e] <= t[e]
  PROVE  /\ CutOff(x, s)[e].at <= CutOff(y, t)[e].at
         /\ CutOff(y, t)[e].spoke => CutOff(x, s)[e].spoke
<1>0. MaxClock \in Nat BY BoundsAssumption
<1>1. x[e].at \in Nat /\ y[e].at \in Nat /\ s[e] \in Nat /\ t[e] \in Nat BY <1>0 DEF Entries
<1>2. CutOff(x, s)[e] = IF s[e] = 0 THEN x[e] ELSE [at |-> Max2(x[e].at, s[e]), spoke |-> FALSE]
  BY DEF CutOff
<1>3. CutOff(y, t)[e] = IF t[e] = 0 THEN y[e] ELSE [at |-> Max2(y[e].at, t[e]), spoke |-> FALSE]
  BY DEF CutOff
<1>4. CASE t[e] = 0
  <2>1. s[e] = 0 BY <1>1, <1>4
  <2>. QED BY <1>2, <1>3, <1>4, <2>1
<1>5. CASE t[e] # 0
  <2>1. CutOff(y, t)[e].at = Max2(y[e].at, t[e]) /\ ~CutOff(y, t)[e].spoke BY <1>3, <1>5
  <2>2. CutOff(x, s)[e].at = x[e].at \/ CutOff(x, s)[e].at = Max2(x[e].at, s[e]) BY <1>2
  <2>. QED BY <1>1, <2>1, <2>2 DEF Max2
<1>. QED BY <1>4, <1>5

\* Reading words, and writing them, leave a doubt where and when it arose.
LEMMA WordsKeepDoubts ==
  ASSUME NEW ds, ds \subseteq Doubts
  PROVE  /\ Read(ds) \subseteq Doubts /\ Written(ds) \subseteq Doubts
         /\ \A d \in Read(ds) : d.read /\ \E o \in ds : d.agent = o.agent /\ d.effect = o.effect /\ d.at = o.at
         /\ \A d \in Written(ds) : \E o \in ds : /\ d.agent = o.agent /\ d.effect = o.effect
                                                 /\ d.at = o.at /\ d.read = o.read
BY DEF Read, Written, Doubts

-----------------------------------------------------------------------------
(* Types.                                                                            *)
LEMMA CardIsTyped ==
  ASSUME NEW row \in CardRows
  PROVE  /\ \A at \in Clock, s \in {"once", "server", "deny"} : [row EXCEPT !.state = s, !.at = at] \in CardRows
         /\ \A b \in Agents : [row EXCEPT !.state = "pending", !.asker = b] \in CardRows
         /\ [row EXCEPT !.expired = TRUE] \in CardRows
         /\ row.sends + 1 <= MaxCalls => [row EXCEPT !.used = TRUE, !.sends = @ + 1] \in CardRows
<1>1. Clock \subseteq 0 .. MaxClock BY DEF Clock
<1>2. row.sends + 1 <= MaxCalls => row.sends + 1 \in 0 .. MaxCalls BY BoundsAssumption DEF CardRows
<1>. DEFINE Rows(S, T, A, N) == [state : S, at : T, asker : A, used : BOOLEAN, expired : BOOLEAN, sends : N]
<1>3. ASSUME NEW S, NEW T, NEW A, NEW N, NEW r \in Rows(S, T, A, N),
             NEW s \in S, NEW t \in T, NEW b \in A, NEW n \in N
      PROVE  /\ [r EXCEPT !.state = s, !.at = t] \in Rows(S, T, A, N)
             /\ [r EXCEPT !.state = s, !.asker = b] \in Rows(S, T, A, N)
             /\ [r EXCEPT !.expired = TRUE] \in Rows(S, T, A, N)
             /\ [r EXCEPT !.used = TRUE, !.sends = n] \in Rows(S, T, A, N)
  OBVIOUS
<1>. QED BY <1>1, <1>2, <1>3, AgentsAssumption DEF CardRows, Agents

\* A call an agent makes is a call.
LEMMA NewIsTyped ==
  ASSUME RunTypes, NEW a \in Agents, NEW e \in Effects
  PROVE  NewCall(a, e) \in Calls
<1>1. /\ clock \in Clock /\ 0 \in 0 .. MaxClock /\ NoCard \in Cards \cup {NoCard} /\ {} \in SUBSET Doubts
      /\ "listed" \in Unsent \cup {"running"} \cup Settled
  BY BoundsAssumption DEF Unsent, RunTypes
<1>2. ASSUME NEW A, NEW E, NEW P, NEW T, NEW N, NEW K, NEW D,
             NEW x \in A, NEW f \in E, NEW p \in P, NEW t \in T, NEW n \in N, NEW k \in K, NEW s \in D
      PROVE  [agent |-> x, effect |-> f, phase |-> p, at |-> t, need |-> n, card |-> k, saw |-> s]
               \in [agent : A, effect : E, phase : P, at : T, need : N, card : K, saw : D]
  OBVIOUS
<1>. QED BY <1>1, <1>2, Zenon DEF NewCall, Calls

\* What becomes of a call is a call.
LEMMA CallIsTyped ==
  ASSUME RunTypes, NEW c \in Calls
  PROVE  /\ \A p \in Settled : [NewCall(c.agent, c.effect) EXCEPT !.phase = p] \in Calls
         /\ \A n \in 0 .. MaxClock, ds \in SUBSET Doubts :
              [c EXCEPT !.phase = "ready", !.need = n, !.saw = ds] \in Calls
         /\ [c EXCEPT !.phase = "cleared"] \in Calls
         /\ [c EXCEPT !.phase = "running", !.at = clock] \in Calls
         /\ \A k \in Cards : [c EXCEPT !.phase = "running", !.at = clock, !.card = k] \in Calls
<1>. DEFINE Rows(A, E, P, T, N, K, D) == [agent : A, effect : E, phase : P, at : T, need : N, card : K, saw : D]
            Phases == Unsent \cup {"running"} \cup Settled
<1>1. ASSUME NEW A, NEW E, NEW P, NEW T, NEW N, NEW K, NEW D, NEW r \in Rows(A, E, P, T, N, K, D),
             NEW p \in P, NEW t \in T, NEW n \in N, NEW k \in K, NEW s \in D
      PROVE  /\ [r EXCEPT !.phase = p] \in Rows(A, E, P, T, N, K, D)
             /\ [r EXCEPT !.phase = p, !.need = n, !.saw = s] \in Rows(A, E, P, T, N, K, D)
             /\ [r EXCEPT !.phase = p, !.at = t] \in Rows(A, E, P, T, N, K, D)
             /\ [r EXCEPT !.phase = p, !.at = t, !.card = k] \in Rows(A, E, P, T, N, K, D)
  OBVIOUS
<1>2. /\ Calls = Rows(Agents, Effects, Phases, Clock, 0 .. MaxClock, Cards \cup {NoCard}, SUBSET Doubts)
      /\ {"listed", "ready", "cleared", "running"} \cup Settled \subseteq Phases
      /\ clock \in Clock /\ 0 \in 0 .. MaxClock /\ NoCard \in Cards \cup {NoCard} /\ {} \in SUBSET Doubts
  BY BoundsAssumption DEF Calls, Unsent, RunTypes
<1>. HIDE DEF Phases
<1>3. c.agent \in Agents /\ c.effect \in Effects BY DEF Calls
<1>4. \A p \in Settled : [NewCall(c.agent, c.effect) EXCEPT !.phase = p] \in Calls
  <2>1. NewCall(c.agent, c.effect) \in Calls BY <1>3, NewIsTyped
  <2>. HIDE DEF Rows
  <2>. QED BY <1>1, <1>2, <2>1
<1>. QED
  <2>. HIDE DEF Rows
  <2>. QED BY <1>1, <1>2, <1>4

\* One call becomes another.
LEMMA CallReplaced ==
  ASSUME CallTypes, NEW i \in DOMAIN calls, NEW c \in Calls, calls' = [calls EXCEPT ![i] = c], made' = made
  PROVE  /\ CallTypes' /\ DOMAIN calls' = DOMAIN calls
         /\ calls'[i] = c /\ \A j \in DOMAIN calls : j # i => calls'[j] = calls[j]
<1>1. calls = [j \in DOMAIN calls |-> calls[j]] /\ \A j \in DOMAIN calls : calls[j] \in Calls
  BY DEF CallTypes
<1>2. calls' = [j \in DOMAIN calls |-> IF j = i THEN c ELSE calls[j]] BY <1>1
<1>3. DOMAIN calls' = DOMAIN calls /\ calls'[i] = c /\ \A j \in DOMAIN calls : j # i => calls'[j] = calls[j]
  BY <1>2
<1>4. CallTypes' BY <1>1, <1>2, <1>3 DEF CallTypes, Calls, Clock, Agents, Doubts
<1>. QED BY <1>3, <1>4

\* An agent's calls are forgotten; the others stay.
LEMMA Forgotten ==
  ASSUME CallTypes, NEW a, Forget(a), made' = made
  PROVE  /\ CallTypes' /\ DOMAIN calls' = DOMAIN calls \ CallsOf(a)
         /\ \A j \in DOMAIN calls' : calls'[j] = calls[j] /\ calls[j].agent # a
<1>1. calls' = [j \in DOMAIN calls \ CallsOf(a) |-> calls[j]] BY DEF Forget, Restrict
<1>2. DOMAIN calls' = DOMAIN calls \ CallsOf(a) BY <1>1
<1>3. \A j \in DOMAIN calls' : calls'[j] = calls[j] /\ calls[j].agent # a BY <1>1, <1>2 DEF CallsOf
<1>4. CallTypes' BY <1>1, <1>2, <1>3 DEF CallTypes, Calls, Clock, Agents, Doubts
<1>. QED BY <1>2, <1>3, <1>4

-----------------------------------------------------------------------------
(* Steps of one call.                                                                *)

\* What is decided on a card stays decided, at its instant.
DecisionsStay == \A k \in Cards : cards[k].state \in {"once", "server"} =>
  cards'[k].state = cards[k].state /\ cards'[k].at = cards[k].at

\* Nothing but the cards and the clock moves.
LEMMA QuietStep ==
  ASSUME Inv, clock' \in Clock, clock' >= clock, CardTypes', CardInvariant', DecisionsStay, consent' \in BOOLEAN,
         UNCHANGED <<carded, run, turn, calls, records, words, doubts, made>>
  PROVE  Inv'
<1>1. TypeOK' BY DEF Inv, TypeOK, RunTypes, CallTypes, RecordTypes, DoubtTypes, records, words, doubts,
                     Calls, Doubts, Entries, Agents, Cards, Clock
<1>2. CallInvariant'
  <2>1. ASSUME NEW j \in DOMAIN calls PROVE Waits(calls[j])'
    <3>1. calls[j] \in Calls /\ Waits(calls[j]) /\ clock \in Nat
      BY BoundsAssumption DEF Inv, TypeOK, CallTypes, RunTypes, Clock, CallInvariant
    <3>2. calls[j].at \in Nat /\ clock' \in Nat BY <3>1, BoundsAssumption DEF Calls, Clock
    <3>. QED BY <3>1, <3>2 DEF Waits, DecisionsStay
  <2>. QED BY <2>1 DEF CallInvariant
<1>3. IdleInvariant' /\ FenceInvariant' /\ WordsInvariant'
  BY DEF Inv, IdleInvariant, FenceInvariant, WordsInvariant, Knows, records, words, doubts
<1>4. SettledInvariant' BY DEF Inv, SettledInvariant, StandsFor, doubts
<1>5. RecordInvariant' BY DEF Inv, RecordInvariant, StandsFor, Knows, OnRecord, records, doubts
<1>. QED BY <1>1, <1>2, <1>3, <1>4, <1>5 DEF Inv

\* A call goes on towards its sending, or is refused.
LEMMA CallStep ==
  ASSUME Inv, NEW i \in DOMAIN calls, NEW c \in Calls, calls' = [calls EXCEPT ![i] = c],
         calls[i].phase \notin Settled, c.phase # "complete", c.agent = calls[i].agent, Waits(c)',
         CardTypes', CardInvariant', DecisionsStay,
         UNCHANGED <<carded, clock, run, turn, records, consent, words, doubts, made>>
  PROVE  Inv'
<1>1. /\ CallTypes' /\ DOMAIN calls' = DOMAIN calls
      /\ calls'[i] = c /\ \A j \in DOMAIN calls : j # i => calls'[j] = calls[j]
  BY CallReplaced DEF Inv, TypeOK
<1>2. TypeOK' BY <1>1 DEF Inv, TypeOK, RunTypes, RecordTypes, DoubtTypes, records, words, doubts,
                     Doubts, Entries, Agents, Cards, Clock
<1>3. CallInvariant'
  <2>1. ASSUME NEW j \in DOMAIN calls, j # i PROVE Waits(calls[j])'
    <3>1. Waits(calls[j]) /\ calls'[j] = calls[j] BY <1>1, <2>1 DEF Inv, CallInvariant
    <3>. QED BY <3>1 DEF Waits, DecisionsStay
  <2>2. \A j \in DOMAIN calls' : Waits(calls[j])'
    <3>1. Waits(calls[i])' BY <1>1 DEF Waits
    <3>. QED BY <1>1, <2>1, <3>1
  <2>. QED BY <2>2 DEF CallInvariant
<1>4. \A d, j : StandsFor(j, d) => StandsFor(j, d)'
  BY <1>1 DEF StandsFor, Settled
<1>5. IdleInvariant' /\ FenceInvariant'
  BY <1>1 DEF Inv, IdleInvariant, FenceInvariant, Knows, records, words, doubts
<1>6. WordsInvariant' BY <1>1 DEF Inv, WordsInvariant, words, doubts, Settled
<1>7. SettledInvariant' BY <1>1, <1>4 DEF Inv, SettledInvariant, doubts
<1>8. RecordInvariant' BY <1>1, <1>4 DEF Inv, RecordInvariant, Knows, OnRecord, records, doubts
<1>. QED BY <1>2, <1>3, <1>5, <1>6, <1>7, <1>8 DEF Inv

\* A call that is refused, or waits for the user, closes without having been sent.
LEMMA CloseStep ==
  ASSUME Inv, NEW i \in DOMAIN calls, Close(i, "error"), calls[i].phase \notin Settled,
         CardTypes', CardInvariant', DecisionsStay,
         UNCHANGED <<carded, clock, run, turn, records, consent, words, doubts, made>>
  PROVE  Inv'
<1>. DEFINE c == [NewCall(calls[i].agent, calls[i].effect) EXCEPT !.phase = "error"]
<1>1. calls[i] \in Calls BY DEF Inv, TypeOK, CallTypes
<1>2. c \in Calls BY <1>1, CallIsTyped DEF Inv, TypeOK, Settled
<1>3. c.agent = calls[i].agent /\ c.phase = "error" /\ c.at = clock BY DEF NewCall
<1>4. calls' = [calls EXCEPT ![i] = c] BY DEF Close
<1>. HIDE DEF c
<1>5. PICK r \in Calls : r = c BY <1>2
<1>6. Waits(r)'
  <2>1. clock \in Nat BY BoundsAssumption DEF Inv, TypeOK, RunTypes, Clock
  <2>. QED BY <1>3, <1>5, <2>1 DEF Waits
<1>. QED BY <1>3, <1>4, <1>5, <1>6, CallStep

\* A call is checked against what the run's fences hold back.
LEMMA CheckStep ==
  ASSUME Inv, NEW i \in DOMAIN calls, Check(i)
  PROVE  Inv'
<1>. DEFINE e == calls[i].effect
            need == IF e \in carded THEN Find(e).at ELSE 0
            saw == {d \in doubt : d.effect = e}
            c == [calls[i] EXCEPT !.phase = "ready", !.need = need, !.saw = saw]
<1>0. /\ calls[i] \in Calls /\ e \in Effects /\ MaxClock \in Nat /\ run.live /\ Waits(calls[i])
      /\ calls[i].phase = "listed"
  BY BoundsAssumption DEF Inv, TypeOK, CallTypes, Calls, IdleInvariant, CallInvariant, Check
<1>1. UNCHANGED <<carded, clock, run, turn, records, consent, words, doubts, made, cards>>
  BY DEF Check, CallUnchanged, approvals
<1>2. CardTypes' /\ CardInvariant' /\ DecisionsStay
  BY <1>1 DEF Inv, TypeOK, CardTypes, CardRows, Cards, Agents, CardInvariant, DecisionsStay
<1>3. CASE Refused(e)
  <2>1. Close(i, "error") BY <1>3 DEF Check
  <2>. QED BY <1>0, <1>1, <1>2, <2>1, CloseStep DEF Settled
<1>4. CASE ~Refused(e)
  <2>1. /\ Find(e) \in Entries
        /\ \A a \in Agents : fence[a][e].at <= Find(e).at
        /\ Find(e).spoke => \A a \in Agents : fence[a][e].at > 0 => fence[a][e].spoke
    BY <1>0, Finds DEF Inv, TypeOK
  <2>2. need \in 0 .. MaxClock BY <1>0, <2>1 DEF Entries
  <2>3. saw \subseteq Doubts BY DEF Inv, TypeOK, DoubtTypes
  <2>4. c \in Calls BY <1>0, <2>2, <2>3, CallIsTyped DEF Inv, TypeOK
  <2>5. calls' = [calls EXCEPT ![i] = c]
    <3>1. calls' = [calls EXCEPT ![i].phase = "ready", ![i].need = need, ![i].saw = saw] BY <1>4 DEF Check
    <3>2. calls = [j \in DOMAIN calls |-> calls[j]] BY DEF Inv, TypeOK, CallTypes
    <3>. HIDE DEF need, saw
    <3>. QED BY <3>1, <3>2
  <2>6. ASSUME NEW d \in saw PROVE IF e \in carded THEN d.at <= need ELSE d.read
    <3>1. d \in doubt /\ d \in Doubts /\ d.effect = e BY <2>3
    <3>2. /\ d.agent \in Agents /\ d.at \in Nat /\ d.at > 0
          /\ fence[d.agent][e] \in Entries /\ fence[d.agent][e].at \in Nat /\ Find(e).at \in Nat
      BY <1>0, <2>1, <3>1 DEF Doubts, Clock, Entries, Inv, TypeOK, RecordTypes
    <3>3. fence[d.agent][e].at >= d.at /\ (fence[d.agent][e].spoke => d.read)
      BY <1>0, <3>1 DEF Inv, FenceInvariant, Knows
    <3>4. fence[d.agent][e].at <= Find(e).at BY <2>1, <3>2
    <3>5. CASE e \in carded BY <3>2, <3>3, <3>4, <3>5
    <3>6. CASE e \notin carded
      <4>1. Find(e).at > 0 BY <3>2, <3>3, <3>4
      <4>2. Find(e).spoke BY <1>4, <3>6, <4>1 DEF Refused
      <4>3. fence[d.agent][e].at > 0 BY <3>2, <3>3
      <4>. QED BY <2>1, <3>2, <3>3, <3>6, <4>2, <4>3
    <3>. QED BY <3>5, <3>6
  <2>. HIDE DEF need, saw
  <2>7. /\ c.at = calls[i].at /\ c.phase = "ready" /\ c.effect = e /\ c.need = need /\ c.saw = saw
        /\ c.agent = calls[i].agent /\ calls[i].at <= clock
    BY <1>0 DEF Calls, Waits
  <2>. HIDE DEF c, e
  <2>8. PICK r \in Calls : r = c BY <2>4
  <2>9. Waits(r)' BY <1>1, <2>6, <2>7, <2>8 DEF Waits
  <2>. QED BY <1>0, <1>1, <1>2, <2>5, <2>7, <2>8, <2>9, CallStep DEF Settled
<1>. QED BY <1>3, <1>4

\* A call that may be sent, or is about to be, is not settled, and what it waits for stays.
LEMMA Beginning ==
  ASSUME Inv, NEW i \in DOMAIN calls, calls[i].phase \in {"ready", "cleared"}
  PROVE  /\ calls[i] \in Calls /\ calls[i].phase \notin Settled /\ clock \in Nat /\ Waits(calls[i])
         /\ calls[i].at <= clock
         /\ \A d \in calls[i].saw : IF calls[i].effect \in carded THEN d.at <= calls[i].need ELSE d.read
BY BoundsAssumption DEF Inv, TypeOK, CallTypes, RunTypes, Clock, CallInvariant, Waits, Settled

LEMMA PreviewStep ==
  ASSUME Inv, NEW i \in DOMAIN calls, Preview(i)
  PROVE  Inv'
<1>. DEFINE c == [calls[i] EXCEPT !.phase = "cleared"]
<1>1. calls[i] \in Calls /\ calls[i].phase \notin Settled /\ calls[i].phase = "ready"
      /\ clock \in Nat /\ Waits(calls[i])
  BY Beginning DEF Preview
<1>2. UNCHANGED <<carded, clock, run, turn, records, consent, words, doubts, made, cards>>
  BY DEF Preview, CallUnchanged, approvals
<1>3. CardTypes' /\ CardInvariant' /\ DecisionsStay
  BY <1>2 DEF Inv, TypeOK, CardTypes, CardRows, Cards, Agents, CardInvariant, DecisionsStay
<1>4. CASE Close(i, "error") BY <1>1, <1>2, <1>3, <1>4, CloseStep
<1>5. CASE calls' = [calls EXCEPT ![i].phase = "cleared"]
  <2>1. calls' = [calls EXCEPT ![i] = c]
    <3>1. calls = [j \in DOMAIN calls |-> calls[j]] BY DEF Inv, TypeOK, CallTypes
    <3>. QED BY <1>5, <3>1
  <2>2. c \in Calls BY <1>1, CallIsTyped DEF Inv, TypeOK
  <2>3. c.agent = calls[i].agent /\ c.phase = "cleared" /\ c.at = calls[i].at /\ c.saw = calls[i].saw
        /\ c.effect = calls[i].effect /\ c.need = calls[i].need
    BY <1>1 DEF Calls
  <2>. HIDE DEF c
  <2>4. PICK r \in Calls : r = c BY <2>2
  <2>5. Waits(r)' BY <1>1, <1>2, <2>3, <2>4 DEF Waits
  <2>. QED BY <1>1, <1>2, <1>3, <2>1, <2>3, <2>4, <2>5, CallStep
<1>. QED BY <1>4, <1>5 DEF Preview

\* A call that saw doubts and has a card asks, since it waits for something.
LEMMA DispatchStep ==
  ASSUME Inv, NEW i \in DOMAIN calls, Dispatch(i)
  PROVE  Inv'
<1>. DEFINE c == [calls[i] EXCEPT !.phase = "running", !.at = clock]
<1>0. calls[i].phase \in {"ready", "cleared"} BY DEF Dispatch, Begins
<1>1. calls[i] \in Calls /\ calls[i].phase \notin Settled /\ clock \in Nat /\ Waits(calls[i])
      /\ \A d \in calls[i].saw : IF calls[i].effect \in carded THEN d.at <= calls[i].need ELSE d.read
  BY <1>0, Beginning
<1>2. UNCHANGED <<carded, clock, run, turn, records, consent, words, doubts, made, cards>>
  BY DEF Dispatch, CallUnchanged, approvals
<1>3. CardTypes' /\ CardInvariant' /\ DecisionsStay
  BY <1>2 DEF Inv, TypeOK, CardTypes, CardRows, Cards, Agents, CardInvariant, DecisionsStay
<1>4. calls' = [calls EXCEPT ![i] = c]
  <2>1. calls = [j \in DOMAIN calls |-> calls[j]] BY DEF Inv, TypeOK, CallTypes
  <2>2. calls' = [calls EXCEPT ![i].phase = "running", ![i].at = clock] BY DEF Dispatch
  <2>. QED BY <2>1, <2>2
<1>5. c \in Calls BY <1>1, CallIsTyped DEF Inv, TypeOK
<1>6. c.agent = calls[i].agent /\ c.phase = "running" /\ c.at = clock /\ c.saw = calls[i].saw
      /\ c.effect = calls[i].effect /\ c.need = calls[i].need
  BY <1>1 DEF Calls
<1>7. calls[i].effect \in carded => calls[i].saw = {}
  <2>1. SUFFICES ASSUME calls[i].effect \in carded, NEW d \in calls[i].saw PROVE FALSE OBVIOUS
  <2>2. ~(calls[i].need > 0) BY <2>1 DEF Dispatch, Asks
  <2>3. d.at \in Nat /\ d.at > 0 /\ calls[i].need \in Nat
    BY <1>1, <2>1, BoundsAssumption DEF Calls, Doubts, Clock
  <2>. QED BY <1>1, <2>1, <2>2, <2>3
<1>. HIDE DEF c
<1>8. PICK r \in Calls : r = c BY <1>5
<1>9. Waits(r)' BY <1>1, <1>2, <1>6, <1>7, <1>8 DEF Waits
<1>. QED BY <1>1, <1>2, <1>3, <1>4, <1>6, <1>8, <1>9, CallStep

\* One card becomes another that has not sent unless it is used, and stays decided if it was.
LEMMA CardReplaced ==
  ASSUME CardTypes, CardInvariant, NEW k \in Cards, NEW row \in CardRows, cards' = [cards EXCEPT ![k] = row],
         row.sends <= 1, ~row.used => row.sends = 0,
         cards[k].state \in {"once", "server"} => row.state = cards[k].state /\ row.at = cards[k].at
  PROVE  CardTypes' /\ CardInvariant' /\ DecisionsStay
<1>1. cards' \in [Cards -> CardRows] /\ \A o \in Cards : cards'[o] = IF o = k THEN row ELSE cards[o]
  BY DEF CardTypes
<1>2. CardTypes' BY <1>1 DEF CardTypes, CardRows, Cards, Agents
<1>3. \A o \in Cards : cards'[o].sends <= 1 /\ (~cards'[o].used => cards'[o].sends = 0)
  BY <1>1 DEF CardInvariant
<1>4. CardInvariant' BY <1>3 DEF CardInvariant, Cards
<1>5. DecisionsStay BY <1>1 DEF DecisionsStay
<1>. QED BY <1>2, <1>4, <1>5

\* A decision is consumed by the call it sends.
LEMMA DispatchApprovedStep ==
  ASSUME Inv, NEW i \in DOMAIN calls, DispatchApproved(i)
  PROVE  Inv'
<1>0. calls[i].phase \in {"ready", "cleared"} BY DEF DispatchApproved, Begins
<1>1. calls[i] \in Calls /\ calls[i].phase \notin Settled /\ clock \in Nat /\ Waits(calls[i])
      /\ \A d \in calls[i].saw : IF calls[i].effect \in carded THEN d.at <= calls[i].need ELSE d.read
  BY <1>0, Beginning
<1>2. PICK k \in Approval(calls[i]) :
        /\ calls' = [calls EXCEPT ![i].phase = "running", ![i].at = clock, ![i].card = k]
        /\ cards' = Consumed(k)
  BY DEF DispatchApproved
<1>. DEFINE c == [calls[i] EXCEPT !.phase = "running", !.at = clock, !.card = k]
<1>3. /\ k \in Cards /\ cards[k].state \in {"once", "server"} /\ k[2] = calls[i].effect /\ k[1] # run.n
      /\ ~cards[k].used /\ cards[k].at > calls[i].need
  BY DEF Approval, Named, Oldest, Usable, Inv, TypeOK, RunTypes
<1>4. UNCHANGED <<carded, clock, run, turn, records, consent, words, doubts, made>>
  BY DEF DispatchApproved, CallUnchanged
<1>5. cards[k] \in CardRows /\ cards[k].sends = 0 /\ cards \in [Cards -> CardRows]
  BY <1>3 DEF Inv, TypeOK, CardTypes, CardInvariant
<1>6. MaxCalls >= 1 /\ MaxCalls \in Nat
  <2>1. i \in 1 .. made /\ made \in 0 .. MaxCalls BY DEF Inv, TypeOK, CallTypes, RunTypes
  <2>. QED BY <2>1, BoundsAssumption
<1>7. CardTypes' /\ CardInvariant' /\ DecisionsStay
  <2>1. CASE cards[k].state = "server"
    <3>1. cards' = cards BY <1>2, <2>1 DEF Consumed
    <3>. QED BY <3>1 DEF Inv, TypeOK, CardTypes, CardRows, Cards, Agents, CardInvariant, DecisionsStay
  <2>2. CASE cards[k].state = "once"
    <3>. DEFINE row == [cards[k] EXCEPT !.used = TRUE, !.sends = @ + 1]
    <3>1. row \in CardRows
      <4>1. cards[k].sends + 1 <= MaxCalls BY <1>5, <1>6
      <4>. QED BY <1>5, <4>1, CardIsTyped
    <3>2. row.sends = 1 /\ row.used /\ row.state = cards[k].state /\ row.at = cards[k].at
      BY <1>5 DEF CardRows
    <3>3. cards' = [cards EXCEPT ![k] = row]
      <4>1. cards' = [cards EXCEPT ![k].used = TRUE, ![k].sends = @ + 1] BY <1>2, <2>2 DEF Consumed
      <4>. QED BY <1>3, <1>5, <4>1
    <3>. HIDE DEF row
    <3>4. row.sends <= 1 /\ (~row.used => row.sends = 0) BY <3>2
    <3>5. CardTypes /\ CardInvariant BY DEF Inv, TypeOK
    <3>. QED BY <1>3, <3>1, <3>2, <3>3, <3>4, <3>5, CardReplaced
  <2>. QED BY <1>3, <2>1, <2>2
<1>8. calls' = [calls EXCEPT ![i] = c]
  <2>1. calls = [j \in DOMAIN calls |-> calls[j]] BY DEF Inv, TypeOK, CallTypes
  <2>. QED BY <1>2, <2>1
<1>9. c \in Calls BY <1>1, <1>3, CallIsTyped DEF Inv, TypeOK
<1>10. c.agent = calls[i].agent /\ c.phase = "running" /\ c.at = clock /\ c.saw = calls[i].saw
       /\ c.effect = calls[i].effect /\ c.need = calls[i].need /\ c.card = k
  BY <1>1 DEF Calls
<1>11. calls[i].effect \in carded /\ \A d \in calls[i].saw : d.at < cards[k].at
  <2>1. calls[i].effect \in carded BY DEF DispatchApproved, Asks
  <2>2. ASSUME NEW d \in calls[i].saw PROVE d.at < cards[k].at
    <3>1. d.at <= calls[i].need BY <1>1, <2>1
    <3>2. d.at \in Nat /\ calls[i].need \in Nat /\ cards[k].at \in Nat
      BY <1>1, <1>5, BoundsAssumption DEF Calls, Doubts, Clock, CardRows
    <3>. QED BY <1>3, <3>1, <3>2
  <2>. QED BY <2>1, <2>2
<1>. HIDE DEF c
<1>12. PICK r \in Calls : r = c BY <1>9
<1>13. cards'[k].state \in {"once", "server"} /\ cards'[k].at = cards[k].at
  BY <1>3, <1>7 DEF DecisionsStay
<1>14. Waits(r)'
  <2>1. r.at <= clock' BY <1>1, <1>4, <1>10, <1>12
  <2>2. \A d \in r.saw : IF r.effect \in carded' THEN d.at <= r.need ELSE d.read
    BY <1>1, <1>4, <1>10, <1>11, <1>12
  <2>3. /\ r.card \in Cards /\ r.card[2] = r.effect /\ r.card[1] # run'.n
        /\ cards'[r.card].state \in {"once", "server"} /\ \A d \in r.saw : d.at < cards'[r.card].at
    BY <1>3, <1>4, <1>10, <1>11, <1>12, <1>13
  <2>. QED BY <2>1, <2>2, <2>3 DEF Waits, Cards
<1>. QED BY <1>1, <1>4, <1>7, <1>8, <1>10, <1>12, <1>14, CallStep

\* A call that waits for the user is not sent, and asks them.
LEMMA GateStep ==
  ASSUME Inv, NEW i \in DOMAIN calls, Gate(i)
  PROVE  Inv'
<1>. DEFINE k == <<run.n, calls[i].effect>>
            asked == [cards[k] EXCEPT !.state = "pending", !.asker = calls[i].agent]
            row == IF cards[k].state = "none" THEN asked ELSE cards[k]
<1>0. calls[i].phase \in {"ready", "cleared"} BY DEF Gate, Begins
<1>1. calls[i] \in Calls /\ calls[i].phase \notin Settled BY <1>0, Beginning
<1>2. run.live /\ run.n \in 0 .. MaxRuns /\ calls[i].agent \in Agents /\ calls[i].effect \in Effects
  BY <1>1 DEF Inv, IdleInvariant, TypeOK, RunTypes, Calls
<1>3. UNCHANGED <<carded, clock, run, turn, records, consent, words, doubts, made>> /\ Close(i, "error")
  BY DEF Gate, CallUnchanged
<1>4. cards' = [cards EXCEPT ![k] = row] BY DEF Gate
<1>5. CardTypes' /\ CardInvariant' /\ DecisionsStay
  <2>1. CASE k \in Cards
    <3>1. cards[k] \in CardRows BY <2>1 DEF Inv, TypeOK, CardTypes
    <3>2. asked \in CardRows BY <1>2, <3>1, CardIsTyped
    <3>3. /\ row \in CardRows /\ row.sends = cards[k].sends /\ row.used = cards[k].used
          /\ cards[k].state # "none" => row = cards[k]
      BY <3>1, <3>2 DEF CardRows
    <3>4. cards[k].sends <= 1 /\ (~cards[k].used => cards[k].sends = 0) BY <2>1 DEF Inv, CardInvariant
    <3>. HIDE DEF row, k
    <3>. QED BY <1>4, <2>1, <3>3, <3>4, CardReplaced DEF Inv, TypeOK
  <2>2. CASE k \notin Cards
    <3>. HIDE DEF row, k
    <3>1. cards' = cards BY <1>4, <2>2 DEF Inv, TypeOK, CardTypes
    <3>. QED BY <3>1 DEF Inv, TypeOK, CardTypes, CardRows, Cards, Agents, CardInvariant, DecisionsStay
  <2>. QED BY <2>1, <2>2
<1>. QED BY <1>1, <1>3, <1>5, CloseStep

\* A call that returns, or fails, is recorded by its fence; one whose effect is unknown is
\* in doubt from then on, and a completion settles the doubts of its agent's effect.
LEMMA SettleStep ==
  ASSUME Inv, NEW i \in DOMAIN calls, NEW outcome \in {"complete", "error", "unknown"}, Settle(i, outcome)
  PROVE  Inv'
<1>. DEFINE old == calls[i]
            a == calls[i].agent
            e == calls[i].effect
            c == [NewCall(a, e) EXCEPT !.phase = outcome]
            new == Doubt(old, clock)
            entry == Record(fence[a][e], outcome, clock)
<1>1. /\ old \in Calls /\ a \in Agents /\ e \in Effects /\ clock \in Clock /\ clock \in Nat /\ run.live
      /\ old.phase = "running" /\ outcome \in Settled
  BY BoundsAssumption DEF Inv, TypeOK, CallTypes, RunTypes, Calls, Clock, IdleInvariant, Settle, Settled
<1>2. UNCHANGED <<carded, clock, run, turn, ledger, open, cards, consent, words, made>>
  BY DEF Settle, CallUnchanged, approvals
<1>3. c \in Calls BY <1>1, CallIsTyped DEF Inv, TypeOK
<1>4. c.agent = a /\ c.effect = e /\ c.phase = outcome /\ c.at = clock BY DEF NewCall
<1>5. calls' = [calls EXCEPT ![i] = c] BY DEF Settle, Close
<1>6. /\ CallTypes' /\ DOMAIN calls' = DOMAIN calls
      /\ calls'[i] = c /\ \A j \in DOMAIN calls : j # i => calls'[j] = calls[j]
  BY <1>2, <1>3, <1>5, CallReplaced DEF Inv, TypeOK
<1>7. new \in Doubts /\ new.agent = a /\ new.effect = e /\ new.at = clock BY <1>1 DEF Doubt, Doubts
<1>8. /\ outcome = "unknown" => doubt' = doubt \cup {new} /\ lost' = lost
      /\ outcome = "complete" => doubt' = Unsettled(doubt, old) /\ lost' = Unsettled(lost, old)
      /\ outcome = "error" => doubt' = doubt /\ lost' = lost
  BY DEF Settle
<1>9. doubt' \subseteq Doubts /\ lost' \subseteq lost /\ lost \subseteq Doubts /\ doubt \subseteq Doubts
  BY <1>7, <1>8 DEF Unsettled, Inv, TypeOK, DoubtTypes
<1>10. /\ entry \in Entries /\ fence[a][e] \in Entries
       /\ outcome = "unknown" => entry.at >= clock /\ entry.at >= fence[a][e].at /\ ~entry.spoke
       /\ outcome = "error" => entry = fence[a][e]
  <2>1. fence[a][e] \in Entries BY <1>1 DEF Inv, TypeOK, RecordTypes
  <2>. QED BY <1>1, <2>1, Records
<1>11. /\ fence' \in [Agents -> [Effects -> Entries]]
       /\ \A b \in Agents, f \in Effects : fence'[b][f] = IF b = a /\ f = e THEN entry ELSE fence[b][f]
  <2>1. fence \in [Agents -> [Effects -> Entries]] BY DEF Inv, TypeOK, RecordTypes
  <2>2. fence' = [fence EXCEPT ![a][e] = entry] BY DEF Settle
  <2>. HIDE DEF a, e, entry
  <2>. QED BY <1>1, <1>10, <2>1, <2>2
<1>. HIDE DEF c, entry, new, old
<1>12. ASSUME NEW j \in DOMAIN calls, NEW d, StandsFor(j, d) PROVE StandsFor(j, d)'
  BY <1>1, <1>6, <1>12 DEF StandsFor, Settled, old
<1>13. TypeOK'
  BY <1>2, <1>6, <1>9, <1>11 DEF Inv, TypeOK, RunTypes, CardTypes, CardRows, RecordTypes, DoubtTypes, words,
     Doubts, Entries, Agents, Cards, Clock
<1>14. IdleInvariant' /\ CardInvariant' BY <1>1, <1>2 DEF Inv, IdleInvariant, CardInvariant, Cards
<1>15. CallInvariant'
  <2>1. ASSUME NEW j \in DOMAIN calls, j # i PROVE Waits(calls[j])'
    <3>1. Waits(calls[j]) /\ calls'[j] = calls[j] BY <1>6, <2>1 DEF Inv, CallInvariant
    <3>. QED BY <1>2, <3>1 DEF Waits
  <2>2. Waits(calls[i])' BY <1>1, <1>2, <1>4, <1>6 DEF Waits, Settled
  <2>3. \A j \in DOMAIN calls' : Waits(calls[j])' BY <1>6, <2>1, <2>2
  <2>. QED BY <2>3 DEF CallInvariant
<1>16. FenceInvariant'
  <2>1. ASSUME NEW d \in doubt' PROVE Knows(fence'[d.agent][d.effect], d)
    <3>1. d \in Doubts /\ d.agent \in Agents /\ d.effect \in Effects BY <1>9 DEF Doubts
    <3>2. CASE d \in doubt
      <4>1. Knows(fence[d.agent][d.effect], d) BY <1>1, <3>2 DEF Inv, FenceInvariant
      <4>2. CASE d.agent = a /\ d.effect = e
        <5>1. outcome # "complete"
          BY <1>8, <2>1, <4>2 DEF Unsettled, old
        <5>2. entry.at >= fence[a][e].at /\ (entry.spoke => fence[a][e].spoke)
          <6>1. fence[a][e].at \in Nat BY <1>10, BoundsAssumption DEF Entries
          <6>. QED BY <1>10, <5>1, <6>1
        <5>3. Knows(entry, d) BY <1>10, <3>1, <4>1, <4>2, <5>2, StillKnows
        <5>. QED BY <1>11, <3>1, <4>2, <5>3
      <4>3. CASE ~(d.agent = a /\ d.effect = e)
        <5>1. fence'[d.agent][d.effect] = fence[d.agent][d.effect] BY <1>11, <3>1, <4>3
        <5>. QED BY <4>1, <5>1
      <4>. QED BY <4>2, <4>3
    <3>3. CASE d \notin doubt
      <4>1. outcome = "unknown" /\ d = new BY <1>8, <2>1, <3>3 DEF Unsettled
      <4>. QED BY <1>1, <1>7, <1>10, <1>11, <4>1 DEF Knows
    <3>. QED BY <3>2, <3>3
  <2>. QED BY <2>1 DEF FenceInvariant, Knows
<1>17. ASSUME NEW d, d = new, outcome = "unknown" PROVE StandsFor(i, d)'
  <2>1. calls'[i].at >= clock BY <1>1, <1>4, <1>6
  <2>2. i \in DOMAIN calls' /\ calls'[i].agent = a /\ calls'[i].effect = e /\ calls'[i].phase = "unknown"
    BY <1>4, <1>6, <1>17
  <2>3. d.agent = a /\ d.effect = e /\ d.at = clock BY <1>7, <1>17
  <2>. HIDE DEF a, e
  <2>. QED BY <2>1, <2>2, <2>3 DEF StandsFor
<1>18. SettledInvariant'
  <2>1. ASSUME NEW j \in DOMAIN calls, calls'[j].phase = "complete", NEW d \in doubt',
               d.agent = calls'[j].agent, d.effect = calls'[j].effect
        PROVE  \E n \in DOMAIN calls : StandsFor(n, d)'
    <3>1. CASE d = new /\ outcome = "unknown" BY <1>17, <3>1
    <3>2. CASE ~(d = new /\ outcome = "unknown")
      <4>1. d \in doubt BY <1>8, <2>1, <3>2 DEF Unsettled
      <4>2. j # i
        <5>1. SUFFICES ASSUME j = i PROVE FALSE OBVIOUS
        <5>2. outcome = "complete" /\ d.agent = a /\ d.effect = e BY <1>4, <1>6, <2>1, <5>1
        <5>. QED BY <1>8, <2>1, <5>2 DEF Unsettled, old
      <4>3. calls'[j] = calls[j] BY <1>6, <4>2
      <4>4. PICK n \in DOMAIN calls : StandsFor(n, d) BY <2>1, <4>1, <4>3 DEF Inv, SettledInvariant
      <4>. QED BY <1>12, <4>4
    <3>. QED BY <3>1, <3>2
  <2>2. ASSUME NEW j \in DOMAIN calls, calls'[j].phase = "complete", NEW d \in lost'
        PROVE  ~(d.agent = calls'[j].agent /\ d.effect = calls'[j].effect)
    <3>1. CASE j = i
      <4>1. outcome = "complete" BY <1>4, <1>6, <2>2, <3>1
      <4>. QED BY <1>4, <1>6, <1>8, <2>2, <3>1, <4>1 DEF Unsettled, old
    <3>2. CASE j # i
      <4>1. calls'[j] = calls[j] /\ d \in lost BY <1>6, <1>9, <2>2, <3>2
      <4>. QED BY <2>2, <4>1 DEF Inv, SettledInvariant
    <3>. QED BY <3>1, <3>2
  <2>. QED BY <1>6, <2>1, <2>2 DEF SettledInvariant
<1>19. RecordInvariant'
  <2>1. ASSUME NEW d \in doubt'
        PROVE  (\E j \in DOMAIN calls : StandsFor(j, d)') \/ Knows(OnRecord(d.agent, d.effect), d)
    <3>1. CASE d = new /\ outcome = "unknown" BY <1>17, <3>1
    <3>2. CASE ~(d = new /\ outcome = "unknown")
      <4>1. d \in doubt BY <1>8, <2>1, <3>2 DEF Unsettled
      <4>. QED BY <1>12, <4>1 DEF Inv, RecordInvariant
    <3>. QED BY <3>1, <3>2
  <2>2. \A d \in lost' : Knows(OnRecord(d.agent, d.effect), d) BY <1>9 DEF Inv, RecordInvariant
  <2>3. \A b, f : OnRecord(b, f)' = OnRecord(b, f) BY <1>2 DEF OnRecord
  <2>. QED BY <1>2, <1>6, <2>1, <2>2, <2>3 DEF RecordInvariant, Knows, OnRecord
<1>20. WordsInvariant'
  <2>1. ASSUME unwritten PROVE outcome \in {"complete", "error", "unknown"} /\ a # Main
    BY <1>1, <2>1 DEF Inv, WordsInvariant, Settled, old
  <2>2. ASSUME unwritten, NEW d \in doubt' \cup lost', d.agent = Main PROVE d.read
    <3>1. d # new \/ outcome # "unknown" BY <1>7, <2>1, <2>2
    <3>2. d \in doubt \cup lost BY <1>8, <1>9, <2>2, <3>1 DEF Unsettled
    <3>. QED BY <2>2, <3>2 DEF Inv, WordsInvariant
  <2>3. ASSUME unwritten, NEW j \in DOMAIN calls, calls'[j].agent = Main PROVE calls'[j].phase \in Settled
    BY <1>4, <1>6, <2>1, <2>3 DEF Inv, WordsInvariant, Settled
  <2>. QED BY <1>2, <1>6, <2>2, <2>3 DEF WordsInvariant, words, Settled
<1>. QED BY <1>13, <1>14, <1>15, <1>16, <1>18, <1>19, <1>20 DEF Inv

-----------------------------------------------------------------------------
(* Steps of an agent's batch.                                                        *)

\* A response's calls are new, and none has been checked.
LEMMA ListStep ==
  ASSUME Inv, NEW a \in Agents, List(a)
  PROVE  Inv'
<1>0. PICK n \in 1 .. 2 : /\ made + n <= MaxCalls /\ made' = made + n
                         /\ \E es \in [made + 1 .. made + n -> Effects] :
                              calls' = [i \in DOMAIN calls \cup DOMAIN es |->
                                          IF i \in DOMAIN es THEN NewCall(a, es[i]) ELSE calls[i]]
  BY DEF List
<1>1. PICK es \in [made + 1 .. made + n -> Effects] :
        /\ made + n <= MaxCalls /\ made' = made + n
        /\ calls' = [i \in DOMAIN calls \cup DOMAIN es |->
                       IF i \in DOMAIN es THEN NewCall(a, es[i]) ELSE calls[i]]
  BY <1>0
<1>2. UNCHANGED <<carded, clock, run, turn, cards, consent, records, words, doubts>> BY DEF List, approvals
<1>3. /\ made \in Nat /\ MaxCalls \in Nat /\ clock \in Nat /\ clock \in Clock /\ run.live
      /\ DOMAIN calls \subseteq 1 .. made /\ DOMAIN es = made + 1 .. made + n
  BY <1>1, BoundsAssumption DEF Inv, TypeOK, RunTypes, CallTypes, Clock, List
<1>4. \A j \in DOMAIN es : /\ NewCall(a, es[j]) \in Calls /\ NewCall(a, es[j]).phase = "listed"
                           /\ NewCall(a, es[j]).agent = a /\ NewCall(a, es[j]).at = clock
  <2>1. \A e \in Effects : NewCall(a, e) \in Calls BY NewIsTyped DEF Inv, TypeOK
  <2>. QED BY <1>3, <2>1 DEF NewCall
<1>5. /\ DOMAIN calls' = DOMAIN calls \cup DOMAIN es
      /\ \A j \in DOMAIN es : calls'[j] = NewCall(a, es[j]) /\ j \notin DOMAIN calls
      /\ \A j \in DOMAIN calls : calls'[j] = calls[j]
  BY <1>1, <1>3
<1>6. CallTypes'
  <2>1. \A j \in DOMAIN calls' : calls'[j] \in Calls BY <1>4, <1>5 DEF Inv, TypeOK, CallTypes
  <2>2. DOMAIN calls' \subseteq 1 .. made' BY <1>1, <1>3, <1>5
  <2>3. calls' = [j \in DOMAIN calls' |-> calls'[j]] BY <1>1
  <2>. QED BY <2>1, <2>2, <2>3 DEF CallTypes, Calls, Cards, Clock, Agents, Doubts
<1>7. made' \in 0 .. MaxCalls BY <1>1, <1>3
<1>8. TypeOK'
  BY <1>2, <1>6, <1>7 DEF Inv, TypeOK, RunTypes, CardTypes, CardRows, RecordTypes, DoubtTypes, words, records,
     doubts, Doubts, Entries, Agents, Cards, Clock
<1>9. CallInvariant'
  <2>1. ASSUME NEW j \in DOMAIN calls PROVE Waits(calls[j])'
    <3>1. Waits(calls[j]) /\ calls'[j] = calls[j] BY <1>5, <2>1 DEF Inv, CallInvariant
    <3>. QED BY <1>2, <3>1 DEF Waits
  <2>2. ASSUME NEW j \in DOMAIN es PROVE Waits(calls[j])' BY <1>2, <1>3, <1>4, <1>5 DEF Waits
  <2>3. \A j \in DOMAIN calls' : Waits(calls[j])' BY <1>5, <2>1, <2>2
  <2>. QED BY <2>3 DEF CallInvariant
<1>10. \A d : \A j \in DOMAIN calls : StandsFor(j, d) => StandsFor(j, d)' BY <1>5 DEF StandsFor
<1>11. IdleInvariant' /\ CardInvariant' /\ FenceInvariant'
  BY <1>2, <1>3 DEF Inv, IdleInvariant, CardInvariant, FenceInvariant, Knows, Cards, records, doubts
<1>12. WordsInvariant'
  <2>1. unwritten => a # Main BY DEF List
  <2>2. ASSUME unwritten, NEW j \in DOMAIN calls', calls'[j].agent = Main PROVE calls'[j].phase \in Settled
    <3>1. j \in DOMAIN calls /\ calls'[j] = calls[j] BY <1>4, <1>5, <2>1, <2>2
    <3>. QED BY <2>2, <3>1 DEF Inv, WordsInvariant
  <2>. QED BY <1>2, <2>2 DEF Inv, WordsInvariant, words, doubts, Settled
<1>13. SettledInvariant'
  <2>1. ASSUME NEW j \in DOMAIN calls', calls'[j].phase = "complete" PROVE j \in DOMAIN calls /\ calls'[j] = calls[j]
    BY <1>4, <1>5, <2>1
  <2>2. ASSUME NEW d, (\E j \in DOMAIN calls : StandsFor(j, d)) PROVE \E j \in DOMAIN calls' : StandsFor(j, d)'
    BY <1>5, <1>10, <2>2
  <2>. QED BY <1>2, <2>1, <2>2 DEF Inv, SettledInvariant, doubts
<1>14. RecordInvariant'
  <2>2. ASSUME NEW d, (\E j \in DOMAIN calls : StandsFor(j, d)) PROVE \E j \in DOMAIN calls' : StandsFor(j, d)'
    BY <1>5, <1>10, <2>2
  <2>. QED BY <1>2, <2>2 DEF Inv, RecordInvariant, Knows, OnRecord, records, doubts
<1>. QED BY <1>8, <1>9, <1>11, <1>12, <1>13, <1>14 DEF Inv

\* Forgetting an agent's calls disturbs neither what the others wait for, nor what they settled.
LEMMA ForgetStep ==
  ASSUME Inv, NEW a \in Agents, Forget(a),
         UNCHANGED <<carded, clock, run, turn, words, made, approvals>>
  PROVE  /\ CallTypes' /\ CallInvariant' /\ CardInvariant' /\ CardTypes'
         /\ DOMAIN calls' = DOMAIN calls \ CallsOf(a)
         /\ \A j \in DOMAIN calls' : calls'[j] = calls[j] /\ calls[j].agent # a
         /\ \A d : \A j \in DOMAIN calls : StandsFor(j, d) /\ d.agent # a => StandsFor(j, d)'
<1>1. /\ CallTypes' /\ DOMAIN calls' = DOMAIN calls \ CallsOf(a)
      /\ \A j \in DOMAIN calls' : calls'[j] = calls[j] /\ calls[j].agent # a
  BY Forgotten DEF Inv, TypeOK
<1>2. CallInvariant'
  <2>1. ASSUME NEW j \in DOMAIN calls' PROVE Waits(calls[j])'
    <3>1. Waits(calls[j]) /\ calls'[j] = calls[j] BY <1>1, <2>1 DEF Inv, CallInvariant
    <3>. QED BY <3>1 DEF Waits, approvals
  <2>. QED BY <2>1 DEF CallInvariant
<1>3. CardInvariant' /\ CardTypes'
  BY DEF Inv, TypeOK, CardInvariant, CardTypes, CardRows, Cards, Agents, approvals
<1>4. \A d : \A j \in DOMAIN calls : StandsFor(j, d) /\ d.agent # a => StandsFor(j, d)'
  BY <1>1 DEF StandsFor, CallsOf
<1>. QED BY <1>1, <1>2, <1>3, <1>4

\* The results of a batch are recorded: a doubt a call of it stood for is on record from
\* then on, and a completion only clears what it settled.
LEMMA SaveStep ==
  ASSUME Inv, NEW a \in Agents, Save(a)
  PROVE  Inv'
<1>1. UNCHANGED <<carded, clock, run, turn, words, made, approvals, open, fence, doubts>> /\ Forget(a)
  BY DEF Save, CallUnchanged
<1>2. /\ CallTypes' /\ CallInvariant' /\ CardInvariant' /\ CardTypes'
      /\ DOMAIN calls' = DOMAIN calls \ CallsOf(a)
      /\ \A j \in DOMAIN calls' : calls'[j] = calls[j] /\ calls[j].agent # a
      /\ \A d : \A j \in DOMAIN calls : StandsFor(j, d) /\ d.agent # a => StandsFor(j, d)'
  BY <1>1, ForgetStep
<1>3. /\ \A e \in Effects : ledger'[a][e] = Recorded(a, e)
      /\ \A b \in Agents : b # a => ledger'[b] = ledger[b]
      /\ ledger' \in [Agents -> [Effects -> Entries]]
  <2>1. ledger \in [Agents -> [Effects -> Entries]] BY DEF Inv, TypeOK, RecordTypes
  <2>2. \A e \in Effects : Recorded(a, e) \in Entries BY BatchRecords DEF Inv, TypeOK
  <2>3. ledger' = [ledger EXCEPT ![a] = [e \in Effects |-> Recorded(a, e)]] BY DEF Save
  <2>. QED BY <2>1, <2>2, <2>3
<1>4. TypeOK'
  <2>1. RecordTypes' BY <1>1, <1>3 DEF Inv, TypeOK, RecordTypes, Agents, Entries
  <2>. QED BY <1>1, <1>2, <2>1 DEF Inv, TypeOK, RunTypes, DoubtTypes, words, doubts, approvals,
              Doubts, Agents, Cards, Clock
<1>5. run.live /\ clock \in Nat
  <2>1. CallsOf(a) # {} BY DEF Save, Answered
  <2>. QED BY <2>1, BoundsAssumption DEF CallsOf, Inv, IdleInvariant, TypeOK, RunTypes, Clock
<1>6. IdleInvariant' /\ FenceInvariant' BY <1>1, <1>5 DEF Inv, IdleInvariant, FenceInvariant, Knows, doubts
<1>7. WordsInvariant' BY <1>1, <1>2 DEF Inv, WordsInvariant, words, doubts
<1>8. SettledInvariant'
  <2>1. ASSUME NEW j \in DOMAIN calls', calls'[j].phase = "complete", NEW d \in doubt',
               d.agent = calls'[j].agent, d.effect = calls'[j].effect
        PROVE  \E n \in DOMAIN calls' : StandsFor(n, d)'
    <3>1. j \in DOMAIN calls /\ calls'[j] = calls[j] /\ d \in doubt /\ d.agent # a BY <1>1, <1>2, <2>1 DEF doubts
    <3>2. PICK n \in DOMAIN calls : StandsFor(n, d) BY <2>1, <3>1 DEF Inv, SettledInvariant
    <3>3. StandsFor(n, d)' BY <1>2, <3>1, <3>2
    <3>. QED BY <3>3 DEF StandsFor
  <2>2. ASSUME NEW j \in DOMAIN calls', calls'[j].phase = "complete", NEW d \in lost'
        PROVE  ~(d.agent = calls'[j].agent /\ d.effect = calls'[j].effect)
    BY <1>1, <1>2, <2>2 DEF Inv, SettledInvariant, doubts
  <2>. QED BY <2>1, <2>2 DEF SettledInvariant
<1>9. ASSUME NEW b \in Agents, NEW e \in Effects
      PROVE  /\ OnRecord(b, e) \in Entries /\ OnRecord(b, e)' \in Entries
             /\ b # a => OnRecord(b, e)' = OnRecord(b, e)
  <2>1. OnRecord(b, e)' = CutOff(ledger'[b], open[b])[e] BY <1>1 DEF OnRecord
  <2>2. ledger'[b] \in [Effects -> Entries] /\ open[b] \in [Effects -> 0 .. MaxClock]
    BY <1>3 DEF Inv, TypeOK, RecordTypes
  <2>3. OnRecord(b, e)' \in Entries BY <2>1, <2>2, CutOffHolds
  <2>. QED BY <1>3, <2>1, <2>3, RecordHolds DEF OnRecord, Inv, TypeOK
<1>10. ASSUME NEW d \in doubt \cup lost, d.agent = a,
              (\E j \in DOMAIN calls : StandsFor(j, d)) \/ Knows(OnRecord(d.agent, d.effect), d),
              \A j \in CallsOf(a) : calls[j].effect = d.effect /\ calls[j].phase = "complete" =>
                \E n \in CallsOf(a) : calls[n].effect = d.effect /\ calls[n].phase = "unknown"
       PROVE  Knows(OnRecord(d.agent, d.effect)', d)
  <2>. DEFINE e == d.effect
  <2>1. d \in Doubts /\ e \in Effects BY DEF Inv, TypeOK, DoubtTypes, Doubts
  <2>2. ledger[a] \in [Effects -> Entries] /\ ledger'[a] \in [Effects -> Entries]
        /\ open[a] \in [Effects -> 0 .. MaxClock]
    BY <1>3 DEF Inv, TypeOK, RecordTypes
  <2>3. OnRecord(a, e) = CutOff(ledger[a], open[a])[e] /\ OnRecord(a, e)' = CutOff(ledger'[a], open[a])[e]
    BY <1>1 DEF OnRecord
  <2>4. ledger'[a][e] = Recorded(a, e) BY <1>3, <2>1
  <2>5. OnRecord(a, e) \in Entries /\ OnRecord(a, e)' \in Entries BY <1>9, <2>1
  <2>6. CASE \E j \in DOMAIN calls : StandsFor(j, d)
    <3>1. PICK j \in DOMAIN calls : StandsFor(j, d) BY <2>6
    <3>2. j \in CallsOf(a) /\ calls[j].effect = e /\ calls[j].phase = "unknown" /\ calls[j].at >= d.at
      BY <1>10, <3>1 DEF StandsFor, CallsOf
    <3>3. Recorded(a, e).at >= clock /\ ~Recorded(a, e).spoke
      BY <2>1, <3>2, BatchRecords DEF Inv, TypeOK
    <3>4. calls[j].at <= clock /\ calls[j] \in Calls
      BY <3>1 DEF Inv, CallInvariant, Waits, TypeOK, CallTypes
    <3>5. /\ ledger'[a][e].at <= OnRecord(a, e)'.at
          /\ open[a][e] > 0 => ~OnRecord(a, e)'.spoke
          /\ open[a][e] = 0 => OnRecord(a, e)' = ledger'[a][e]
      BY <2>1, <2>2, <2>3, CutOffHolds
    <3>6. /\ d.at \in Nat /\ calls[j].at \in Nat /\ ledger'[a][e].at \in Nat /\ OnRecord(a, e)'.at \in Nat
          /\ open[a][e] \in Nat
      BY <2>1, <2>2, <2>5, <3>4, BoundsAssumption DEF Doubts, Calls, Entries, Clock
    <3>7. OnRecord(a, e)'.at >= d.at BY <1>5, <2>4, <3>2, <3>3, <3>4, <3>5, <3>6
    <3>8. ~OnRecord(a, e)'.spoke BY <2>4, <3>3, <3>5, <3>6
    <3>. HIDE DEF e
    <3>9. d.effect = e BY DEF e
    <3>. QED BY <1>10, <3>7, <3>8, <3>9 DEF Knows, OnRecord
  <2>7. CASE Knows(OnRecord(d.agent, d.effect), d)
    <3>1. Recorded(a, e).at >= ledger[a][e].at /\ (Recorded(a, e).spoke => ledger[a][e].spoke)
      BY <1>10, <2>1, BatchIsLater DEF Inv, TypeOK
    <3>2. open[a][e] <= open[a][e] /\ ledger[a][e].at <= ledger'[a][e].at
      BY <2>1, <2>2, <2>4, <3>1, BoundsAssumption DEF Entries
    <3>3. /\ OnRecord(a, e).at <= OnRecord(a, e)'.at
          /\ OnRecord(a, e)'.spoke => OnRecord(a, e).spoke
      BY <2>1, <2>2, <2>3, <2>4, <3>1, <3>2, CutOffGrows
    <3>4. PICK y \in Entries : y = OnRecord(a, e)' BY <2>5
    <3>5. y.at >= OnRecord(a, e).at
      BY <2>5, <3>3, <3>4, BoundsAssumption DEF Entries
    <3>6. Knows(y, d) BY <1>10, <2>1, <2>5, <2>7, <3>3, <3>4, <3>5, StillKnows
    <3>. QED BY <1>10, <3>4, <3>6 DEF Knows
  <2>. QED BY <1>10, <2>6, <2>7
<1>11. ASSUME NEW d \in doubt \cup lost,
              (\E j \in DOMAIN calls : StandsFor(j, d)) \/ Knows(OnRecord(d.agent, d.effect), d)
       PROVE  (\E j \in DOMAIN calls' : StandsFor(j, d)') \/ Knows(OnRecord(d.agent, d.effect)', d)
  <2>1. d.agent \in Agents /\ d.effect \in Effects BY DEF Inv, TypeOK, DoubtTypes, Doubts
  <2>2. CASE d.agent = a
    <3>1. ASSUME NEW j \in CallsOf(a), calls[j].effect = d.effect, calls[j].phase = "complete"
          PROVE  \E n \in CallsOf(a) : calls[n].effect = d.effect /\ calls[n].phase = "unknown"
      <4>1. j \in DOMAIN calls /\ calls[j].agent = a BY DEF CallsOf
      <4>2. d \notin lost BY <2>2, <3>1, <4>1 DEF Inv, SettledInvariant
      <4>3. PICK n \in DOMAIN calls : StandsFor(n, d)
        BY <2>2, <3>1, <4>1, <4>2 DEF Inv, SettledInvariant
      <4>. QED BY <2>2, <4>3 DEF StandsFor, CallsOf
    <3>2. Knows(OnRecord(d.agent, d.effect)', d) BY <1>10, <1>11, <2>2, <3>1
    <3>. QED BY <3>2
  <2>3. CASE d.agent # a
    <3>1. CASE \E j \in DOMAIN calls : StandsFor(j, d)
      <4>1. PICK j \in DOMAIN calls : StandsFor(j, d) BY <3>1
      <4>2. StandsFor(j, d)' BY <1>2, <2>3, <4>1
      <4>. QED BY <4>2 DEF StandsFor
    <3>2. CASE Knows(OnRecord(d.agent, d.effect), d)
      <4>1. OnRecord(d.agent, d.effect)' = OnRecord(d.agent, d.effect) BY <1>9, <2>1, <2>3
      <4>. QED BY <3>2, <4>1 DEF Knows
    <3>. QED BY <1>11, <3>1, <3>2
  <2>. QED BY <2>2, <2>3
<1>12. RecordInvariant'
  <2>1. \A d \in doubt' : (\E j \in DOMAIN calls' : StandsFor(j, d)') \/ Knows(OnRecord(d.agent, d.effect)', d)
    BY <1>1, <1>11 DEF Inv, RecordInvariant, doubts
  <2>2. ASSUME NEW d \in lost' PROVE Knows(OnRecord(d.agent, d.effect)', d)
    <3>1. d \in lost /\ d.agent \in Agents /\ d.effect \in Effects /\ Knows(OnRecord(d.agent, d.effect), d)
      BY <1>1 DEF Inv, RecordInvariant, doubts, TypeOK, DoubtTypes, Doubts
    <3>2. CASE d.agent = a
      <4>1. ASSUME NEW j \in CallsOf(a), calls[j].effect = d.effect, calls[j].phase = "complete" PROVE FALSE
        BY <3>1, <3>2, <4>1 DEF CallsOf, Inv, SettledInvariant
      <4>. QED BY <1>10, <3>1, <3>2, <4>1
    <3>3. CASE d.agent # a
      <4>1. OnRecord(d.agent, d.effect)' = OnRecord(d.agent, d.effect) BY <1>9, <3>1, <3>3
      <4>. QED BY <3>1, <4>1 DEF Knows
    <3>. QED BY <3>2, <3>3
  <2>. QED BY <2>1, <2>2 DEF RecordInvariant, Knows
<1>. QED BY <1>2, <1>4, <1>6, <1>7, <1>8, <1>12 DEF Inv

\* What the calls of a run leave without a result is held back by their last attempt, and
\* what was on record before still is.
LEMMA LeftKnows ==
  ASSUME Inv, NEW d \in Doubts,
         \/ \E j \in DOMAIN calls : StandsFor(j, d)
         \/ Knows(OnRecord(d.agent, d.effect), d)
         \/ d.at <= Left(d.agent)[d.effect]
  PROVE  Knows(CutOff(ledger[d.agent], Left(d.agent))[d.effect], d)
<1>. DEFINE a == d.agent
            e == d.effect
            cut == CutOff(ledger[a], Left(a))[e]
<1>1. a \in Agents /\ e \in Effects /\ d.at \in Nat /\ d.at > 0 BY BoundsAssumption DEF Doubts, Clock
<1>2. /\ Left(a) \in [Effects -> 0 .. MaxClock]
      /\ \A f \in Effects : open[a][f] <= Left(a)[f]
      /\ \A i \in DOMAIN calls : calls[i].agent = a =>
           (calls[i].phase # "running" => calls[i].at <= Left(a)[calls[i].effect])
  BY <1>1, LeftIsLatest DEF Inv, TypeOK
<1>3. ledger[a] \in [Effects -> Entries] /\ open[a] \in [Effects -> 0 .. MaxClock]
  BY <1>1 DEF Inv, TypeOK, RecordTypes
<1>4. cut \in Entries /\ Left(a)[e] <= cut.at /\ (Left(a)[e] > 0 => ~cut.spoke)
  BY <1>1, <1>2, <1>3, CutOffHolds
<1>5. Left(a)[e] \in Nat /\ cut.at \in Nat BY <1>1, <1>2, <1>4, BoundsAssumption DEF Entries
<1>6. CASE d.at <= Left(a)[e]
  <2>1. cut.at >= d.at /\ ~cut.spoke BY <1>1, <1>4, <1>5, <1>6
  <2>. QED BY <2>1 DEF Knows
<1>7. CASE \E j \in DOMAIN calls : StandsFor(j, d)
  <2>1. PICK j \in DOMAIN calls : StandsFor(j, d) BY <1>7
  <2>2. calls[j].at <= Left(a)[e] /\ d.at <= calls[j].at /\ calls[j] \in Calls
    BY <1>2, <2>1 DEF StandsFor, Inv, TypeOK, CallTypes
  <2>3. calls[j].at \in Nat BY <2>2, BoundsAssumption DEF Calls, Clock
  <2>4. d.at <= Left(a)[e] BY <1>1, <1>5, <2>2, <2>3
  <2>. QED BY <1>6, <2>4
<1>8. CASE Knows(OnRecord(a, e), d)
  <2>1. OnRecord(a, e) = CutOff(ledger[a], open[a])[e] /\ OnRecord(a, e) \in Entries
    BY <1>1, <1>3, CutOffHolds DEF OnRecord
  <2>2. ledger[a][e].at <= ledger[a][e].at BY <1>1, <1>3, BoundsAssumption DEF Entries
  <2>3. OnRecord(a, e).at <= cut.at /\ (cut.spoke => OnRecord(a, e).spoke)
    BY <1>1, <1>2, <1>3, <2>1, <2>2, CutOffGrows
  <2>4. cut.at >= OnRecord(a, e).at BY <1>5, <2>1, <2>3, BoundsAssumption DEF Entries
  <2>. HIDE DEF cut
  <2>. QED BY <1>4, <1>8, <2>1, <2>3, <2>4, StillKnows DEF cut
<1>. QED BY <1>6, <1>7, <1>8

\* The results of a batch that are not written leave a gap, which holds back what they were.
LEMMA LoseStep ==
  ASSUME Inv, NEW a \in Agents, Lose(a)
  PROVE  Inv'
<1>. DEFINE Gone(i) == [Doubt(calls[i], calls[i].at) EXCEPT !.read = a = Main /\ unwritten]
            gone == {Gone(i) : i \in {j \in CallsOf(a) : calls[j].phase = "complete"}}
<1>1. UNCHANGED <<carded, clock, run, turn, words, made, approvals, ledger, fence, doubt>> /\ Forget(a)
  BY DEF Lose, CallUnchanged
<1>2. /\ CallTypes' /\ CallInvariant' /\ CardInvariant' /\ CardTypes'
      /\ DOMAIN calls' = DOMAIN calls \ CallsOf(a)
      /\ \A j \in DOMAIN calls' : calls'[j] = calls[j] /\ calls[j].agent # a
      /\ \A d : \A j \in DOMAIN calls : StandsFor(j, d) /\ d.agent # a => StandsFor(j, d)'
  BY <1>1, ForgetStep
<1>3. /\ Left(a) \in [Effects -> 0 .. MaxClock]
      /\ \A e \in Effects : open[a][e] <= Left(a)[e]
      /\ \A i \in DOMAIN calls : calls[i].agent = a =>
           /\ calls[i].phase # "running" => calls[i].at <= Left(a)[calls[i].effect]
           /\ calls[i].phase = "running" => clock <= Left(a)[calls[i].effect]
  BY LeftIsLatest DEF Inv, TypeOK
<1>4. /\ open' \in [Agents -> [Effects -> 0 .. MaxClock]]
      /\ open'[a] = Left(a) /\ \A b \in Agents : b # a => open'[b] = open[b]
  <2>1. open \in [Agents -> [Effects -> 0 .. MaxClock]] /\ open' = [open EXCEPT ![a] = Left(a)]
    BY DEF Lose, Inv, TypeOK, RecordTypes
  <2>. QED BY <1>3, <2>1
<1>5. ASSUME NEW i \in CallsOf(a)
      PROVE  /\ Gone(i) \in Doubts
             /\ Gone(i).agent = a /\ Gone(i).effect = calls[i].effect /\ Gone(i).at = calls[i].at
             /\ a = Main /\ unwritten => Gone(i).read
  <2>1. calls[i] \in Calls /\ calls[i].agent = a BY DEF CallsOf, Inv, TypeOK, CallTypes
  <2>. DEFINE d == Doubt(calls[i], calls[i].at)
              read == a = Main /\ unwritten
  <2>2. d \in Doubts /\ d.agent = a /\ d.effect = calls[i].effect /\ d.at = calls[i].at
    BY <2>1 DEF Doubt, Doubts, Calls
  <2>3. read \in BOOLEAN /\ (a = Main /\ unwritten => read = TRUE) OBVIOUS
  <2>4. Gone(i) = [d EXCEPT !.read = read] OBVIOUS
  <2>. HIDE DEF d, read, Gone
  <2>5. Gone(i).read = read BY <2>2, <2>4 DEF Doubts
  <2>. QED BY <2>2, <2>3, <2>4, <2>5 DEF Doubts
<1>6. lost' = lost \cup gone /\ gone \subseteq Doubts
  <2>1. lost' = lost \cup gone BY DEF Lose
  <2>. HIDE DEF Gone
  <2>. QED BY <1>5, <2>1
<1>. HIDE DEF Gone
<1>7. ASSUME NEW d \in gone
      PROVE  /\ d.agent = a /\ (a = Main /\ unwritten => d.read)
             /\ \E i \in CallsOf(a) : calls[i].phase = "complete" /\ d.effect = calls[i].effect /\ d.at = calls[i].at
  BY <1>5
<1>. HIDE DEF gone
<1>8. TypeOK'
  <2>1. RecordTypes' BY <1>1, <1>4 DEF Inv, TypeOK, RecordTypes, Agents, Entries
  <2>2. DoubtTypes' BY <1>1, <1>6 DEF Inv, TypeOK, DoubtTypes, Doubts, Agents, Clock
  <2>. QED BY <1>1, <1>2, <2>1, <2>2 DEF Inv, TypeOK, RunTypes, words, approvals, Agents, Cards, Clock
<1>9. run.live /\ clock \in Nat
  <2>1. CallsOf(a) # {} BY DEF Lose, Answered
  <2>. QED BY <2>1, BoundsAssumption DEF CallsOf, Inv, IdleInvariant, TypeOK, RunTypes, Clock
<1>10. IdleInvariant' /\ FenceInvariant' BY <1>1, <1>9 DEF Inv, IdleInvariant, FenceInvariant, Knows
<1>11. WordsInvariant'
  <2>1. ASSUME unwritten, NEW d \in doubt' \cup lost', d.agent = Main PROVE d.read
    <3>1. d \in doubt \cup lost \/ d \in gone BY <1>1, <1>6
    <3>. QED BY <1>7, <2>1, <3>1 DEF Inv, WordsInvariant
  <2>. QED BY <1>1, <1>2, <2>1 DEF Inv, WordsInvariant, words
<1>12. SettledInvariant'
  <2>1. ASSUME NEW j \in DOMAIN calls', calls'[j].phase = "complete", NEW d \in doubt',
               d.agent = calls'[j].agent, d.effect = calls'[j].effect
        PROVE  \E n \in DOMAIN calls' : StandsFor(n, d)'
    <3>1. j \in DOMAIN calls /\ calls'[j] = calls[j] /\ d \in doubt /\ d.agent # a BY <1>1, <1>2, <2>1
    <3>2. PICK n \in DOMAIN calls : StandsFor(n, d) BY <2>1, <3>1 DEF Inv, SettledInvariant
    <3>3. StandsFor(n, d)' BY <1>2, <3>1, <3>2
    <3>. QED BY <3>3 DEF StandsFor
  <2>2. ASSUME NEW j \in DOMAIN calls', calls'[j].phase = "complete", NEW d \in lost'
        PROVE  ~(d.agent = calls'[j].agent /\ d.effect = calls'[j].effect)
    <3>1. j \in DOMAIN calls /\ calls'[j] = calls[j] /\ calls[j].agent # a BY <1>2
    <3>2. CASE d \in lost BY <2>2, <3>1, <3>2 DEF Inv, SettledInvariant
    <3>3. CASE d \in gone BY <1>7, <3>1, <3>3
    <3>. QED BY <1>6, <3>2, <3>3
  <2>. QED BY <2>1, <2>2 DEF SettledInvariant
<1>13. ASSUME NEW d \in Doubts, d.agent = a,
              \/ \E j \in DOMAIN calls : StandsFor(j, d)
              \/ Knows(OnRecord(d.agent, d.effect), d)
              \/ d.at <= Left(d.agent)[d.effect]
       PROVE  Knows(OnRecord(d.agent, d.effect)', d)
  <2>1. Knows(CutOff(ledger[d.agent], Left(d.agent))[d.effect], d) BY <1>13, LeftKnows
  <2>2. OnRecord(d.agent, d.effect)' = CutOff(ledger[d.agent], Left(d.agent))[d.effect]
    BY <1>1, <1>4, <1>13 DEF OnRecord
  <2>. QED BY <2>1, <2>2 DEF Knows
<1>14. ASSUME NEW d \in doubt \cup lost,
              (\E j \in DOMAIN calls : StandsFor(j, d)) \/ Knows(OnRecord(d.agent, d.effect), d)
       PROVE  (\E j \in DOMAIN calls' : StandsFor(j, d)' /\ d.agent # a) \/ Knows(OnRecord(d.agent, d.effect)', d)
  <2>1. d \in Doubts /\ d.agent \in Agents /\ d.effect \in Effects BY DEF Inv, TypeOK, DoubtTypes, Doubts
  <2>2. CASE d.agent = a BY <1>13, <1>14, <2>1, <2>2
  <2>3. CASE d.agent # a
    <3>1. CASE \E j \in DOMAIN calls : StandsFor(j, d)
      <4>1. PICK j \in DOMAIN calls : StandsFor(j, d) BY <3>1
      <4>2. StandsFor(j, d)' BY <1>2, <2>3, <4>1
      <4>. QED BY <2>3, <4>2 DEF StandsFor
    <3>2. CASE Knows(OnRecord(d.agent, d.effect), d)
      <4>1. OnRecord(d.agent, d.effect)' = OnRecord(d.agent, d.effect) BY <1>1, <1>4, <2>1, <2>3 DEF OnRecord
      <4>. QED BY <3>2, <4>1 DEF Knows
    <3>. QED BY <1>14, <3>1, <3>2
  <2>. QED BY <2>2, <2>3
<1>15. RecordInvariant'
  <2>1. \A d \in doubt' : (\E j \in DOMAIN calls' : StandsFor(j, d)') \/ Knows(OnRecord(d.agent, d.effect)', d)
    BY <1>1, <1>14 DEF Inv, RecordInvariant
  <2>2. ASSUME NEW d \in lost PROVE Knows(OnRecord(d.agent, d.effect)', d)
    <3>1. Knows(OnRecord(d.agent, d.effect), d) BY DEF Inv, RecordInvariant
    <3>2. d.agent # a => OnRecord(d.agent, d.effect)' = OnRecord(d.agent, d.effect)
      BY <1>1, <1>4 DEF OnRecord, Inv, TypeOK, DoubtTypes, Doubts
    <3>3. CASE d.agent # a BY <3>1, <3>2, <3>3 DEF Knows
    <3>4. CASE d.agent = a BY <1>14, <3>1, <3>4
    <3>. QED BY <3>3, <3>4
  <2>3. ASSUME NEW d \in gone PROVE Knows(OnRecord(d.agent, d.effect)', d)
    <3>1. PICK i \in CallsOf(a) : calls[i].phase = "complete" /\ d.effect = calls[i].effect /\ d.at = calls[i].at
      BY <1>7
    <3>2. i \in DOMAIN calls /\ calls[i].agent = a /\ d \in Doubts /\ d.agent = a BY <1>6, <1>7 DEF CallsOf
    <3>3. d.at <= Left(d.agent)[d.effect] BY <1>3, <3>1, <3>2
    <3>. QED BY <1>13, <3>2, <3>3
  <2>4. \A d \in lost' : Knows(OnRecord(d.agent, d.effect)', d) BY <1>6, <2>2, <2>3
  <2>. QED BY <2>1, <2>4 DEF RecordInvariant, Knows
<1>. QED BY <1>2, <1>8, <1>10, <1>11, <1>12, <1>15 DEF Inv

-----------------------------------------------------------------------------
(* Steps of the user.                                                                *)

\* The user decides, or a decision expires.
LEMMA DecideStep ==
  ASSUME Inv, NEW k \in Cards, NEW decision \in {"once", "server", "deny"}, Decide(k, decision)
  PROVE  Inv'
<1>. DEFINE row == [cards[k] EXCEPT !.state = decision, !.at = clock]
<1>1. cards[k] \in CardRows /\ cards[k].state = "pending" /\ clock \in Clock /\ clock \in Nat
  BY BoundsAssumption DEF Inv, TypeOK, CardTypes, RunTypes, Clock, Decide
<1>2. row \in CardRows /\ row.sends = cards[k].sends /\ row.used = cards[k].used
  <2>1. row \in CardRows BY <1>1, CardIsTyped
  <2>. QED BY <1>1, <2>1 DEF CardRows
<1>3. cards' = [cards EXCEPT ![k] = row]
  <2>1. cards' = [cards EXCEPT ![k].state = decision, ![k].at = clock] BY DEF Decide
  <2>2. cards \in [Cards -> CardRows] BY DEF Inv, TypeOK, CardTypes
  <2>. QED BY <1>1, <2>1, <2>2
<1>. HIDE DEF row
<1>4. row.sends <= 1 /\ (~row.used => row.sends = 0) /\ CardTypes /\ CardInvariant
  BY <1>2 DEF Inv, TypeOK, CardInvariant
<1>5. CardTypes' /\ CardInvariant' /\ DecisionsStay BY <1>1, <1>2, <1>3, <1>4, CardReplaced
<1>6. UNCHANGED <<carded, clock, run, turn, calls, records, words, doubts, made>> /\ consent' \in BOOLEAN
  BY DEF Decide
<1>. QED BY <1>1, <1>5, <1>6, QuietStep

LEMMA ExpireStep ==
  ASSUME Inv, NEW k \in Cards, Expire(k)
  PROVE  Inv'
<1>. DEFINE row == [cards[k] EXCEPT !.expired = TRUE]
<1>1. cards[k] \in CardRows /\ clock \in Clock /\ clock \in Nat
  BY BoundsAssumption DEF Inv, TypeOK, CardTypes, RunTypes, Clock
<1>2. /\ row \in CardRows /\ row.sends = cards[k].sends /\ row.used = cards[k].used
      /\ row.state = cards[k].state /\ row.at = cards[k].at
  BY ZenonT(30), <1>1, CardIsTyped DEF CardRows
<1>3. cards' = [cards EXCEPT ![k] = row]
  <2>1. cards' = [cards EXCEPT ![k].expired = TRUE] BY DEF Expire
  <2>2. cards \in [Cards -> CardRows] BY DEF Inv, TypeOK, CardTypes
  <2>. QED BY <2>1, <2>2
<1>. HIDE DEF row
<1>4. row.sends <= 1 /\ (~row.used => row.sends = 0) /\ CardTypes /\ CardInvariant
  BY <1>2 DEF Inv, TypeOK, CardInvariant
<1>5. CardTypes' /\ CardInvariant' /\ DecisionsStay BY <1>2, <1>3, <1>4, CardReplaced
<1>6. UNCHANGED <<carded, clock, run, turn, calls, records, consent, words, doubts, made>> BY DEF Expire
<1>7. consent' \in BOOLEAN BY <1>6 DEF Inv, TypeOK, RunTypes
<1>. QED BY <1>1, <1>5, <1>6, <1>7, QuietStep

\* Time passes.
LEMMA TickStep ==
  ASSUME Inv, Tick
  PROVE  Inv'
<1>1. clock \in Nat /\ MaxClock \in Nat /\ 1 <= clock /\ clock < MaxClock /\ clock' = clock + 1
  BY BoundsAssumption DEF Inv, TypeOK, RunTypes, Clock, Tick
<1>2. clock' \in Clock /\ clock' >= clock BY <1>1 DEF Clock
<1>3. UNCHANGED <<carded, run, turn, calls, records, cards, consent, words, doubts, made>> BY DEF Tick, approvals
<1>4. CardTypes' /\ CardInvariant' /\ DecisionsStay /\ consent' \in BOOLEAN
  BY <1>3 DEF Inv, TypeOK, RunTypes, CardTypes, CardRows, Cards, Agents, CardInvariant, DecisionsStay
<1>. QED BY <1>2, <1>3, <1>4, QuietStep

\* The user writes into the run: what is in doubt stays so.
LEMMA PostFollowupStep ==
  ASSUME Inv, PostFollowup
  PROVE  Inv'
<1>1. /\ UNCHANGED <<carded, clock, run, turn, calls, records, approvals, readers, unwritten, made>>
      /\ posted' = TRUE /\ doubt' = Written(doubt) /\ lost' = Written(lost) /\ run.live
  BY DEF PostFollowup
<1>2. /\ doubt' \subseteq Doubts /\ lost' \subseteq Doubts
      /\ \A d \in doubt' : \E o \in doubt : /\ d.agent = o.agent /\ d.effect = o.effect
                                            /\ d.at = o.at /\ d.read = o.read
      /\ \A d \in lost' : \E o \in lost : /\ d.agent = o.agent /\ d.effect = o.effect
                                          /\ d.at = o.at /\ d.read = o.read
  BY <1>1, WordsKeepDoubts DEF Inv, TypeOK, DoubtTypes
<1>3. TypeOK'
  BY <1>1, <1>2 DEF Inv, TypeOK, RunTypes, CallTypes, RecordTypes, CardTypes, DoubtTypes, CardRows, records,
     approvals, Calls, Doubts, Entries, Agents, Cards, Clock
<1>4. CallInvariant' /\ CardInvariant' /\ IdleInvariant'
  BY <1>1 DEF Inv, CallInvariant, Waits, CardInvariant, IdleInvariant, Cards, records, approvals
<1>5. \A j, d, o : d.agent = o.agent /\ d.effect = o.effect /\ d.at = o.at /\ StandsFor(j, o) => StandsFor(j, d)'
  BY <1>1 DEF StandsFor
<1>6. \A x, d, o : d.at = o.at /\ d.read = o.read /\ Knows(x, o) => Knows(x, d) BY DEF Knows
<1>7. FenceInvariant' BY <1>1, <1>2 DEF Inv, FenceInvariant, Knows, records
<1>8. SettledInvariant'
  <2>1. ASSUME NEW j \in DOMAIN calls, calls[j].phase = "complete", NEW d \in doubt',
               d.agent = calls[j].agent, d.effect = calls[j].effect
        PROVE  \E n \in DOMAIN calls : StandsFor(n, d)'
    <3>1. PICK o \in doubt : d.agent = o.agent /\ d.effect = o.effect /\ d.at = o.at BY <1>2
    <3>2. PICK n \in DOMAIN calls : StandsFor(n, o) BY <2>1, <3>1 DEF Inv, SettledInvariant
    <3>. QED BY <1>5, <3>1, <3>2
  <2>2. ASSUME NEW j \in DOMAIN calls, calls[j].phase = "complete", NEW d \in lost'
        PROVE  ~(d.agent = calls[j].agent /\ d.effect = calls[j].effect)
    BY <1>2, <2>2 DEF Inv, SettledInvariant
  <2>. QED BY <1>1, <2>1, <2>2 DEF SettledInvariant
<1>9. RecordInvariant'
  <2>1. ASSUME NEW d \in doubt'
        PROVE  (\E j \in DOMAIN calls : StandsFor(j, d)') \/ Knows(OnRecord(d.agent, d.effect), d)
    <3>1. PICK o \in doubt : d.agent = o.agent /\ d.effect = o.effect /\ d.at = o.at /\ d.read = o.read BY <1>2
    <3>. QED BY <1>5, <1>6, <3>1 DEF Inv, RecordInvariant
  <2>2. ASSUME NEW d \in lost' PROVE Knows(OnRecord(d.agent, d.effect), d)
    <3>1. PICK o \in lost : d.agent = o.agent /\ d.effect = o.effect /\ d.at = o.at /\ d.read = o.read BY <1>2
    <3>. QED BY <1>6, <3>1 DEF Inv, RecordInvariant
  <2>. QED BY <1>1, <2>1, <2>2 DEF RecordInvariant, Knows, OnRecord, records
<1>10. WordsInvariant' BY <1>1, <1>2 DEF Inv, WordsInvariant
<1>. QED BY <1>3, <1>4, <1>7, <1>8, <1>9, <1>10 DEF Inv

\* An agent reads the user's words: every fence is released, and every doubt was read.
LEMMA DeliverStep ==
  ASSUME Inv, NEW a \in Agents, Deliver(a)
  PROVE  Inv'
<1>1. /\ UNCHANGED <<carded, clock, run, turn, calls, ledger, open, approvals, posted, made>>
      /\ readers' = readers \cup {a} /\ unwritten' = (unwritten \/ a = Main)
      /\ fence' = [b \in Agents |-> Spoken(fence[b])]
      /\ doubt' = Read(doubt) /\ lost' = Read(lost) /\ run.live
      /\ \A i \in CallsOf(a) : calls[i].phase \in Settled
  BY DEF Deliver
<1>2. /\ doubt' \subseteq Doubts /\ lost' \subseteq Doubts
      /\ \A d \in doubt' : d.read /\ \E o \in doubt : d.agent = o.agent /\ d.effect = o.effect /\ d.at = o.at
      /\ \A d \in lost' : d.read /\ \E o \in lost : d.agent = o.agent /\ d.effect = o.effect /\ d.at = o.at
  BY <1>1, WordsKeepDoubts DEF Inv, TypeOK, DoubtTypes
<1>3. /\ fence' \in [Agents -> [Effects -> Entries]]
      /\ \A b \in Agents, e \in Effects : fence'[b][e].at = fence[b][e].at
  <2>1. \A b \in Agents : fence[b] \in [Effects -> Entries] BY DEF Inv, TypeOK, RecordTypes
  <2>2. \A b \in Agents : /\ Spoken(fence[b]) \in [Effects -> Entries]
                          /\ \A e \in Effects : Spoken(fence[b])[e].at = fence[b][e].at
    BY <2>1, SpokenKeepsStamps
  <2>. QED BY <1>1, <2>2
<1>4. TypeOK'
  BY <1>1, <1>2, <1>3 DEF Inv, TypeOK, RunTypes, CallTypes, RecordTypes, CardTypes, DoubtTypes, CardRows,
     approvals, Calls, Doubts, Entries, Agents, Cards, Clock
<1>5. CallInvariant' /\ CardInvariant' /\ IdleInvariant'
  BY <1>1 DEF Inv, CallInvariant, Waits, CardInvariant, IdleInvariant, Cards, approvals
<1>6. \A j, d, o : d.agent = o.agent /\ d.effect = o.effect /\ d.at = o.at /\ StandsFor(j, o) => StandsFor(j, d)'
  BY <1>1 DEF StandsFor
<1>7. \A x, d, o : d.at = o.at /\ d.read /\ Knows(x, o) => Knows(x, d) BY DEF Knows
<1>8. FenceInvariant'
  <2>1. ASSUME NEW d \in doubt' PROVE fence'[d.agent][d.effect].at >= d.at /\ d.read
    <3>1. PICK o \in doubt : d.agent = o.agent /\ d.effect = o.effect /\ d.at = o.at BY <1>2
    <3>2. fence[o.agent][o.effect].at >= o.at BY <1>1 DEF Inv, FenceInvariant, Knows
    <3>3. d.agent \in Agents /\ d.effect \in Effects BY <1>2 DEF Doubts
    <3>. QED BY <1>2, <1>3, <3>1, <3>2, <3>3
  <2>. QED BY <2>1 DEF FenceInvariant, Knows
<1>9. SettledInvariant'
  <2>1. ASSUME NEW j \in DOMAIN calls, calls[j].phase = "complete", NEW d \in doubt',
               d.agent = calls[j].agent, d.effect = calls[j].effect
        PROVE  \E n \in DOMAIN calls : StandsFor(n, d)'
    <3>1. PICK o \in doubt : d.agent = o.agent /\ d.effect = o.effect /\ d.at = o.at BY <1>2
    <3>2. PICK n \in DOMAIN calls : StandsFor(n, o) BY <2>1, <3>1 DEF Inv, SettledInvariant
    <3>. QED BY <1>6, <3>1, <3>2
  <2>2. ASSUME NEW j \in DOMAIN calls, calls[j].phase = "complete", NEW d \in lost'
        PROVE  ~(d.agent = calls[j].agent /\ d.effect = calls[j].effect)
    BY <1>2, <2>2 DEF Inv, SettledInvariant
  <2>. QED BY <1>1, <2>1, <2>2 DEF SettledInvariant
<1>10. RecordInvariant'
  <2>1. ASSUME NEW d \in doubt'
        PROVE  (\E j \in DOMAIN calls : StandsFor(j, d)') \/ Knows(OnRecord(d.agent, d.effect), d)
    <3>1. PICK o \in doubt : d.agent = o.agent /\ d.effect = o.effect /\ d.at = o.at BY <1>2
    <3>. QED BY <1>2, <1>6, <1>7, <3>1 DEF Inv, RecordInvariant
  <2>2. ASSUME NEW d \in lost' PROVE Knows(OnRecord(d.agent, d.effect), d)
    <3>1. PICK o \in lost : d.agent = o.agent /\ d.effect = o.effect /\ d.at = o.at BY <1>2
    <3>. QED BY <1>2, <1>7, <3>1 DEF Inv, RecordInvariant
  <2>. QED BY <1>1, <2>1, <2>2 DEF RecordInvariant, Knows, OnRecord
<1>11. WordsInvariant'
  <2>1. \A d \in doubt' \cup lost' : d.read BY <1>2
  <2>2. ASSUME unwritten', NEW i \in DOMAIN calls, calls[i].agent = Main PROVE calls[i].phase \in Settled
    <3>1. CASE unwritten BY <2>2, <3>1 DEF Inv, WordsInvariant
    <3>2. CASE a = Main
      <4>1. i \in CallsOf(a) BY <2>2, <3>2 DEF CallsOf
      <4>. QED BY <1>1, <4>1
    <3>. QED BY <1>1, <2>2, <3>1, <3>2
  <2>. QED BY <1>1, <2>1, <2>2 DEF WordsInvariant, Settled
<1>. QED BY <1>4, <1>5, <1>8, <1>9, <1>10, <1>11 DEF Inv

\* The main agent's record of the user's words: its doubts, all on record, are all read.
LEMMA WriteFollowupStep ==
  ASSUME Inv, WriteFollowup
  PROVE  Inv'
<1>1. /\ UNCHANGED <<carded, clock, run, turn, calls, fence, approvals, posted, readers, doubts, made>>
      /\ unwritten /\ ~unwritten' /\ unwritten' = FALSE /\ CallsOf(Main) = {}
  BY DEF WriteFollowup
<1>2. CardInvariant' /\ CallInvariant' /\ FenceInvariant' /\ WordsInvariant' /\ SettledInvariant'
  BY <1>1 DEF Inv, CallInvariant, Waits, CardInvariant, FenceInvariant, WordsInvariant, SettledInvariant, Knows,
     StandsFor, Cards, approvals, doubts
<1>3. run.live BY <1>1 DEF Inv, IdleInvariant
<1>4. IdleInvariant' BY <1>1, <1>3 DEF IdleInvariant
<1>. DEFINE cut == CutOff(ledger[Main], open[Main])
<1>5. CASE UNCHANGED <<ledger, open>>
  <2>1. TypeOK'
    BY ZenonT(30), <1>1, <1>5 DEF Inv, TypeOK, RunTypes, CallTypes, RecordTypes, CardTypes, DoubtTypes, CardRows,
       approvals, doubts, Calls, Doubts, Entries, Agents, Cards, Clock
  <2>2. RecordInvariant' BY <1>1, <1>5 DEF Inv, RecordInvariant, StandsFor, Knows, OnRecord, doubts
  <2>. QED BY <1>2, <1>4, <2>1, <2>2 DEF Inv
<1>6. CASE /\ ledger' = [ledger EXCEPT ![Main] = Spoken(CutOff(@, open[Main]))]
           /\ open' = [open EXCEPT ![Main] = None]
  <2>1. /\ ledger \in [Agents -> [Effects -> Entries]] /\ open \in [Agents -> [Effects -> 0 .. MaxClock]]
        /\ Main \in Agents /\ None \in [Effects -> 0 .. MaxClock]
    BY BoundsAssumption DEF Inv, TypeOK, RecordTypes, Agents, None
  <2>2. cut \in [Effects -> Entries] BY <2>1, CutOffHolds
  <2>3. /\ Spoken(cut) \in [Effects -> Entries]
        /\ \A e \in Effects : Spoken(cut)[e].at = cut[e].at
    BY <2>2, SpokenKeepsStamps
  <2>. HIDE DEF cut
  <2>4. ledger' = [ledger EXCEPT ![Main] = Spoken(cut)] BY <1>6, <2>1 DEF cut
  <2>5. /\ ledger' \in [Agents -> [Effects -> Entries]] /\ open' \in [Agents -> [Effects -> 0 .. MaxClock]]
        /\ ledger'[Main] = Spoken(cut) /\ open'[Main] = None
        /\ \A b \in Agents : b # Main => ledger'[b] = ledger[b] /\ open'[b] = open[b]
    BY <1>6, <2>1, <2>3, <2>4
  <2>6. TypeOK'
    BY ZenonT(30), <1>1, <2>5 DEF Inv, TypeOK, RunTypes, CallTypes, RecordTypes, CardTypes, DoubtTypes, CardRows,
       approvals, doubts, Calls, Doubts, Entries, Agents, Cards, Clock
  <2>7. ASSUME NEW e \in Effects PROVE OnRecord(Main, e)'.at = OnRecord(Main, e).at
    <3>1. OnRecord(Main, e) = cut[e] BY DEF OnRecord, cut
    <3>2. OnRecord(Main, e)' = CutOff(Spoken(cut), None)[e] BY <2>5 DEF OnRecord
    <3>3. None[e] = 0 BY DEF None
    <3>4. CutOff(Spoken(cut), None)[e] = Spoken(cut)[e] BY <2>1, <2>3, <3>3, CutOffHolds
    <3>. QED BY <2>3, <3>1, <3>2, <3>4
  <2>8. ASSUME NEW d \in doubt \cup lost, Knows(OnRecord(d.agent, d.effect), d)
        PROVE  Knows(OnRecord(d.agent, d.effect)', d)
    <3>1. d.agent \in Agents /\ d.effect \in Effects BY DEF Inv, TypeOK, DoubtTypes, Doubts
    <3>2. CASE d.agent = Main
      <4>1. d.read BY <1>1, <3>2 DEF Inv, WordsInvariant
      <4>2. OnRecord(d.agent, d.effect)'.at = OnRecord(d.agent, d.effect).at BY <2>7, <3>1, <3>2
      <4>. QED BY <2>8, <4>1, <4>2 DEF Knows
    <3>3. CASE d.agent # Main
      <4>1. OnRecord(d.agent, d.effect)' = OnRecord(d.agent, d.effect) BY <2>5, <3>1, <3>3 DEF OnRecord
      <4>. QED BY <2>8, <4>1 DEF Knows
    <3>. QED BY <3>2, <3>3
  <2>9. RecordInvariant'
    <3>1. \A d \in doubt : (\E j \in DOMAIN calls : StandsFor(j, d)) \/ Knows(OnRecord(d.agent, d.effect)', d)
      BY <2>8 DEF Inv, RecordInvariant
    <3>2. \A d \in lost : Knows(OnRecord(d.agent, d.effect)', d) BY <2>8 DEF Inv, RecordInvariant
    <3>. QED BY <1>1, <3>1, <3>2 DEF RecordInvariant, StandsFor, Knows, doubts
  <2>. QED BY <1>2, <1>4, <2>6, <2>9 DEF Inv
<1>. QED BY <1>5, <1>6 DEF WriteFollowup

-----------------------------------------------------------------------------
(* Steps of runs.                                                                    *)

\* Between two runs, what the next one loads of every agent is what is on record, and it
\* knows of every doubt.
LEMMA AtRest ==
  ASSUME Inv, ~run.live
  PROVE  /\ \A a \in Agents : /\ Loaded[a] \in [Effects -> Entries]
                              /\ \A e \in Effects : Loaded[a][e] = OnRecord(a, e)
         /\ \A d \in doubt : Knows(Loaded[d.agent][d.effect], d) /\ Knows(OnRecord(d.agent, d.effect), d)
<1>1. /\ ledger \in [Agents -> [Effects -> Entries]] /\ open \in [Agents -> [Effects -> 0 .. MaxClock]]
      /\ Main \in Agents
  BY DEF Inv, TypeOK, RecordTypes, Agents
<1>2. ASSUME NEW a \in Agents
      PROVE  Loaded[a] \in [Effects -> Entries] /\ \A e \in Effects : Loaded[a][e] = OnRecord(a, e)
  <2>1. CASE a = Main
    <3>1. Loaded[a] = CutOff(ledger[a], open[a]) BY <1>1, <2>1 DEF Loaded
    <3>. QED BY <1>1, <3>1, CutOffHolds DEF OnRecord
  <2>2. CASE a # Main
    <3>1. Loaded[a] = ledger[a] BY <2>2 DEF Loaded
    <3>2. a \in Threads BY <2>2 DEF Agents
    <3>3. open[a] = None BY <3>2 DEF Inv, IdleInvariant
    <3>4. \A e \in Effects : open[a][e] = 0 BY <3>3 DEF None
    <3>. QED BY <1>1, <3>1, <3>4, CutOffHolds DEF OnRecord
  <2>. QED BY <2>1, <2>2
<1>3. ASSUME NEW d \in doubt PROVE Knows(Loaded[d.agent][d.effect], d) /\ Knows(OnRecord(d.agent, d.effect), d)
  <2>1. d.agent \in Agents /\ d.effect \in Effects BY DEF Inv, TypeOK, DoubtTypes, Doubts
  <2>2. Knows(OnRecord(d.agent, d.effect), d)
    BY DEF Inv, RecordInvariant, IdleInvariant, StandsFor
  <2>. QED BY <1>2, <2>1, <2>2
<1>. QED BY <1>2, <1>3

\* A run begins with calls that were not checked, and fences that know of every doubt.
LEMMA BeginStep ==
  ASSUME Inv, NEW named \in Cards \cup {NoCard}, Admit(named), turn' \in 0 .. MaxRuns, made' \in 0 .. MaxCalls,
         CallTypes', \A i \in DOMAIN calls' : calls'[i].phase = "listed" /\ calls'[i].at = clock,
         RecordTypes', doubt' \subseteq Doubts, lost' = lost,
         \A d \in doubt' : Knows(fence'[d.agent][d.effect], d) /\ Knows(OnRecord(d.agent, d.effect)', d)
  PROVE  Inv'
<1>1. /\ run' = [n |-> run.n + 1, live |-> TRUE, named |-> named, always |-> consent]
      /\ UNCHANGED <<carded, clock, cards, consent, words>> /\ ~run.live /\ run.n < MaxRuns
  BY DEF Admit, approvals
<1>2. run' \in [n : 0 .. MaxRuns, live : BOOLEAN, named : Cards \cup {NoCard}, always : BOOLEAN]
  <2>1. run.n + 1 \in 0 .. MaxRuns BY <1>1, BoundsAssumption DEF Inv, TypeOK, RunTypes
  <2>. QED BY <1>1, <2>1 DEF Inv, TypeOK, RunTypes
<1>3. TypeOK'
  BY <1>1, <1>2 DEF Inv, TypeOK, RunTypes, CardTypes, CardRows, DoubtTypes, words, Doubts, Agents, Cards, Clock
<1>4. lost' = {} /\ ~unwritten' BY <1>1 DEF Inv, IdleInvariant, words
<1>5. IdleInvariant' /\ CardInvariant' BY <1>1 DEF Inv, IdleInvariant, CardInvariant, Cards
<1>6. CallInvariant'
  <2>1. clock \in Nat BY BoundsAssumption DEF Inv, TypeOK, RunTypes, Clock
  <2>. QED BY <1>1, <2>1 DEF CallInvariant, Waits
<1>7. FenceInvariant' BY DEF FenceInvariant, Knows
<1>8. SettledInvariant' BY DEF SettledInvariant
<1>9. RecordInvariant' BY <1>4 DEF RecordInvariant, Knows
<1>10. WordsInvariant' BY <1>4 DEF WordsInvariant
<1>. QED BY <1>3, <1>5, <1>6, <1>7, <1>8, <1>9, <1>10 DEF Inv

\* A message of the user is them speaking since every doubt.
LEMMA StartUserRunStep ==
  ASSUME Inv, StartUserRun
  PROVE  Inv'
<1>1. /\ Admit(NoCard) /\ turn' = run.n + 1 /\ lost' = lost /\ UNCHANGED <<calls, made>>
      /\ fence' = [a \in Agents |-> Spoken(Loaded[a])]
      /\ ledger' = [ledger EXCEPT ![Main] = Spoken(Loaded[Main])]
      /\ open' = [open EXCEPT ![Main] = None]
      /\ doubt' = Read(Written(doubt))
  BY DEF StartUserRun
<1>2. ~run.live /\ run.n < MaxRuns /\ run.n \in 0 .. MaxRuns /\ MaxRuns \in Nat /\ clock' = clock
  BY <1>1, BoundsAssumption DEF Admit, Inv, TypeOK, RunTypes
<1>3. turn' \in 0 .. MaxRuns /\ made' \in 0 .. MaxCalls BY <1>1, <1>2 DEF Inv, TypeOK, RunTypes
<1>4. DOMAIN calls = {} BY <1>2 DEF Inv, IdleInvariant
<1>5. CallTypes' /\ \A i \in DOMAIN calls' : calls'[i].phase = "listed" /\ calls'[i].at = clock
  BY <1>1, <1>4 DEF Inv, TypeOK, CallTypes
<1>6. /\ doubt' \subseteq Doubts
      /\ \A d \in doubt' : d.read /\ \E o \in doubt : d.agent = o.agent /\ d.effect = o.effect /\ d.at = o.at
  <2>1. doubt \subseteq Doubts BY DEF Inv, TypeOK, DoubtTypes
  <2>2. PICK w : w = Written(doubt) OBVIOUS
  <2>3. w \subseteq Doubts BY <2>1, <2>2, WordsKeepDoubts
  <2>4. /\ Read(w) \subseteq Doubts
        /\ \A d \in Read(w) : d.read /\ \E o \in w : d.agent = o.agent /\ d.effect = o.effect /\ d.at = o.at
    BY <2>3, WordsKeepDoubts
  <2>5. \A d \in w : \E o \in doubt : d.agent = o.agent /\ d.effect = o.effect /\ d.at = o.at
    BY <2>1, <2>2, WordsKeepDoubts
  <2>. QED BY <1>1, <2>2, <2>4, <2>5
<1>7. /\ ledger \in [Agents -> [Effects -> Entries]] /\ open \in [Agents -> [Effects -> 0 .. MaxClock]]
      /\ Main \in Agents /\ None \in [Effects -> 0 .. MaxClock] /\ \A e \in Effects : None[e] = 0
  BY BoundsAssumption DEF Inv, TypeOK, RecordTypes, Agents, None
<1>8. /\ \A a \in Agents : /\ Loaded[a] \in [Effects -> Entries]
                           /\ \A e \in Effects : Loaded[a][e] = OnRecord(a, e)
      /\ \A d \in doubt : Knows(OnRecord(d.agent, d.effect), d)
  BY <1>2, AtRest
<1>9. ASSUME NEW a \in Agents
      PROVE  /\ Spoken(Loaded[a]) \in [Effects -> Entries]
             /\ \A e \in Effects : Spoken(Loaded[a])[e].at = OnRecord(a, e).at
  BY <1>8, SpokenKeepsStamps
<1>10. RecordTypes'
  <2>1. fence' \in [Agents -> [Effects -> Entries]] BY <1>1, <1>9
  <2>2. Spoken(Loaded[Main]) \in [Effects -> Entries] BY <1>7, <1>9
  <2>3. ledger' \in [Agents -> [Effects -> Entries]] BY <1>1, <1>7, <2>2
  <2>4. open' \in [Agents -> [Effects -> 0 .. MaxClock]] BY <1>1, <1>7
  <2>. QED BY <2>1, <2>3, <2>4 DEF RecordTypes, Agents, Entries
<1>11. ASSUME NEW a \in Agents, NEW e \in Effects PROVE OnRecord(a, e)'.at = OnRecord(a, e).at
  <2>1. CASE a = Main
    <3>1. ledger'[a] = Spoken(Loaded[Main]) /\ open'[a] = None BY <1>1, <1>7, <2>1
    <3>2. OnRecord(a, e)' = CutOff(Spoken(Loaded[a]), None)[e] BY <2>1, <3>1 DEF OnRecord
    <3>3. CutOff(Spoken(Loaded[a]), None)[e] = Spoken(Loaded[a])[e] BY <1>7, <1>9, CutOffHolds
    <3>. QED BY <1>9, <3>2, <3>3
  <2>2. CASE a # Main
    <3>1. ledger'[a] = ledger[a] /\ open'[a] = open[a] BY <1>1, <1>7, <2>2
    <3>. QED BY <3>1 DEF OnRecord
  <2>. QED BY <2>1, <2>2
<1>12. ASSUME NEW d \in doubt' PROVE Knows(fence'[d.agent][d.effect], d) /\ Knows(OnRecord(d.agent, d.effect)', d)
  <2>1. PICK o \in doubt : d.agent = o.agent /\ d.effect = o.effect /\ d.at = o.at BY <1>6
  <2>2. d.agent \in Agents /\ d.effect \in Effects /\ d.read BY <1>6 DEF Doubts
  <2>3. OnRecord(d.agent, d.effect).at >= d.at BY <1>8, <2>1 DEF Knows
  <2>4. fence'[d.agent][d.effect].at = OnRecord(d.agent, d.effect).at BY <1>1, <1>9, <2>2
  <2>5. OnRecord(d.agent, d.effect)'.at = OnRecord(d.agent, d.effect).at BY <1>11, <2>2
  <2>. QED BY <2>2, <2>3, <2>4, <2>5 DEF Knows
<1>. QED BY <1>1, <1>3, <1>5, <1>6, <1>10, <1>12, BeginStep

\* A run that begins without the user's words loads what is on record.
LEMMA LoadedStep ==
  ASSUME Inv, NEW named \in Cards \cup {NoCard}, Admit(named), turn' \in 0 .. MaxRuns, made' \in 0 .. MaxCalls,
         CallTypes', \A i \in DOMAIN calls' : calls'[i].phase = "listed" /\ calls'[i].at = clock,
         fence' = Loaded, UNCHANGED <<ledger, open, doubts>>
  PROVE  Inv'
<1>1. ~run.live BY DEF Admit
<1>2. /\ \A a \in Agents : Loaded[a] \in [Effects -> Entries]
      /\ \A d \in doubt : Knows(Loaded[d.agent][d.effect], d) /\ Knows(OnRecord(d.agent, d.effect), d)
  BY <1>1, AtRest
<1>3. RecordTypes'
  <2>1. fence' \in [Agents -> [Effects -> Entries]] BY <1>2 DEF Loaded
  <2>. QED BY <2>1 DEF Inv, TypeOK, RecordTypes, Agents, Entries
<1>4. doubt' = doubt /\ lost' = lost /\ doubt \subseteq Doubts BY DEF doubts, Inv, TypeOK, DoubtTypes
<1>5. ASSUME NEW d \in doubt' PROVE Knows(fence'[d.agent][d.effect], d) /\ Knows(OnRecord(d.agent, d.effect)', d)
  <2>1. OnRecord(d.agent, d.effect)' = OnRecord(d.agent, d.effect) BY DEF OnRecord
  <2>. QED BY <1>2, <1>4, <2>1
<1>. QED BY <1>3, <1>4, <1>5, BeginStep

LEMMA StartServerRunStep ==
  ASSUME Inv, StartServerRun
  PROVE  Inv'
<1>1. Admit(NoCard) /\ turn' = run.n + 1 /\ fence' = Loaded /\ UNCHANGED <<calls, ledger, open, doubts, made>>
  BY DEF StartServerRun
<1>2. ~run.live /\ run.n < MaxRuns /\ run.n \in 0 .. MaxRuns /\ MaxRuns \in Nat
  BY <1>1, BoundsAssumption DEF Admit, Inv, TypeOK, RunTypes
<1>3. turn' \in 0 .. MaxRuns /\ made' \in 0 .. MaxCalls BY <1>1, <1>2 DEF Inv, TypeOK, RunTypes
<1>4. CallTypes' /\ \A i \in DOMAIN calls' : calls'[i].phase = "listed" /\ calls'[i].at = clock
  BY <1>1, <1>2 DEF Inv, TypeOK, CallTypes, IdleInvariant
<1>. QED BY <1>1, <1>3, <1>4, LoadedStep

\* A run that continues a decision may begin with the call it allows.
LEMMA ContinueStep ==
  ASSUME Inv, NEW k \in Cards, Continue(k)
  PROVE  Inv'
<1>1. /\ Admit(k) /\ fence' = Loaded /\ UNCHANGED <<ledger, open, doubts>>
      /\ \/ /\ made < MaxCalls /\ made' = made + 1 /\ turn' = turn
            /\ calls' = [i \in {made + 1} |-> NewCall(Main, k[2])]
         \/ turn' = run.n + 1 /\ calls' = calls /\ made' = made
  BY DEF Continue
<1>2. /\ ~run.live /\ run.n < MaxRuns /\ run.n \in 0 .. MaxRuns /\ MaxRuns \in Nat /\ clock' = clock
      /\ made \in 0 .. MaxCalls /\ MaxCalls \in Nat /\ turn \in 0 .. MaxRuns
  BY <1>1, BoundsAssumption DEF Admit, Inv, TypeOK, RunTypes
<1>3. turn' \in 0 .. MaxRuns /\ made' \in 0 .. MaxCalls BY <1>1, <1>2
<1>4. CallTypes' /\ \A i \in DOMAIN calls' : calls'[i].phase = "listed" /\ calls'[i].at = clock
  <2>1. CASE calls' = calls /\ made' = made
    BY <1>2, <2>1 DEF Inv, TypeOK, CallTypes, IdleInvariant
  <2>2. CASE made' = made + 1 /\ calls' = [i \in {made + 1} |-> NewCall(Main, k[2])]
    <3>1. k[2] \in Effects /\ Main \in Agents BY DEF Cards, Agents
    <3>2. NewCall(Main, k[2]) \in Calls BY <3>1, NewIsTyped DEF Inv, TypeOK
    <3>3. NewCall(Main, k[2]).phase = "listed" /\ NewCall(Main, k[2]).at = clock BY DEF NewCall
    <3>4. DOMAIN calls' = {made + 1} /\ calls'[made + 1] = NewCall(Main, k[2]) BY <2>2
    <3>5. DOMAIN calls' \subseteq 1 .. made' BY <1>2, <2>2, <3>4
    <3>6. calls' = [i \in DOMAIN calls' |-> calls'[i]] BY <2>2
    <3>7. \A i \in DOMAIN calls' : calls'[i] \in Calls BY <3>2, <3>4
    <3>8. CallTypes' BY <3>5, <3>6, <3>7 DEF CallTypes, Calls, Cards, Clock, Agents, Doubts
    <3>. QED BY <3>3, <3>4, <3>8
  <2>. QED BY <1>1, <2>1, <2>2
<1>. QED BY <1>1, <1>3, <1>4, LoadedStep

\* A run that ends leaves what it sent and did not record in doubt, and on record as such.
LEMMA EndRunStep ==
  ASSUME Inv, EndRun
  PROVE  Inv'
<1>. DEFINE Cut(i) == Doubt(calls[i], clock)
            Gone(i) == Doubt(calls[i], calls[i].at)
            running == {Cut(i) : i \in {j \in DOMAIN calls : calls[j].phase = "running"}}
            gone == {Gone(i) : i \in {j \in DOMAIN calls : calls[j].phase = "complete"}}
<1>1. /\ run' = [run EXCEPT !.live = FALSE, !.named = NoCard]
      /\ fence' = [a \in Agents |-> Empty]
      /\ doubt' = doubt \cup lost \cup running \cup gone
      /\ lost' = {} /\ calls' = NoCalls /\ posted' = FALSE /\ readers' = {} /\ unwritten' = FALSE
      /\ UNCHANGED <<carded, clock, turn, cards, consent, made>>
  BY DEF EndRun, approvals
<1>2. /\ ledger' = [a \in Agents |-> IF a = Main THEN ledger[Main] ELSE CutOff(ledger[a], Left(a))]
      /\ open' = [a \in Agents |-> IF a = Main THEN Left(Main) ELSE None]
  BY DEF EndRun
<1>3. run' \in [n : 0 .. MaxRuns, live : BOOLEAN, named : Cards \cup {NoCard}, always : BOOLEAN] /\ ~run'.live
  BY <1>1 DEF Inv, TypeOK, RunTypes
<1>4. DOMAIN calls' = {} /\ calls' = [i \in {} |-> NoCard] BY <1>1 DEF NoCalls
<1>5. CallTypes' BY <1>4 DEF CallTypes
<1>6. ASSUME NEW a \in Agents
      PROVE  /\ Left(a) \in [Effects -> 0 .. MaxClock]
             /\ ledger[a] \in [Effects -> Entries]
             /\ CutOff(ledger[a], Left(a)) \in [Effects -> Entries]
  <2>1. Left(a) \in [Effects -> 0 .. MaxClock] BY LeftIsLatest DEF Inv, TypeOK
  <2>2. ledger[a] \in [Effects -> Entries] BY DEF Inv, TypeOK, RecordTypes
  <2>. QED BY <2>1, <2>2, CutOffHolds
<1>7. None \in [Effects -> 0 .. MaxClock] /\ (\A e \in Effects : None[e] = 0) /\ Empty \in [Effects -> Entries]
      /\ Main \in Agents
  BY BoundsAssumption DEF None, Empty, Clear, Entries, Agents
<1>8. RecordTypes'
  <2>1. fence' \in [Agents -> [Effects -> Entries]] BY <1>1, <1>7
  <2>2. ledger' \in [Agents -> [Effects -> Entries]] BY <1>2, <1>6, <1>7
  <2>3. open' \in [Agents -> [Effects -> 0 .. MaxClock]] BY <1>2, <1>6, <1>7
  <2>. QED BY <2>1, <2>2, <2>3 DEF RecordTypes, Agents, Entries
<1>9. ASSUME NEW i \in DOMAIN calls
      PROVE  /\ Cut(i) \in Doubts /\ Cut(i).agent = calls[i].agent /\ Cut(i).effect = calls[i].effect
             /\ Cut(i).at = clock
             /\ Gone(i) \in Doubts /\ Gone(i).agent = calls[i].agent /\ Gone(i).effect = calls[i].effect
             /\ Gone(i).at = calls[i].at
  <2>1. calls[i] \in Calls /\ clock \in Clock BY DEF Inv, TypeOK, CallTypes, RunTypes
  <2>. QED BY <2>1 DEF Doubt, Doubts, Calls
<1>. HIDE DEF Cut, Gone
<1>10. doubt' \subseteq Doubts
  <2>1. running \subseteq Doubts /\ gone \subseteq Doubts BY <1>9
  <2>2. doubt \subseteq Doubts /\ lost \subseteq Doubts BY DEF Inv, TypeOK, DoubtTypes
  <2>. HIDE DEF running, gone
  <2>. QED BY <1>1, <2>1, <2>2
<1>11. TypeOK'
  BY <1>1, <1>3, <1>5, <1>8, <1>10 DEF Inv, TypeOK, RunTypes, CardTypes, CardRows, DoubtTypes,
     Doubts, Agents, Cards, Clock
<1>12. ASSUME NEW d \in doubt'
       PROVE  \/ \E j \in DOMAIN calls : StandsFor(j, d)
              \/ Knows(OnRecord(d.agent, d.effect), d)
              \/ d.at <= Left(d.agent)[d.effect]
  <2>1. ASSUME NEW i \in DOMAIN calls
        PROVE  /\ calls[i].phase = "running" => clock <= Left(calls[i].agent)[calls[i].effect]
               /\ calls[i].phase = "complete" => calls[i].at <= Left(calls[i].agent)[calls[i].effect]
    <3>1. calls[i].agent \in Agents BY DEF Inv, TypeOK, CallTypes, Calls
    <3>. QED BY <3>1, LeftIsLatest DEF Inv, TypeOK
  <2>2. CASE d \in doubt \cup lost BY <2>2 DEF Inv, RecordInvariant
  <2>3. CASE d \in running BY <1>9, <2>1, <2>3
  <2>4. CASE d \in gone BY <1>9, <2>1, <2>4
  <2>. HIDE DEF running, gone
  <2>. QED BY <1>1, <2>2, <2>3, <2>4
<1>13. ASSUME NEW a \in Agents, NEW e \in Effects
       PROVE  OnRecord(a, e)' = CutOff(ledger[a], Left(a))[e]
  <2>1. CASE a = Main
    <3>1. ledger'[a] = ledger[a] /\ open'[a] = Left(a) BY <1>2, <2>1
    <3>. QED BY <3>1 DEF OnRecord
  <2>2. CASE a # Main
    <3>1. ledger'[a] = CutOff(ledger[a], Left(a)) /\ open'[a] = None BY <1>2, <2>2
    <3>2. OnRecord(a, e)' = CutOff(CutOff(ledger[a], Left(a)), None)[e] BY <3>1 DEF OnRecord
    <3>. QED BY <1>6, <1>7, <3>2, CutOffHolds
  <2>. QED BY <2>1, <2>2
<1>14. RecordInvariant'
  <2>1. ASSUME NEW d \in doubt' PROVE Knows(OnRecord(d.agent, d.effect)', d)
    <3>1. d \in Doubts /\ d.agent \in Agents /\ d.effect \in Effects BY <1>10 DEF Doubts
    <3>2. Knows(CutOff(ledger[d.agent], Left(d.agent))[d.effect], d) BY <1>12, <3>1, LeftKnows
    <3>3. OnRecord(d.agent, d.effect)' = CutOff(ledger[d.agent], Left(d.agent))[d.effect] BY <1>13, <3>1
    <3>. QED BY <3>2, <3>3 DEF Knows
  <2>. QED BY <1>1, <2>1 DEF RecordInvariant, Knows
<1>15. IdleInvariant'
  <2>1. \A a \in Threads : open'[a] = None BY <1>2, AgentsAssumption DEF Agents
  <2>. QED BY <1>1, <1>4, <2>1 DEF IdleInvariant, None
<1>16. CardInvariant' /\ CallInvariant' /\ FenceInvariant' /\ SettledInvariant' /\ WordsInvariant'
  BY <1>1, <1>3, <1>4 DEF Inv, CardInvariant, CallInvariant, FenceInvariant, SettledInvariant, WordsInvariant, Cards
<1>. QED BY <1>11, <1>14, <1>15, <1>16 DEF Inv

-----------------------------------------------------------------------------
(* The invariant, and what follows from it.                                          *)

LEMMA InitInv == Init => Inv
<1>. SUFFICES ASSUME Init PROVE Inv OBVIOUS
<1>1. /\ 1 \in Clock /\ 0 \in 0 .. MaxRuns /\ 0 \in 0 .. MaxCalls /\ 0 \in 0 .. MaxClock
      /\ Main \in Agents /\ MaxCalls \in Nat
  BY BoundsAssumption DEF Clock, Agents
<1>2. RunTypes BY <1>1 DEF Init, RunTypes
<1>3. DOMAIN calls = {} /\ calls = [i \in {} |-> NoCard] BY DEF Init, NoCalls
<1>4. CallTypes BY <1>3 DEF CallTypes
<1>5. RecordTypes
  <2>1. Empty \in [Effects -> Entries] /\ None \in [Effects -> 0 .. MaxClock]
    BY <1>1 DEF Empty, Clear, None, Entries
  <2>. QED BY <2>1 DEF Init, RecordTypes
<1>6. CardTypes
  <2>. DEFINE row == [state |-> "none", at |-> 0, asker |-> Main, used |-> FALSE, expired |-> FALSE, sends |-> 0]
  <2>1. row \in CardRows BY <1>1 DEF CardRows
  <2>. HIDE DEF row
  <2>. QED BY <2>1 DEF Init, CardTypes, row
<1>7. DoubtTypes BY DEF Init, DoubtTypes
<1>8. IdleInvariant BY <1>3, AgentsAssumption DEF Init, IdleInvariant, Agents
<1>9. CardInvariant BY DEF Init, CardInvariant
<1>10. CallInvariant /\ FenceInvariant /\ SettledInvariant /\ WordsInvariant /\ RecordInvariant
  BY <1>3 DEF Init, CallInvariant, FenceInvariant, SettledInvariant, WordsInvariant, RecordInvariant
<1>. QED BY <1>2, <1>4, <1>5, <1>6, <1>7, <1>8, <1>9, <1>10 DEF Inv, TypeOK

\* Nothing happens to the branch.
LEMMA StutterStep ==
  ASSUME Inv, UNCHANGED vars
  PROVE  Inv'
<1>1. clock' \in Clock /\ clock' >= clock /\ consent' \in BOOLEAN
  BY BoundsAssumption DEF vars, Inv, TypeOK, RunTypes, Clock
<1>2. UNCHANGED <<carded, run, turn, calls, records, cards, words, doubts, made>>
  BY DEF vars, records, words, doubts
<1>3. CardTypes' /\ CardInvariant' /\ DecisionsStay
  BY <1>2 DEF Inv, TypeOK, CardTypes, CardRows, Cards, Agents, CardInvariant, DecisionsStay
<1>. QED BY <1>1, <1>2, <1>3, QuietStep

LEMMA NextInv == Inv /\ [Next]_vars => Inv'
<1>. SUFFICES ASSUME Inv, [Next]_vars PROVE Inv' OBVIOUS
<1>1. CASE Tick BY <1>1, TickStep
<1>2. CASE StartUserRun BY <1>2, StartUserRunStep
<1>3. CASE StartServerRun BY <1>3, StartServerRunStep
<1>4. CASE EndRun BY <1>4, EndRunStep
<1>5. CASE PostFollowup BY <1>5, PostFollowupStep
<1>6. CASE WriteFollowup BY <1>6, WriteFollowupStep
<1>7. CASE \E a \in Agents : List(a) \/ Save(a) \/ Lose(a) \/ Deliver(a)
  BY <1>7, ListStep, SaveStep, LoseStep, DeliverStep
<1>8. CASE \E i \in DOMAIN calls : CallNext(i)
  BY <1>8, CheckStep, PreviewStep, DispatchStep, DispatchApprovedStep, GateStep, SettleStep DEF CallNext
<1>9. CASE \E k \in Cards : \/ Continue(k) \/ Expire(k)
                            \/ \E decision \in {"once", "server", "deny"} : Decide(k, decision)
  BY <1>9, ContinueStep, ExpireStep, DecideStep
<1>10. CASE UNCHANGED vars BY <1>10, StutterStep
<1>. QED BY <1>1, <1>2, <1>3, <1>4, <1>5, <1>6, <1>7, <1>8, <1>9, <1>10 DEF Next

\* The invariant holds of every branch, however its runs are cut off and continued.
THEOREM InvariantHolds == Spec => []Inv
<1>1. Init => Inv BY InitInv
<1>2. Inv /\ [Next]_vars => Inv' BY NextInv
<1>. QED BY <1>1, <1>2, PTL DEF Spec

\* Every variable keeps its type.
THEOREM TypesHold == Spec => []TypeOK
<1>1. Inv => TypeOK BY DEF Inv
<1>. QED BY <1>1, InvariantHolds, PTL

\* A call equivalent to one in doubt is sent only on a newer decision of the user about
\* this very call, taken in another run, or, of a tool without a card, after the user's
\* words reached the chat (the fences of the run, and the claim of an approval).
THEOREM NothingRepeatedUnasked == Spec => []NothingInDoubtIsRepeatedUnasked
<1>1. Inv => NothingInDoubtIsRepeatedUnasked
  <2>. SUFFICES ASSUME Inv, NEW c \in Range(calls), c.phase = "running", c.saw # {}
                PROVE  IF c.effect \in carded
                         THEN /\ c.card # NoCard /\ c.card[2] = c.effect /\ c.card[1] # run.n
                              /\ \A d \in c.saw : d.at < cards[c.card].at
                         ELSE \A d \in c.saw : d.read
    BY DEF NothingInDoubtIsRepeatedUnasked
  <2>1. PICK i \in DOMAIN calls : c = calls[i] BY DEF Range
  <2>2. Waits(c) BY <2>1 DEF Inv, CallInvariant
  <2>3. CASE c.effect \in carded
    <3>1. c.card \in Cards /\ c.card[2] = c.effect /\ c.card[1] # run.n
          /\ \A d \in c.saw : d.at < cards[c.card].at
      BY <2>2, <2>3 DEF Waits
    <3>2. c.card # NoCard BY <3>1 DEF Cards, NoCard
    <3>. QED BY <2>3, <3>1, <3>2
  <2>4. CASE c.effect \notin carded BY <2>2, <2>4 DEF Waits
  <2>. QED BY <2>3, <2>4
<1>. QED BY <1>1, InvariantHolds, PTL

\* One Allow once sends at most one call: it is consumed by the transaction that records
\* the call.
THEOREM OneDecisionOneCall == Spec => []OneDecisionSendsOneCall
<1>1. Inv => OneDecisionSendsOneCall BY DEF Inv, CardInvariant, OneDecisionSendsOneCall
<1>. QED BY <1>1, InvariantHolds, PTL

\* The fences of a run, and what the next one would load, know of every doubt: a stop, a
\* crash or a record that was not written loses none.
THEOREM DoubtsKnown == Spec => []DoubtsAreKnown
<1>1. Inv => DoubtsAreKnown
  <2>. SUFFICES ASSUME Inv, NEW d \in doubt
                PROVE  Knows(IF run.live THEN fence[d.agent][d.effect] ELSE Loaded[d.agent][d.effect], d)
    BY DEF DoubtsAreKnown, Knows
  <2>1. CASE run.live BY <2>1 DEF Inv, FenceInvariant
  <2>2. CASE ~run.live BY <2>2, AtRest
  <2>. QED BY <2>1, <2>2
<1>. QED BY <1>1, InvariantHolds, PTL
=============================================================================
