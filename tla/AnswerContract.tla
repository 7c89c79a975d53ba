--------------------------- MODULE AnswerContract ---------------------------
(***************************************************************************)
(* What a run promises the user, whatever executes it: it is asked, reads  *)
(* what it was asked, writes its answer, publishes it at most once and     *)
(* with nothing left unread, and ends exactly once.                        *)
(***************************************************************************)
EXTENDS Naturals

CONSTANT Runs

VARIABLES
  outcome,    \* "none", "open", or how the run ended
  published,  \* whether its answer was published
  asked,      \* the follow-ups it accepted
  read,       \* those it delivered to the model
  answer      \* the text on record since the answer last started over

vars == <<outcome, published, asked, read, answer>>

Ended == {"complete", "cancelled", "error"}
Working(r) == outcome[r] = "open" /\ ~published[r]

Init ==
  /\ outcome = [r \in Runs |-> "none"]
  /\ published = [r \in Runs |-> FALSE]
  /\ asked = [r \in Runs |-> 0]
  /\ read = [r \in Runs |-> 0]
  /\ answer = [r \in Runs |-> 0]

\* It may begin with what an earlier answer had been asked.
Begin(r) ==
  /\ outcome[r] = "none"
  /\ outcome' = [outcome EXCEPT ![r] = "open"]
  /\ \E n \in {asked'[r]} : asked' = [asked EXCEPT ![r] = n]
  /\ UNCHANGED <<published, read, answer>>

Ask(r) ==
  /\ Working(r)
  /\ asked' = [asked EXCEPT ![r] = @ + 1]
  /\ UNCHANGED <<outcome, published, read, answer>>

\* Everything asked so far is read at once; the answer may start over.
Read(r) ==
  /\ Working(r) /\ read[r] < asked[r]
  /\ read' = [read EXCEPT ![r] = asked[r]]
  /\ \/ UNCHANGED answer
     \/ answer' = [answer EXCEPT ![r] = 0]
  /\ UNCHANGED <<outcome, published, asked>>

\* A stopped run still takes the text its user had seen.
Write(r) ==
  /\ outcome[r] \in {"open", "cancelled"} /\ ~published[r]
  /\ \E n \in {answer'[r]} : answer' = [answer EXCEPT ![r] = n]
  /\ UNCHANGED <<outcome, published, asked, read>>

Publish(r) ==
  /\ Working(r) /\ read[r] = asked[r]
  /\ published' = [published EXCEPT ![r] = TRUE]
  /\ \E n \in {answer'[r]} : answer' = [answer EXCEPT ![r] = n]
  /\ UNCHANGED <<outcome, asked, read>>

\* Only a published answer completes its run; any open run may be stopped or fail.
End(r) ==
  /\ outcome[r] = "open"
  /\ \E o \in Ended :
       /\ o = "complete" => published[r]
       /\ outcome' = [outcome EXCEPT ![r] = o]
  /\ UNCHANGED <<published, asked, read, answer>>

Next == \E r \in Runs : Begin(r) \/ Ask(r) \/ Read(r) \/ Write(r) \/ Publish(r) \/ End(r)

Spec == Init /\ [][Next]_vars
=============================================================================
