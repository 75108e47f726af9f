------------------------------ MODULE Contract ------------------------------
(***************************************************************************)
(* What the service promises a caller, without queues, workers or chords:  *)
(* a submission is accepted or refused, an accepted one is answered once,  *)
(* and an answer that is a result covers exactly the agents asked for.     *)
(***************************************************************************)
CONSTANTS Requests, Agent

VARIABLES
  asked,   \* the agents each caller asked for
  reply,   \* the reply to the submission
  answer,  \* what polling the task id reports at last
  result   \* the agents whose results the answer carries

contractVars == <<asked, reply, answer, result>>

Init ==
  /\ asked \in [Requests -> (SUBSET Agent) \ {{}}]
  /\ reply = [r \in Requests |-> "none"]
  /\ answer = [r \in Requests |-> "none"]
  /\ result = [r \in Requests |-> {}]

Accept(r) ==
  /\ reply[r] = "none"
  /\ reply' = [reply EXCEPT ![r] = "accepted"]
  /\ UNCHANGED <<asked, answer, result>>

\* A submission is refused only while nothing of it was answered.
Refuse(r) ==
  /\ reply[r] = "none"
  /\ answer[r] = "none"
  /\ reply' = [reply EXCEPT ![r] = "unavailable"]
  /\ UNCHANGED <<asked, answer, result>>

Succeed(r) ==
  /\ answer' = [answer EXCEPT ![r] = "success"]
  /\ result' = [result EXCEPT ![r] = asked[r]]

Fail(r) ==
  /\ answer' = [answer EXCEPT ![r] = "failure"]
  /\ UNCHANGED result

\* Work may finish before the reply to the submission is out.
Answer(r) ==
  /\ reply[r] # "unavailable"
  /\ answer[r] = "none"
  /\ Succeed(r) \/ Fail(r)
  /\ UNCHANGED <<asked, reply>>

Next == \E r \in Requests : Accept(r) \/ Refuse(r) \/ Answer(r)

\* What may be answered; and that something is.
Safe == Init /\ [][Next]_contractVars

Fair(r) ==
  /\ WF_contractVars(Accept(r) \/ Refuse(r))
  /\ WF_contractVars(Answer(r))

Spec == Safe /\ \A r \in Requests : Fair(r)
=============================================================================
