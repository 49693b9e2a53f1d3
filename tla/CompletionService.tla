-------------------------- MODULE CompletionService --------------------------
(***************************************************************************)
(* What Predict and PredictStream promise to their clients, whatever the   *)
(* queues, the slots and the threads do: a call receives the tokens that   *)
(* are generated for it, each once, in the order they are generated, and   *)
(* no other; and every call that was taken up comes to an end.             *)
(***************************************************************************)
EXTENDS Integers, Sequences

CONSTANTS
  Calls,        \* the calls of clients
  Blocking,     \* those of them that wait for the whole text
  Tokens        \* the tokens that can be generated

VARIABLES
  produced,     \* the tokens generated for a call
  delivered,    \* the tokens its client has, or gets when the call ends
  status        \* "new", "open" or "closed"

vars == <<produced, delivered, status>>

Init ==
  /\ produced = [r \in Calls |-> << >>]
  /\ delivered = [r \in Calls |-> << >>]
  /\ status = [r \in Calls |-> "new"]

Open(r) ==
  /\ status[r] = "new"
  /\ status' = [status EXCEPT ![r] = "open"]
  /\ UNCHANGED <<produced, delivered>>

Refuse(r) ==
  /\ status[r] = "new"
  /\ status' = [status EXCEPT ![r] = "closed"]
  /\ UNCHANGED <<produced, delivered>>

\* A token generated for one call is never one generated for another.  It
\* may still be generated when the client has already given up.
Produce(r) ==
  /\ status[r] # "new"
  /\ \E t \in Tokens :
       /\ \A q \in Calls : \A k \in DOMAIN produced[q] : produced[q][k] # t
       /\ produced' = [produced EXCEPT ![r] = Append(@, t)]
  /\ UNCHANGED <<delivered, status>>

\* The client gets the next token.
Deliver(r) ==
  /\ status[r] = "open"
  /\ Len(delivered[r]) < Len(produced[r])
  /\ delivered' = [delivered EXCEPT ![r] = Append(@, produced[r][Len(@) + 1])]
  /\ UNCHANGED <<produced, status>>

\* A call that waits for the whole text gets all of it.
Answer(r) ==
  /\ r \in Blocking
  /\ status[r] = "open"
  /\ delivered' = [delivered EXCEPT ![r] = produced[r]]
  /\ status' = [status EXCEPT ![r] = "closed"]
  /\ UNCHANGED produced

\* End of a stream, an error, or a client that gave up.
Close(r) ==
  /\ status[r] = "open"
  /\ status' = [status EXCEPT ![r] = "closed"]
  /\ UNCHANGED <<produced, delivered>>

Next == \E r \in Calls :
  Open(r) \/ Refuse(r) \/ Produce(r) \/ Deliver(r) \/ Answer(r) \/ Close(r)

\* An open call ends; answering a blocking call is one way to end it.
Fairness == \A r \in Calls : WF_vars(Close(r) \/ Answer(r))

SafetySpec == Init /\ [][Next]_vars
Spec       == SafetySpec /\ Fairness

=============================================================================
