------------------------- MODULE ServingInvariants --------------------------
(***************************************************************************)
(* The inductive invariants behind the properties of Serving: where the    *)
(* task of a call is, what has been generated for it, and what is on its   *)
(* way to the client.  TLC checks them on the instances of MCServing, and  *)
(* Places_proofs and Delivery_proofs prove them for all values of the      *)
(* constants.                                                              *)
(***************************************************************************)
EXTENDS Serving

-----------------------------------------------------------------------------
(* Where a task is *)

Posted(r) == pc[r] \in {"waiting", "leaving", "done"} /\ callId[r] # NoTask

Busy(s)    == slots[s].state = "PROCESSING"
Runs(s, i) == Busy(s) /\ slots[s].id_task = i

\* What is in the queues and in the slots was posted by a call.
WorkIsPosted ==
  /\ \A k \in DOMAIN tasks : tasks[k].type # "CANCEL" =>
       \E r \in Calls : Posted(r) /\ tasks[k] = TaskOf(r)
  /\ \A k \in DOMAIN deferred :
       \E r \in Completions : Posted(r) /\ deferred[k] = TaskOf(r)
  /\ \A s \in Slots : Busy(s) =>
       \E r \in Completions : Posted(r) /\ slots[s].id_task = callId[r]

\* OneHolder, place by place.
OnePlace ==
  /\ \A j, k \in DOMAIN tasks :
       tasks[k].type = "COMPLETION" /\ tasks[j] = tasks[k] => j = k
  /\ \A j, k \in DOMAIN deferred : deferred[j].id = deferred[k].id => j = k
  /\ \A s, q \in Slots : Busy(q) /\ Runs(s, slots[q].id_task) => s = q
  /\ \A k \in DOMAIN tasks : tasks[k].type = "COMPLETION" =>
       /\ \A j \in DOMAIN deferred : deferred[j].id # tasks[k].id
       /\ \A s \in Slots : ~Runs(s, tasks[k].id)
  /\ \A j \in DOMAIN deferred : \A s \in Slots : ~Runs(s, deferred[j].id)

\* An id that was given back is not registered again.
ReleasedIds == \A r \in Calls : Abandoned(r) => callId[r] \notin waitingIds

PlacesInv == WorkIsPosted /\ OnePlace /\ ReleasedIds

-----------------------------------------------------------------------------
(* What has been generated *)

\* Nothing was generated for an id, and nothing sent to it.
Fresh(i) == decoded[i] = 0 /\ results[i] = << >>

\* Nothing is generated before a slot has the task.
FreshBefore ==
  /\ \A i \in TaskIds : i >= nextId => Fresh(i)
  /\ \A r \in Calls : pc[r] \in {"named", "registered"} => Fresh(callId[r])
  /\ \A k \in DOMAIN tasks : tasks[k].type = "COMPLETION" => Fresh(tasks[k].id)
  /\ \A k \in DOMAIN deferred : Fresh(deferred[k].id)

\* The counter of a slot is that of its task, and not of one before it.
CountsAgree ==
  \A s \in Slots :
    /\ slots[s].stream \in SlotStream
    /\ Busy(s) => slots[s].n_decoded = decoded[slots[s].id_task]
    /\ Busy(s) /\ slots[s].has_next_token => slots[s].n_decoded < MaxTokens

\* The slots that go on generating for an id
Generates(s, i) == Runs(s, i) /\ slots[s].has_next_token

GenerationInv == FreshBefore /\ CountsAgree

-----------------------------------------------------------------------------
(* What is on its way to the client *)

(***************************************************************************)
(* Below, res are the results queued for a call and id i its task, m is    *)
(* the length of the text its client has, and d the number of tokens       *)
(* generated for the task.                                                 *)
(***************************************************************************)

\* A result before place k of the queue ends the wait.
StoppedBefore(res, k) == \E j \in DOMAIN res : j < k /\ IsStop(res[j])

AllChunks(res) == \A k \in DOMAIN res : ~IsStop(res[k])

\* n tokens are all that were generated, or all but the last.
AllButLast(n, d) == n = d \/ n = d - 1

\* The chunks that are queued carry on where the reply ends, and come before
\* anything that ends the wait.
ChunksInOrder(i, res, m, d) ==
  \A k \in DOMAIN res : ~IsStop(res[k]) =>
    /\ res[k].text = << <<i, m + k>> >>
    /\ m + k <= d
    /\ ~StoppedBefore(res, k)

\* The text of a final result: none from a slot that streams, else all.
FinalTexts(i, d) ==
  {text \in {<< >>, Text(i, d)} : \/ text = << >> /\ TRUE \in SlotStream
                                  \/ text = Text(i, d) /\ FALSE \in SlotStream}

\* A final result that is queued is about the whole generation, and behind
\* all the chunks of it.
FinalsWhole(i, res, m, d) ==
  \A k \in DOMAIN res : res[k].kind = "final" =>
    /\ res[k].predicted = d
    /\ res[k].text \in FinalTexts(i, d)
    /\ FALSE \notin SlotStream =>
         StoppedBefore(res, k) \/ AllButLast(m + k - 1, d)

\* A slot that goes on has sent all it generated, if it streams, and nothing
\* if it does not.  One that finished or was cancelled has sent all chunks.
SentSoFar(slot, res, m, d) ==
  /\ slot.has_next_token =>
       /\ AllChunks(res)
       /\ m + Len(res) = IF slot.stream THEN d ELSE 0
  /\ FALSE \notin SlotStream =>
       StoppedBefore(res, Len(res) + 1) \/ AllButLast(m + Len(res), d)

\* StreamInOrder for both kinds of completion: what a client has is a
\* beginning of what was generated.
RepliesInOrder ==
  \A r \in Completions :
    /\ reply[r] = Text(callId[r], Len(reply[r]))
    /\ callId[r] = NoTask => reply[r] = << >>
    /\ callId[r] # NoTask => Len(reply[r]) <= decoded[callId[r]]

\* All of that, for task i and a client that has m tokens.
InOrder(i, m) ==
  /\ ChunksInOrder(i, results[i], m, decoded[i])
  /\ FinalsWhole(i, results[i], m, decoded[i])
  /\ \A s \in Slots : Runs(s, i) => SentSoFar(slots[s], results[i], m, decoded[i])

WaitingInOrder ==
  \A r \in Completions : At(r, "waiting") => InOrder(callId[r], Len(reply[r]))

\* Nothing is generated any more for a call that got a final result.
NothingFollows(i) ==
  /\ \A s \in Slots : ~Generates(s, i)
  /\ \A k \in DOMAIN tasks : tasks[k].type = "COMPLETION" => tasks[k].id # i
  /\ \A k \in DOMAIN deferred : deferred[k].id # i

AnswersWhole ==
  \A r \in Completions : outcome[r] = "answered" =>
    /\ pc[r] \in {"leaving", "done"}
    /\ callId[r] # NoTask
    /\ NothingFollows(callId[r])
    /\ r \in PredictCalls => reply[r] \in FinalTexts(callId[r], decoded[callId[r]])
    /\ r \in StreamCalls =>
         /\ usage[r] = decoded[callId[r]]
         /\ FALSE \notin SlotStream => AllButLast(Len(reply[r]), decoded[callId[r]])

DeliveryInv == RepliesInOrder /\ WaitingInOrder /\ AnswersWhole

=============================================================================
