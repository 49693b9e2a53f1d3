------------------------------ MODULE Serving ------------------------------
(***************************************************************************)
(* The loaded backend at work: the RPC handlers (CallHandlers) and the     *)
(* queue thread (SlotScheduler) over the queues they share (ServerQueues). *)
(* A step of the system is a step of one call or one step of the thread.   *)
(***************************************************************************)
EXTENDS SlotScheduler, CallHandlers

vars == <<queueVars, schedulerVars, handlerVars>>

Init == QueueInit /\ SchedulerInit /\ HandlersInit

Next ==
  \/ SchedulerNext /\ UNCHANGED handlerVars
  \/ HandlerNext /\ UNCHANGED schedulerVars

(***************************************************************************)
(* Fairness.  A gRPC thread inside a handler keeps running, and the waits  *)
(* of PredictStream, Predict and GetMetrics end by themselves.  Nothing    *)
(* makes a client call, so Arrives has no fairness.  start_loop() keeps    *)
(* taking tasks.  Nothing under src/ makes it call update_slots() again or *)
(* the engine go on with a slot, so these steps have no fairness either.   *)
(***************************************************************************)
Fairness ==
  /\ \A r \in Calls : WF_vars(Proceeds(r) /\ UNCHANGED schedulerVars)
  /\ WF_vars(ProcessSingleTask /\ UNCHANGED handlerVars)

SafetySpec == Init /\ [][Next]_vars
Spec       == SafetySpec /\ Fairness

-----------------------------------------------------------------------------
(* Safety *)

TypeOK == QueueTypeOK /\ SchedulerTypeOK /\ HandlersTypeOK

Queued(r)  == \E k \in 1 .. Len(tasks) : tasks[k] = TaskOf(r)
SetAside(r)  == \E k \in 1 .. Len(deferred) : deferred[k] = TaskOf(r)
Running(i) == \E s \in Slots : slots[s].state = "PROCESSING" /\ slots[s].id_task = i

\* The calls whose task on_new_task serves.
Served(r) == r \in Completions \/ TaskType(r) \in QueryTypes

\* A call that waits for results never waits in vain: its task is still to
\* be taken, is set aside, or runs in a slot, or a result is there for it.
\* handle_embedding waits without a timeout: a result that was sent before
\* its id was registered, sent to another id, or never sent would hang it.
NoStrandedCaller ==
  \A r \in Calls : At(r, "waiting") /\ Served(r) =>
    \/ Queued(r)
    \/ SetAside(r)
    \/ Running(callId[r])
    \/ HasResult(callId[r])

\* README, Robust Error Handling: "streaming never duplicates tokens".  What
\* a PredictStream client has is the beginning of what was generated for its
\* own task: no token twice, none left out, none of another call's, whatever
\* slot the task got and whoever used that slot before.
StreamInOrder ==
  \A r \in StreamCalls :
    /\ reply[r] = Text(callId[r], Len(reply[r]))
    /\ callId[r] # NoTask => Len(reply[r]) <= decoded[callId[r]]

\* A stream that ends with its final result has delivered every token but
\* the one that ended the generation, and reports how many there were, even
\* if the task was cancelled while it ran.
StreamReplyComplete ==
  \A r \in StreamCalls : outcome[r] = "answered" =>
    /\ usage[r] = decoded[callId[r]]
    /\ Len(reply[r]) \in {usage[r], usage[r] - 1}

\* Predict that ends with its final result returns all the text that was
\* generated for its task and nothing else.
BlockingReplyComplete ==
  \A r \in PredictCalls : outcome[r] = "answered" =>
    reply[r] = Text(callId[r], decoded[callId[r]])

\* A completion is worked on in one place: of the task queue, the deferred
\* tasks and the busy slots, only one holds its task, and holds it once.
Holders(i) ==
  {<<"queued", k>> : k \in {k \in DOMAIN tasks :
                              tasks[k] = [type |-> "COMPLETION", id |-> i]}}
    \cup {<<"deferred", k>> : k \in {k \in DOMAIN deferred : deferred[k].id = i}}
    \cup {<<"slot", s>> : s \in {s \in Slots : slots[s].state = "PROCESSING"
                                               /\ slots[s].id_task = i}}

OneHolder == \A i \in TaskIds : \A g, h \in Holders(i) : g = h

\* A call that gave up does not cancel its task, which may generate text for
\* a long time still: once the handler has removed its id, none of that piles
\* up in queue_results, where nobody would ever take it.
Abandoned(r) == At(r, "done") /\ callId[r] # NoTask

AbandonedIdsStayQuiet ==
  [][\A r \in Calls : Abandoned(r) =>
       Len(results'[callId[r]]) <= Len(results[callId[r]])]_vars

\* update_slots() looks at a slot that asked for its release, or that has
\* generated something and is at the end; the engine at one that has tokens to
\* generate.  A busy slot is one of these, also one that failed or was
\* cancelled before its first token, and one that is used again after that:
\* any other would stay busy for ever.
NoStuckSlot ==
  \A s \in Slots : slots[s].state = "PROCESSING" =>
    slots[s].has_next_token \/ Releasing(slots[s]) \/ Finished(slots[s])

\* A task gets one final response.
Finals(i) == SelectSeq(results[i], LAMBDA res : res.kind = "final")

OneFinalResponse ==
  \A r \in Completions : callId[r] # NoTask =>
    Len(Finals(callId[r])) + (IF outcome[r] = "answered" THEN 1 ELSE 0) <= 1

\* No two calls share a task id, and an id is below nextId once it is used.
OwnIds ==
  /\ \A r \in Calls : At(r, "start") => callId[r] = NoTask
  /\ \A r \in Calls :
       pc[r] \in {"named", "registered", "waiting", "leaving"} => callId[r] \in TaskIds
  /\ \A r \in Calls : callId[r] < nextId
  /\ \A r, q \in Calls : callId[r] # NoTask /\ callId[r] = callId[q] => r = q

\* A call has registered its id before it posts its task, and as long as it
\* waits.
RegisteredFirst ==
  \A r \in Calls : pc[r] \in {"registered", "waiting"} => callId[r] \in waitingIds

\* The results queued for an id end with one that ends the wait for it.
StopQueued(i) == HasResult(i) /\ IsStop(results[i][Len(results[i])])

\* What a call waits for: if its task is no longer under way, a result that
\* ends the wait is queued, not just some result.
StopIsComing ==
  \A r \in Calls : At(r, "waiting") /\ Served(r) =>
    Queued(r) \/ SetAside(r) \/ Running(callId[r]) \/ StopQueued(callId[r])

\* The inductive invariant from which NoStrandedCaller follows.
ServingInv == TypeOK /\ OwnIds /\ RegisteredFirst /\ StopIsComing

-----------------------------------------------------------------------------
(* Liveness *)

Returns(r) == At(r, "named") ~> At(r, "done")

\* A call that has made its task returns to its client, also if its task is
\* set aside or dropped, or was posted before there was a queue loop.  The
\* wait of Embedding has no time-out: it ends only if its task is answered.
EveryCallReturns == \A r \in Calls : Returns(r)

\* README, features: embeddings have "full support".  An Embedding call that
\* has made its task returns to its client.
EmbeddingReturns == \A r \in EmbeddingCalls : Returns(r)

\* A completion task that was deferred is run when a slot is idle.
DeferredTaskRuns ==
  \A r \in Completions :
    SetAside(r) /\ (\E s \in Slots : Available(s)) ~> Running(callId[r])

-----------------------------------------------------------------------------
(* Refinement *)

Produced(i) == IF i = NoTask THEN << >> ELSE Text(i, decoded[i])

Status(r) == CASE pc[r] = "start"               -> "new"
               [] pc[r] \in {"leaving", "done"} -> "closed"
               [] OTHER                         -> "open"

Service == INSTANCE CompletionService WITH
  Calls     <- Completions,
  Blocking  <- PredictCalls,
  Tokens    <- TaskIds \X (1 .. MaxTokens),
  produced  <- [r \in Completions |-> Produced(callId[r])],
  delivered <- [r \in Completions |-> reply[r]],
  status    <- [r \in Completions |-> Status(r)]

\* The handlers, the queues and the slots together keep the promises of
\* CompletionService.
KeepsPromises == Service!Spec

\* Its safety part: who gets which token, and in what order.
KeepsTextPromises == Service!SafetySpec

=============================================================================
