---------------------------- MODULE CallHandlers ----------------------------
(***************************************************************************)
(* The RPC handlers that give work to the queue thread and wait for it:    *)
(* grpccod/predict.cpp, grpccod/embedding.cpp and handle_get_metrics of    *)
(* grpccod/model.cpp.  gRPC runs each call in a thread of its own; a call  *)
(* is one element of one of the sets below and runs once.                  *)
(*                                                                         *)
(* The steps of a call are those other threads can come between: every     *)
(* operation on a queue is one.  What a handler does to its own data in    *)
(* between belongs to the step before it.                                  *)
(*                                                                         *)
(* An operator named X_Fault is a wrong version of X that no action uses.  *)
(***************************************************************************)
EXTENDS ServerQueues

CONSTANTS
  StreamCalls,      \* PredictStream calls
  PredictCalls,     \* Predict calls
  EmbeddingCalls,   \* Embedding calls
  MetricsCalls      \* GetMetrics calls

ASSUME CallsAssumption ==
  /\ (StreamCalls \cup PredictCalls) \cap (EmbeddingCalls \cup MetricsCalls) = {}
  /\ StreamCalls \cap PredictCalls = {}
  /\ EmbeddingCalls \cap MetricsCalls = {}

VARIABLES
  pc,        \* where each call stands in its handler
  callId,    \* task.id of the call
  reply,     \* the text given to the client so far (full_content in Predict)
  usage,     \* the number of tokens the last chunk of a stream reports
  outcome    \* history: how the call ended

handlerVars == <<pc, callId, reply, usage, outcome>>

Completions == StreamCalls \cup PredictCalls
Calls       == Completions \cup EmbeddingCalls \cup MetricsCalls

Places   == {"start", "named", "registered", "waiting", "leaving", "done"}
Outcomes == {"none", "rejected", "answered", "error", "timeout"}

HandlersTypeOK ==
  /\ pc \in [Calls -> Places]
  /\ callId \in [Calls -> TaskIds \cup {NoTask}]
  /\ reply \in [Calls -> Seq(Token)]
  /\ usage \in [Calls -> Nat]
  /\ outcome \in [Calls -> Outcomes]

HandlersInit ==
  /\ pc = [r \in Calls |-> "start"]
  /\ callId = [r \in Calls |-> NoTask]
  /\ reply = [r \in Calls |-> << >>]
  /\ usage = [r \in Calls |-> 0]
  /\ outcome = [r \in Calls |-> "none"]

At(r, place)       == pc[r] = place
Goto(r, place)     == pc' = [pc EXCEPT ![r] = place]
EndsWith(r, how)   == outcome' = [outcome EXCEPT ![r] = how]
Leave(r, how)      == Goto(r, "leaving") /\ EndsWith(r, how)

TaskType(r) == CASE r \in Completions    -> "COMPLETION"
                 [] r \in EmbeddingCalls -> "EMBEDDING"
                 [] r \in MetricsCalls   -> "METRICS"

TaskOf(r) == [type |-> TaskType(r), id |-> callId[r]]

-----------------------------------------------------------------------------
(* Giving the task to the queue thread *)

\* No prompt, or a prompt without tokens: the handler returns (or throws)
\* before it makes a task.  GetMetrics has no prompt.
Reject(r) ==
  /\ At(r, "start")
  /\ r \notin MetricsCalls
  /\ Goto(r, "done")
  /\ EndsWith(r, "rejected")
  /\ UNCHANGED <<queueVars, callId, reply, usage>>

\* Fault: the id is read now and the counter is advanced when the task is
\* posted, so that two calls can be given the same id.
GetNewId_Fault(r) ==
  /\ At(r, "start")
  /\ nextId < MaxTasks
  /\ callId' = [callId EXCEPT ![r] = nextId]
  /\ \/ nextId' = nextId + 1
     \/ nextId' = nextId
  /\ Goto(r, "named")
  /\ UNCHANGED <<tasks, deferred, waitingIds, results, reply, usage, outcome>>

\* task.id = queue_tasks.get_new_id()
GetNewId(r) ==
  /\ At(r, "start")
  /\ nextId < MaxTasks
  /\ callId' = [callId EXCEPT ![r] = nextId]
  /\ nextId' = nextId + 1
  /\ Goto(r, "named")
  /\ UNCHANGED <<tasks, deferred, waitingIds, results, reply, usage, outcome>>

\* Fault: the id is not registered before the task is posted.
AddWaiting_Fault(r) ==
  /\ At(r, "named")
  /\ Goto(r, "registered")
  /\ UNCHANGED <<queueVars, callId, reply, usage, outcome>>

\* queue_results.add_waiting_task_id(task.id)
AddWaiting(r) ==
  /\ At(r, "named")
  /\ waitingIds' = waitingIds \cup {callId[r]}
  /\ Goto(r, "registered")
  /\ UNCHANGED <<tasks, deferred, nextId, results, callId, reply, usage, outcome>>

\* queue_tasks.post(std::move(task))
PostTask(r) ==
  /\ At(r, "registered")
  /\ Post(TaskOf(r))
  /\ Goto(r, "waiting")
  /\ UNCHANGED <<deferred, nextId, waitingIds, results, callId, reply, usage, outcome>>

-----------------------------------------------------------------------------
(* Waiting for results *)

\* A result for the call is taken from queue_results.
Receive(r) ==
  /\ At(r, "waiting")
  /\ HasResult(callId[r])
  /\ Consume(callId[r])

\* Fault: every chunk carries all the text so far, not just what is new.
RecvPartial_Fault(r) ==
  /\ r \in Completions
  /\ Receive(r)
  /\ ~IsStop(NextResult(callId[r]))
  /\ reply' = [reply EXCEPT ![r] = @ \o (@ \o NextResult(callId[r]).text)]
  /\ UNCHANGED <<tasks, deferred, nextId, waitingIds, pc, callId, usage, outcome>>

\* PredictStream writes the text of a partial result to the client, Predict
\* adds it to full_content; both go on.
RecvPartial(r) ==
  /\ r \in Completions
  /\ Receive(r)
  /\ ~IsStop(NextResult(callId[r]))
  /\ reply' = [reply EXCEPT ![r] = @ \o NextResult(callId[r]).text]
  /\ UNCHANGED <<tasks, deferred, nextId, waitingIds, pc, callId, usage, outcome>>

\* Fault: Predict keeps what it has at the end, as PredictStream does.
FinalText_Fault(r, res) == reply[r]

\* What a stop result leaves of the reply: only Predict looks at its text,
\* and only if it is a final result.
FinalText(r, res) == IF r \in PredictCalls /\ res.kind = "final"
                       THEN res.text
                       ELSE reply[r]

\* A stop result ends the loop.  PredictStream writes a last chunk with the
\* number of tokens, unless that is zero.
RecvStop(r) ==
  /\ r \in Completions
  /\ Receive(r)
  /\ LET res == NextResult(callId[r])
     IN  /\ IsStop(res)
         /\ reply' = [reply EXCEPT ![r] = FinalText(r, res)]
         /\ usage' = [usage EXCEPT ![r] =
                        IF r \in StreamCalls /\ res.kind = "final" THEN res.predicted ELSE @]
         /\ Leave(r, IF res.kind = "final" THEN "answered" ELSE "error")
  /\ UNCHANGED <<tasks, deferred, nextId, waitingIds, callId>>

\* Embedding and GetMetrics take one result and leave, whatever it is.
RecvAnswer(r) ==
  /\ r \in EmbeddingCalls \cup MetricsCalls
  /\ Receive(r)
  /\ Leave(r, IF NextResult(callId[r]).kind = "error" THEN "error" ELSE "answered")
  /\ UNCHANGED <<tasks, deferred, nextId, waitingIds, callId, reply, usage>>

\* recv_with_timeout() gives up: 1 s without a result in PredictStream, 30 s
\* in Predict, 5 s in GetMetrics.  A result may arrive as the time runs out.
\* Embedding waits with recv(), which has no timeout.
Timeout(r) ==
  /\ r \notin EmbeddingCalls
  /\ At(r, "waiting")
  /\ Leave(r, "timeout")
  /\ UNCHANGED <<queueVars, callId, reply, usage>>

\* Fault: the handler returns and its id stays registered.
RemoveWaiting_Fault(r) ==
  /\ At(r, "leaving")
  /\ Goto(r, "done")
  /\ UNCHANGED <<queueVars, callId, reply, usage, outcome>>

\* queue_results.remove_waiting_task_id(task.id).  The task itself is not
\* cancelled, and the results that are already queued stay.
RemoveWaiting(r) ==
  /\ At(r, "leaving")
  /\ waitingIds' = waitingIds \ {callId[r]}
  /\ Goto(r, "done")
  /\ UNCHANGED <<tasks, deferred, nextId, results, callId, reply, usage, outcome>>

Arrives(r) == Reject(r) \/ GetNewId(r)

\* A call inside its handler; Embedding leaves its wait only by RecvAnswer.
Proceeds(r) ==
  \/ AddWaiting(r)
  \/ PostTask(r)
  \/ RecvPartial(r)
  \/ RecvStop(r)
  \/ RecvAnswer(r)
  \/ Timeout(r)
  \/ RemoveWaiting(r)

HandlerNext == \E r \in Calls : Arrives(r) \/ Proceeds(r)

=============================================================================
