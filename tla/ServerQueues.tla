---------------------------- MODULE ServerQueues ----------------------------
(***************************************************************************)
(* The two queues of server_context that every part of the backend shares: *)
(*                                                                         *)
(*   ctx.queue_tasks    handlers post tasks, the queue thread takes them   *)
(*   ctx.queue_results  the queue thread sends results, the handler that   *)
(*                      waits for a task id takes them                     *)
(*                                                                         *)
(* Both classes belong to the llama.cpp checkout the build fetches, so     *)
(* they are not under src/: they are modelled from how main.cpp, grpccod/  *)
(* and server/ call them.  Every operation of theirs locks the queue it    *)
(* works on, hence each operator below is one atomic step.                 *)
(***************************************************************************)
EXTENDS Integers, Sequences

CONSTANT MaxTasks      \* bound: how many task ids a behaviour hands out

ASSUME MaxTasksAssumption == MaxTasks \in Nat

VARIABLES
  tasks,        \* queue_tasks: tasks posted and not yet taken, in order
  deferred,     \* queue_tasks: tasks set aside by defer()
  nextId,       \* queue_tasks: the id get_new_id() returns next
  waitingIds,   \* queue_results: ids registered by add_waiting_task_id()
  results       \* queue_results: the results accepted for each id, in order

queueVars == <<tasks, deferred, nextId, waitingIds, results>>

TaskIds == 0 .. MaxTasks - 1
NoTask  == -1                  \* the id of a slot or a call that has no task

TaskTypes   == {"COMPLETION", "EMBEDDING", "METRICS", "CANCEL"}
ResultKinds == {"partial", "final", "answer", "error"}

\* For a CANCEL task, id stands for id_target.
Task == [type : TaskTypes, id : TaskIds]

(***************************************************************************)
(* A piece of generated text is the number of the token it comes from,     *)
(* paired with the id of the task it was generated for.                    *)
(***************************************************************************)
Token      == TaskIds \X Nat
Text(i, n) == [k \in 1 .. n |-> <<i, k>>]

\* text: the content of the result; predicted: timings.predicted_n.
Result == [kind : ResultKinds, text : Seq(Token), predicted : Nat]

\* result->is_stop(): only a partial result lets the receiver go on.
IsStop(res) == res.kind # "partial"

-----------------------------------------------------------------------------
(* queue_tasks *)

QueueTypeOK ==
  /\ tasks \in Seq(Task)
  /\ deferred \in Seq(Task)
  /\ nextId \in 0 .. MaxTasks
  /\ waitingIds \subseteq TaskIds
  /\ results \in [TaskIds -> Seq(Result)]

QueueInit ==
  /\ tasks = << >>
  /\ deferred = << >>
  /\ nextId = 0
  /\ waitingIds = {}
  /\ results = [i \in TaskIds |-> << >>]

\* queue_tasks.post(task)
Post(task) == tasks' = Append(tasks, task)

\* queue_tasks.defer(task): nothing under src/ takes a deferred task back.
Defer(task) == deferred' = Append(deferred, task)

\* queue_tasks.start_loop() hands the oldest task to on_new_task.
Arrived(type) == tasks # << >> /\ Head(tasks).type = type
TakeTask      == tasks' = Tail(tasks)

-----------------------------------------------------------------------------
(* queue_results *)

\* queue_results.send(result): a result nobody waits for is dropped.
SendTo(i, res) ==
  results' = IF i \in waitingIds
               THEN [results EXCEPT ![i] = Append(@, res)]
               ELSE results

\* recv / recv_with_timeout take the oldest result of the given id.
HasResult(i)  == results[i] # << >>
NextResult(i) == Head(results[i])
Consume(i)    == results' = [results EXCEPT ![i] = Tail(@)]

=============================================================================
