--------------------------- MODULE SlotScheduler ----------------------------
(***************************************************************************)
(* server/update_slots.cpp: the work of the queue thread.  It takes posted *)
(* tasks, gives a completion task to an idle slot, lets the slot generate  *)
(* tokens, and sends what was generated to ctx.queue_results.              *)
(*                                                                         *)
(* main.cpp registers the callbacks with start_loop(), which calls them    *)
(* one at a time in one thread; no order between them is assumed here.     *)
(*                                                                         *)
(* Operators named X_Fault are wrong versions of X.  No action uses them:  *)
(* they are put in the place of X to see which property notices.           *)
(***************************************************************************)
EXTENDS ServerQueues

CONSTANTS
  NumSlots,     \* number of slots, params.n_parallel
  SlotStream,   \* the values slot.params.stream can have from construction
  QueryTypes,   \* the task types the process_single_task of llama.cpp answers
  MaxTokens,    \* bound: tokens one completion generates (n_predict, n_ctx)
  MaxCancels    \* bound: CANCEL tasks posted

ASSUME SchedulerAssumption ==
  /\ NumSlots \in Nat
  /\ SlotStream \subseteq BOOLEAN
  /\ QueryTypes \subseteq {"METRICS", "EMBEDDING"}
  /\ MaxTokens \in Nat \ {0}
  /\ MaxCancels \in Nat

VARIABLES
  slots,      \* ctx.slots
  clock,      \* ggml_time_us(), later than every time stamp given so far
  cancels,    \* number of CANCEL tasks posted so far
  decoded     \* history: number of tokens generated for each task

schedulerVars == <<slots, clock, cancels, decoded>>

Slots == 1 .. NumSlots

Slot == [state          : {"IDLE", "PROCESSING"},
         command        : {"NONE", "LOAD_PROMPT", "RELEASE"},
         id_task        : TaskIds \cup {NoTask},
         n_decoded      : Nat,
         has_next_token : BOOLEAN,
         stream         : BOOLEAN,
         t_last_used    : Nat]

SchedulerTypeOK ==
  /\ slots \in [Slots -> Slot]
  /\ clock \in Nat
  /\ cancels \in Nat
  /\ decoded \in [TaskIds -> Nat]

NewSlot(stream) ==
  [state |-> "IDLE", command |-> "NONE", id_task |-> NoTask, n_decoded |-> 0,
   has_next_token |-> TRUE, stream |-> stream, t_last_used |-> 0]

SchedulerInit ==
  /\ slots \in [Slots -> {NewSlot(b) : b \in SlotStream}]
  /\ clock = 1
  /\ cancels = 0
  /\ decoded = [i \in TaskIds |-> 0]

-----------------------------------------------------------------------------
(* Slots *)

\* slot.available(), slot.reset() and slot.release(): methods of llama.cpp.
\* release() only asks: update_slots() performs the release it finds asked.
Available(s)     == slots[s].state = "IDLE" /\ slots[s].command = "NONE"
ResetSlot(slot)  == [slot EXCEPT !.n_decoded = 0, !.has_next_token = TRUE]
Release(slot)    == IF slot.state = "PROCESSING"
                      THEN [slot EXCEPT !.command = "RELEASE"]
                      ELSE slot

\* get_available_slot(): least recently used, the first one among equals.
BestSlot(s) ==
  /\ Available(s)
  /\ \A q \in Slots : Available(q) =>
       \/ slots[s].t_last_used < slots[q].t_last_used
       \/ slots[s].t_last_used = slots[q].t_last_used /\ s <= q

\* Fault: the slot keeps the counters of the task it served before.
Launched_Fault(slot, task) ==
  [slot EXCEPT !.state       = "PROCESSING",
               !.command     = "LOAD_PROMPT",
               !.id_task     = task.id,
               !.t_last_used = clock]

\* launch_slot_with_task(): slot.params is not assigned from task.params.
Launched(slot, task) ==
  [ResetSlot(slot) EXCEPT !.state       = "PROCESSING",
                          !.command     = "LOAD_PROMPT",
                          !.id_task     = task.id,
                          !.t_last_used = clock]

LaunchSlotWithTask(s, task) ==
  /\ slots' = [slots EXCEPT ![s] = Launched(@, task)]
  /\ clock' = clock + 1

-----------------------------------------------------------------------------
(* process_single_task *)

\* Fault: a task that is set aside is posted again, too, to be tried later.
ProcessCompletion_Fault ==
  /\ Arrived("COMPLETION")
  /\ \/ /\ \E s \in Slots : BestSlot(s) /\ LaunchSlotWithTask(s, Head(tasks))
        /\ TakeTask
        /\ UNCHANGED deferred
     \/ /\ \A s \in Slots : ~Available(s)
        /\ Defer(Head(tasks))
        /\ tasks' = Append(Tail(tasks), Head(tasks))
        /\ UNCHANGED <<slots, clock>>
  /\ UNCHANGED <<nextId, waitingIds, results, cancels, decoded>>

\* A completion goes to a slot, or is set aside when no slot is available.
ProcessCompletion ==
  /\ Arrived("COMPLETION")
  /\ TakeTask
  /\ \/ /\ \E s \in Slots : BestSlot(s) /\ LaunchSlotWithTask(s, Head(tasks))
        /\ UNCHANGED deferred
     \/ /\ \A s \in Slots : ~Available(s)
        /\ Defer(Head(tasks))
        /\ UNCHANGED <<slots, clock>>
  /\ UNCHANGED <<nextId, waitingIds, results, cancels, decoded>>

\* The first slot whose id_task is the target, idle or not, is released.
ProcessCancel ==
  /\ Arrived("CANCEL")
  /\ TakeTask
  /\ LET target == Head(tasks).id
         holders == {s \in Slots : slots[s].id_task = target}
     IN  \/ \E s \in holders :
              /\ \A q \in holders : s <= q
              /\ slots' = [slots EXCEPT ![s] = Release(@)]
         \/ holders = {} /\ UNCHANGED slots
  /\ UNCHANGED <<deferred, nextId, waitingIds, results, clock, cancels, decoded>>

\* METRICS and EMBEDDING have no case: the default branch drops the task.
ProcessOther ==
  /\ Arrived("METRICS") \/ Arrived("EMBEDDING")
  /\ Head(tasks).type \notin QueryTypes
  /\ TakeTask
  /\ UNCHANGED <<deferred, nextId, waitingIds, results, schedulerVars>>

\* Fault: the answer is computed but never sent.
AnswerQuery_Fault ==
  /\ Arrived("METRICS") \/ Arrived("EMBEDDING")
  /\ Head(tasks).type \in QueryTypes
  /\ TakeTask
  /\ UNCHANGED <<deferred, nextId, waitingIds, results, schedulerVars>>

\* External: main.cpp calls process_single_task as a method of server_context.
\* If that is the one of llama.cpp, it sends the one result the handlers wait
\* for.  With QueryTypes = {} it is the function of update_slots.cpp.
AnswerQuery ==
  /\ Arrived("METRICS") \/ Arrived("EMBEDDING")
  /\ Head(tasks).type \in QueryTypes
  /\ TakeTask
  /\ \E kind \in {"answer", "error"} :
       SendTo(Head(tasks).id, [kind |-> kind, text |-> << >>, predicted |-> 0])
  /\ UNCHANGED <<deferred, nextId, waitingIds, schedulerVars>>

\* on_new_task, whatever the task
ProcessSingleTask ==
  ProcessCompletion \/ ProcessCancel \/ ProcessOther \/ AnswerQuery

\* Nothing under src/ posts a CANCEL task; another user of the queue may.
PostCancel(i) ==
  /\ cancels < MaxCancels
  /\ i < nextId
  /\ Post([type |-> "CANCEL", id |-> i])
  /\ cancels' = cancels + 1
  /\ UNCHANGED <<deferred, nextId, waitingIds, results, slots, clock, decoded>>

-----------------------------------------------------------------------------
(* Generating text *)

\* send_partial_response(ctx, slot, tkn), for token number n of the task
PartialResult(slot, n) ==
  [kind |-> "partial", text |-> << <<slot.id_task, n>> >>, predicted |-> n]

\* Fault: the text of a streamed answer is repeated in its final result.
FinalResult_Fault(slot) ==
  [kind      |-> "final",
   text      |-> Text(slot.id_task, slot.n_decoded),
   predicted |-> slot.n_decoded + 1]

\* send_final_response(ctx, slot)
FinalResult(slot) ==
  [kind      |-> "final",
   text      |-> IF slot.stream THEN << >> ELSE Text(slot.id_task, slot.n_decoded),
   predicted |-> slot.n_decoded]

\* slot.add_token_string(result), a method of llama.cpp
AddToken(slot, more) ==
  [slot EXCEPT !.n_decoded = @ + 1, !.has_next_token = more]

\* process_token(): adds the token; the branch for streaming slots is empty.
ProcessToken(s, more) == slots' = [slots EXCEPT ![s] = AddToken(@, more)]

\* Fault: the number of the token is read before the token is added.
SendToken_Fault(s, more) ==
  IF more /\ slots[s].stream
    THEN SendTo(slots[s].id_task, PartialResult(slots[s], slots[s].n_decoded))
    ELSE UNCHANGED results

\* External: the caller of process_token, to whom its comment leaves the
\* sending, sends the token of a streaming slot if process_token returns true,
\* that is, unless the token ended the generation.
SendToken(s, more) ==
  IF more /\ slots[s].stream
    THEN SendTo(slots[s].id_task, PartialResult(slots[s], slots[s].n_decoded + 1))
    ELSE UNCHANGED results

\* External: the inference engine (llama.cpp) samples one token for a slot that
\* still generates and decides whether it is the last (end of sequence, stop
\* word, limit).  Nothing under src/ calls process_token.
DecodeToken(s) ==
  /\ slots[s].state = "PROCESSING"
  /\ slots[s].has_next_token
  /\ \E more \in BOOLEAN :
       /\ more => slots[s].n_decoded + 1 < MaxTokens
       /\ ProcessToken(s, more)
       /\ SendToken(s, more)
  /\ decoded' = [decoded EXCEPT ![slots[s].id_task] = @ + 1]
  /\ UNCHANGED <<tasks, deferred, nextId, waitingIds, clock, cancels>>

\* A slot the engine cannot go on with
Failed(slot) == [Release(slot) EXCEPT !.has_next_token = FALSE]

\* The inference engine cannot go on with a slot: it sends an error and asks
\* for the release of the slot.
EngineFails(s) ==
  /\ slots[s].state = "PROCESSING"
  /\ slots[s].has_next_token
  /\ slots' = [slots EXCEPT ![s] = Failed(@)]
  /\ SendTo(slots[s].id_task, [kind |-> "error", text |-> << >>, predicted |-> 0])
  /\ UNCHANGED <<tasks, deferred, nextId, waitingIds, clock, cancels, decoded>>

-----------------------------------------------------------------------------
(* update_slots *)

Releasing(slot) == slot.state = "PROCESSING" /\ slot.command = "RELEASE"

Finished(slot) ==
  /\ slot.state = "PROCESSING"
  /\ slot.command # "RELEASE"
  /\ slot.n_decoded > 0
  /\ ~slot.has_next_token

Released(slot) == [slot EXCEPT !.state = "IDLE", !.command = "NONE"]

UpdatedSlot(slot) ==
  CASE Releasing(slot) -> Released(slot)
    [] Finished(slot)  -> Release(slot)
    [] OTHER           -> slot

\* Both branches send the final response of the slot.
Answered(i) == {s \in Slots : /\ Releasing(slots[s]) \/ Finished(slots[s])
                              /\ slots[s].id_task = i}

\* Fault: a slot goes idle without the response that ends its task.
FinalsSent_Fault(i) == results[i]

FinalsSent(i) ==
  IF i \in waitingIds /\ Answered(i) # {}
    THEN Append(results[i], FinalResult(slots[CHOOSE s \in Answered(i) : TRUE]))
    ELSE results[i]

\* One pass over all slots; a pass that finds nothing to do is a stutter.
UpdateSlots ==
  /\ \E s \in Slots : Releasing(slots[s]) \/ Finished(slots[s])
  /\ slots' = [s \in Slots |-> UpdatedSlot(slots[s])]
  /\ results' = [i \in TaskIds |-> FinalsSent(i)]
  /\ UNCHANGED <<tasks, deferred, nextId, waitingIds, clock, cancels, decoded>>

SchedulerNext ==
  \/ ProcessSingleTask
  \/ UpdateSlots
  \/ \E s \in Slots : DecodeToken(s) \/ EngineFails(s)
  \/ \E i \in TaskIds : PostCancel(i)

=============================================================================
