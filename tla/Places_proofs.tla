--------------------------- MODULE Places_proofs ----------------------------
(***************************************************************************)
(* Where the task of a call is and what has been generated for it, for     *)
(* every set of calls, every number of slots and all bounds: a task is in  *)
(* one place, its tokens are counted from the moment a slot has it, and    *)
(* nothing piles up for a call that gave up.                               *)
(***************************************************************************)
EXTENDS ServingInvariants, Serving_proofs

-----------------------------------------------------------------------------
(* Sequences *)

\* What is at the places of a queue to which an element was appended.
LEMMA AppendPlaces ==
  ASSUME NEW S, NEW seq \in Seq(S), NEW e \in S
  PROVE  /\ DOMAIN Append(seq, e) = DOMAIN seq \cup {Len(seq) + 1}
         /\ Len(seq) + 1 \notin DOMAIN seq
         /\ Append(seq, e)[Len(seq) + 1] = e
         /\ \A k \in DOMAIN seq : Append(seq, e)[k] = seq[k]
<1>1. Len(seq) \in Nat /\ DOMAIN seq = 1 .. Len(seq)
  BY LenProperties
<1>2. /\ Append(seq, e) \in Seq(S)
      /\ Len(Append(seq, e)) = Len(seq) + 1
      /\ \A k \in 1 .. Len(seq) : Append(seq, e)[k] = seq[k]
      /\ Append(seq, e)[Len(seq) + 1] = e
  BY AppendProperties
<1>3. DOMAIN Append(seq, e) = 1 .. Len(seq) + 1
  BY <1>2, LenProperties
<1> QED  BY <1>1, <1>2, <1>3

\* What is at the places of a queue whose first element was taken.
LEMMA TailPlaces ==
  ASSUME NEW S, NEW seq \in Seq(S), seq # << >>
  PROVE  /\ 1 \in DOMAIN seq /\ seq[1] = Head(seq)
         /\ Len(Tail(seq)) = Len(seq) - 1
         /\ \A k \in DOMAIN Tail(seq) :
              /\ k \in Nat \ {0}
              /\ k + 1 \in DOMAIN seq
              /\ Tail(seq)[k] = seq[k + 1]
<1>1. Len(seq) \in Nat \ {0} /\ DOMAIN seq = 1 .. Len(seq)
  BY LenProperties, EmptySeq
<1>2. /\ Tail(seq) \in Seq(S)
      /\ Len(Tail(seq)) = Len(seq) - 1
      /\ \A k \in 1 .. Len(Tail(seq)) : Tail(seq)[k] = seq[k + 1]
  BY HeadTailProperties
<1>3. DOMAIN Tail(seq) = 1 .. Len(seq) - 1
  BY <1>2, LenProperties
<1> QED  BY <1>1, <1>2, <1>3

\* The queue of tasks after the oldest one was taken.
LEMMA TakenPlaces ==
  ASSUME QueueTypeOK, tasks # << >>, TakeTask
  PROVE  /\ 1 \in DOMAIN tasks /\ tasks[1] = Head(tasks) /\ Head(tasks) \in Task
         /\ \A k \in DOMAIN tasks' :
              k \in Nat \ {0} /\ k + 1 \in DOMAIN tasks /\ tasks'[k] = tasks[k + 1]
  BY TailPlaces, TakenType DEF QueueTypeOK, TakeTask

\* What is in the queues are tasks.
LEMMA QueuedTypes ==
  ASSUME QueueTypeOK
  PROVE  /\ \A k \in DOMAIN tasks : tasks[k] \in Task /\ tasks[k].id \in TaskIds
         /\ \A k \in DOMAIN deferred : deferred[k] \in Task /\ deferred[k].id \in TaskIds
<1>1. /\ \A k \in DOMAIN tasks : tasks[k] \in Task
      /\ \A k \in DOMAIN deferred : deferred[k] \in Task
  BY ElementOfSeq, LenProperties DEF QueueTypeOK
<1> QED  BY <1>1 DEF Task

-----------------------------------------------------------------------------
(* What the steps of the queue thread do to a slot *)

\* A slot that is launched starts from nothing, with the stream flag it had.
LEMMA LaunchedFields ==
  ASSUME SchedulerTypeOK, NEW slot \in Slot, NEW task \in Task
  PROVE  /\ Launched(slot, task).n_decoded = 0
         /\ Launched(slot, task).has_next_token = TRUE
         /\ Launched(slot, task).stream = slot.stream
  BY DEF Launched, ResetSlot, Slot

\* Asking for a release leaves what was generated alone.
LEMMA ReleaseFields ==
  ASSUME NEW slot \in Slot
  PROVE  /\ Release(slot).n_decoded = slot.n_decoded
         /\ Release(slot).has_next_token = slot.has_next_token
         /\ Release(slot).stream = slot.stream
  BY DEF Release, Slot

\* A token counts once, and decides whether there is a next one.
LEMMA AddTokenFields ==
  ASSUME NEW slot \in Slot, NEW more \in BOOLEAN
  PROVE  /\ AddToken(slot, more).n_decoded = slot.n_decoded + 1
         /\ AddToken(slot, more).has_next_token = more
         /\ AddToken(slot, more).stream = slot.stream
  BY DEF AddToken, Slot

\* A slot the engine gave up has no next token.
LEMMA FailedFields ==
  ASSUME NEW slot \in Slot
  PROVE  /\ Failed(slot).n_decoded = slot.n_decoded
         /\ Failed(slot).has_next_token = FALSE
         /\ Failed(slot).stream = slot.stream
  BY ReleaseType, ReleaseFields DEF Failed, Slot

\* A slot that becomes idle keeps its counters and its id.
LEMMA ReleasedFields ==
  ASSUME NEW slot \in Slot
  PROVE  /\ Released(slot).state = "IDLE"
         /\ Released(slot).n_decoded = slot.n_decoded
         /\ Released(slot).has_next_token = slot.has_next_token
         /\ Released(slot).stream = slot.stream
         /\ Released(slot).id_task = slot.id_task
  BY DEF Released, Slot

\* A pass of update_slots() touches the state and the command of a slot.
LEMMA UpdatedFields ==
  ASSUME NEW slot \in Slot
  PROVE  /\ UpdatedSlot(slot).n_decoded = slot.n_decoded
         /\ UpdatedSlot(slot).has_next_token = slot.has_next_token
         /\ UpdatedSlot(slot).stream = slot.stream
         /\ UpdatedSlot(slot).id_task = slot.id_task
         /\ UpdatedSlot(slot).state = "PROCESSING" => slot.state = "PROCESSING"
  BY ReleaseFields, ReleaseType, ReleasedFields DEF UpdatedSlot

\* A slot that still works, if it does, for the task it worked for.
Continues(s) ==
  /\ slots'[s].id_task = slots[s].id_task
  /\ slots'[s].stream = slots[s].stream
  /\ Busy(s)' => Busy(s)

\* ... and that has generated nothing.
Unmoved(s) ==
  /\ Continues(s)
  /\ slots'[s].n_decoded = slots[s].n_decoded
  /\ slots'[s].has_next_token = slots[s].has_next_token

\* A cancellation only asks for a release.
LEMMA CancelEffect ==
  ASSUME ServingInv, ProcessCancel
  PROVE  \A s \in Slots : Unmoved(s)
<1>1. slots \in [Slots -> Slot]
  BY DEF ServingInv, TypeOK, SchedulerTypeOK
<1>2. \A s \in Slots : slots'[s] = slots[s] \/ slots'[s] = Release(slots[s])
  BY <1>1 DEF ProcessCancel
<1> QED  BY <1>1, <1>2, ReleaseType, ReleaseFields DEF Unmoved, Continues, Busy

\* A pass of update_slots() generates nothing and gives no slot a task.
LEMMA UpdateEffect ==
  ASSUME ServingInv, UpdateSlots
  PROVE  \A s \in Slots : Unmoved(s)
<1>1. slots \in [Slots -> Slot]
  BY DEF ServingInv, TypeOK, SchedulerTypeOK
<1>2. \A s \in Slots : slots'[s] = UpdatedSlot(slots[s])
  BY DEF UpdateSlots
<1> QED  BY <1>1, <1>2, UpdatedFields DEF Unmoved, Continues, Busy

\* A failure of the engine is one of one slot, and generates nothing.
LEMMA FailEffect ==
  ASSUME ServingInv, NEW s \in Slots, EngineFails(s)
  PROVE  /\ \A q \in Slots \ {s} : slots'[q] = slots[q]
         /\ Continues(s)
         /\ slots'[s].n_decoded = slots[s].n_decoded
         /\ slots'[s].has_next_token = FALSE
         /\ \A q \in Slots : Continues(q)
<1>1. slots \in [Slots -> Slot]
  BY DEF ServingInv, TypeOK, SchedulerTypeOK
<1>2. slots' = [slots EXCEPT ![s] = Failed(slots[s])]
  BY DEF EngineFails
<1> QED  BY <1>1, <1>2, FailedType, FailedFields DEF Continues, Busy

\* A token is generated in one slot; the others are left alone.
LEMMA TokenEffect ==
  ASSUME ServingInv, NEW s \in Slots, NEW more \in BOOLEAN, ProcessToken(s, more)
  PROVE  /\ \A q \in Slots \ {s} : slots'[q] = slots[q]
         /\ Continues(s)
         /\ slots'[s].n_decoded = slots[s].n_decoded + 1
         /\ slots'[s].has_next_token = more
         /\ \A q \in Slots : Continues(q)
<1>1. slots \in [Slots -> Slot]
  BY DEF ServingInv, TypeOK, SchedulerTypeOK
<1>2. slots' = [slots EXCEPT ![s] = AddToken(slots[s], more)]
  BY DEF ProcessToken
<1> QED  BY <1>1, <1>2, AddTokenType, AddTokenFields DEF Continues, Busy

\* The slot that gets a task was idle, and starts from nothing.
LEMMA LaunchEffect ==
  ASSUME ServingInv, NEW s \in Slots, NEW task \in Task,
         BestSlot(s), LaunchSlotWithTask(s, task)
  PROVE  /\ \A q \in Slots \ {s} : slots'[q] = slots[q]
         /\ ~Busy(s)
         /\ slots'[s].state = "PROCESSING" /\ slots'[s].id_task = task.id
         /\ slots'[s].n_decoded = 0
         /\ slots'[s].has_next_token = TRUE
         /\ slots'[s].stream = slots[s].stream
<1>1. slots \in [Slots -> Slot]
  BY DEF ServingInv, TypeOK, SchedulerTypeOK
<1>2. slots' = [slots EXCEPT ![s] = Launched(slots[s], task)]
  BY DEF LaunchSlotWithTask
<1>3. SchedulerTypeOK
  BY DEF ServingInv, TypeOK
<1> QED  BY <1>1, <1>2, <1>3, LaunchedType, LaunchedFields
            DEF BestSlot, Available, Busy

-----------------------------------------------------------------------------
(* What a step of a call does *)

\* A task of type COMPLETION is that of a completion.
LEMMA CompletionTask ==
  ASSUME NEW r \in Calls
  PROVE  /\ TaskOf(r).type = "COMPLETION" <=> r \in Completions
         /\ TaskOf(r).id = callId[r]
         /\ TaskOf(r).type # "CANCEL"
<1>1. CASE r \in Completions
  BY <1>1, TaskTypeOfCall DEF TaskOf
<1>2. CASE r \notin Completions
  <2>1. TaskType(r) \in {"EMBEDDING", "METRICS"}
    BY <1>2 DEF TaskType, Calls
  <2> QED  BY <1>2, <2>1 DEF TaskOf
<1> QED  BY <1>1, <1>2

\* A posted call is the only one with its id, which is in use.
LEMMA PostedIds ==
  ASSUME ServingInv, NEW r \in Calls, Posted(r)
  PROVE  /\ callId[r] \in TaskIds /\ callId[r] < nextId
         /\ \A q \in Calls : callId[q] = callId[r] => q = r
  BY DEF ServingInv, TypeOK, HandlersTypeOK, OwnIds, Posted

\* A call changes what is its own, and the end of the queue when it posts.
LEMMA HandlerEffect ==
  ASSUME ServingInv, NEW q \in Calls, Arrives(q) \/ Proceeds(q)
  PROVE  /\ UNCHANGED deferred
         /\ \/ UNCHANGED tasks
            \/ PostTask(q) /\ tasks' = Append(tasks, TaskOf(q))
         /\ \A r \in Calls : r # q => /\ pc'[r] = pc[r] /\ callId'[r] = callId[r]
                                      /\ reply'[r] = reply[r] /\ usage'[r] = usage[r]
                                      /\ outcome'[r] = outcome[r]
         /\ \A r \in Calls : Posted(r) => /\ Posted(r)'
                                          /\ callId'[r] = callId[r]
                                          /\ TaskOf(r)' = TaskOf(r)
<1> USE DEF At, Goto, Leave, EndsWith, queueVars
<1>1. HandlersTypeOK
  BY DEF ServingInv, TypeOK
<1>2. /\ UNCHANGED deferred
      /\ \/ UNCHANGED tasks
         \/ PostTask(q) /\ tasks' = Append(tasks, TaskOf(q))
      /\ \A r \in Calls : r # q => /\ pc'[r] = pc[r] /\ callId'[r] = callId[r]
                                   /\ reply'[r] = reply[r] /\ usage'[r] = usage[r]
                                   /\ outcome'[r] = outcome[r]
      /\ Posted(q) => Posted(q)' /\ callId'[q] = callId[q]
  <2> USE <1>1 DEF HandlersTypeOK, Posted
  <2>1. CASE Reject(q)         BY <2>1 DEF Reject
  <2>2. CASE GetNewId(q)       BY <2>2 DEF GetNewId
  <2>3. CASE AddWaiting(q)     BY <2>3 DEF AddWaiting
  <2>4. CASE PostTask(q)       BY <2>4 DEF PostTask, Post
  <2>5. CASE RecvPartial(q)    BY <2>5 DEF RecvPartial
  <2>6. CASE RecvStop(q)       BY <2>6 DEF RecvStop
  <2>7. CASE RecvAnswer(q)     BY <2>7 DEF RecvAnswer
  <2>8. CASE Timeout(q)        BY <2>8 DEF Timeout
  <2>9. CASE RemoveWaiting(q)  BY <2>9 DEF RemoveWaiting
  <2> QED  BY <2>1, <2>2, <2>3, <2>4, <2>5, <2>6, <2>7, <2>8, <2>9 DEF Arrives, Proceeds
<1>3. ASSUME NEW r \in Calls, Posted(r)
      PROVE  Posted(r)' /\ callId'[r] = callId[r]
  BY <1>2, <1>3 DEF Posted
<1> QED  BY <1>2, <1>3 DEF TaskOf

-----------------------------------------------------------------------------
(* Where a task is *)

\* The queue thread takes on nothing but what it finds in the queue.
LEMMA SchedulerWork ==
  ASSUME ServingInv, WorkIsPosted, SchedulerNext, UNCHANGED handlerVars
  PROVE  WorkIsPosted'
<1>1. /\ QueueTypeOK /\ SchedulerTypeOK
      /\ \A r \in Calls : (Posted(r) <=> Posted(r)') /\ TaskOf(r)' = TaskOf(r)
      /\ callId' = callId
  BY DEF ServingInv, TypeOK, handlerVars, Posted, TaskOf
<1>2. ASSUME tasks # << >>, TakeTask, NEW k \in DOMAIN tasks', tasks'[k].type # "CANCEL"
      PROVE  \E r \in Calls : Posted(r)' /\ tasks'[k] = TaskOf(r)'
  BY <1>1, <1>2, TakenPlaces DEF WorkIsPosted
<1>3. ASSUME tasks # << >>, TakeTask, Head(tasks).type = "COMPLETION"
      PROVE  \E r \in Completions : Posted(r)' /\ Head(tasks) = TaskOf(r)'
                                    /\ Head(tasks).id = callId[r]
  BY <1>1, <1>3, TakenPlaces, CompletionTask DEF WorkIsPosted
<1>4. ASSUME \A s \in Slots : Continues(s), NEW s \in Slots, Busy(s)'
      PROVE  \E r \in Completions : Posted(r)' /\ slots'[s].id_task = callId'[r]
  BY <1>1, <1>4 DEF WorkIsPosted, Continues, Completions, Calls
<1>5. UNCHANGED deferred => \A k \in DOMAIN deferred' :
        \E r \in Completions : Posted(r)' /\ deferred'[k] = TaskOf(r)'
  BY <1>1 DEF WorkIsPosted, Completions, Calls
<1>6. UNCHANGED tasks => \A k \in DOMAIN tasks' : tasks'[k].type # "CANCEL" =>
        \E r \in Calls : Posted(r)' /\ tasks'[k] = TaskOf(r)'
  BY <1>1 DEF WorkIsPosted
<1>7. UNCHANGED slots => \A s \in Slots : Continues(s)
  BY DEF Continues, Busy
<1>8. CASE ProcessCompletion
  <2>1. tasks # << >> /\ TakeTask /\ Head(tasks).type = "COMPLETION"
    BY <1>8 DEF ProcessCompletion, Arrived
  <2>2. Head(tasks) \in Task
    BY <1>1, <2>1, TakenType
  <2>3. CASE /\ \E s \in Slots : BestSlot(s) /\ LaunchSlotWithTask(s, Head(tasks))
             /\ UNCHANGED deferred
    <3>1. PICK s \in Slots : BestSlot(s) /\ LaunchSlotWithTask(s, Head(tasks))
      BY <2>3
    <3>2. \A q \in Slots \ {s} : slots'[q] = slots[q]
      BY <2>2, <3>1, LaunchEffect
    <3>3. slots'[s].id_task = Head(tasks).id
      BY <2>2, <3>1, LaunchEffect
    <3>4. ASSUME NEW q \in Slots, Busy(q)'
          PROVE  \E r \in Completions : Posted(r)' /\ slots'[q].id_task = callId'[r]
      <4>1. CASE q = s
        BY <1>1, <1>3, <2>1, <3>3, <4>1
      <4>2. CASE q # s
        BY <1>1, <3>2, <3>4, <4>2 DEF WorkIsPosted, Busy, Completions, Calls
      <4> QED  BY <4>1, <4>2
    <3> QED  BY <1>2, <1>5, <2>1, <2>3, <3>4 DEF WorkIsPosted
  <2>4. CASE Defer(Head(tasks)) /\ UNCHANGED <<slots, clock>>
    <3>1. deferred \in Seq(Task) /\ deferred' = Append(deferred, Head(tasks))
      BY <1>1, <2>4 DEF QueueTypeOK, Defer
    <3>2. ASSUME NEW k \in DOMAIN deferred'
          PROVE  \E r \in Completions : Posted(r)' /\ deferred'[k] = TaskOf(r)'
      <4>1. CASE k \in DOMAIN deferred
        BY <1>1, <2>2, <3>1, <4>1, AppendPlaces DEF WorkIsPosted, Completions, Calls
      <4>2. CASE k = Len(deferred) + 1
        BY <1>3, <2>1, <2>2, <3>1, <4>2, AppendPlaces
      <4> QED  BY <2>2, <3>1, <3>2, <4>1, <4>2, AppendPlaces
    <3> QED  BY <1>2, <1>4, <1>7, <2>1, <2>4, <3>2 DEF WorkIsPosted
  <2> QED  BY <1>8, <2>3, <2>4 DEF ProcessCompletion
<1>9. CASE ProcessCancel
  <2>1. tasks # << >> /\ TakeTask /\ UNCHANGED deferred
    BY <1>9 DEF ProcessCancel, Arrived
  <2>2. \A s \in Slots : Continues(s)
    BY <1>9, CancelEffect DEF Unmoved
  <2> QED  BY <1>2, <1>4, <1>5, <2>1, <2>2 DEF WorkIsPosted
<1>10. CASE ProcessOther \/ AnswerQuery
  <2>1. tasks # << >> /\ TakeTask /\ UNCHANGED <<deferred, slots>>
    BY <1>10 DEF ProcessOther, AnswerQuery, Arrived, schedulerVars
  <2> QED  BY <1>2, <1>4, <1>5, <1>7, <2>1 DEF WorkIsPosted
<1>11. CASE UpdateSlots
  <2>1. UNCHANGED <<tasks, deferred>> /\ \A s \in Slots : Continues(s)
    BY <1>11, UpdateEffect DEF UpdateSlots, Unmoved
  <2> QED  BY <1>4, <1>5, <1>6, <2>1 DEF WorkIsPosted
<1>12. ASSUME NEW s \in Slots, DecodeToken(s) \/ EngineFails(s)
       PROVE  WorkIsPosted'
  <2>1. UNCHANGED <<tasks, deferred>> /\ \A q \in Slots : Continues(q)
    BY <1>12, TokenEffect, FailEffect DEF DecodeToken, EngineFails
  <2> QED  BY <1>4, <1>5, <1>6, <2>1 DEF WorkIsPosted
<1>13. ASSUME NEW i \in TaskIds, PostCancel(i)
       PROVE  WorkIsPosted'
  <2> DEFINE cancel == [type |-> "CANCEL", id |-> i]
  <2>1. /\ tasks \in Seq(Task) /\ cancel \in Task
        /\ tasks' = Append(tasks, cancel)
        /\ UNCHANGED <<deferred, slots>>
    BY <1>1, <1>13 DEF PostCancel, Post, QueueTypeOK, Task, TaskTypes
  <2>2. cancel.type = "CANCEL"
    OBVIOUS
  <2> HIDE DEF cancel
  <2>3. ASSUME NEW k \in DOMAIN tasks', tasks'[k].type # "CANCEL"
        PROVE  \E r \in Calls : Posted(r)' /\ tasks'[k] = TaskOf(r)'
    <3>1. k \in DOMAIN tasks /\ tasks'[k] = tasks[k]
      BY <2>1, <2>2, <2>3, AppendPlaces
    <3> QED  BY <1>1, <2>3, <3>1 DEF WorkIsPosted
  <2> QED  BY <1>4, <1>5, <1>7, <2>1, <2>3 DEF WorkIsPosted
<1> QED  BY <1>8, <1>9, <1>10, <1>11, <1>12, <1>13 DEF SchedulerNext, ProcessSingleTask

\* A call adds its own task to the queue, once it counts as posted.
LEMMA HandlerWork ==
  ASSUME ServingInv, WorkIsPosted, UNCHANGED schedulerVars,
         NEW q \in Calls, Arrives(q) \/ Proceeds(q)
  PROVE  WorkIsPosted'
<1>1. /\ tasks \in Seq(Task)
      /\ UNCHANGED <<deferred, slots>>
      /\ \A r \in Calls : Posted(r) => /\ Posted(r)'
                                       /\ callId'[r] = callId[r]
                                       /\ TaskOf(r)' = TaskOf(r)
  BY HandlerEffect DEF ServingInv, TypeOK, QueueTypeOK, schedulerVars
<1>2. ASSUME NEW k \in DOMAIN tasks', tasks'[k].type # "CANCEL"
      PROVE  \E r \in Calls : Posted(r)' /\ tasks'[k] = TaskOf(r)'
  <2>1. CASE UNCHANGED tasks
    BY <1>1, <1>2, <2>1 DEF WorkIsPosted
  <2>2. CASE PostTask(q) /\ tasks' = Append(tasks, TaskOf(q))
    <3>1. callId[q] \in TaskIds
      BY <2>2 DEF PostTask, At, ServingInv, OwnIds
    <3>2. TaskOf(q) \in Task
      BY <3>1 DEF TaskOf, TaskType, Task, TaskTypes, Calls
    <3>3. Posted(q)' /\ TaskOf(q)' = TaskOf(q)
      BY <2>2, <3>1 DEF PostTask, Goto, Posted, TaskOf, TaskIds, NoTask,
         ServingInv, TypeOK, HandlersTypeOK
    <3>4. CASE k \in DOMAIN tasks
      BY <1>1, <1>2, <2>2, <3>2, <3>4, AppendPlaces DEF WorkIsPosted
    <3>5. CASE k = Len(tasks) + 1
      BY <1>1, <2>2, <3>2, <3>3, <3>5, AppendPlaces
    <3> QED  BY <1>1, <1>2, <2>2, <3>2, <3>4, <3>5, AppendPlaces
  <2> QED  BY <2>1, <2>2, HandlerEffect
<1> QED  BY <1>1, <1>2 DEF WorkIsPosted, Busy, Completions, Calls

\* The queue thread moves a task from one place to another.
LEMMA SchedulerPlace ==
  ASSUME ServingInv, OnePlace, SchedulerNext
  PROVE  OnePlace'
<1>1. /\ QueueTypeOK /\ SchedulerTypeOK
  BY DEF ServingInv, TypeOK
<1> DEFINE Queue == \A j, k \in DOMAIN tasks :
                      tasks[k].type = "COMPLETION" /\ tasks[j] = tasks[k] => j = k
           Aside == \A j, k \in DOMAIN deferred : deferred[j].id = deferred[k].id => j = k
           InSlots == \A s, q \in Slots : Busy(q) /\ Runs(s, slots[q].id_task) => s = q
           QueueOnly == \A k \in DOMAIN tasks : tasks[k].type = "COMPLETION" =>
                          /\ \A j \in DOMAIN deferred : deferred[j].id # tasks[k].id
                          /\ \A s \in Slots : ~Runs(s, tasks[k].id)
           AsideOnly == \A j \in DOMAIN deferred : \A s \in Slots : ~Runs(s, deferred[j].id)
<1>2. OnePlace <=> Queue /\ Aside /\ InSlots /\ QueueOnly /\ AsideOnly
  BY DEF OnePlace
<1>3. OnePlace' <=> Queue' /\ Aside' /\ InSlots' /\ QueueOnly' /\ AsideOnly'
  BY DEF OnePlace
<1>4. ASSUME tasks # << >>, TakeTask
      PROVE  /\ Queue'
             /\ \A k \in DOMAIN tasks' : tasks'[k].type = "COMPLETION" =>
                  /\ \A j \in DOMAIN deferred : deferred[j].id # tasks'[k].id
                  /\ \A s \in Slots : ~Runs(s, tasks'[k].id)
                  /\ Head(tasks).type = "COMPLETION" => tasks'[k] # Head(tasks)
  <2>1. /\ 1 \in DOMAIN tasks /\ tasks[1] = Head(tasks)
        /\ \A k \in DOMAIN tasks' :
             k \in Nat \ {0} /\ k + 1 \in DOMAIN tasks /\ tasks'[k] = tasks[k + 1]
    BY <1>1, <1>4, TakenPlaces
  <2>2. ASSUME NEW j \in DOMAIN tasks', NEW k \in DOMAIN tasks',
               tasks'[k].type = "COMPLETION", tasks'[j] = tasks'[k]
        PROVE  j = k
    <3>1. j + 1 = k + 1
      BY <1>2, <2>1, <2>2
    <3> QED  BY <2>1, <3>1
  <2>3. ASSUME NEW k \in DOMAIN tasks', tasks'[k].type = "COMPLETION"
        PROVE  /\ \A j \in DOMAIN deferred : deferred[j].id # tasks'[k].id
               /\ \A s \in Slots : ~Runs(s, tasks'[k].id)
    BY <1>2, <2>1, <2>3
  <2>4. ASSUME NEW k \in DOMAIN tasks', tasks'[k].type = "COMPLETION",
               tasks'[k] = Head(tasks)
        PROVE  FALSE
    <3>1. k + 1 = 1
      BY <1>2, <2>1, <2>4
    <3> QED  BY <2>1, <3>1
  <2> QED  BY <2>2, <2>3, <2>4
<1>5. ASSUME UNCHANGED deferred, \A s \in Slots : Continues(s)
      PROVE  /\ \A s \in Slots, i \in TaskIds : Runs(s, i)' => Runs(s, i)
             /\ Aside' /\ InSlots' /\ AsideOnly'
  BY <1>2, <1>5 DEF Continues, Runs, Busy
<1>6. ASSUME UNCHANGED <<tasks, deferred>>, \A s \in Slots : Continues(s)
      PROVE  OnePlace'
  BY <1>2, <1>3, <1>5, <1>6 DEF Continues, Runs, Busy
<1>7. UNCHANGED slots => \A s \in Slots : Continues(s)
  BY DEF Continues, Busy
<1>8. ASSUME tasks # << >>, TakeTask, UNCHANGED deferred, \A s \in Slots : Continues(s)
      PROVE  OnePlace'
  <2>1. QueueOnly'
    BY <1>4, <1>8 DEF Continues, Runs, Busy
  <2> QED  BY <1>3, <1>4, <1>5, <1>8, <2>1
<1>9. CASE ProcessCompletion
  <2>1. /\ tasks # << >> /\ TakeTask /\ Head(tasks).type = "COMPLETION"
        /\ Head(tasks) \in Task /\ 1 \in DOMAIN tasks /\ tasks[1] = Head(tasks)
    BY <1>1, <1>9, TakenPlaces DEF ProcessCompletion, Arrived
  <2>2. /\ \A j \in DOMAIN deferred : deferred[j].id # Head(tasks).id
        /\ \A s \in Slots : ~Runs(s, Head(tasks).id)
    BY <1>2, <2>1
  <2>3. \A k \in DOMAIN tasks' : tasks'[k].type = "COMPLETION" =>
          tasks'[k].id # Head(tasks).id
    <3>1. \A k \in DOMAIN tasks' : tasks'[k] \in Task
      BY <1>1, <2>1, TakenPlaces DEF QueueTypeOK
    <3> QED  BY <1>4, <2>1, <3>1 DEF Task
  <2>4. CASE /\ \E s \in Slots : BestSlot(s) /\ LaunchSlotWithTask(s, Head(tasks))
             /\ UNCHANGED deferred
    <3>1. PICK s \in Slots : BestSlot(s) /\ LaunchSlotWithTask(s, Head(tasks))
      BY <2>4
    <3>2. /\ \A q \in Slots \ {s} : slots'[q] = slots[q]
          /\ slots'[s].id_task = Head(tasks).id
      BY <2>1, <3>1, LaunchEffect
    <3>3. \A q \in Slots : \A i : Runs(q, i)' => Runs(q, i) \/ i = Head(tasks).id
      BY <3>2 DEF Runs, Busy
    <3>4. InSlots'
      BY <1>2, <2>2, <3>2 DEF Runs, Busy
    <3>5. QueueOnly' /\ AsideOnly' /\ Aside'
      BY <1>2, <1>4, <2>1, <2>2, <2>3, <2>4, <3>3
    <3> QED  BY <1>3, <1>4, <2>1, <3>4, <3>5
  <2>5. CASE Defer(Head(tasks)) /\ UNCHANGED <<slots, clock>>
    <3>1. deferred \in Seq(Task) /\ deferred' = Append(deferred, Head(tasks))
      BY <1>1, <2>5 DEF QueueTypeOK, Defer
    <3>2. /\ \A j \in DOMAIN deferred' :
               \/ j \in DOMAIN deferred /\ deferred'[j] = deferred[j]
               \/ j = Len(deferred) + 1 /\ deferred'[j] = Head(tasks)
      BY <2>1, <3>1, AppendPlaces
    <3>3. Aside'
      BY <1>2, <2>2, <3>2
    <3>4. InSlots' /\ AsideOnly'
      BY <1>2, <2>2, <2>5, <3>2 DEF Runs, Busy
    <3>5. QueueOnly'
      BY <1>4, <2>1, <2>3, <2>5, <3>2 DEF Runs, Busy
    <3> QED  BY <1>3, <1>4, <2>1, <3>3, <3>4, <3>5
  <2> QED  BY <1>9, <2>4, <2>5 DEF ProcessCompletion
<1>10. CASE ProcessCancel
  <2>1. tasks # << >> /\ TakeTask /\ UNCHANGED deferred
    BY <1>10 DEF ProcessCancel, Arrived
  <2>2. \A s \in Slots : Continues(s)
    BY <1>10, CancelEffect DEF Unmoved
  <2> QED  BY <1>8, <2>1, <2>2
<1>11. CASE ProcessOther \/ AnswerQuery
  <2>1. tasks # << >> /\ TakeTask /\ UNCHANGED <<deferred, slots>>
    BY <1>11 DEF ProcessOther, AnswerQuery, Arrived, schedulerVars
  <2> QED  BY <1>7, <1>8, <2>1
<1>12. CASE UpdateSlots
  BY <1>6, <1>12, UpdateEffect DEF UpdateSlots, Unmoved
<1>13. ASSUME NEW s \in Slots, DecodeToken(s) \/ EngineFails(s)
       PROVE  OnePlace'
  <2>1. UNCHANGED <<tasks, deferred>> /\ \A q \in Slots : Continues(q)
    BY <1>13, TokenEffect, FailEffect DEF DecodeToken, EngineFails
  <2> QED  BY <1>6, <2>1
<1>14. ASSUME NEW i \in TaskIds, PostCancel(i)
       PROVE  OnePlace'
  <2> DEFINE cancel == [type |-> "CANCEL", id |-> i]
  <2>1. /\ tasks \in Seq(Task) /\ cancel \in Task
        /\ tasks' = Append(tasks, cancel)
        /\ UNCHANGED <<deferred, slots>>
    BY <1>1, <1>14 DEF PostCancel, Post, QueueTypeOK, Task, TaskTypes
  <2>2. cancel.type = "CANCEL"
    OBVIOUS
  <2> HIDE DEF cancel
  <2>3. \A k \in DOMAIN tasks' : \/ k \in DOMAIN tasks /\ tasks'[k] = tasks[k]
                                 \/ tasks'[k].type = "CANCEL"
    BY <2>1, <2>2, AppendPlaces
  <2> QED  BY <1>2, <1>3, <2>1, <2>3 DEF Runs, Busy
<1> QED  BY <1>9, <1>10, <1>11, <1>12, <1>13, <1>14 DEF SchedulerNext, ProcessSingleTask

\* A task that a call posts is nowhere yet.
LEMMA HandlerPlace ==
  ASSUME ServingInv, WorkIsPosted, OnePlace, UNCHANGED schedulerVars,
         NEW q \in Calls, Arrives(q) \/ Proceeds(q)
  PROVE  OnePlace'
<1>1. /\ tasks \in Seq(Task) /\ deferred \in Seq(Task)
      /\ UNCHANGED <<deferred, slots>>
  BY HandlerEffect DEF ServingInv, TypeOK, QueueTypeOK, schedulerVars
<1>2. CASE UNCHANGED tasks
  BY <1>1, <1>2 DEF OnePlace, Runs, Busy
<1>3. CASE PostTask(q) /\ tasks' = Append(tasks, TaskOf(q))
  <2>1. callId[q] \in TaskIds /\ At(q, "registered")
    BY <1>3 DEF PostTask, At, ServingInv, OwnIds
  <2>2. TaskOf(q) \in Task
    BY <2>1 DEF TaskOf, TaskType, Task, TaskTypes, Calls
  <2>3. \A r \in Calls : Posted(r) => callId[r] # callId[q]
    BY <2>1, PostedIds DEF Posted, At
  <2>4. /\ \A k \in DOMAIN tasks :
             tasks[k].type = "COMPLETION" => tasks[k].id # callId[q]
        /\ \A j \in DOMAIN deferred : deferred[j].id # callId[q]
        /\ \A s \in Slots : ~Runs(s, callId[q])
    BY <2>3, CompletionTask DEF WorkIsPosted, Runs, Completions, Calls
  <2>5. \A k \in DOMAIN tasks' :
          \/ k \in DOMAIN tasks /\ tasks'[k] = tasks[k]
          \/ k = Len(tasks) + 1 /\ tasks'[k] = TaskOf(q)
    BY <1>1, <1>3, <2>2, AppendPlaces
  <2>6. TaskOf(q).id = callId[q]
    BY DEF TaskOf
  <2> QED  BY <1>1, <2>4, <2>5, <2>6 DEF OnePlace, Runs, Busy
<1> QED  BY <1>2, <1>3, HandlerEffect

\* An id that a call gave back stays so: no other call has it.
LEMMA IdsStayReleased ==
  ASSUME ServingInv, ReleasedIds, [Next]_vars
  PROVE  ReleasedIds'
<1>1. CASE SchedulerNext /\ UNCHANGED handlerVars
  <2>1. UNCHANGED <<waitingIds, pc, callId>>
    BY <1>1 DEF handlerVars, SchedulerNext, ProcessSingleTask, ProcessCompletion,
         ProcessCancel, ProcessOther, AnswerQuery, UpdateSlots, DecodeToken,
         EngineFails, PostCancel
  <2> QED  BY <2>1 DEF ReleasedIds, Abandoned, At
<1>2. ASSUME NEW q \in Calls, Arrives(q) \/ Proceeds(q), NEW r \in Calls, Abandoned(r)'
      PROVE  callId'[r] \notin waitingIds'
  <2> USE DEF At, Goto, Leave, EndsWith, queueVars, Abandoned
  <2>1. HandlersTypeOK /\ OwnIds
    BY DEF ServingInv, TypeOK
  <2>2. CASE r = q
    <3>1. \/ Reject(q) /\ callId' = callId
          \/ RemoveWaiting(q)
      BY <1>2, <2>1, <2>2 DEF HandlersTypeOK, Arrives, Proceeds, Reject, GetNewId,
         AddWaiting, PostTask, RecvPartial, RecvStop, RecvAnswer, Timeout, RemoveWaiting, Receive
    <3>2. ~Reject(q)
      BY <1>2, <2>1, <2>2 DEF Reject, OwnIds
    <3> QED  BY <2>2, <3>1, <3>2 DEF RemoveWaiting
  <2>3. CASE r # q
    <3>1. Abandoned(r) /\ callId'[r] = callId[r]
      BY <1>2, <2>3, HandlerEffect
    <3>2. callId[r] \notin waitingIds /\ callId[r] # callId[q]
      BY <2>1, <2>3, <3>1 DEF ReleasedIds, OwnIds
    <3>3. waitingIds' \subseteq waitingIds \cup {callId[q]}
      BY <1>2 DEF Arrives, Proceeds, Reject, GetNewId, AddWaiting, PostTask,
         RecvPartial, RecvStop, RecvAnswer, Timeout, RemoveWaiting
    <3> QED  BY <3>1, <3>2, <3>3
  <2> QED  BY <2>2, <2>3
<1>3. CASE UNCHANGED vars
  BY <1>3 DEF vars, queueVars, handlerVars, ReleasedIds, Abandoned, At
<1> QED  BY <1>1, <1>2, <1>3 DEF Next, HandlerNext, ReleasedIds

\* Queue, deferred list and slots are empty when the server starts.
LEMMA PlacesInit == Init => PlacesInv
<1> SUFFICES ASSUME Init PROVE PlacesInv
  OBVIOUS
<1>1. /\ tasks = << >> /\ deferred = << >> /\ waitingIds = {}
      /\ slots \in [Slots -> {NewSlot(b) : b \in SlotStream}]
  BY DEF Init, QueueInit, SchedulerInit
<1>2. DOMAIN tasks = {} /\ DOMAIN deferred = {}
  BY <1>1
<1>3. \A s \in Slots : ~Busy(s)
  BY <1>1 DEF NewSlot, Busy
<1> QED  BY <1>1, <1>2, <1>3 DEF PlacesInv, WorkIsPosted, OnePlace, ReleasedIds, Runs

\* Every step of the server keeps PlacesInv.
LEMMA PlacesStep == ServingInv /\ PlacesInv /\ [Next]_vars => PlacesInv'
<1> SUFFICES ASSUME ServingInv, PlacesInv, [Next]_vars PROVE PlacesInv'
  OBVIOUS
<1> USE DEF PlacesInv
<1>1. ReleasedIds'
  BY IdsStayReleased
<1>2. CASE SchedulerNext /\ UNCHANGED handlerVars
  BY <1>1, <1>2, SchedulerWork, SchedulerPlace
<1>3. CASE HandlerNext /\ UNCHANGED schedulerVars
  BY <1>1, <1>3, HandlerWork, HandlerPlace DEF HandlerNext
<1>4. CASE UNCHANGED vars
  <2>1. WorkIsPosted' /\ OnePlace'
    BY <1>4 DEF vars, queueVars, schedulerVars, handlerVars, WorkIsPosted, OnePlace,
       Posted, TaskOf, Runs, Busy
  <2> QED  BY <1>1, <2>1
<1> QED  BY <1>2, <1>3, <1>4 DEF Next

\* The tasks of completions are where PlacesInv says in every reachable state.
THEOREM PlacesInvariance == SafetySpec => []PlacesInv
<1>1. Init => PlacesInv
  BY PlacesInit
<1>2. ServingInv /\ PlacesInv /\ [Next]_vars => PlacesInv'
  BY PlacesStep
<1> QED  BY <1>1, <1>2, ServingInvariance, PTL DEF SafetySpec

\* A completion is worked on in one place, for any number of calls and slots,
\* and whatever is cancelled or deferred.
THEOREM OneHolderHolds == SafetySpec => []OneHolder
<1>1. ServingInv /\ PlacesInv => OneHolder
  <2> SUFFICES ASSUME ServingInv, PlacesInv, NEW i \in TaskIds,
                      NEW g \in Holders(i), NEW h \in Holders(i)
               PROVE  g = h
    BY DEF OneHolder
  <2> DEFINE Q == {k \in DOMAIN tasks : tasks[k] = [type |-> "COMPLETION", id |-> i]}
             D == {k \in DOMAIN deferred : deferred[k].id = i}
             S == {s \in Slots : slots[s].state = "PROCESSING" /\ slots[s].id_task = i}
  <2>1. /\ \A j, k \in Q : j = k
        /\ \A j, k \in D : j = k
        /\ \A s, q \in S : s = q
        /\ Q # {} => D = {} /\ S = {}
        /\ D # {} => S = {}
    BY DEF PlacesInv, OnePlace, Runs, Busy
  <2>2. ASSUME NEW x \in Holders(i)
        PROVE  \/ \E k \in Q : x = <<"queued", k>>
               \/ \E k \in D : x = <<"deferred", k>>
               \/ \E s \in S : x = <<"slot", s>>
    BY <2>2 DEF Holders
  <2> HIDE DEF Q, D, S
  <2> QED  BY <2>1, <2>2
<1> QED  BY <1>1, ServingInvariance, PlacesInvariance, PTL

\* What is sent after a call has given its id back reaches nobody's queue,
\* however long its task still runs.
THEOREM AbandonedIdsStayQuietHolds == SafetySpec => AbandonedIdsStayQuiet
<1>1. ASSUME ServingInv, PlacesInv, [Next]_vars, NEW r \in Calls, Abandoned(r)
      PROVE  Len(results'[callId[r]]) <= Len(results[callId[r]])
  <2>1. /\ callId[r] \in TaskIds /\ callId[r] \notin waitingIds
        /\ results \in [TaskIds -> Seq(Result)]
    BY <1>1 DEF ServingInv, TypeOK, QueueTypeOK, HandlersTypeOK, PlacesInv, ReleasedIds,
       Abandoned
  <2> PICK i \in TaskIds : i = callId[r]
    BY <2>1
  <2>2. \A j, res : SendTo(j, res) => results'[i] = results[i]
    BY <2>1 DEF SendTo
  <2>3. ASSUME results'[i] = results[i]
        PROVE  Len(results'[i]) <= Len(results[i])
    <3>1. Len(results[i]) \in Nat
      BY <2>1, LenProperties
    <3> QED  BY <2>3, <3>1
  <2>4. CASE SchedulerNext
    <3>1. results'[i] = results[i]
      BY <2>1, <2>2, <2>4 DEF SchedulerNext, ProcessSingleTask, ProcessCompletion,
           ProcessCancel, ProcessOther, AnswerQuery, UpdateSlots, FinalsSent,
           DecodeToken, SendToken, EngineFails, PostCancel
    <3> QED  BY <2>3, <3>1
  <2>5. ASSUME NEW q \in Calls, Arrives(q) \/ Proceeds(q)
        PROVE  Len(results'[i]) <= Len(results[i])
    <3>1. CASE Receive(q)
      <4>1. callId[q] \in TaskIds /\ HasResult(callId[q])
        BY <1>1, <3>1 DEF Receive, ServingInv, OwnIds, At
      <4>2. CASE callId[q] = i
        <5>1. results[i] \in Seq(Result) /\ results[i] # << >>
              /\ results'[i] = Tail(results[i])
          BY <2>1, <3>1, <4>1, <4>2 DEF Receive, Consume, HasResult
        <5>2. /\ Len(results[i]) \in Nat
              /\ Len(Tail(results[i])) = Len(results[i]) - 1
          BY <5>1, TailPlaces, LenProperties
        <5> QED  BY <5>1, <5>2
      <4>3. CASE callId[q] # i
        BY <2>1, <2>3, <3>1, <4>3 DEF Receive, Consume
      <4> QED  BY <4>2, <4>3
    <3>2. CASE UNCHANGED results
      BY <2>3, <3>2
    <3> QED  BY <2>5, <3>1, <3>2 DEF Arrives, Proceeds, Reject, GetNewId, AddWaiting,
             PostTask, RecvPartial, RecvStop, RecvAnswer, Timeout, RemoveWaiting, queueVars
  <2>6. CASE UNCHANGED vars
    BY <2>3, <2>6 DEF vars, queueVars
  <2> QED  BY <1>1, <2>4, <2>5, <2>6 DEF Next, HandlerNext
<1>2. ServingInv /\ PlacesInv /\ [Next]_vars =>
        [\A r \in Calls : Abandoned(r) =>
           Len(results'[callId[r]]) <= Len(results[callId[r]])]_vars
  BY <1>1
<1> QED  BY <1>2, ServingInvariance, PlacesInvariance, PTL
         DEF SafetySpec, AbandonedIdsStayQuiet

-----------------------------------------------------------------------------
(* What has been generated *)

\* Nothing works on id i: no slot, and no question of another kind of call.
Untouched(i) ==
  /\ \A s \in Slots : ~Runs(s, i)
  /\ \A k \in DOMAIN tasks : tasks[k].type \in {"EMBEDDING", "METRICS"} => tasks[k].id # i

\* Fresh after the step
FreshNext(i) == decoded'[i] = 0 /\ results'[i] = << >>

\* FreshBefore after a step, place by place.
LEMMA FreshBeforeNext ==
  ASSUME /\ \A i \in TaskIds : i >= nextId' => FreshNext(i)
         /\ \A r \in Calls : pc'[r] \in {"named", "registered"} => FreshNext(callId'[r])
         /\ \A k \in DOMAIN tasks' :
              tasks'[k].type = "COMPLETION" => FreshNext(tasks'[k].id)
         /\ \A k \in DOMAIN deferred' : FreshNext(deferred'[k].id)
  PROVE  FreshBefore'
  BY DEF FreshBefore, Fresh, FreshNext

\* Only what works on an id generates for it or sends to it.
LEMMA SchedulerTouches ==
  ASSUME ServingInv, WorkIsPosted, SchedulerNext, NEW i \in TaskIds, Untouched(i)
  PROVE  decoded'[i] = decoded[i] /\ results'[i] = results[i]
<1>1. /\ QueueTypeOK /\ SchedulerTypeOK
      /\ results \in [TaskIds -> Seq(Result)]
      /\ decoded \in [TaskIds -> Nat]
  BY DEF ServingInv, TypeOK, QueueTypeOK, SchedulerTypeOK
<1>2. \A j, res : j # i /\ SendTo(j, res) => results'[i] = results[i]
  BY <1>1 DEF SendTo
<1>3. CASE ProcessCompletion \/ ProcessCancel
  BY <1>3 DEF ProcessCompletion, ProcessCancel
<1>4. CASE ProcessOther \/ AnswerQuery
  <2>1. /\ tasks # << >> /\ TakeTask /\ UNCHANGED decoded
        /\ Head(tasks).type \in {"METRICS", "EMBEDDING"}
    BY <1>4 DEF ProcessOther, AnswerQuery, Arrived, schedulerVars
  <2>2. Head(tasks).id # i
    BY <1>1, <2>1, TakenPlaces DEF Untouched
  <2> QED  BY <1>2, <1>4, <2>1, <2>2 DEF ProcessOther, AnswerQuery
<1>5. CASE UpdateSlots
  <2>1. Answered(i) = {}
    BY DEF Answered, Untouched, Runs, Busy, Releasing, Finished
  <2> QED  BY <1>5, <2>1 DEF UpdateSlots, FinalsSent
<1>6. ASSUME NEW s \in Slots, DecodeToken(s) \/ EngineFails(s)
      PROVE  decoded'[i] = decoded[i] /\ results'[i] = results[i]
  <2>1. slots[s].id_task # i
    BY <1>6 DEF DecodeToken, EngineFails, Untouched, Runs, Busy
  <2> QED  BY <1>1, <1>2, <1>6, <2>1 DEF DecodeToken, ProcessToken, SendToken, EngineFails
<1>7. ASSUME NEW j \in TaskIds, PostCancel(j)
      PROVE  decoded'[i] = decoded[i] /\ results'[i] = results[i]
  BY <1>7 DEF PostCancel
<1> QED  BY <1>3, <1>4, <1>5, <1>6, <1>7 DEF SchedulerNext, ProcessSingleTask

\* No question is asked under the id of a completion.
LEMMA NoQueryFor ==
  ASSUME ServingInv, WorkIsPosted, NEW r \in Completions, Posted(r),
         NEW k \in DOMAIN tasks, tasks[k].type \in {"EMBEDDING", "METRICS"}
  PROVE  tasks[k].id # callId[r]
<1>1. PICK q \in Calls : Posted(q) /\ tasks[k] = TaskOf(q)
  BY DEF WorkIsPosted
<1>2. q # r
  BY <1>1, CompletionTask
<1>3. r \in Calls
  BY DEF Calls
<1> QED  BY <1>1, <1>2, <1>3, PostedIds, CompletionTask

\* An id that has not been posted, or whose task still waits, is untouched.
LEMMA WaitingUntouched ==
  ASSUME ServingInv, PlacesInv
  PROVE  /\ \A i \in TaskIds : i >= nextId => Untouched(i)
         /\ \A r \in Calls : pc[r] \in {"named", "registered"} => Untouched(callId[r])
         /\ \A k \in DOMAIN tasks :
              tasks[k].type = "COMPLETION" => Untouched(tasks[k].id)
         /\ \A k \in DOMAIN deferred : Untouched(deferred[k].id)
<1> USE DEF PlacesInv
<1>1. /\ tasks \in Seq(Task) /\ deferred \in Seq(Task) /\ nextId \in Int
      /\ \A r \in Calls : callId[r] \in Int
  BY MaxTasksAssumption DEF ServingInv, TypeOK, QueueTypeOK, HandlersTypeOK, TaskIds, NoTask
<1>2. ASSUME NEW i, \A q \in Calls : Posted(q) => callId[q] # i
      PROVE  Untouched(i)
  BY <1>2, CompletionTask DEF WorkIsPosted, Untouched, Runs, Completions, Calls
<1>3. ASSUME NEW i \in TaskIds, i >= nextId PROVE Untouched(i)
  <2>1. i \in Int
    BY MaxTasksAssumption DEF TaskIds
  <2> QED  BY <1>1, <1>2, <1>3, <2>1, PostedIds
<1>4. ASSUME NEW r \in Calls, pc[r] \in {"named", "registered"} PROVE Untouched(callId[r])
  <2>1. \A q \in Calls : Posted(q) => q # r
    BY <1>4 DEF Posted
  <2> QED  BY <1>2, <2>1, PostedIds
<1>5. ASSUME NEW k \in DOMAIN tasks, tasks[k].type = "COMPLETION"
      PROVE  Untouched(tasks[k].id)
  <2>1. PICK r \in Completions : Posted(r) /\ tasks[k].id = callId[r]
    BY <1>5, CompletionTask DEF WorkIsPosted
  <2>2. \A s \in Slots : ~Runs(s, tasks[k].id)
    BY <1>5 DEF OnePlace
  <2> QED  BY <2>1, <2>2, NoQueryFor DEF Untouched
<1>6. ASSUME NEW k \in DOMAIN deferred
      PROVE  Untouched(deferred[k].id)
  <2>1. PICK r \in Completions : Posted(r) /\ deferred[k].id = callId[r]
    BY <1>6, CompletionTask DEF WorkIsPosted, Completions, Calls
  <2>2. \A s \in Slots : ~Runs(s, deferred[k].id)
    BY <1>6 DEF OnePlace
  <2> QED  BY <2>1, <2>2, NoQueryFor DEF Untouched
<1> QED  BY <1>3, <1>4, <1>5, <1>6

\* The queue thread generates nothing for a task before a slot has it.
LEMMA SchedulerFresh ==
  ASSUME ServingInv, PlacesInv, FreshBefore, SchedulerNext, UNCHANGED handlerVars
  PROVE  FreshBefore'
<1>1. /\ QueueTypeOK /\ UNCHANGED <<pc, callId>>
      /\ tasks \in Seq(Task) /\ deferred \in Seq(Task)
  BY DEF ServingInv, TypeOK, QueueTypeOK, handlerVars
<1>2. UNCHANGED nextId
  BY DEF SchedulerNext, ProcessSingleTask, ProcessCompletion, ProcessCancel,
       ProcessOther, AnswerQuery, UpdateSlots, DecodeToken, EngineFails, PostCancel
<1>3. ASSUME NEW i \in TaskIds, Untouched(i), Fresh(i) PROVE FreshNext(i)
  BY <1>3, SchedulerTouches DEF Fresh, FreshNext, PlacesInv
<1>4. /\ \A r \in Calls : pc[r] \in {"named", "registered"} => callId[r] \in TaskIds
      /\ \A k \in DOMAIN tasks : tasks[k].id \in TaskIds
      /\ \A k \in DOMAIN deferred : deferred[k].id \in TaskIds
  BY <1>1, QueuedTypes DEF ServingInv, OwnIds
<1>5. /\ \A i \in TaskIds : i >= nextId => FreshNext(i)
      /\ \A r \in Calls : pc[r] \in {"named", "registered"} => FreshNext(callId[r])
      /\ \A k \in DOMAIN tasks : tasks[k].type = "COMPLETION" =>
           \A i \in TaskIds : i = tasks[k].id => FreshNext(i)
      /\ \A k \in DOMAIN deferred :
           \A i \in TaskIds : i = deferred[k].id => FreshNext(i)
  BY <1>1, <1>3, <1>4, WaitingUntouched DEF FreshBefore
<1>6. ASSUME NEW k \in DOMAIN tasks', tasks'[k].type = "COMPLETION"
      PROVE  \E j \in DOMAIN tasks : tasks[j] = tasks'[k]
  <2>1. CASE UNCHANGED tasks
    BY <1>6, <2>1
  <2>2. CASE tasks # << >> /\ TakeTask
    BY <1>1, <2>2, TakenPlaces
  <2>3. ASSUME NEW i \in TaskIds, PostCancel(i)
        PROVE  \E j \in DOMAIN tasks : tasks[j] = tasks'[k]
    <3> DEFINE cancel == [type |-> "CANCEL", id |-> i]
    <3>1. cancel \in Task /\ tasks' = Append(tasks, cancel) /\ cancel.type = "CANCEL"
      BY <2>3 DEF PostCancel, Post, Task, TaskTypes
    <3> HIDE DEF cancel
    <3> QED  BY <1>1, <1>6, <3>1, AppendPlaces
  <2> QED  BY <2>1, <2>2, <2>3 DEF SchedulerNext, ProcessSingleTask, ProcessCompletion,
       ProcessCancel, ProcessOther, AnswerQuery, Arrived, UpdateSlots, DecodeToken,
       EngineFails
<1>7. ASSUME NEW k \in DOMAIN deferred'
      PROVE  \/ \E j \in DOMAIN deferred : deferred[j] = deferred'[k]
             \/ \E j \in DOMAIN tasks : /\ tasks[j].type = "COMPLETION"
                                        /\ tasks[j] = deferred'[k]
  <2>1. CASE UNCHANGED deferred
    BY <1>7, <2>1
  <2>2. CASE ProcessCompletion /\ Defer(Head(tasks))
    <3>1. tasks # << >> /\ TakeTask /\ Head(tasks).type = "COMPLETION"
      BY <2>2 DEF ProcessCompletion, Arrived
    <3>2. 1 \in DOMAIN tasks /\ tasks[1] = Head(tasks) /\ Head(tasks) \in Task
      BY <1>1, <3>1, TakenPlaces
    <3> QED  BY <1>1, <1>7, <2>2, <3>1, <3>2, AppendPlaces DEF Defer
  <2> QED  BY <2>1, <2>2 DEF SchedulerNext, ProcessSingleTask, ProcessCompletion,
       ProcessCancel, ProcessOther, AnswerQuery, UpdateSlots, DecodeToken, EngineFails,
       PostCancel
<1>8. \A k \in DOMAIN tasks' : tasks'[k].type = "COMPLETION" => FreshNext(tasks'[k].id)
  <2> SUFFICES ASSUME NEW k \in DOMAIN tasks', tasks'[k].type = "COMPLETION"
               PROVE  FreshNext(tasks'[k].id)
    OBVIOUS
  <2>1. PICK j \in DOMAIN tasks : tasks[j] = tasks'[k]
    BY <1>6
  <2> QED  BY <1>4, <1>5, <2>1
<1>9. \A k \in DOMAIN deferred' : FreshNext(deferred'[k].id)
  BY <1>4, <1>5, <1>7
<1> QED  BY <1>1, <1>2, <1>5, <1>8, <1>9, FreshBeforeNext

\* A call takes a result only where there is one.
LEMMA HandlerKeepsFresh ==
  ASSUME ServingInv, UNCHANGED schedulerVars, NEW q \in Calls, Arrives(q) \/ Proceeds(q),
         NEW i \in TaskIds, Fresh(i)
  PROVE  FreshNext(i)
<1>1. UNCHANGED decoded /\ results \in [TaskIds -> Seq(Result)]
  BY DEF schedulerVars, ServingInv, TypeOK, QueueTypeOK
<1>2. CASE UNCHANGED results
  BY <1>1, <1>2 DEF Fresh, FreshNext
<1>3. CASE Receive(q)
  <2>1. HasResult(callId[q]) /\ Consume(callId[q])
    BY <1>3 DEF Receive
  <2>2. callId[q] # i
    BY <2>1 DEF HasResult, Fresh
  <2> QED  BY <1>1, <2>1, <2>2 DEF Consume, Fresh, FreshNext
<1> QED  BY <1>2, <1>3 DEF Arrives, Proceeds, Reject, GetNewId, AddWaiting, PostTask,
         RecvPartial, RecvStop, RecvAnswer, Timeout, RemoveWaiting, queueVars

\* A step of a call generates nothing, and uses up ids that are fresh.
LEMMA HandlerFresh ==
  ASSUME ServingInv, FreshBefore, UNCHANGED schedulerVars,
         NEW q \in Calls, Arrives(q) \/ Proceeds(q)
  PROVE  FreshBefore'
<1>1. /\ \A i \in TaskIds : Fresh(i) => FreshNext(i)
      /\ HandlersTypeOK /\ OwnIds
      /\ tasks \in Seq(Task) /\ deferred \in Seq(Task) /\ nextId \in Int
      /\ UNCHANGED deferred
      /\ \A k \in DOMAIN tasks : tasks[k].id \in TaskIds
      /\ \A k \in DOMAIN deferred : deferred[k].id \in TaskIds
  BY HandlerKeepsFresh, HandlerEffect, MaxTasksAssumption, QueuedTypes
     DEF ServingInv, TypeOK, QueueTypeOK
<1>2. \A i \in TaskIds : i >= nextId' => FreshNext(i)
  <2>1. nextId' \in {nextId, nextId + 1}
    BY DEF Arrives, Proceeds, Reject, GetNewId, AddWaiting, PostTask, RecvPartial,
       RecvStop, RecvAnswer, Timeout, RemoveWaiting, queueVars
  <2>2. \A i \in TaskIds : i \in Int
    BY MaxTasksAssumption DEF TaskIds
  <2>3. \A i \in TaskIds : i >= nextId' => i >= nextId
    BY <1>1, <2>1, <2>2
  <2> QED  BY <1>1, <2>3 DEF FreshBefore
<1>3. ASSUME NEW r \in Calls, pc'[r] \in {"named", "registered"}
      PROVE  FreshNext(callId'[r])
  <2>1. CASE r # q
    <3>1. pc'[r] = pc[r] /\ callId'[r] = callId[r]
      BY <2>1, HandlerEffect
    <3> QED  BY <1>1, <1>3, <3>1 DEF FreshBefore, OwnIds
  <2>2. CASE r = q
    <3>1. CASE GetNewId(q)
      <4>1. nextId \in TaskIds /\ callId'[q] = nextId
        BY <1>1, <3>1, MaxTasksAssumption DEF GetNewId, TaskIds, HandlersTypeOK,
           ServingInv, TypeOK, QueueTypeOK
      <4> QED  BY <1>1, <2>2, <4>1 DEF FreshBefore
    <3>2. CASE AddWaiting(q)
      <4>1. callId' = callId /\ pc[q] = "named"
        BY <3>2 DEF AddWaiting, At
      <4> QED  BY <1>1, <2>2, <4>1 DEF FreshBefore, OwnIds
    <3>3. GetNewId(q) \/ AddWaiting(q)
      BY <1>1, <1>3, <2>2 DEF HandlersTypeOK, At, Goto, Leave, EndsWith, Arrives, Proceeds,
         Reject, GetNewId, AddWaiting, PostTask, RecvPartial, RecvStop, RecvAnswer,
         Timeout, RemoveWaiting, Receive
    <3> QED  BY <3>1, <3>2, <3>3
  <2> QED  BY <2>1, <2>2
<1>4. ASSUME NEW k \in DOMAIN tasks', tasks'[k].type = "COMPLETION"
      PROVE  FreshNext(tasks'[k].id)
  <2>1. CASE UNCHANGED tasks
    BY <1>1, <1>4, <2>1 DEF FreshBefore
  <2>2. CASE PostTask(q) /\ tasks' = Append(tasks, TaskOf(q))
    <3>1. callId[q] \in TaskIds /\ pc[q] = "registered"
      BY <2>2 DEF PostTask, At, ServingInv, OwnIds
    <3>2. TaskOf(q) \in Task /\ TaskOf(q).id = callId[q]
      BY <3>1 DEF TaskOf, TaskType, Task, TaskTypes, Calls
    <3>3. \/ k \in DOMAIN tasks /\ tasks'[k] = tasks[k]
          \/ tasks'[k] = TaskOf(q)
      BY <1>1, <2>2, <3>2, AppendPlaces
    <3> QED  BY <1>1, <1>4, <3>1, <3>2, <3>3 DEF FreshBefore
  <2> QED  BY <2>1, <2>2, HandlerEffect
<1>5. \A k \in DOMAIN deferred' : FreshNext(deferred'[k].id)
  BY <1>1 DEF FreshBefore
<1> QED  BY <1>2, <1>3, <1>4, <1>5, FreshBeforeNext

\* The slot of a running task, and the posted completion it belongs to.
LEMMA OwnerOf ==
  ASSUME ServingInv, PlacesInv, NEW s \in Slots, Busy(s)
  PROVE  /\ slots[s].id_task \in TaskIds
         /\ \E r \in Completions : Posted(r) /\ callId[r] = slots[s].id_task
         /\ \A q \in Slots : Runs(q, slots[s].id_task) => q = s
  BY PostedIds DEF PlacesInv, WorkIsPosted, OnePlace, Completions, Calls

\* The counter of a slot and that of its task advance together.
LEMMA SchedulerCounts ==
  ASSUME ServingInv, PlacesInv, GenerationInv, SchedulerNext
  PROVE  CountsAgree'
<1>1. /\ QueueTypeOK /\ SchedulerTypeOK
      /\ slots \in [Slots -> Slot] /\ decoded \in [TaskIds -> Nat]
      /\ MaxTokens \in Nat \ {0}
      /\ CountsAgree
  BY SchedulerAssumption DEF ServingInv, TypeOK, SchedulerTypeOK, GenerationInv
<1>2. ASSUME UNCHANGED decoded, \A s \in Slots : Unmoved(s)
      PROVE  CountsAgree'
  BY <1>1, <1>2 DEF CountsAgree, Unmoved, Continues, Busy
<1>3. CASE UNCHANGED <<decoded, slots>>
  BY <1>2, <1>3 DEF Unmoved, Continues, Busy
<1>4. CASE ProcessCompletion
  <2>1. CASE UNCHANGED slots
    BY <1>3, <1>4, <2>1 DEF ProcessCompletion
  <2>2. CASE \E s \in Slots : BestSlot(s) /\ LaunchSlotWithTask(s, Head(tasks))
    <3>1. PICK s \in Slots : BestSlot(s) /\ LaunchSlotWithTask(s, Head(tasks))
      BY <2>2
    <3>2. /\ tasks # << >> /\ TakeTask /\ Head(tasks).type = "COMPLETION"
          /\ UNCHANGED decoded
      BY <1>4 DEF ProcessCompletion, Arrived
    <3>3. 1 \in DOMAIN tasks /\ tasks[1] = Head(tasks) /\ Head(tasks) \in Task
      BY <1>1, <3>2, TakenPlaces
    <3>4. decoded[Head(tasks).id] = 0
      BY <3>2, <3>3 DEF GenerationInv, FreshBefore, Fresh
    <3>5. /\ \A q \in Slots \ {s} : slots'[q] = slots[q]
          /\ slots'[s].id_task = Head(tasks).id
          /\ slots'[s].n_decoded = 0
          /\ slots'[s].stream = slots[s].stream
      BY <3>1, <3>3, LaunchEffect
    <3> QED  BY <1>1, <3>2, <3>4, <3>5 DEF CountsAgree, Busy
  <2> QED  BY <1>4, <2>1, <2>2 DEF ProcessCompletion
<1>5. CASE ProcessCancel
  BY <1>2, <1>5, CancelEffect DEF ProcessCancel
<1>6. CASE ProcessOther \/ AnswerQuery
  BY <1>3, <1>6 DEF ProcessOther, AnswerQuery, schedulerVars
<1>7. CASE UpdateSlots
  BY <1>2, <1>7, UpdateEffect DEF UpdateSlots
<1>8. ASSUME NEW s \in Slots, DecodeToken(s) PROVE CountsAgree'
  <2>1. Busy(s) /\ slots[s].has_next_token
    BY <1>8 DEF DecodeToken, Busy
  <2>2. PICK more \in BOOLEAN : /\ more => slots[s].n_decoded + 1 < MaxTokens
                                /\ ProcessToken(s, more)
    BY <1>8 DEF DecodeToken
  <2>3. /\ slots[s].id_task \in TaskIds
        /\ \A q \in Slots : Runs(q, slots[s].id_task) => q = s
    BY <2>1, OwnerOf
  <2>4. /\ decoded'[slots[s].id_task] = decoded[slots[s].id_task] + 1
        /\ \A i \in TaskIds : i # slots[s].id_task => decoded'[i] = decoded[i]
    BY <1>1, <1>8, <2>3 DEF DecodeToken
  <2>5. /\ \A q \in Slots \ {s} : slots'[q] = slots[q]
        /\ Continues(s)
        /\ slots'[s].n_decoded = slots[s].n_decoded + 1
        /\ slots'[s].has_next_token = more
    BY <2>2, TokenEffect
  <2>6. ASSUME NEW q \in Slots
        PROVE  /\ slots'[q].stream \in SlotStream
               /\ Busy(q)' => slots'[q].n_decoded = decoded'[slots'[q].id_task]
               /\ Busy(q)' /\ slots'[q].has_next_token => slots'[q].n_decoded < MaxTokens
    <3>1. CASE q = s
      BY <1>1, <2>1, <2>2, <2>4, <2>5, <3>1 DEF CountsAgree, Continues
    <3>2. CASE q # s
      <4>1. slots'[q] = slots[q]
        BY <2>5, <3>2
      <4>2. Busy(q) => slots[q].id_task \in TaskIds /\ slots[q].id_task # slots[s].id_task
        BY <2>3, <3>2, OwnerOf DEF Runs
      <4> QED  BY <1>1, <2>4, <4>1, <4>2 DEF CountsAgree, Busy
    <3> QED  BY <3>1, <3>2
  <2> QED  BY <2>6 DEF CountsAgree
<1>9. ASSUME NEW s \in Slots, EngineFails(s) PROVE CountsAgree'
  <2>1. /\ \A q \in Slots \ {s} : slots'[q] = slots[q]
        /\ Continues(s)
        /\ slots'[s].n_decoded = slots[s].n_decoded
        /\ slots'[s].has_next_token = FALSE
        /\ UNCHANGED decoded
    BY <1>9, FailEffect DEF EngineFails
  <2> QED  BY <1>1, <2>1 DEF CountsAgree, Continues, Busy
<1>10. ASSUME NEW i \in TaskIds, PostCancel(i) PROVE CountsAgree'
  BY <1>3, <1>10 DEF PostCancel
<1> QED  BY <1>4, <1>5, <1>6, <1>7, <1>8, <1>9, <1>10 DEF SchedulerNext,
     ProcessSingleTask

\* Nothing has been generated when the server starts.
LEMMA GenerationInit == Init => GenerationInv
<1> SUFFICES ASSUME Init PROVE GenerationInv
  OBVIOUS
<1>1. /\ tasks = << >> /\ deferred = << >>
      /\ results = [i \in TaskIds |-> << >>]
      /\ decoded = [i \in TaskIds |-> 0]
      /\ slots \in [Slots -> {NewSlot(b) : b \in SlotStream}]
      /\ pc = [r \in Calls |-> "start"]
  BY DEF Init, QueueInit, SchedulerInit, HandlersInit
<1>2. FreshBefore
  BY <1>1 DEF FreshBefore, Fresh
<1>3. \A s \in Slots : ~Busy(s) /\ slots[s].stream \in SlotStream
  BY <1>1 DEF NewSlot, Busy
<1> QED  BY <1>2, <1>3 DEF GenerationInv, CountsAgree

\* Every step of the server keeps GenerationInv.
LEMMA GenerationStep ==
  ServingInv /\ PlacesInv /\ GenerationInv /\ [Next]_vars => GenerationInv'
<1> SUFFICES ASSUME ServingInv, PlacesInv, GenerationInv, [Next]_vars
             PROVE  GenerationInv'
  OBVIOUS
<1>1. CASE SchedulerNext /\ UNCHANGED handlerVars
  BY <1>1, SchedulerFresh, SchedulerCounts DEF GenerationInv
<1>2. CASE HandlerNext /\ UNCHANGED schedulerVars
  <2>1. FreshBefore'
    BY <1>2, HandlerFresh DEF GenerationInv, HandlerNext
  <2>2. CountsAgree'
    BY <1>2 DEF schedulerVars, GenerationInv, CountsAgree, Busy
  <2> QED  BY <2>1, <2>2 DEF GenerationInv
<1>3. CASE UNCHANGED vars
  <2>1. FreshBefore'
    BY <1>3 DEF vars, queueVars, schedulerVars, handlerVars, GenerationInv, FreshBefore, Fresh
  <2>2. CountsAgree'
    BY <1>3 DEF vars, schedulerVars, GenerationInv, CountsAgree, Busy
  <2> QED  BY <2>1, <2>2 DEF GenerationInv
<1> QED  BY <1>1, <1>2, <1>3 DEF Next

\* Tokens are counted for the task they are generated for, and for no task
\* before a slot has it, in every reachable state.
THEOREM GenerationInvariance == SafetySpec => []GenerationInv
<1>1. Init => GenerationInv
  BY GenerationInit
<1>2. ServingInv /\ PlacesInv /\ GenerationInv /\ [Next]_vars => GenerationInv'
  BY GenerationStep
<1> QED  BY <1>1, <1>2, ServingInvariance, PlacesInvariance, PTL DEF SafetySpec

-----------------------------------------------------------------------------
(* Busy slots have something to do *)

\* A busy slot has a token to generate, or is one that update_slots() acts on.
Moving(slot) ==
  slot.state = "PROCESSING" => slot.has_next_token \/ Releasing(slot) \/ Finished(slot)

\* A slot that has been asked for its release is one update_slots() acts on.
LEMMA ReleaseMoves ==
  ASSUME NEW slot \in Slot
  PROVE  Moving(Release(slot)) /\ Moving(Failed(slot))
<1> DEFINE a == Release(slot)
<1>1. a \in Slot /\ (a.state = "PROCESSING" => a.command = "RELEASE")
  BY DEF Slot, Release
<1> HIDE DEF a
<1>2. LET b == [a EXCEPT !.has_next_token = FALSE]
      IN  b.state = a.state /\ b.command = a.command
  BY <1>1 DEF Slot
<1> QED  BY <1>1, <1>2 DEF a, Moving, Releasing, Failed

\* A slot that gets a task has a token to generate, whatever ended the task
\* it had before.
LEMMA LaunchMoves ==
  ASSUME NEW slot \in Slot, NEW task
  PROVE  Moving(Launched(slot, task))
<1>1. Launched(slot, task).has_next_token
  BY DEF Slot, ResetSlot, Launched
<1> QED  BY <1>1 DEF Moving

\* After a token there is another one to generate, or one to report.
LEMMA TokenMoves ==
  ASSUME NEW slot \in Slot, NEW more \in BOOLEAN, slot.state = "PROCESSING"
  PROVE  Moving(AddToken(slot, more))
<1>1. slot.n_decoded \in Nat
  BY DEF Slot
<1>2. /\ AddToken(slot, more).n_decoded = slot.n_decoded + 1
      /\ AddToken(slot, more).has_next_token = more
  BY DEF Slot, AddToken
<1>3. AddToken(slot, more).n_decoded > 0
  BY <1>1, <1>2
<1> QED  BY <1>2, <1>3 DEF Moving, Releasing, Finished

\* A pass of update_slots() frees a slot, asks for its release, or passes it.
LEMMA UpdateMoves ==
  ASSUME NEW slot \in Slot, Moving(slot)
  PROVE  Moving(UpdatedSlot(slot))
<1>1. Released(slot).state = "IDLE"
  BY DEF Slot, Released
<1> QED  BY <1>1, ReleaseMoves DEF UpdatedSlot, Moving

\* Every step of the queue thread keeps every slot moving.
LEMMA StuckStep ==
  ASSUME SchedulerTypeOK, NoStuckSlot, SchedulerNext, NEW s \in Slots
  PROVE  Moving(slots'[s])
<1>1. slots \in [Slots -> Slot] /\ Moving(slots[s])
  BY DEF SchedulerTypeOK, NoStuckSlot, Moving
<1>2. CASE ProcessCompletion
  <2>1. ASSUME NEW q \in Slots, LaunchSlotWithTask(q, Head(tasks))
        PROVE  Moving(slots'[s])
    <3>1. slots' = [slots EXCEPT ![q] = Launched(slots[q], Head(tasks))]
      BY <2>1 DEF LaunchSlotWithTask
    <3>2. Moving(Launched(slots[q], Head(tasks)))
      BY <1>1, LaunchMoves
    <3> QED  BY <1>1, <3>1, <3>2
  <2>2. CASE UNCHANGED slots
    BY <1>1, <2>2
  <2> QED  BY <1>2, <2>1, <2>2 DEF ProcessCompletion
<1>3. CASE ProcessCancel
  BY <1>1, <1>3, ReleaseMoves DEF ProcessCancel
<1>4. CASE UpdateSlots
  BY <1>1, <1>4, UpdateMoves DEF UpdateSlots
<1>5. ASSUME NEW q \in Slots, DecodeToken(q) PROVE Moving(slots'[s])
  <2>1. PICK more \in BOOLEAN : slots' = [slots EXCEPT ![q] = AddToken(slots[q], more)]
    BY <1>5 DEF DecodeToken, ProcessToken
  <2>2. slots[q].state = "PROCESSING" /\ slots[q] \in Slot
    BY <1>1, <1>5 DEF DecodeToken
  <2>3. Moving(AddToken(slots[q], more))
    BY <2>2, TokenMoves
  <2> QED  BY <1>1, <2>1, <2>3
<1>6. ASSUME NEW q \in Slots, EngineFails(q) PROVE Moving(slots'[s])
  <2>1. slots' = [slots EXCEPT ![q] = Failed(slots[q])]
    BY <1>6 DEF EngineFails
  <2>2. Moving(Failed(slots[q]))
    BY <1>1, ReleaseMoves
  <2> QED  BY <1>1, <2>1, <2>2
<1>7. CASE ProcessOther \/ AnswerQuery \/ \E i \in TaskIds : PostCancel(i)
  BY <1>1, <1>7 DEF ProcessOther, AnswerQuery, PostCancel, schedulerVars
<1> QED  BY <1>2, <1>3, <1>4, <1>5, <1>6, <1>7 DEF SchedulerNext, ProcessSingleTask

\* A busy slot is never left with nothing to generate and nothing for
\* update_slots() to act on, for any number of slots and tokens, and whichever
\* tasks fail or are cancelled.
THEOREM NoStuckSlotHolds == SafetySpec => []NoStuckSlot
<1>1. Init => NoStuckSlot
  BY DEF Init, SchedulerInit, NewSlot, NoStuckSlot
<1>2. ServingInv /\ NoStuckSlot /\ [Next]_vars => NoStuckSlot'
  <2> SUFFICES ASSUME ServingInv, NoStuckSlot, [Next]_vars PROVE NoStuckSlot'
    OBVIOUS
  <2>1. CASE SchedulerNext
    <3>1. \A s \in Slots : Moving(slots'[s])
      BY <2>1, StuckStep DEF ServingInv, TypeOK
    <3> QED  BY <3>1 DEF NoStuckSlot, Moving, Releasing, Finished
  <2>2. CASE UNCHANGED slots
    BY <2>2 DEF NoStuckSlot, Releasing, Finished
  <2> QED  BY <2>1, <2>2 DEF Next, vars, schedulerVars
<1> QED  BY <1>1, <1>2, ServingInvariance, PTL DEF SafetySpec

=============================================================================
