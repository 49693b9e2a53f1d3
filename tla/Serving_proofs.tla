--------------------------- MODULE Serving_proofs ---------------------------
(***************************************************************************)
(* Serving for every set of calls, every number of slots and all bounds:   *)
(* type correctness, and that no call waits in vain.                       *)
(***************************************************************************)
EXTENDS Serving, SequenceTheorems, TLAPS

-----------------------------------------------------------------------------
(* The data *)

\* The text of a task is a sequence of tokens.
LEMMA TextType ==
  ASSUME NEW i \in TaskIds, NEW n \in Nat
  PROVE  Text(i, n) \in Seq(Token)
  BY DEF Text, Token

\* What becomes of a slot is a slot, which the task it works for survives.
LEMMA ResetType ==
  ASSUME NEW slot \in Slot
  PROVE  ResetSlot(slot) \in Slot
<1> DEFINE a == [slot EXCEPT !.n_decoded = 0]
<1>1. a \in Slot
  BY DEF Slot
<1> HIDE DEF a
<1>2. [a EXCEPT !.has_next_token = TRUE] \in Slot
  BY <1>1 DEF Slot
<1> QED  BY <1>2 DEF a, ResetSlot

\* A slot that gets a task is busy with that task.
LEMMA LaunchedType ==
  ASSUME SchedulerTypeOK, NEW slot \in Slot, NEW task \in Task
  PROVE  /\ Launched(slot, task) \in Slot
         /\ Launched(slot, task).state = "PROCESSING"
         /\ Launched(slot, task).id_task = task.id
<1> DEFINE a == ResetSlot(slot)
           b == [a EXCEPT !.state = "PROCESSING"]
           c == [b EXCEPT !.command = "LOAD_PROMPT"]
           d == [c EXCEPT !.id_task = task.id]
           e == [d EXCEPT !.t_last_used = clock]
<1>1. a \in Slot
  BY ResetType
<1> HIDE DEF a
<1>2. b \in Slot /\ b.state = "PROCESSING"
  BY <1>1 DEF Slot
<1> HIDE DEF b
<1>3. c \in Slot /\ c.state = "PROCESSING"
  BY <1>2 DEF Slot
<1> HIDE DEF c
<1>4. d \in Slot /\ d.state = "PROCESSING" /\ d.id_task = task.id
  BY <1>3 DEF Slot, Task
<1> HIDE DEF d
<1>5. e \in Slot /\ e.state = "PROCESSING" /\ e.id_task = task.id
  BY <1>4 DEF Slot, SchedulerTypeOK
<1> QED  BY <1>5 DEF a, b, c, d, e, Launched

\* Asking for a release leaves the state and the task of a slot alone.
LEMMA ReleaseType ==
  ASSUME NEW slot \in Slot
  PROVE  /\ Release(slot) \in Slot
         /\ Release(slot).state = slot.state
         /\ Release(slot).id_task = slot.id_task
  BY DEF Release, Slot

\* A slot that becomes idle is a slot.
LEMMA ReleasedType ==
  ASSUME NEW slot \in Slot
  PROVE  Released(slot) \in Slot
<1> DEFINE a == [slot EXCEPT !.state = "IDLE"]
<1>1. a \in Slot
  BY DEF Slot
<1> HIDE DEF a
<1>2. [a EXCEPT !.command = "NONE"] \in Slot
  BY <1>1 DEF Slot
<1> QED  BY <1>2 DEF a, Released

\* A token leaves the state and the task of a slot alone.
LEMMA AddTokenType ==
  ASSUME NEW slot \in Slot, NEW more \in BOOLEAN
  PROVE  /\ AddToken(slot, more) \in Slot
         /\ AddToken(slot, more).state = slot.state
         /\ AddToken(slot, more).id_task = slot.id_task
<1> DEFINE a == [slot EXCEPT !.n_decoded = @ + 1]
           b == [a EXCEPT !.has_next_token = more]
<1>1. a \in Slot /\ a.state = slot.state /\ a.id_task = slot.id_task
  BY DEF Slot
<1> HIDE DEF a
<1>2. b \in Slot /\ b.state = slot.state /\ b.id_task = slot.id_task
  BY <1>1 DEF Slot
<1> QED  BY <1>2 DEF a, b, AddToken

\* A failed slot keeps its task until update_slots() releases it.
LEMMA FailedType ==
  ASSUME NEW slot \in Slot
  PROVE  /\ Failed(slot) \in Slot
         /\ Failed(slot).state = slot.state
         /\ Failed(slot).id_task = slot.id_task
<1> DEFINE a == Release(slot)
<1>1. a \in Slot /\ a.state = slot.state /\ a.id_task = slot.id_task
  BY ReleaseType
<1> HIDE DEF a
<1>2. LET b == [a EXCEPT !.has_next_token = FALSE]
      IN  b \in Slot /\ b.state = slot.state /\ b.id_task = slot.id_task
  BY <1>1 DEF Slot
<1> QED  BY <1>2 DEF a, Failed

\* A pass of update_slots() keeps every slot that it does not make idle.
LEMMA UpdatedType ==
  ASSUME NEW slot \in Slot
  PROVE  /\ UpdatedSlot(slot) \in Slot
         /\ ~Releasing(slot) => /\ UpdatedSlot(slot).state = slot.state
                                /\ UpdatedSlot(slot).id_task = slot.id_task
  BY ReleaseType, ReleasedType DEF UpdatedSlot

\* What the slots and the engine send to a task is a result.
LEMMA ResultTypes ==
  ASSUME NEW slot \in Slot, slot.id_task \in TaskIds, NEW n \in Nat
  PROVE  /\ PartialResult(slot, n) \in Result
         /\ FinalResult(slot) \in Result
<1>1. <<slot.id_task, n>> \in Token
  BY DEF Token
<1>2. << <<slot.id_task, n>> >> \in Seq(Token)
  BY <1>1
<1>3. PartialResult(slot, n) \in Result
  BY <1>2 DEF PartialResult, Result, ResultKinds
<1>4. slot.n_decoded \in Nat
  BY DEF Slot
<1>5. (IF slot.stream THEN << >> ELSE Text(slot.id_task, slot.n_decoded)) \in Seq(Token)
  BY <1>4, TextType
<1>6. FinalResult(slot) \in Result
  BY <1>4, <1>5 DEF FinalResult, Result, ResultKinds
<1> QED  BY <1>3, <1>6

\* Counting a token of some task keeps the counts natural numbers.
LEMMA CountType ==
  ASSUME NEW f \in [TaskIds -> Nat], NEW i
  PROVE  [f EXCEPT ![i] = @ + 1] \in [TaskIds -> Nat]
<1>1. ASSUME NEW j \in TaskIds
      PROVE  [f EXCEPT ![i] = @ + 1][j] \in Nat
  <2>1. CASE i = j
    BY <2>1
  <2>2. CASE i # j
    BY <2>2
  <2> QED  BY <2>1, <2>2
<1> QED  BY <1>1

\* An answer or an error, without text, is a result.
LEMMA PlainResultType ==
  ASSUME NEW kind \in ResultKinds
  PROVE  [kind |-> kind, text |-> << >>, predicted |-> 0] \in Result
  BY DEF Result

\* The oldest result of an id is a result, and the others stay a sequence.
LEMMA NextResultType ==
  ASSUME QueueTypeOK, NEW i \in TaskIds, HasResult(i)
  PROVE  NextResult(i) \in Result /\ Tail(results[i]) \in Seq(Result)
<1>1. results[i] \in Seq(Result) /\ results[i] # << >>
  BY DEF QueueTypeOK, HasResult
<1> QED  BY <1>1, HeadTailProperties DEF NextResult

\* Sending keeps the queue of results well typed.
LEMMA SendToType ==
  ASSUME QueueTypeOK, NEW i \in TaskIds \cup {NoTask},
         NEW res, i \in TaskIds => res \in Result, SendTo(i, res)
  PROVE  results' \in [TaskIds -> Seq(Result)]
  BY DEF QueueTypeOK, SendTo

\* The task that on_new_task receives is a task; what is left are tasks.
LEMMA TakenType ==
  ASSUME QueueTypeOK, tasks # << >>
  PROVE  Head(tasks) \in Task /\ Tail(tasks) \in Seq(Task)
  BY HeadTailProperties DEF QueueTypeOK

-----------------------------------------------------------------------------
(* Type correctness *)

\* The initial states have the right types.
LEMMA TypeInit == Init => TypeOK
<1> SUFFICES ASSUME Init PROVE TypeOK
  OBVIOUS
<1> USE DEF Init
<1>1. QueueTypeOK
  BY MaxTasksAssumption DEF QueueInit, QueueTypeOK
<1>2. SchedulerTypeOK
  <2>1. \A b \in SlotStream : NewSlot(b) \in Slot
    BY SchedulerAssumption DEF NewSlot, Slot
  <2> QED  BY <2>1 DEF SchedulerInit, SchedulerTypeOK
<1>3. HandlersTypeOK
  BY DEF HandlersInit, HandlersTypeOK, Places, Outcomes
<1> QED  BY <1>1, <1>2, <1>3 DEF TypeOK

\* The steps of the queue thread.
LEMMA SchedulerTypeStep ==
  ASSUME QueueTypeOK, SchedulerTypeOK, SchedulerNext
  PROVE  QueueTypeOK' /\ SchedulerTypeOK'
<1> USE DEF QueueTypeOK, SchedulerTypeOK
<1>1. CASE ProcessCompletion
  <2> USE <1>1 DEF ProcessCompletion, Arrived, TakeTask
  <2>1. Head(tasks) \in Task /\ tasks' \in Seq(Task)
    BY TakenType
  <2>2. CASE /\ \E s \in Slots : BestSlot(s) /\ LaunchSlotWithTask(s, Head(tasks))
             /\ UNCHANGED deferred
    <3>1. PICK s \in Slots : LaunchSlotWithTask(s, Head(tasks))
      BY <2>2
    <3>2. slots' \in [Slots -> Slot] /\ clock' \in Nat
      BY <2>1, <3>1, LaunchedType DEF LaunchSlotWithTask
    <3> QED  BY <2>1, <2>2, <3>2
  <2>3. CASE /\ Defer(Head(tasks))
             /\ UNCHANGED <<slots, clock>>
    <3>1. deferred' \in Seq(Task)
      BY <2>1, <2>3 DEF Defer
    <3> QED  BY <2>1, <2>3, <3>1
  <2> QED  BY <2>2, <2>3
<1>2. CASE ProcessCancel
  <2> USE <1>2 DEF ProcessCancel, Arrived, TakeTask
  <2>1. tasks' \in Seq(Task)
    BY TakenType
  <2>2. slots' \in [Slots -> Slot]
    BY ReleaseType
  <2> QED  BY <2>1, <2>2
<1>3. CASE ProcessOther \/ AnswerQuery
  <2> USE <1>3 DEF ProcessOther, AnswerQuery, Arrived, TakeTask, schedulerVars
  <2>1. Head(tasks) \in Task /\ tasks' \in Seq(Task)
    BY TakenType
  <2>2. results' \in [TaskIds -> Seq(Result)]
    <3>1. ASSUME NEW kind \in {"answer", "error"},
                 SendTo(Head(tasks).id, [kind |-> kind, text |-> << >>, predicted |-> 0])
          PROVE  results' \in [TaskIds -> Seq(Result)]
      BY <2>1, <3>1, PlainResultType, SendToType DEF Task, ResultKinds
    <3> QED  BY <3>1
  <2> QED  BY <2>1, <2>2
<1>4. CASE UpdateSlots
  <2> USE <1>4 DEF UpdateSlots
  <2>1. slots' \in [Slots -> Slot]
    <3>1. \A s \in Slots : UpdatedSlot(slots[s]) \in Slot
      BY UpdatedType
    <3> QED  BY <3>1
  <2>2. results' \in [TaskIds -> Seq(Result)]
    <3>1. ASSUME NEW i \in TaskIds PROVE FinalsSent(i) \in Seq(Result)
      <4>1. CASE i \in waitingIds /\ Answered(i) # {}
        <5>1. (CHOOSE s \in Answered(i) : TRUE) \in Answered(i)
          BY <4>1
        <5> DEFINE slot == slots[CHOOSE s \in Answered(i) : TRUE]
        <5>2. slot \in Slot /\ slot.id_task = i
          BY <5>1 DEF Answered
        <5> HIDE DEF slot
        <5>3. FinalResult(slot) \in Result
          BY <5>2, ResultTypes
        <5> QED  BY <4>1, <5>3 DEF FinalsSent, slot
      <4> QED  BY <4>1 DEF FinalsSent
    <3> QED  BY <3>1
  <2> QED  BY <2>1, <2>2
<1>5. ASSUME NEW s \in Slots, DecodeToken(s) PROVE QueueTypeOK' /\ SchedulerTypeOK'
  <2> USE <1>5 DEF DecodeToken
  <2>1. PICK more \in BOOLEAN : ProcessToken(s, more) /\ SendToken(s, more)
    BY <1>5
  <2>2. slots' \in [Slots -> Slot]
    BY <2>1, AddTokenType DEF ProcessToken, SendToken
  <2>3. results' \in [TaskIds -> Seq(Result)]
    <3>1. slots[s] \in Slot /\ slots[s].n_decoded + 1 \in Nat
          /\ slots[s].id_task \in TaskIds \cup {NoTask}
      BY DEF Slot
    <3>2. slots[s].id_task \in TaskIds =>
            PartialResult(slots[s], slots[s].n_decoded + 1) \in Result
      BY <3>1, ResultTypes
    <3> QED  BY <2>1, <3>1, <3>2, SendToType DEF ProcessToken, SendToken
  <2>4. decoded' \in [TaskIds -> Nat]
    BY CountType DEF DecodeToken
  <2> QED  BY <2>2, <2>3, <2>4
<1>6. ASSUME NEW s \in Slots, EngineFails(s) PROVE QueueTypeOK' /\ SchedulerTypeOK'
  <2> USE <1>6 DEF EngineFails
  <2>1. slots' \in [Slots -> Slot]
    BY FailedType
  <2>2. results' \in [TaskIds -> Seq(Result)]
    <3>1. slots[s].id_task \in TaskIds \cup {NoTask}
      BY DEF Slot
    <3> QED  BY <3>1, PlainResultType, SendToType DEF ResultKinds
  <2> QED  BY <2>1, <2>2
<1>7. ASSUME NEW i \in TaskIds, PostCancel(i) PROVE QueueTypeOK' /\ SchedulerTypeOK'
  BY <1>7 DEF PostCancel, Post, Task, TaskTypes
<1> QED  BY <1>1, <1>2, <1>3, <1>4, <1>5, <1>6, <1>7 DEF SchedulerNext,
     ProcessSingleTask

\* The steps of a call.  A call has an id whenever it uses one.
LEMMA HandlerTypeStep ==
  ASSUME QueueTypeOK, HandlersTypeOK, OwnIds, RegisteredFirst,
         NEW r \in Calls, Arrives(r) \/ Proceeds(r)
  PROVE  QueueTypeOK' /\ HandlersTypeOK'
<1> USE DEF QueueTypeOK, HandlersTypeOK, Places, Outcomes, At, Goto, EndsWith
<1>1. CASE Reject(r)
  BY <1>1 DEF Reject, queueVars
<1>2. CASE GetNewId(r)
  <2>1. nextId \in TaskIds /\ nextId + 1 \in 0 .. MaxTasks
    BY <1>2, MaxTasksAssumption DEF GetNewId, TaskIds
  <2> QED  BY <1>2, <2>1 DEF GetNewId
<1>3. CASE AddWaiting(r)
  BY <1>3 DEF AddWaiting, OwnIds
<1>4. CASE PostTask(r)
  <2>1. callId[r] \in TaskIds
    BY <1>4 DEF PostTask, OwnIds
  <2>2. TaskOf(r) \in Task
    BY <2>1 DEF TaskOf, TaskType, Task, TaskTypes, Calls
  <2> QED  BY <1>4, <2>2 DEF PostTask, Post
<1>5. ASSUME Receive(r)
      PROVE  /\ callId[r] \in TaskIds
             /\ NextResult(callId[r]) \in Result
             /\ results' \in [TaskIds -> Seq(Result)]
  <2>1. callId[r] \in TaskIds
    BY <1>5 DEF Receive, OwnIds
  <2> QED  BY <1>5, <2>1, NextResultType DEF Receive, Consume
<1>6. CASE RecvPartial(r)
  <2>1. Receive(r)
    BY <1>6 DEF RecvPartial
  <2>2. reply[r] \o NextResult(callId[r]).text \in Seq(Token)
    BY <1>5, <2>1, ConcatProperties DEF Result
  <2> QED  BY <1>5, <1>6, <2>1, <2>2 DEF RecvPartial
<1>7. CASE RecvStop(r)
  <2>1. Receive(r)
    BY <1>7 DEF RecvStop
  <2> DEFINE res == NextResult(callId[r])
  <2>2. FinalText(r, res) \in Seq(Token) /\ res.predicted \in Nat
    BY <1>5, <2>1 DEF FinalText, Result
  <2> QED  BY <1>5, <1>7, <2>1, <2>2 DEF RecvStop, Leave
<1>8. CASE RecvAnswer(r)
  <2>1. Receive(r)
    BY <1>8 DEF RecvAnswer
  <2> QED  BY <1>5, <1>8, <2>1 DEF RecvAnswer, Leave
<1>9. CASE Timeout(r)
  BY <1>9 DEF Timeout, Leave, queueVars
<1>10. CASE RemoveWaiting(r)
  BY <1>10 DEF RemoveWaiting
<1> QED  BY <1>1, <1>2, <1>3, <1>4, <1>6, <1>7, <1>8, <1>9, <1>10 DEF Arrives, Proceeds

\* Every step keeps the types.
LEMMA TypeStep == ServingInv /\ [Next]_vars => TypeOK'
<1> SUFFICES ASSUME ServingInv, [Next]_vars PROVE TypeOK'
  OBVIOUS
<1> USE DEF ServingInv, TypeOK
<1>1. CASE SchedulerNext /\ UNCHANGED handlerVars
  BY <1>1, SchedulerTypeStep DEF handlerVars, HandlersTypeOK
<1>2. CASE HandlerNext /\ UNCHANGED schedulerVars
  BY <1>2, HandlerTypeStep DEF HandlerNext, schedulerVars, SchedulerTypeOK
<1>3. CASE UNCHANGED vars
  BY <1>3 DEF vars, queueVars, schedulerVars, handlerVars,
     QueueTypeOK, SchedulerTypeOK, HandlersTypeOK
<1> QED  BY <1>1, <1>2, <1>3 DEF Next

-----------------------------------------------------------------------------
(* Ids *)

\* get_new_id() gives each call an id of its own, which it registers before
\* it posts its task and gives back only when it has stopped waiting.
LEMMA IdsStep == ServingInv /\ [Next]_vars => OwnIds' /\ RegisteredFirst'
<1> SUFFICES ASSUME ServingInv, [Next]_vars PROVE OwnIds' /\ RegisteredFirst'
  OBVIOUS
<1> USE DEF ServingInv, TypeOK, QueueTypeOK, HandlersTypeOK, OwnIds, RegisteredFirst,
            At, Goto
<1>1. CASE SchedulerNext /\ UNCHANGED handlerVars
  <2>1. UNCHANGED <<nextId, waitingIds, pc, callId>>
    BY <1>1 DEF handlerVars, SchedulerNext, ProcessSingleTask, ProcessCompletion,
         ProcessCancel, ProcessOther, AnswerQuery, UpdateSlots, DecodeToken,
         EngineFails, PostCancel
  <2> QED  BY <2>1
<1>2. ASSUME NEW r \in Calls, Arrives(r) \/ Proceeds(r)
      PROVE  OwnIds' /\ RegisteredFirst'
  <2>1. CASE Reject(r)
    BY <2>1 DEF Reject, queueVars
  <2>2. CASE GetNewId(r)
    <3>1. nextId \in TaskIds /\ nextId # NoTask
      BY <2>2, MaxTasksAssumption DEF GetNewId, TaskIds, NoTask
    <3>2. nextId \in Int /\ \A q \in Calls : callId[q] \in Int
      BY MaxTasksAssumption DEF TaskIds, NoTask
    <3>3. ASSUME NEW q \in Calls
          PROVE  callId[q] < nextId + 1 /\ callId[q] # nextId
      <4>1. callId[q] \in Int /\ nextId \in Int /\ callId[q] < nextId
        BY <3>2
      <4> QED  BY ONLY <4>1
    <3> QED  BY <2>2, <3>1, <3>3 DEF GetNewId
  <2>3. CASE AddWaiting(r)
    BY <2>3 DEF AddWaiting
  <2>4. CASE PostTask(r)
    BY <2>4 DEF PostTask
  <2>5. CASE RecvPartial(r)
    BY <2>5 DEF RecvPartial
  <2>6. CASE RecvStop(r)
    BY <2>6 DEF RecvStop, Receive, Leave
  <2>7. CASE RecvAnswer(r)
    BY <2>7 DEF RecvAnswer, Receive, Leave
  <2>8. CASE Timeout(r)
    BY <2>8 DEF Timeout, Leave, queueVars
  <2>9. CASE RemoveWaiting(r)
    <3>1. \A q \in Calls \ {r} : callId[q] \in TaskIds => callId[q] # callId[r]
      BY DEF TaskIds, NoTask
    <3> QED  BY <2>9, <3>1 DEF RemoveWaiting
  <2> QED  BY <1>2, <2>1, <2>2, <2>3, <2>4, <2>5, <2>6, <2>7, <2>8, <2>9
              DEF Arrives, Proceeds
<1>3. CASE UNCHANGED vars
  BY <1>3 DEF vars, queueVars, handlerVars
<1> QED  BY <1>1, <1>2, <1>3 DEF Next, HandlerNext

-----------------------------------------------------------------------------
(* Waiting *)

\* A queue keeps what it holds when something is appended, and when another
\* element is taken from its head.
LEMMA AppendKeeps ==
  ASSUME NEW S, NEW seq \in Seq(S), NEW e \in S, NEW k \in 1 .. Len(seq)
  PROVE  \E j \in 1 .. Len(Append(seq, e)) : Append(seq, e)[j] = seq[k]
<1>1. k \in 1 .. Len(Append(seq, e)) /\ Append(seq, e)[k] = seq[k]
  BY AppendProperties
<1> QED  BY <1>1

\* What is not the head of a sequence stays in its tail.
LEMMA TailKeeps ==
  ASSUME NEW S, NEW seq \in Seq(S), NEW k \in 1 .. Len(seq), seq[k] # Head(seq)
  PROVE  \E j \in 1 .. Len(Tail(seq)) : Tail(seq)[j] = seq[k]
<1>1. seq # << >> /\ k # 1
  BY HeadTailProperties
<1>2. k - 1 \in 1 .. Len(Tail(seq)) /\ Tail(seq)[k - 1] = seq[k]
  BY <1>1, HeadTailProperties
<1> QED  BY <1>2

\* A result that ends the wait, sent to a call, is the last one queued.
LEMMA StopSent ==
  ASSUME QueueTypeOK, NEW i \in TaskIds, NEW res \in Result, IsStop(res),
         results'[i] = Append(results[i], res)
  PROVE  StopQueued(i)'
<1>1. results[i] \in Seq(Result)
  BY DEF QueueTypeOK
<1>2. /\ Append(results[i], res) # << >>
      /\ Append(results[i], res)[Len(Append(results[i], res))] = res
  BY <1>1, AppendProperties
<1> QED  BY <1>2 DEF StopQueued, HasResult, IsStop

\* Taking a result that does not end the wait leaves the one that does.
LEMMA StopStays ==
  ASSUME QueueTypeOK, NEW i \in TaskIds, StopQueued(i), ~IsStop(NextResult(i)),
         Consume(i)
  PROVE  StopQueued(i)'
<1> DEFINE seq == results[i]
<1>1. seq \in Seq(Result) /\ seq # << >>
  BY DEF QueueTypeOK, StopQueued, HasResult
<1>2. seq[Len(seq)] # seq[1] /\ Len(seq) \in Nat \ {0}
  BY <1>1, HeadTailProperties, LenProperties, EmptySeq DEF StopQueued, NextResult, IsStop
<1>3. Len(seq) > 1
  BY <1>2
<1>4. /\ Tail(seq) \in Seq(Result)
      /\ Len(Tail(seq)) = Len(seq) - 1
      /\ \A k \in 1 .. Len(Tail(seq)) : Tail(seq)[k] = seq[k + 1]
  BY <1>1, HeadTailProperties
<1>5. Len(seq) - 1 \in 1 .. Len(Tail(seq)) /\ Len(seq) - 1 + 1 = Len(seq)
  BY <1>2, <1>3, <1>4
<1>6. Tail(seq) # << >> /\ Tail(seq)[Len(Tail(seq))] = seq[Len(seq)]
  <2>1. Tail(seq) # << >>
    <3>1. Len(Tail(seq)) # 0
      BY <1>2, <1>3, <1>4
    <3> QED  BY <1>4, <3>1, EmptySeq
  <2>2. Tail(seq)[Len(seq) - 1] = seq[Len(seq) - 1 + 1]
    BY <1>4, <1>5
  <2> HIDE DEF seq
  <2> QED  BY <1>4, <1>5, <2>1, <2>2
<1>7. results'[i] = Tail(seq)
  BY DEF Consume, QueueTypeOK
<1> QED  BY <1>6, <1>7 DEF StopQueued, HasResult

\* Each kind of call makes tasks of one type, and none makes a CANCEL task.
LEMMA TaskTypeOfCall ==
  ASSUME NEW r \in Calls
  PROVE  /\ TaskType(r) # "CANCEL"
         /\ r \in Completions => TaskType(r) = "COMPLETION"
<1>1. CASE r \in Completions
  <2>1. r \notin EmbeddingCalls /\ r \notin MetricsCalls
    BY <1>1, CallsAssumption DEF Completions
  <2> QED  BY <1>1, <2>1 DEF TaskType
<1>2. CASE r \notin Completions
  BY <1>2 DEF TaskType, Calls
<1> QED  BY <1>1, <1>2

\* What a waiting call waits for, in one word.
Cared(r) == Queued(r) \/ SetAside(r) \/ Running(callId[r]) \/ StopQueued(callId[r])

\* A step of the queue thread leaves no call that waits without what it waits
\* for: a task that leaves the queue goes to a slot, is set aside or is
\* answered, and a slot that becomes idle has sent a final result.
LEMMA SchedulerKeeps ==
  ASSUME ServingInv, SchedulerNext, UNCHANGED handlerVars,
         NEW r \in Calls, At(r, "waiting"), Served(r), Cared(r)
  PROVE  Cared(r)'
<1>1. /\ QueueTypeOK /\ SchedulerTypeOK
      /\ callId[r] \in TaskIds /\ callId[r] \in waitingIds
      /\ callId' = callId
      /\ TaskOf(r)' = TaskOf(r)
  BY DEF ServingInv, TypeOK, QueueTypeOK, RegisteredFirst, At, handlerVars, TaskOf
<1> PICK i \in TaskIds : i = callId[r] /\ i = callId'[r]
  BY <1>1
<1>2. TaskOf(r).id = i /\ TaskOf(r).type = TaskType(r) /\ i \in waitingIds
  BY <1>1 DEF TaskOf
<1>3. TaskType(r) # "CANCEL" /\ (r \in Completions => TaskType(r) = "COMPLETION")
  BY TaskTypeOfCall
<1>4. /\ UNCHANGED results => (StopQueued(i) => StopQueued(i)')
      /\ UNCHANGED deferred => (SetAside(r) => SetAside(r)')
      /\ UNCHANGED tasks => (Queued(r) => Queued(r)')
      /\ UNCHANGED slots => (Running(i) => Running(i)')
  BY <1>1 DEF StopQueued, HasResult, SetAside, Queued, Running
<1>5. ASSUME tasks # << >>, TakeTask, Queued(r), TaskOf(r) # Head(tasks)
      PROVE  Queued(r)'
  <2>1. PICK k \in 1 .. Len(tasks) : tasks[k] = TaskOf(r)
    BY <1>5 DEF Queued
  <2>2. tasks \in Seq(Task) /\ tasks[k] # Head(tasks) /\ tasks' = Tail(tasks)
    BY <1>1, <1>5, <2>1 DEF QueueTypeOK, TakeTask
  <2>3. \E j \in 1 .. Len(Tail(tasks)) : Tail(tasks)[j] = tasks[k]
    BY <2>2, TailKeeps
  <2> QED  BY <1>1, <2>1, <2>2, <2>3 DEF Queued
<1>6. ASSUME Running(i),
             \A s \in Slots : slots[s].state = "PROCESSING" /\ slots[s].id_task = i =>
               slots'[s].state = "PROCESSING" /\ slots'[s].id_task = i
      PROVE  Running(i)'
  BY <1>6 DEF Running
<1> USE DEF Cared
<1>7. CASE ProcessCompletion
  <2>1. tasks # << >> /\ TakeTask /\ UNCHANGED results
    BY <1>7 DEF ProcessCompletion, Arrived
  <2>2. Head(tasks) \in Task
    BY <1>1, <2>1, TakenType
  <2>3. CASE /\ \E s \in Slots : BestSlot(s) /\ LaunchSlotWithTask(s, Head(tasks))
             /\ UNCHANGED deferred
    <3>1. PICK s \in Slots : BestSlot(s) /\ LaunchSlotWithTask(s, Head(tasks))
      BY <2>3
    <3>2. /\ slots[s].state # "PROCESSING"
          /\ slots' = [slots EXCEPT ![s] = Launched(slots[s], Head(tasks))]
      BY <3>1 DEF BestSlot, Available, LaunchSlotWithTask
    <3>3. slots'[s].state = "PROCESSING" /\ slots'[s].id_task = Head(tasks).id
      BY <1>1, <2>2, <3>2, LaunchedType DEF SchedulerTypeOK
    <3>4. TaskOf(r) = Head(tasks) => Running(i)'
      BY <1>1, <1>2, <3>3 DEF Running
    <3>5. Running(i) => Running(i)'
      BY <1>1, <1>6, <3>2 DEF SchedulerTypeOK
    <3> QED  BY <1>1, <1>4, <1>5, <2>1, <2>3, <3>4, <3>5
  <2>4. CASE Defer(Head(tasks)) /\ UNCHANGED <<slots, clock>>
    <3>1. /\ deferred \in Seq(Task)
          /\ deferred' = Append(deferred, Head(tasks))
      BY <1>1, <2>4 DEF QueueTypeOK, Defer
    <3>2. TaskOf(r) = Head(tasks) => SetAside(r)'
      <4>1. /\ Len(deferred') \in 1 .. Len(deferred')
            /\ deferred'[Len(deferred')] = Head(tasks)
        BY <2>2, <3>1, AppendProperties
      <4> QED  BY <1>1, <4>1 DEF SetAside
    <3>3. SetAside(r) => SetAside(r)'
      BY <1>1, <2>2, <3>1, AppendKeeps DEF SetAside
    <3> QED  BY <1>1, <1>4, <1>5, <2>1, <2>4, <3>2, <3>3
  <2> QED  BY <1>7, <2>3, <2>4 DEF ProcessCompletion
<1>8. CASE ProcessCancel
  <2>1. /\ tasks # << >> /\ TakeTask /\ Head(tasks).type = "CANCEL"
        /\ UNCHANGED <<results, deferred>>
    BY <1>8 DEF ProcessCancel, Arrived
  <2>2. Queued(r) => Queued(r)'
    BY <1>2, <1>3, <1>5, <2>1
  <2>3. \A s \in Slots : /\ slots'[s].state = slots[s].state
                         /\ slots'[s].id_task = slots[s].id_task
    BY <1>1, <1>8, ReleaseType DEF ProcessCancel, SchedulerTypeOK
  <2>4. Running(i) => Running(i)'
    BY <1>6, <2>3
  <2> QED  BY <1>1, <1>4, <2>1, <2>2, <2>4
<1>9. CASE ProcessOther \/ AnswerQuery
  <2>1. /\ tasks # << >> /\ TakeTask /\ UNCHANGED <<deferred, slots>>
        /\ Head(tasks).type \in {"METRICS", "EMBEDDING"}
    BY <1>9 DEF ProcessOther, AnswerQuery, Arrived, schedulerVars
  <2>2. Head(tasks) \in Task
    BY <1>1, <2>1, TakenType
  <2>3. CASE Head(tasks).type \in QueryTypes
    <3>1. PICK kind \in {"answer", "error"} :
            SendTo(Head(tasks).id, [kind |-> kind, text |-> << >>, predicted |-> 0])
      BY <1>9, <2>3 DEF ProcessOther, AnswerQuery
    <3> DEFINE res == [kind |-> kind, text |-> << >>, predicted |-> 0]
    <3>2. res \in Result /\ IsStop(res)
      BY PlainResultType DEF ResultKinds, IsStop
    <3> HIDE DEF res
    <3>3. Head(tasks).id = i => StopQueued(i)'
      <4>1. ASSUME Head(tasks).id = i PROVE results'[i] = Append(results[i], res)
        BY <1>1, <1>2, <3>1, <4>1 DEF SendTo, QueueTypeOK, res
      <4> QED  BY <1>1, <3>2, <4>1, StopSent
    <3>4. Head(tasks).id # i => (StopQueued(i) => StopQueued(i)')
      <4>1. ASSUME Head(tasks).id # i PROVE results'[i] = results[i]
        BY <1>1, <3>1, <4>1 DEF SendTo, QueueTypeOK
      <4> QED  BY <4>1 DEF StopQueued, HasResult
    <3> QED  BY <1>1, <1>2, <1>4, <1>5, <2>1, <3>3, <3>4
  <2>4. CASE Head(tasks).type \notin QueryTypes
    <3>1. UNCHANGED results
      BY <1>9, <2>4 DEF ProcessOther, AnswerQuery
    <3>2. TaskOf(r) # Head(tasks)
      BY <1>2, <1>3, <2>1, <2>4 DEF Served
    <3> QED  BY <1>1, <1>4, <1>5, <2>1, <3>1, <3>2
  <2> QED  BY <2>3, <2>4
<1>10. CASE UpdateSlots
  <2>1. UNCHANGED <<tasks, deferred>>
    BY <1>10 DEF UpdateSlots
  <2>2. /\ slots' = [s \in Slots |-> UpdatedSlot(slots[s])]
        /\ results'[i] = FinalsSent(i)
    BY <1>1, <1>10 DEF UpdateSlots
  <2>3. Answered(i) # {} => StopQueued(i)'
    <3> SUFFICES ASSUME Answered(i) # {} PROVE StopQueued(i)'
      OBVIOUS
    <3> DEFINE slot == slots[CHOOSE s \in Answered(i) : TRUE]
    <3>1. slot \in Slot /\ slot.id_task = i
      BY <1>1 DEF Answered, SchedulerTypeOK
    <3>2. results'[i] = Append(results[i], FinalResult(slot))
      BY <1>1, <1>2, <2>2 DEF FinalsSent
    <3> HIDE DEF slot
    <3>3. FinalResult(slot) \in Result /\ IsStop(FinalResult(slot))
      BY <1>1, <3>1, ResultTypes DEF FinalResult, IsStop
    <3> QED  BY <1>1, <3>2, <3>3, StopSent
  <2>4. Answered(i) = {} => (StopQueued(i) => StopQueued(i)')
    BY <2>2 DEF FinalsSent, StopQueued, HasResult
  <2>5. Answered(i) = {} => (Running(i) => Running(i)')
    <3>1. ASSUME Answered(i) = {}, NEW s \in Slots, slots[s].id_task = i
          PROVE  /\ slots'[s].state = slots[s].state
                 /\ slots'[s].id_task = slots[s].id_task
      BY <1>1, <2>2, <3>1, UpdatedType DEF Answered, SchedulerTypeOK
    <3> QED  BY <1>6, <3>1
  <2> QED  BY <1>1, <1>4, <2>1, <2>3, <2>4, <2>5
<1>11. ASSUME NEW s \in Slots, DecodeToken(s) PROVE Cared(r)'
  <2>1. PICK more \in BOOLEAN : ProcessToken(s, more) /\ SendToken(s, more)
    BY <1>11 DEF DecodeToken
  <2>2. UNCHANGED <<tasks, deferred>> /\ slots[s].state = "PROCESSING"
    BY <1>11 DEF DecodeToken
  <2>3. Running(i) => Running(i)'
    BY <1>1, <1>6, <2>1, AddTokenType DEF ProcessToken, SendToken, SchedulerTypeOK
  <2>4. slots[s].id_task = i => Running(i)
    BY <2>2 DEF Running
  <2>5. slots[s].id_task # i => (StopQueued(i) => StopQueued(i)')
    <3>1. ASSUME slots[s].id_task # i PROVE results'[i] = results[i]
      BY <1>1, <2>1, <3>1 DEF ProcessToken, SendToken, SendTo, QueueTypeOK
    <3> QED  BY <3>1 DEF StopQueued, HasResult
  <2> QED  BY <1>1, <1>4, <2>2, <2>3, <2>4, <2>5
<1>12. ASSUME NEW s \in Slots, EngineFails(s) PROVE Cared(r)'
  <2>1. UNCHANGED <<tasks, deferred>> /\ slots[s].state = "PROCESSING"
    BY <1>12 DEF EngineFails
  <2>2. Running(i) => Running(i)'
    BY <1>1, <1>6, <1>12, FailedType DEF EngineFails, SchedulerTypeOK
  <2>3. slots[s].id_task = i => Running(i)
    BY <2>1 DEF Running
  <2>4. slots[s].id_task # i => (StopQueued(i) => StopQueued(i)')
    <3>1. ASSUME slots[s].id_task # i PROVE results'[i] = results[i]
      BY <1>1, <1>12, <3>1 DEF EngineFails, SendTo, QueueTypeOK
    <3> QED  BY <3>1 DEF StopQueued, HasResult
  <2> QED  BY <1>1, <1>4, <2>1, <2>2, <2>3, <2>4
<1>13. ASSUME NEW j \in TaskIds, PostCancel(j) PROVE Cared(r)'
  <2>1. /\ UNCHANGED <<deferred, results, slots>>
        /\ tasks \in Seq(Task)
        /\ tasks' = Append(tasks, [type |-> "CANCEL", id |-> j])
    BY <1>1, <1>13 DEF PostCancel, Post, QueueTypeOK
  <2>2. Queued(r) => Queued(r)'
    BY <1>1, <2>1, AppendKeeps DEF Queued, Task, TaskTypes
  <2> QED  BY <1>1, <1>4, <2>1, <2>2
<1> QED  BY <1>7, <1>8, <1>9, <1>10, <1>11, <1>12, <1>13 DEF SchedulerNext,
     ProcessSingleTask

\* A step of a call, its own or another's, keeps what it waits for: when it
\* begins to wait its task is in the queue, and what it takes while it waits
\* is not the result that ends the wait.
LEMMA HandlerKeeps ==
  ASSUME ServingInv, UNCHANGED schedulerVars, NEW q \in Calls, Arrives(q) \/ Proceeds(q),
         NEW r \in Calls, At(r, "waiting")', Served(r),
         At(r, "waiting") => Cared(r)
  PROVE  Cared(r)'
<1>1. /\ QueueTypeOK /\ HandlersTypeOK
      /\ callId'[r] = callId[r] /\ callId[r] \in TaskIds
      /\ TaskOf(r)' = TaskOf(r)
      /\ UNCHANGED <<deferred, slots>>
      /\ r # q => At(r, "waiting")
  <2> USE DEF ServingInv, TypeOK, HandlersTypeOK, QueueTypeOK, OwnIds, At, Goto, Leave,
              TaskOf, schedulerVars, queueVars
  <2>1. CASE Reject(q)         BY <2>1 DEF Reject
  <2>2. CASE GetNewId(q)       BY <2>2 DEF GetNewId
  <2>3. CASE AddWaiting(q)     BY <2>3 DEF AddWaiting
  <2>4. CASE PostTask(q)       BY <2>4 DEF PostTask
  <2>5. CASE RecvPartial(q)    BY <2>5 DEF RecvPartial
  <2>6. CASE RecvStop(q)       BY <2>6 DEF RecvStop
  <2>7. CASE RecvAnswer(q)     BY <2>7 DEF RecvAnswer
  <2>8. CASE Timeout(q)        BY <2>8 DEF Timeout
  <2>9. CASE RemoveWaiting(q)  BY <2>9 DEF RemoveWaiting
  <2> QED  BY <2>1, <2>2, <2>3, <2>4, <2>5, <2>6, <2>7, <2>8, <2>9 DEF Arrives, Proceeds
<1> PICK i \in TaskIds : i = callId[r] /\ i = callId'[r]
  BY <1>1
<1>2. /\ SetAside(r) => SetAside(r)'
      /\ Running(i) => Running(i)'
      /\ UNCHANGED tasks => (Queued(r) => Queued(r)')
      /\ UNCHANGED results => (StopQueued(i) => StopQueued(i)')
  BY <1>1 DEF SetAside, Running, Queued, StopQueued, HasResult
<1> USE DEF Cared
<1>3. ASSUME r # q, Receive(q), UNCHANGED tasks PROVE Cared(r)'
  <2>1. callId[q] # i /\ results'[i] = results[i]
    BY <1>1, <1>3 DEF ServingInv, OwnIds, Receive, Consume, QueueTypeOK, TaskIds, NoTask
  <2>2. StopQueued(i) => StopQueued(i)'
    BY <2>1 DEF StopQueued, HasResult
  <2> QED  BY <1>1, <1>2, <1>3, <2>2
<1>4. CASE PostTask(q)
  <2>1. /\ tasks \in Seq(Task) /\ TaskOf(q) \in Task
        /\ tasks' = Append(tasks, TaskOf(q)) /\ UNCHANGED results
    <3>1. callId[q] \in TaskIds
      BY <1>4 DEF PostTask, ServingInv, OwnIds, At
    <3>2. TaskOf(q) \in Task
      BY <3>1 DEF TaskOf, TaskType, Task, TaskTypes, Calls
    <3> QED  BY <1>1, <1>4, <3>2 DEF PostTask, Post, QueueTypeOK
  <2>2. CASE r = q
    <3>1. /\ Len(tasks') \in 1 .. Len(tasks')
          /\ tasks'[Len(tasks')] = TaskOf(q)
      BY <2>1, AppendProperties
    <3> QED  BY <1>1, <2>2, <3>1 DEF Queued
  <2>3. CASE r # q
    <3>1. Queued(r) => Queued(r)'
      BY <1>1, <2>1, AppendKeeps DEF Queued
    <3> QED  BY <1>1, <1>2, <2>1, <2>3, <3>1
  <2> QED  BY <2>2, <2>3
<1>5. CASE RecvPartial(q)
  <2>1. Receive(q) /\ UNCHANGED tasks /\ ~IsStop(NextResult(callId[q]))
    BY <1>5 DEF RecvPartial
  <2>2. CASE r = q
    <3>1. Consume(i) /\ ~IsStop(NextResult(i)) /\ At(r, "waiting")
      BY <2>1, <2>2 DEF Receive
    <3>2. StopQueued(i) => StopQueued(i)'
      BY <1>1, <3>1, StopStays
    <3> QED  BY <1>1, <1>2, <2>1, <3>1, <3>2
  <2> QED  BY <1>3, <2>1, <2>2
<1>6. CASE RecvStop(q) \/ RecvAnswer(q)
  <2>1. Receive(q) /\ UNCHANGED tasks /\ r # q
    BY <1>1, <1>6 DEF RecvStop, RecvAnswer, Leave, Goto, At, HandlersTypeOK
  <2> QED  BY <1>3, <2>1
<1>7. CASE Reject(q) \/ GetNewId(q) \/ AddWaiting(q) \/ Timeout(q) \/ RemoveWaiting(q)
  <2>1. UNCHANGED <<tasks, results>> /\ r # q
    BY <1>1, <1>7 DEF Reject, GetNewId, AddWaiting, Timeout, RemoveWaiting, queueVars,
       Leave, Goto, At, HandlersTypeOK
  <2> QED  BY <1>1, <1>2, <2>1
<1> QED  BY <1>4, <1>5, <1>6, <1>7 DEF Arrives, Proceeds

-----------------------------------------------------------------------------
(* The theorems *)

\* ServingInv holds at the start, when no call waits.
LEMMA ServingInvInit == Init => ServingInv
<1> SUFFICES ASSUME Init PROVE ServingInv
  OBVIOUS
<1>1. TypeOK
  BY TypeInit
<1>2. /\ OwnIds /\ RegisteredFirst /\ StopIsComing
  BY DEF Init, HandlersInit, QueueInit, OwnIds, RegisteredFirst, StopIsComing, At, NoTask
<1> QED  BY <1>1, <1>2 DEF ServingInv

\* Every step keeps ServingInv.
LEMMA ServingInvStep == ServingInv /\ [Next]_vars => ServingInv'
<1> SUFFICES ASSUME ServingInv, [Next]_vars PROVE ServingInv'
  OBVIOUS
<1>1. TypeOK' /\ OwnIds' /\ RegisteredFirst'
  BY TypeStep, IdsStep
<1>2. ASSUME NEW r \in Calls, At(r, "waiting")', Served(r)
      PROVE  Cared(r)'
  <2>1. At(r, "waiting") => Cared(r)
    BY <1>2 DEF ServingInv, StopIsComing, Cared
  <2>2. CASE SchedulerNext /\ UNCHANGED handlerVars
    <3>1. At(r, "waiting")
      BY <1>2, <2>2 DEF At, handlerVars
    <3> QED  BY <1>2, <2>1, <2>2, <3>1, SchedulerKeeps
  <2>3. CASE HandlerNext /\ UNCHANGED schedulerVars
    <3>1. PICK q \in Calls : Arrives(q) \/ Proceeds(q)
      BY <2>3 DEF HandlerNext
    <3> QED  BY <1>2, <2>1, <2>3, <3>1, HandlerKeeps
  <2>4. CASE UNCHANGED vars
    BY <1>2, <2>1, <2>4 DEF vars, queueVars, schedulerVars, handlerVars, At, Cared,
       Queued, SetAside, Running, StopQueued, HasResult, TaskOf
  <2> QED  BY <2>2, <2>3, <2>4 DEF Next
<1>3. StopIsComing'
  BY <1>2 DEF StopIsComing, Cared, Served
<1> QED  BY <1>1, <1>3 DEF ServingInv

\* ServingInv holds in every reachable state: the variables have their types,
\* no two calls share an id, and what a call waits for is always under way.
THEOREM ServingInvariance == SafetySpec => []ServingInv
<1>1. Init => ServingInv
  BY ServingInvInit
<1>2. ServingInv /\ [Next]_vars => ServingInv'
  BY ServingInvStep
<1> QED  BY <1>1, <1>2, PTL DEF SafetySpec

\* No call that waits for a result waits in vain, for any number of calls,
\* slots and tokens, and whatever tasks are cancelled.
THEOREM NoStrandedCallerHolds == SafetySpec => []NoStrandedCaller
<1>1. ServingInv => NoStrandedCaller
  BY DEF ServingInv, StopIsComing, StopQueued, NoStrandedCaller
<1> QED  BY <1>1, ServingInvariance, PTL

=============================================================================
