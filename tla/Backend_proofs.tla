--------------------------- MODULE Backend_proofs ---------------------------
(***************************************************************************)
(* Backend for every set of calls and every sequence of load attempts: it  *)
(* implements Serving, so that what is proved of Serving holds in the      *)
(* whole process, and no inference begins before there is a model.         *)
(***************************************************************************)
EXTENDS Backend, Delivery_proofs

\* Every step of the process is a step of Serving, or does not concern it.
LEMMA BackendStepServes == [BackendNext]_backendVars => [Next]_vars
<1> SUFFICES ASSUME [BackendNext]_backendVars PROVE [Next]_vars
  OBVIOUS
<1>1. CASE InLoop(SchedulerNext)
  BY <1>1 DEF InLoop, Next
<1>2. ASSUME NEW r \in Calls, CallArrives(r) \/ CallProceeds(r) PROVE Next
  BY <1>2 DEF CallArrives, CallProceeds, HandlerNext, Next
<1>3. CASE GateOpens
  BY <1>3 DEF GateOpens
<1>4. ASSUME NEW n \in DOMAIN Attempts, LoadArrives(n) PROVE UNCHANGED vars
  BY <1>4 DEF LoadArrives
<1>5. ASSUME NEW l \in Loads, LoadProceeds(l) PROVE UNCHANGED vars
  BY <1>5 DEF LoadProceeds
<1>6. CASE UNCHANGED backendVars
  BY <1>6 DEF backendVars
<1> QED  BY <1>1, <1>2, <1>3, <1>4, <1>5, <1>6 DEF BackendNext

\* The process implements Serving: the gate only delays the queue thread.
THEOREM BackendServes == BackendSafetySpec => SafetySpec
<1>1. BackendInit => Init
  BY DEF BackendInit
<1> QED  BY <1>1, BackendStepServes, PTL DEF BackendSafetySpec, SafetySpec

\* In the whole process, too, no call waits for a result that cannot come,
\* also when its task was posted long before there was a queue loop.
THEOREM BackendStrandsNoCaller == BackendSafetySpec => []NoStrandedCaller
  BY BackendServes, NoStrandedCallerHolds, PTL

\* In the whole process no task is held in two places, whenever it was posted:
\* what waited for the queue loop is not also with a slot later.
THEOREM BackendHoldsOnce == BackendSafetySpec => []OneHolder
  BY BackendServes, OneHolderHolds, PTL

\* In the whole process a stream sends the tokens of its own task, in order
\* and once.
THEOREM BackendStreamsInOrder == BackendSafetySpec => []StreamInOrder
  BY BackendServes, StreamInOrderHolds, PTL

\* In the whole process nothing is queued for a call that has given up, also
\* for a GetMetrics call whose task is taken long after its time-out.
THEOREM BackendStaysQuiet == BackendSafetySpec => AbandonedIdsStayQuiet
  BY BackendServes, AbandonedIdsStayQuietHolds, PTL

\* The whole process keeps the promises of CompletionService about the text,
\* where the slots suit the calls (see KeepsTextPromisesHolds).
THEOREM BackendKeepsTextPromises ==
  ASSUME PredictCalls = {} \/ TRUE \notin SlotStream
  PROVE  BackendSafetySpec => KeepsTextPromises
  BY BackendServes, KeepsTextPromisesHolds, PTL

-----------------------------------------------------------------------------
(* The gate *)

\* At the start there is no model, and nobody works on one.
LEMMA BackendInvInit == BackendInit => BackendInv
<1> SUFFICES ASSUME BackendInit PROVE BackendInv
  OBVIOUS
<1>1. /\ pc = [r \in Calls |-> "start"]
      /\ queue = "locking"
      /\ load = [l \in Loads |-> "start"]
      /\ loaded = FALSE
      /\ context = "empty"
  BY DEF BackendInit, Init, HandlersInit, Gate!Init
<1>2. pc \in [Calls -> Places]
  BY <1>1 DEF Places
<1>3. load \in [Loads -> Gate!LoadPlaces]
  BY <1>1 DEF Gate!LoadPlaces
<1>4. CallsHaveModel
  BY <1>1 DEF CallsHaveModel, At, Calls
<1> QED  BY <1>1, <1>2, <1>3, <1>4 DEF BackendInv, Contexts

\* A call leaves its start only by Arrives.
LEMMA CallKeepsStart ==
  ASSUME NEW r \in Calls, pc \in [Calls -> Places], Arrives(r) \/ Proceeds(r)
  PROVE  /\ pc' \in [Calls -> Places]
         /\ \A q \in Calls : q # r => pc'[q] = pc[q]
         /\ Proceeds(r) => pc[r] # "start"
<1>1. CASE Arrives(r)
  BY <1>1 DEF Arrives, Reject, GetNewId, Goto, At, Places, Proceeds, AddWaiting,
     PostTask, RecvPartial, RecvStop, RecvAnswer, Timeout, RemoveWaiting, Receive
<1>2. CASE Proceeds(r)
  BY <1>2 DEF Proceeds, AddWaiting, PostTask, RecvPartial, RecvStop, RecvAnswer,
     Timeout, RemoveWaiting, Receive, Leave, Goto, At, Places
<1> QED  BY <1>1, <1>2

\* Every step keeps BackendInv: loaded_model is set by a load that has been
\* through load_model() and init(), and is what calls and loop wait for.
LEMMA BackendInvStep == BackendInv /\ [BackendNext]_backendVars => BackendInv'
<1> SUFFICES ASSUME BackendInv, [BackendNext]_backendVars PROVE BackendInv'
  OBVIOUS
<1> USE DEF BackendInv, CallsHaveModel, At, Gate!LoadPlaces, Contexts, hasModel
<1>1. CASE InLoop(SchedulerNext)
  BY <1>1 DEF InLoop, handlerVars, gateVars
<1>2. ASSUME NEW r \in Calls, CallArrives(r) PROVE BackendInv'
  <2>1. /\ pc' \in [Calls -> Places]
        /\ \A q \in Calls : q # r => pc'[q] = pc[q]
    BY <1>2, CallKeepsStart DEF CallArrives
  <2>2. r \in MetricsCalls \/ hasModel
    BY <1>2 DEF CallArrives, Invited, Gate!Status
  <2> QED  BY <1>2, <2>1, <2>2 DEF CallArrives, gateVars
<1>3. ASSUME NEW r \in Calls, CallProceeds(r) PROVE BackendInv'
  <2>1. /\ pc' \in [Calls -> Places]
        /\ \A q \in Calls : q # r => pc'[q] = pc[q]
        /\ pc[r] # "start"
    BY <1>3, CallKeepsStart DEF CallProceeds
  <2> QED  BY <1>3, <2>1 DEF CallProceeds, gateVars
<1>4. CASE GateOpens
  <2>1. CASE Gate!QueueLock
    BY <1>4, <2>1 DEF GateOpens, Gate!QueueLock, vars, handlerVars
  <2>2. CASE Gate!QueueTest
    BY <1>4, <2>2 DEF GateOpens, Gate!QueueTest, vars, handlerVars
  <2>3. CASE Gate!QueueSleep
    BY <1>4, <2>3 DEF GateOpens, Gate!QueueSleep, vars, handlerVars
  <2>4. CASE Gate!StartLoop
    BY <1>4, <2>4 DEF GateOpens, Gate!StartLoop, vars, handlerVars
  <2>5. CASE Gate!LoopEnds
    BY <1>4, <2>5 DEF GateOpens, Gate!LoopEnds, vars, handlerVars
  <2>6. CASE Gate!SpuriousWakeup
    BY <1>4, <2>6 DEF GateOpens, Gate!SpuriousWakeup, vars, handlerVars
  <2> QED  BY <1>4, <2>1, <2>2, <2>3, <2>4, <2>5, <2>6 DEF GateOpens, Gate!QueueStep
<1>5. ASSUME NEW n \in DOMAIN Attempts, LoadArrives(n) PROVE BackendInv'
  BY <1>5 DEF LoadArrives, Gate!LoadBegins, Gate!LoadGoes, vars, handlerVars
<1>6. ASSUME NEW l \in Loads, LoadProceeds(l) PROVE BackendInv'
  <2> USE DEF LoadProceeds, Gate!LoadGoes, vars, handlerVars
  <2>1. CASE Gate!LoadFails(l)     BY <1>6, <2>1 DEF Gate!LoadFails
  <2>2. CASE Gate!LoadSucceeds(l)
    <3>1. context' = (IF context = "empty" THEN "model" ELSE context)
      BY <1>6, <2>2 DEF Gate!LoadSucceeds, Gate!LoadFails, Gate!InitContext,
         Gate!LoadLocks, Gate!SetLoaded, Gate!LoadNotifies
    <3>2. /\ load' = [load EXCEPT ![l] = "initing"]
          /\ UNCHANGED <<loaded, queue, pc>>
      BY <1>6, <2>2 DEF Gate!LoadSucceeds
    <3> QED  BY <3>1, <3>2
  <2>3. CASE Gate!InitContext(l)
    <3>1. /\ load[l] = "initing"
          /\ load' = [load EXCEPT ![l] = "locking"]
          /\ UNCHANGED <<loaded, queue, pc>>
      BY <1>6, <2>3 DEF Gate!InitContext
    <3>2. context' = "ready"
      BY <1>6, <2>3, <3>1 DEF Gate!LoadSucceeds, Gate!LoadFails, Gate!InitContext,
         Gate!LoadLocks, Gate!SetLoaded, Gate!LoadNotifies
    <3> QED  BY <3>1, <3>2
  <2>4. CASE Gate!LoadLocks(l)     BY <1>6, <2>4 DEF Gate!LoadLocks
  <2>5. CASE Gate!SetLoaded(l)     BY <1>6, <2>5 DEF Gate!SetLoaded
  <2>6. CASE Gate!LoadNotifies(l)
    BY <1>6, <2>6 DEF Gate!LoadNotifies, Gate!NotifyAll
  <2> QED  BY <1>6, <2>1, <2>2, <2>3, <2>4, <2>5, <2>6
<1>7. CASE UNCHANGED backendVars
  BY <1>7 DEF backendVars, vars, handlerVars, gateVars
<1> QED  BY <1>1, <1>2, <1>3, <1>4, <1>5, <1>6, <1>7 DEF BackendNext

\* BackendInv holds in every reachable state, for any number of attempts.
THEOREM BackendInvariance == BackendSafetySpec => []BackendInv
<1>1. BackendInit => BackendInv
  BY BackendInvInit
<1>2. BackendInv /\ [BackendNext]_backendVars => BackendInv'
  BY BackendInvStep
<1> QED  BY <1>1, <1>2, PTL DEF BackendSafetySpec

\* To a client that waits for READY no inference call meets an empty
\* ctx_server, and start_loop() does not, however many loads failed before.
THEOREM CallsHaveModelHolds == BackendSafetySpec => []CallsHaveModel
<1>1. BackendInv => CallsHaveModel
  BY DEF BackendInv
<1> QED  BY <1>1, BackendInvariance, PTL

=============================================================================
