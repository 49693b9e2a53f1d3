------------------------------ MODULE Backend ------------------------------
(***************************************************************************)
(* The whole process of main.cpp: Serving (handlers, queues, slots) and    *)
(* ModelGate (LoadModel, model_cv, the queue thread before its loop) over  *)
(* one queue thread.  What the queue thread does in Serving it does inside *)
(* start_loop(), which ModelGate lets it reach; handlers, in threads of    *)
(* gRPC, do not wait for that.                                             *)
(*                                                                         *)
(* The clients are the ones the backend is written for: they ask for       *)
(* inference once Status has said READY, and load one model.  What other   *)
(* clients can do is in ModelGate (loads that overlap or follow each       *)
(* other) and in ChatRequest (a model replaced during a call).             *)
(***************************************************************************)
EXTENDS Serving

CONSTANT Attempts     \* LoadModel calls, made in this order until one succeeds

Loads == {Attempts[n] : n \in DOMAIN Attempts}

ASSUME BackendAssumption == {"free", "queue"} \cap Loads = {}

VARIABLES
  loaded, mutex, running, queue, load, main,   \* as in ModelGate
  context                                      \* history: what ctx_server holds
gateVars    == <<loaded, mutex, running, queue, load, main>>
backendVars == <<vars, gateVars, context>>

\* "model" after a load_model() that succeeded, "ready" after init() on it
Contexts == {"empty", "model", "ready"}
hasModel == context = "ready"

\* Nothing under src/ makes server->Wait() return.
Gate == INSTANCE ModelGate WITH MayStop <- FALSE

BackendInit == Init /\ Gate!Init /\ context = "empty"

-----------------------------------------------------------------------------
(* The queue thread and the handlers *)

\* Inside start_loop(): a task is taken, or callback_update_slots is called.
InLoop(step) ==
  /\ queue = "looping"
  /\ step
  /\ UNCHANGED <<handlerVars, gateVars, context>>

\* GetMetrics is called at any time, also when there is no queue loop yet.
Invited(r) == r \in MetricsCalls \/ Gate!Status = "READY"

CallArrives(r) ==
  /\ Invited(r)
  /\ Arrives(r)
  /\ UNCHANGED <<schedulerVars, gateVars, context>>

CallProceeds(r) ==
  /\ Proceeds(r)
  /\ UNCHANGED <<schedulerVars, gateVars, context>>

-----------------------------------------------------------------------------
(* The gate *)

\* The queue thread on its way to start_loop()
GateOpens ==
  /\ Gate!QueueStep \/ Gate!SpuriousWakeup
  /\ UNCHANGED <<vars, context>>

\* A client tries again after a load that failed.
LoadArrives(n) ==
  /\ \A k \in 1 .. n - 1 : load[Attempts[k]] = "failed"
  /\ Gate!LoadBegins(Attempts[n])
  /\ UNCHANGED <<vars, context>>

\* load_model() fills the context, init() needs one that is filled.
LoadProceeds(l) ==
  /\ \/ /\ Gate!LoadSucceeds(l)
        /\ context' = IF context = "empty" THEN "model" ELSE context
     \/ /\ Gate!InitContext(l)
        /\ context' = IF context = "model" THEN "ready" ELSE context
     \/ /\ \/ Gate!LoadFails(l) \/ Gate!LoadLocks(l)
           \/ Gate!SetLoaded(l) \/ Gate!LoadNotifies(l)
        /\ UNCHANGED context
  /\ UNCHANGED vars

BackendNext ==
  \/ InLoop(SchedulerNext)
  \/ \E r \in Calls : CallArrives(r) \/ CallProceeds(r)
  \/ GateOpens
  \/ \E n \in DOMAIN Attempts : LoadArrives(n)
  \/ \E l \in Loads : LoadProceeds(l)

\* The fairness of Serving and of ModelGate, for the same reasons.
BackendFairness ==
  /\ \A r \in Calls : WF_backendVars(CallProceeds(r))
  /\ WF_backendVars(InLoop(ProcessSingleTask))
  /\ WF_backendVars(Gate!QueueStep /\ UNCHANGED <<vars, context>>)
  /\ \A l \in Loads : SF_backendVars(Gate!LoadLocks(l) /\ LoadProceeds(l))
  /\ \A l \in Loads : WF_backendVars(LoadProceeds(l))

BackendSafetySpec == BackendInit /\ [][BackendNext]_backendVars
BackendSpec       == BackendSafetySpec /\ BackendFairness

-----------------------------------------------------------------------------
(* Properties *)

\* No handler looks at loaded_model.  To a client that waits for READY, and
\* to start_loop(), the flag must mean that load_model() and init() have
\* succeeded, also when an earlier load failed.  Otherwise a call tokenizes
\* with a model that is not there (predict.cpp:338), and a task is taken
\* before there are slots, and deferred for ever.
CallsHaveModel ==
  \/ hasModel
  \/ /\ \A r \in Calls \ MetricsCalls : At(r, "start")
     /\ queue \notin {"starting", "looping"}

\* How far a load, the flag and the queue thread may be before hasModel.
\* Inductive; CallsHaveModel follows from it.
BackendInv ==
  /\ pc \in [Calls -> Places]
  /\ load \in [Loads -> Gate!LoadPlaces]
  /\ context \in Contexts
  /\ \A l \in Loads : load[l] = "initing" => context # "empty"
  /\ \A l \in Loads :
       load[l] \in {"locking", "setting", "notifying", "done"} => hasModel
  /\ loaded => hasModel
  /\ CallsHaveModel

\* Tasks posted while there was no queue loop, or while it was busy, are all
\* taken in the end, once a model has been loaded.
BacklogServed == hasModel ~> tasks = << >>

=============================================================================
