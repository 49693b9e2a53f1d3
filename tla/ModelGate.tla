----------------------------- MODULE ModelGate -----------------------------
(***************************************************************************)
(* How the backend starts and stops: main.cpp, handle_load_model of        *)
(* grpccod/model.cpp and Status of grpccod/service.cpp.                    *)
(*                                                                         *)
(* Three kinds of threads share loaded_model, model_mutex and model_cv:    *)
(* the main thread, the queue thread, which may call start_loop() only     *)
(* when a model is loaded, and one gRPC thread for every LoadModel call.   *)
(* The wait on model_cv is taken apart (lock, test, sleep, wake up, lock   *)
(* again), because a notification that comes between the test and the      *)
(* sleep is lost.                                                          *)
(*                                                                         *)
(* An operator named X_Fault is a wrong version of X that no action uses.  *)
(***************************************************************************)
EXTENDS Integers

CONSTANTS
  Loads,      \* the LoadModel calls; each runs once
  MayStop     \* whether server->Wait() can return

ASSUME GateAssumption ==
  /\ MayStop \in BOOLEAN
  /\ {"free", "queue"} \cap Loads = {}

VARIABLES
  loaded,     \* loaded_model
  mutex,      \* who holds model_mutex: "free", "queue" or a LoadModel call
  running,    \* queue_tasks.running, the flag start_loop() loops on
  queue,      \* where the queue thread stands
  load,       \* where each LoadModel call stands
  main        \* where the main thread stands

vars == <<loaded, mutex, running, queue, load, main>>

QueuePlaces == {"locking", "testing", "falling", "asleep", "starting", "looping", "ended"}
LoadPlaces  == {"start", "loading", "initing", "locking", "setting", "notifying",
                "done", "failed"}
MainPlaces  == {"serving", "terminating", "clearing", "notifying", "joining", "stopped"}

TypeOK ==
  /\ loaded \in BOOLEAN
  /\ mutex \in {"free", "queue"} \cup Loads
  /\ running \in BOOLEAN
  /\ queue \in QueuePlaces
  /\ load \in [Loads -> LoadPlaces]
  /\ main \in MainPlaces

Init ==
  /\ loaded = FALSE
  /\ mutex = "free"
  /\ running = TRUE
  /\ queue = "locking"
  /\ load = [l \in Loads |-> "start"]
  /\ main = "serving"

\* Fault: the notification is forgotten.
NotifyAll_Fault == queue' = queue

\* model_cv.notify_all()
NotifyAll == queue' = IF queue = "asleep" THEN "locking" ELSE queue

LoadGoes(l, from, to) ==
  /\ load[l] = from
  /\ load' = [load EXCEPT ![l] = to]

-----------------------------------------------------------------------------
(* The queue thread *)

QueueLock ==
  /\ queue = "locking"
  /\ mutex = "free"
  /\ mutex' = "queue"
  /\ queue' = "testing"
  /\ UNCHANGED <<loaded, running, load, main>>

\* Fault: the thread goes to start_loop() at the first wake-up, whatever
\* loaded_model is.
QueueTest_Fault ==
  /\ queue = "testing"
  /\ \/ queue' = "starting" /\ mutex' = "free"
     \/ ~loaded /\ queue' = "falling" /\ UNCHANGED mutex
  /\ UNCHANGED <<loaded, running, load, main>>

\* [] { return loaded_model.load(); }
QueueTest ==
  /\ queue = "testing"
  /\ \/ loaded /\ queue' = "starting" /\ mutex' = "free"
     \/ ~loaded /\ queue' = "falling" /\ UNCHANGED mutex
  /\ UNCHANGED <<loaded, running, load, main>>

\* Unlocking and falling asleep are one step for whoever locks the mutex.
QueueSleep ==
  /\ queue = "falling"
  /\ queue' = "asleep"
  /\ mutex' = "free"
  /\ UNCHANGED <<loaded, running, load, main>>

\* A condition variable may wake a thread up for no reason.
SpuriousWakeup ==
  /\ queue = "asleep"
  /\ queue' = "locking"
  /\ UNCHANGED <<loaded, mutex, running, load, main>>

\* start_loop(), a method of llama.cpp, sets running and serves tasks for as
\* long as it stays set.
StartLoop ==
  /\ queue = "starting"
  /\ queue' = "looping"
  /\ running' = TRUE
  /\ UNCHANGED <<loaded, mutex, load, main>>

LoopEnds ==
  /\ queue = "looping"
  /\ ~running
  /\ queue' = "ended"
  /\ UNCHANGED <<loaded, mutex, running, load, main>>

-----------------------------------------------------------------------------
(* LoadModel *)

\* llama.load_model(params) begins; no lock is held.
LoadBegins(l) ==
  /\ LoadGoes(l, "start", "loading")
  /\ UNCHANGED <<loaded, mutex, running, queue, main>>

\* Fault: the result of load_model() is ignored.
LoadFails_Fault(l) ==
  /\ LoadGoes(l, "loading", "initing")
  /\ UNCHANGED <<loaded, mutex, running, queue, main>>

LoadFails(l) ==
  /\ LoadGoes(l, "loading", "failed")
  /\ UNCHANGED <<loaded, mutex, running, queue, main>>

\* Fault: init() is left out.
LoadSucceeds_Fault(l) ==
  /\ LoadGoes(l, "loading", "locking")
  /\ UNCHANGED <<loaded, mutex, running, queue, main>>

LoadSucceeds(l) ==
  /\ LoadGoes(l, "loading", "initing")
  /\ UNCHANGED <<loaded, mutex, running, queue, main>>

\* llama.init(), then the reply says success.
InitContext(l) ==
  /\ LoadGoes(l, "initing", "locking")
  /\ UNCHANGED <<loaded, mutex, running, queue, main>>

\* Fault: loaded_model is set without model_mutex.
LoadLocks_Fault(l) ==
  /\ LoadGoes(l, "locking", "setting")
  /\ UNCHANGED <<loaded, mutex, running, queue, main>>

LoadLocks(l) ==
  /\ LoadGoes(l, "locking", "setting")
  /\ mutex = "free"
  /\ mutex' = l
  /\ UNCHANGED <<loaded, running, queue, main>>

\* Fault: the flag is left as it is when no thread sleeps.
SetLoaded_Fault(l) ==
  /\ LoadGoes(l, "setting", "notifying")
  /\ loaded' = (loaded \/ queue = "asleep")
  /\ mutex' = "free"
  /\ UNCHANGED <<running, queue, main>>

\* loaded_model = true, end of the scope of the lock
SetLoaded(l) ==
  /\ LoadGoes(l, "setting", "notifying")
  /\ loaded' = TRUE
  /\ mutex' = "free"
  /\ UNCHANGED <<running, queue, main>>

LoadNotifies(l) ==
  /\ LoadGoes(l, "notifying", "done")
  /\ NotifyAll
  /\ UNCHANGED <<loaded, mutex, running, main>>

\* BackendServiceImpl::Status()
Status == IF loaded THEN "READY" ELSE "BUSY"

-----------------------------------------------------------------------------
(* The main thread *)

MainGoes(from, to) ==
  /\ main = from
  /\ main' = to

\* server->Wait() returns; nothing under src/ makes it return.
WaitReturns ==
  /\ MayStop
  /\ MainGoes("serving", "terminating")
  /\ UNCHANGED <<loaded, mutex, running, queue, load>>

\* Fault: terminate() is not called.
Terminate_Fault ==
  /\ MainGoes("terminating", "clearing")
  /\ UNCHANGED <<loaded, mutex, running, queue, load>>

\* queue_tasks.terminate(), a method of llama.cpp
Terminate ==
  /\ MainGoes("terminating", "clearing")
  /\ running' = FALSE
  /\ UNCHANGED <<loaded, mutex, queue, load>>

\* loaded_model = false, without model_mutex
ClearLoaded ==
  /\ MainGoes("clearing", "notifying")
  /\ loaded' = FALSE
  /\ UNCHANGED <<mutex, running, queue, load>>

MainNotifies ==
  /\ MainGoes("notifying", "joining")
  /\ NotifyAll
  /\ UNCHANGED <<loaded, mutex, running, load>>

\* queue_thread.join()
Join ==
  /\ MainGoes("joining", "stopped")
  /\ queue = "ended"
  /\ UNCHANGED <<loaded, mutex, running, queue, load>>

-----------------------------------------------------------------------------

QueueStep   == QueueLock \/ QueueTest \/ QueueSleep \/ StartLoop \/ LoopEnds
LoadStep(l) == \/ LoadFails(l) \/ LoadSucceeds(l) \/ InitContext(l)
               \/ LoadLocks(l) \/ SetLoaded(l) \/ LoadNotifies(l)
MainStep    == Terminate \/ ClearLoaded \/ MainNotifies \/ Join

Next ==
  \/ QueueStep
  \/ SpuriousWakeup
  \/ \E l \in Loads : LoadBegins(l) \/ LoadStep(l)
  \/ WaitReturns
  \/ MainStep

\* Threads run, and a load ends; nothing makes a client call LoadModel, a
\* wake-up happen for no reason or Wait() return.  A thread that waits for
\* model_mutex gets it if the mutex is free again and again: only the queue
\* thread, woken up for no reason without end, could keep it out.
Fairness ==
  /\ WF_vars(QueueStep)
  /\ \A l \in Loads : SF_vars(LoadLocks(l))
  /\ \A l \in Loads : WF_vars(LoadStep(l))
  /\ WF_vars(MainStep)

SafetySpec == Init /\ [][Next]_vars
Spec       == SafetySpec /\ Fairness

-----------------------------------------------------------------------------
(* Safety *)

Announced(l) == load[l] \in {"notifying", "done"}

\* The queue thread sleeps on a loaded model only while a notification that
\* wakes it up is on its way: handle_load_model never loses its notify_all.
NoLostWakeup ==
  queue = "asleep" /\ loaded => \/ \E l \in Loads : load[l] = "notifying"
                                \/ main = "notifying"

\* start_loop(), which runs the callbacks on ctx_server, is not called
\* before some LoadModel call has loaded a model and initialised the slots.
LoopAfterLoad ==
  queue \in {"starting", "looping", "ended"} => \E l \in Loads : Announced(l)

\* Once a LoadModel call that succeeds has returned to its client, Status
\* says READY until the main thread begins to stop.
SuccessIsReady ==
  (\E l \in Loads : load[l] = "done")
     /\ main \in {"serving", "terminating", "clearing"} => Status = "READY"

Loading(l) == load[l] \in {"loading", "initing"}

\* service.cpp, Status: "Durante la carga: BUSY".  While a model is being
\* loaded, Status does not say READY.
BusyWhileLoading == (\E l \in Loads : Loading(l)) => Status = "BUSY"

\* README, Thread-Safe & Scalable: "internal mutexes ensure safe concurrent
\* access".  Two LoadModel calls are never at work on ctx_server together.
LoadsExclude == \A l, k \in Loads : Loading(l) /\ Loading(k) => l = k

\* Who holds model_mutex, what the queue thread saw while it held it, and
\* what an announced load stands for.  Inductive; NoLostWakeup,
\* LoopAfterLoad and SuccessIsReady follow from it.
GateInv ==
  /\ TypeOK
  /\ queue \in {"testing", "falling"} <=> mutex = "queue"
  /\ \A l \in Loads : load[l] = "setting" <=> mutex = l
  /\ queue = "falling" => ~loaded
  /\ NoLostWakeup
  /\ loaded => \E l \in Loads : Announced(l)
  /\ LoopAfterLoad
  /\ (\E l \in Loads : Announced(l))
       /\ main \in {"serving", "terminating", "clearing"} => loaded

-----------------------------------------------------------------------------
(* Liveness *)

\* When a model has been loaded, the queue thread begins to serve tasks,
\* provided the server is not stopped meanwhile.
LoopStarts ==
  (\E l \in Loads : load[l] = "locking") ~> queue = "looping" \/ main # "serving"

\* When Wait() returns while the queue thread serves tasks, the program ends.
LoopingStops == main = "terminating" /\ queue = "looping" ~> main = "stopped"

=============================================================================
