-------------------------- MODULE ModelGate_proofs --------------------------
(***************************************************************************)
(* ModelGate for any number of LoadModel calls: GateInv is inductive, and  *)
(* no wake-up of the queue thread is lost, start_loop() is not called      *)
(* before a load, and a load that succeeded shows in Status.               *)
(***************************************************************************)
EXTENDS ModelGate, TLAPS

\* GateInv holds at the start: the mutex is free and nothing is loaded.
LEMMA GateInvInit == Init => GateInv
  BY GateAssumption DEF Init, GateInv, TypeOK, QueuePlaces, LoadPlaces, MainPlaces,
     NoLostWakeup, LoopAfterLoad, Announced

\* Every step of the three kinds of threads keeps the invariant: who sets
\* loaded_model holds the mutex, so the queue thread is not between its test
\* and its sleep, and who set it has yet to notify.
LEMMA GateInvStep == GateInv /\ [Next]_vars => GateInv'
<1> SUFFICES ASSUME GateInv, [Next]_vars PROVE GateInv'
  OBVIOUS
<1> USE GateAssumption
<1> USE DEF GateInv, TypeOK, QueuePlaces, LoadPlaces, MainPlaces,
            NoLostWakeup, LoopAfterLoad, Announced
<1>1. CASE QueueStep
  <2>1. CASE QueueLock   BY <1>1, <2>1 DEF QueueLock
  <2>2. CASE QueueTest   BY <1>1, <2>2 DEF QueueTest
  <2>3. CASE QueueSleep  BY <1>1, <2>3 DEF QueueSleep
  <2>4. CASE StartLoop   BY <1>1, <2>4 DEF StartLoop
  <2>5. CASE LoopEnds    BY <1>1, <2>5 DEF LoopEnds
  <2> QED  BY <1>1, <2>1, <2>2, <2>3, <2>4, <2>5 DEF QueueStep
<1>2. CASE SpuriousWakeup
  BY <1>2 DEF SpuriousWakeup
<1>3. ASSUME NEW l \in Loads, LoadBegins(l) \/ LoadStep(l) PROVE GateInv'
  <2>1. CASE LoadBegins(l)    BY <2>1 DEF LoadBegins, LoadGoes
  <2>2. CASE LoadFails(l)     BY <2>2 DEF LoadFails, LoadGoes
  <2>3. CASE LoadSucceeds(l)  BY <2>3 DEF LoadSucceeds, LoadGoes
  <2>4. CASE InitContext(l)   BY <2>4 DEF InitContext, LoadGoes
  <2>5. CASE LoadLocks(l)     BY <2>5 DEF LoadLocks, LoadGoes
  <2>6. CASE SetLoaded(l)     BY <2>6 DEF SetLoaded, LoadGoes
  <2>7. CASE LoadNotifies(l)  BY <2>7 DEF LoadNotifies, LoadGoes, NotifyAll
  <2> QED  BY <1>3, <2>1, <2>2, <2>3, <2>4, <2>5, <2>6, <2>7 DEF LoadStep
<1>4. CASE WaitReturns
  BY <1>4 DEF WaitReturns, MainGoes
<1>5. CASE MainStep
  <2>1. CASE Terminate     BY <2>1 DEF Terminate, MainGoes
  <2>2. CASE ClearLoaded   BY <2>2 DEF ClearLoaded, MainGoes
  <2>3. CASE MainNotifies  BY <2>3 DEF MainNotifies, MainGoes, NotifyAll
  <2>4. CASE Join          BY <2>4 DEF Join, MainGoes
  <2> QED  BY <1>5, <2>1, <2>2, <2>3, <2>4 DEF MainStep
<1>6. CASE UNCHANGED vars
  BY <1>6 DEF vars
<1> QED  BY <1>1, <1>2, <1>3, <1>4, <1>5, <1>6 DEF Next

\* GateInv holds in every reachable state, for every set of LoadModel calls.
THEOREM GateInvariance == SafetySpec => []GateInv
<1>1. Init => GateInv
  BY GateInvInit
<1>2. GateInv /\ [Next]_vars => GateInv'
  BY GateInvStep
<1> QED  BY <1>1, <1>2, PTL DEF SafetySpec

\* handle_load_model never loses its notify_all: a queue thread that sleeps
\* while loaded_model is set has a notification to come.
THEOREM NoLostWakeupHolds == SafetySpec => []NoLostWakeup
<1>1. GateInv => NoLostWakeup
  BY DEF GateInv
<1> QED  BY <1>1, GateInvariance, PTL

\* start_loop() is called only after a load has set loaded_model.
THEOREM LoopAfterLoadHolds == SafetySpec => []LoopAfterLoad
<1>1. GateInv => LoopAfterLoad
  BY DEF GateInv
<1> QED  BY <1>1, GateInvariance, PTL

\* After a LoadModel call that succeeded, Status says READY until the main
\* thread stops the server.
THEOREM SuccessIsReadyHolds == SafetySpec => []SuccessIsReady
<1>1. GateInv => SuccessIsReady
  BY DEF GateInv, SuccessIsReady, Announced, Status
<1> QED  BY <1>1, GateInvariance, PTL

=============================================================================
