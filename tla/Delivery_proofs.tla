-------------------------- MODULE Delivery_proofs ---------------------------
(***************************************************************************)
(* What reaches the clients, for every set of calls, every number of slots *)
(* and all bounds: the text of a call arrives in order and complete, and   *)
(* the handlers, the queues and the slots together keep the promises of    *)
(* CompletionService.                                                      *)
(***************************************************************************)
EXTENDS Places_proofs

-----------------------------------------------------------------------------
(* The text of a task *)

\* The first n tokens of task i are a sequence of length n.
LEMMA TextIs ==
  ASSUME NEW i, NEW n \in Nat
  PROVE  /\ Text(i, n) \in Seq({i} \X Nat)
         /\ Len(Text(i, n)) = n
         /\ DOMAIN Text(i, n) = 1 .. n
         /\ \A k \in 1 .. n : Text(i, n)[k] = <<i, k>>
<1>1. /\ Text(i, n) \in [1 .. n -> {i} \X Nat]
      /\ \A k \in 1 .. n : Text(i, n)[k] = <<i, k>>
  BY DEF Text
<1>2. Text(i, n) \in Seq({i} \X Nat)
  BY <1>1, SeqDef
<1> QED  BY <1>1, <1>2, LenProperties

\* A task for which nothing was generated has no text.
LEMMA NoText == \A i : Text(i, 0) = << >>
<1> SUFFICES ASSUME NEW i PROVE Text(i, 0) = << >>
  OBVIOUS
<1>1. Text(i, 0) \in Seq({i} \X Nat) /\ Len(Text(i, 0)) = 0
  BY TextIs
<1> QED  BY <1>1, EmptySeq

\* What is at the places of a sequence to which one of length 1 was added.
LEMMA OneMore ==
  ASSUME NEW S, NEW a \in Seq(S), NEW b \in Seq(S), Len(b) = 1
  PROVE  /\ a \o b \in Seq(S)
         /\ Len(a \o b) = Len(a) + 1
         /\ \A k \in 1 .. Len(a) : (a \o b)[k] = a[k]
         /\ (a \o b)[Len(a) + 1] = b[1]
<1>1. Len(a) \in Nat
  BY LenProperties
<1>2. /\ a \o b \in Seq(S) /\ Len(a \o b) = Len(a) + Len(b)
      /\ \A k \in 1 .. Len(a) + Len(b) :
           (a \o b)[k] = IF k <= Len(a) THEN a[k] ELSE b[k - Len(a)]
  BY ConcatProperties
<1> DEFINE c == a \o b
           n == Len(a)
<1> HIDE DEF c, n
<1>3. n \in Nat /\ \A k \in 1 .. n + 1 : c[k] = IF k <= n THEN a[k] ELSE b[k - n]
  BY <1>1, <1>2 DEF c, n
<1>4. \A k \in 1 .. n : c[k] = a[k]
  BY <1>3
<1>5. c[n + 1] = b[1]
  <2>1. n + 1 \in 1 .. n + 1 /\ ~(n + 1 <= n) /\ n + 1 - n = 1
    BY <1>3
  <2>2. c[n + 1] = b[n + 1 - n]
    BY <1>3, <2>1
  <2> QED  BY <2>1, <2>2
<1> QED  BY <1>2, <1>4, <1>5 DEF c, n

\* The next token makes the text of n tokens that of n + 1.
LEMMA OneMoreToken ==
  ASSUME NEW i, NEW n \in Nat
  PROVE  Text(i, n) \o << <<i, n + 1>> >> = Text(i, n + 1)
<1> DEFINE S == {i} \X Nat
           e == <<i, n + 1>>
           a == Text(i, n)
           b == <<e>>
           c == Text(i, n + 1)
<1>1. a \in Seq(S) /\ Len(a) = n /\ \A k \in 1 .. n : a[k] = <<i, k>>
  BY TextIs
<1>2. n + 1 \in Nat
  OBVIOUS
<1>3. c \in Seq(S) /\ Len(c) = n + 1 /\ \A k \in 1 .. n + 1 : c[k] = <<i, k>>
  BY <1>2, TextIs
<1>4. e \in S
  BY <1>2
<1> HIDE DEF a, c, S, e
<1>5. b \in Seq(S) /\ Len(b) = 1 /\ b[1] = e
  BY <1>4
<1> HIDE DEF b
<1>6. /\ a \o b \in Seq(S) /\ Len(a \o b) = n + 1
      /\ \A k \in 1 .. n : (a \o b)[k] = a[k]
      /\ (a \o b)[n + 1] = e
  BY <1>1, <1>5, OneMore
<1> DEFINE f == a \o b
<1> HIDE DEF f
<1>7. /\ f \in Seq(S) /\ Len(f) = n + 1
      /\ \A k \in 1 .. n : f[k] = <<i, k>>
      /\ f[n + 1] = <<i, n + 1>>
  BY <1>1, <1>6 DEF e, f
<1>8. \A k \in 1 .. n + 1 : f[k] = <<i, k>>
  <2> SUFFICES ASSUME NEW k \in 1 .. n + 1 PROVE f[k] = <<i, k>>
    OBVIOUS
  <2>1. k \in 1 .. n \/ k = n + 1
    OBVIOUS
  <2> QED  BY <1>7, <2>1
<1>9. f = c
  BY <1>2, <1>3, <1>7, <1>8, SeqEqual
<1> QED  BY <1>9 DEF a, b, c, e, f

\* A text is known by its length.
LEMMA TextByLength ==
  ASSUME NEW i, NEW n \in Nat, NEW m \in Nat, Text(i, n) = Text(i, m)
  PROVE  n = m
  BY TextIs

-----------------------------------------------------------------------------
(* Counters *)

\* Tokens are added, never taken away, and only to a task a slot goes on for.
LEMMA DecodedGrows ==
  ASSUME ServingInv, PlacesInv, SchedulerNext, NEW i \in TaskIds
  PROVE  /\ decoded'[i] \in Nat /\ decoded'[i] >= decoded[i]
         /\ (\A s \in Slots : ~Generates(s, i)) => decoded'[i] = decoded[i]
<1>1. decoded \in [TaskIds -> Nat]
  BY DEF ServingInv, TypeOK, SchedulerTypeOK
<1>2. ASSUME NEW s \in Slots, DecodeToken(s)
      PROVE  /\ decoded'[i] \in Nat /\ decoded'[i] >= decoded[i]
             /\ (\A q \in Slots : ~Generates(q, i)) => decoded'[i] = decoded[i]
  <2>1. decoded' = [decoded EXCEPT ![slots[s].id_task] = @ + 1]
    BY <1>2 DEF DecodeToken
  <2>2. Busy(s) /\ slots[s].has_next_token
    BY <1>2 DEF DecodeToken, Busy
  <2>3. CASE slots[s].id_task = i
    BY <1>1, <2>1, <2>2, <2>3 DEF Generates, Runs
  <2>4. CASE slots[s].id_task # i
    BY <1>1, <2>1, <2>4
  <2> QED  BY <2>3, <2>4
<1>3. CASE UNCHANGED decoded
  BY <1>1, <1>3
<1> QED  BY <1>2, <1>3 DEF SchedulerNext, ProcessSingleTask, ProcessCompletion,
     ProcessCancel, ProcessOther, AnswerQuery, UpdateSlots, EngineFails, PostCancel,
     schedulerVars

-----------------------------------------------------------------------------
(* The results that are queued for a call *)

\* The text of a chunk of token n, and what it adds to a reply.
LEMMA ChunkSent ==
  ASSUME NEW i, NEW res \in Seq(Result), NEW m \in Nat, NEW d \in Nat,
         AllChunks(res), ChunksInOrder(i, res, m, d), m + Len(res) = d,
         NEW e \in Result, ~IsStop(e), e.text = << <<i, d + 1>> >>
  PROVE  /\ ChunksInOrder(i, Append(res, e), m, d + 1)
         /\ AllChunks(Append(res, e))
         /\ m + Len(Append(res, e)) = d + 1
<1> DEFINE new == Append(res, e)
<1>1. /\ DOMAIN new = DOMAIN res \cup {Len(res) + 1}
      /\ new[Len(res) + 1] = e
      /\ \A k \in DOMAIN res : new[k] = res[k]
  BY AppendPlaces
<1>2. /\ Len(res) \in Nat /\ DOMAIN res = 1 .. Len(res)
      /\ Len(new) = Len(res) + 1
  BY LenProperties, AppendProperties
<1> HIDE DEF new
<1>3. AllChunks(new)
  BY <1>1 DEF AllChunks
<1>4. \A k \in DOMAIN new : new[k].text = << <<i, m + k>> >> /\ m + k <= d + 1
  <2> SUFFICES ASSUME NEW k \in DOMAIN new
               PROVE  new[k].text = << <<i, m + k>> >> /\ m + k <= d + 1
    OBVIOUS
  <2>1. CASE k \in DOMAIN res
    BY <1>1, <1>2, <2>1 DEF AllChunks, ChunksInOrder
  <2>2. CASE k = Len(res) + 1
    <3>1. m + k = d + 1
      BY <1>2, <2>2
    <3> QED  BY <1>1, <1>2, <2>2, <3>1
  <2> QED  BY <1>1, <2>1, <2>2
<1>5. \A k : ~StoppedBefore(new, k)
  BY <1>3 DEF AllChunks, StoppedBefore
<1>6. ChunksInOrder(i, new, m, d + 1)
  BY <1>4, <1>5 DEF ChunksInOrder
<1> QED  BY <1>2, <1>3, <1>6 DEF new

\* A result that ends the wait goes behind the chunks.
LEMMA StopSentInOrder ==
  ASSUME NEW i, NEW res \in Seq(Result), NEW m \in Nat, NEW d \in Nat,
         ChunksInOrder(i, res, m, d), FinalsWhole(i, res, m, d),
         NEW e \in Result, IsStop(e),
         e.kind = "final" =>
           /\ e.predicted = d
           /\ e.text \in FinalTexts(i, d)
           /\ FALSE \notin SlotStream =>
                StoppedBefore(res, Len(res) + 1) \/ AllButLast(m + Len(res), d)
  PROVE  /\ ChunksInOrder(i, Append(res, e), m, d)
         /\ FinalsWhole(i, Append(res, e), m, d)
         /\ StoppedBefore(Append(res, e), Len(Append(res, e)) + 1)
<1> DEFINE new == Append(res, e)
<1>1. /\ DOMAIN new = DOMAIN res \cup {Len(res) + 1}
      /\ new[Len(res) + 1] = e
      /\ \A k \in DOMAIN res : new[k] = res[k]
  BY AppendPlaces
<1>2. /\ Len(res) \in Nat /\ DOMAIN res = 1 .. Len(res)
      /\ Len(new) = Len(res) + 1
  BY LenProperties, AppendProperties
<1> HIDE DEF new
<1>3. \A k \in 1 .. Len(res) + 1 : StoppedBefore(new, k) <=> StoppedBefore(res, k)
  BY <1>1, <1>2 DEF StoppedBefore
<1>4. ChunksInOrder(i, new, m, d)
  BY <1>1, <1>2, <1>3 DEF ChunksInOrder
<1>5. FinalsWhole(i, new, m, d)
  <2> SUFFICES ASSUME NEW k \in DOMAIN new, new[k].kind = "final"
               PROVE  /\ new[k].predicted = d
                      /\ new[k].text \in FinalTexts(i, d)
                      /\ FALSE \notin SlotStream =>
                           StoppedBefore(new, k) \/ AllButLast(m + k - 1, d)
    BY DEF FinalsWhole
  <2>1. CASE k \in DOMAIN res
    <3>1. new[k] = res[k] /\ (StoppedBefore(new, k) <=> StoppedBefore(res, k))
      BY <1>1, <1>2, <1>3, <2>1
    <3> QED  BY <2>1, <3>1 DEF FinalsWhole
  <2>2. CASE k = Len(res) + 1
    <3>1. m + k - 1 = m + Len(res) /\ k \in 1 .. Len(res) + 1
      BY <1>2, <2>2
    <3> QED  BY <1>1, <1>3, <2>2, <3>1
  <2> QED  BY <1>1, <2>1, <2>2
<1>6. StoppedBefore(new, Len(new) + 1)
  BY <1>1, <1>2 DEF StoppedBefore
<1> QED  BY <1>4, <1>5, <1>6 DEF new

\* The first chunk is what comes next for the client, and the others follow.
LEMMA ChunkTaken ==
  ASSUME NEW i, NEW res \in Seq(Result), res # << >>, NEW m \in Nat, NEW d \in Nat,
         ChunksInOrder(i, res, m, d), FinalsWhole(i, res, m, d), ~IsStop(Head(res))
  PROVE  /\ Head(res).text = << <<i, m + 1>> >>
         /\ m + 1 <= d
         /\ ChunksInOrder(i, Tail(res), m + 1, d)
         /\ FinalsWhole(i, Tail(res), m + 1, d)
         /\ \A slot : SentSoFar(slot, res, m, d) => SentSoFar(slot, Tail(res), m + 1, d)
<1> DEFINE new == Tail(res)
<1>1. /\ 1 \in DOMAIN res /\ res[1] = Head(res)
      /\ Len(new) = Len(res) - 1
      /\ new \in Seq(Result)
      /\ \A k \in DOMAIN new : k + 1 \in DOMAIN res /\ new[k] = res[k + 1]
  BY TailPlaces, HeadTailProperties
<1> HIDE DEF new
<1>2. /\ Len(res) \in Nat \ {0} /\ DOMAIN res = 1 .. Len(res)
      /\ DOMAIN new = 1 .. Len(res) - 1
  BY <1>1, LenProperties, EmptySeq
<1>3. Head(res).text = << <<i, m + 1>> >> /\ m + 1 <= d
  BY <1>1 DEF ChunksInOrder
<1>4. \A k \in 1 .. Len(res) : StoppedBefore(new, k) <=> StoppedBefore(res, k + 1)
  <2> SUFFICES ASSUME NEW k \in 1 .. Len(res)
               PROVE  StoppedBefore(new, k) <=> StoppedBefore(res, k + 1)
    OBVIOUS
  <2>1. ASSUME StoppedBefore(new, k) PROVE StoppedBefore(res, k + 1)
    <3>1. PICK j \in DOMAIN new : j < k /\ IsStop(new[j])
      BY <2>1 DEF StoppedBefore
    <3>2. j + 1 \in DOMAIN res /\ j + 1 < k + 1 /\ IsStop(res[j + 1])
      BY <1>1, <1>2, <3>1
    <3> QED  BY <3>2 DEF StoppedBefore
  <2>2. ASSUME StoppedBefore(res, k + 1) PROVE StoppedBefore(new, k)
    <3>1. PICK j \in DOMAIN res : j < k + 1 /\ IsStop(res[j])
      BY <2>2 DEF StoppedBefore
    <3>2. j # 1
      BY <1>1, <3>1
    <3>3. j - 1 \in DOMAIN new /\ j - 1 < k /\ j - 1 + 1 = j
      BY <1>2, <3>1, <3>2
    <3>4. new[j - 1] = res[j]
      BY <1>1, <3>3
    <3> QED  BY <3>1, <3>3, <3>4 DEF StoppedBefore
  <2> QED  BY <2>1, <2>2
<1>5. ASSUME NEW k \in DOMAIN new
      PROVE  /\ k + 1 \in DOMAIN res /\ new[k] = res[k + 1]
             /\ m + (k + 1) = m + 1 + k /\ m + (k + 1) - 1 = m + 1 + k - 1
             /\ StoppedBefore(new, k) <=> StoppedBefore(res, k + 1)
  <2>1. k \in Int /\ k \in 1 .. Len(res)
    BY <1>2
  <2>2. m + (k + 1) = m + 1 + k /\ m + (k + 1) - 1 = m + 1 + k - 1
    BY <2>1
  <2>3. StoppedBefore(new, k) <=> StoppedBefore(res, k + 1)
    BY <1>4, <2>1
  <2> QED  BY <1>1, <2>2, <2>3
<1>6. ChunksInOrder(i, new, m + 1, d)
  <2> SUFFICES ASSUME NEW k \in DOMAIN new, ~IsStop(new[k])
               PROVE  /\ new[k].text = << <<i, m + 1 + k>> >>
                      /\ m + 1 + k <= d
                      /\ ~StoppedBefore(new, k)
    BY DEF ChunksInOrder
  <2>1. /\ res[k + 1].text = << <<i, m + (k + 1)>> >>
        /\ m + (k + 1) <= d
        /\ ~StoppedBefore(res, k + 1)
    BY <1>5 DEF ChunksInOrder
  <2> QED  BY <1>5, <2>1
<1>7. FinalsWhole(i, new, m + 1, d)
  <2> SUFFICES ASSUME NEW k \in DOMAIN new, new[k].kind = "final"
               PROVE  /\ new[k].predicted = d
                      /\ new[k].text \in FinalTexts(i, d)
                      /\ FALSE \notin SlotStream =>
                           StoppedBefore(new, k) \/ AllButLast(m + 1 + k - 1, d)
    BY DEF FinalsWhole
  <2>1. /\ res[k + 1].predicted = d
        /\ res[k + 1].text \in FinalTexts(i, d)
        /\ FALSE \notin SlotStream =>
             StoppedBefore(res, k + 1) \/ AllButLast(m + (k + 1) - 1, d)
    BY <1>5 DEF FinalsWhole
  <2> QED  BY <1>5, <2>1
<1>8. ASSUME NEW slot, SentSoFar(slot, res, m, d)
      PROVE  SentSoFar(slot, new, m + 1, d)
  <2>1. m + 1 + Len(new) = m + Len(res) /\ Len(new) + 1 = Len(res)
    BY <1>1, <1>2
  <2>2. AllChunks(res) => AllChunks(new)
    BY <1>1 DEF AllChunks
  <2>3. StoppedBefore(res, Len(res) + 1) <=> StoppedBefore(new, Len(new) + 1)
    BY <1>2, <1>4, <2>1
  <2> QED  BY <1>8, <2>1, <2>2, <2>3 DEF SentSoFar
<1> QED  BY <1>3, <1>6, <1>7, <1>8 DEF new

\* Before the first result, everything is in order.
LEMMA NothingSent ==
  ASSUME NEW i, NEW slot
  PROVE  /\ ChunksInOrder(i, << >>, 0, 0)
         /\ FinalsWhole(i, << >>, 0, 0)
         /\ SentSoFar(slot, << >>, 0, 0)
<1>1. Len(<< >>) = 0 /\ DOMAIN << >> = {}
  OBVIOUS
<1> QED  BY <1>1 DEF ChunksInOrder, FinalsWhole, SentSoFar, AllChunks, AllButLast

-----------------------------------------------------------------------------
(* From the slot to the client *)

\* InOrder after the step
InOrderNext(i, m) ==
  /\ ChunksInOrder(i, results'[i], m, decoded'[i])
  /\ FinalsWhole(i, results'[i], m, decoded'[i])
  /\ \A s \in Slots : slots'[s].state = "PROCESSING" /\ slots'[s].id_task = i =>
       SentSoFar(slots'[s], results'[i], m, decoded'[i])

\* A slot that works for i works for it before, and goes on only if it did.
StillRuns(s, i) ==
  slots'[s].state = "PROCESSING" /\ slots'[s].id_task = i =>
    /\ Runs(s, i)
    /\ slots'[s].stream = slots[s].stream
    /\ slots'[s].has_next_token => slots[s].has_next_token

\* A slot that a step leaves as it is runs what it ran.
LEMMA UnmovedRuns ==
  ASSUME NEW s \in Slots, Unmoved(s) \/ slots'[s] = slots[s], NEW i
  PROVE  StillRuns(s, i)
  BY DEF Unmoved, Continues, StillRuns, Runs, Busy

\* A step that generates nothing for i and sends nothing to it
LEMMA QuietStep ==
  ASSUME NEW i, NEW m, InOrder(i, m),
         results'[i] = results[i], decoded'[i] = decoded[i],
         \A s \in Slots : StillRuns(s, i)
  PROVE  InOrderNext(i, m)
<1>1. \A s \in Slots : slots'[s].state = "PROCESSING" /\ slots'[s].id_task = i =>
        SentSoFar(slots'[s], results[i], m, decoded[i])
  BY DEF StillRuns, InOrder, SentSoFar
<1> QED  BY <1>1 DEF InOrder, InOrderNext

\* The task of a call that waits is given to a slot.
LEMMA LaunchInOrder ==
  ASSUME ServingInv, PlacesInv, GenerationInv, ProcessCompletion,
         NEW i \in TaskIds, NEW m \in Nat, InOrder(i, m), m <= decoded[i]
  PROVE  InOrderNext(i, m)
<1>1. /\ tasks # << >> /\ TakeTask /\ Head(tasks).type = "COMPLETION"
      /\ UNCHANGED <<results, decoded>> /\ QueueTypeOK
  BY DEF ProcessCompletion, Arrived, ServingInv, TypeOK
<1>2. 1 \in DOMAIN tasks /\ tasks[1] = Head(tasks) /\ Head(tasks) \in Task
  BY <1>1, TakenPlaces
<1>3. CASE UNCHANGED slots
  BY <1>1, <1>3, QuietStep, UnmovedRuns
<1>4. CASE \E s \in Slots : BestSlot(s) /\ LaunchSlotWithTask(s, Head(tasks))
  <2>1. PICK s \in Slots : BestSlot(s) /\ LaunchSlotWithTask(s, Head(tasks))
    BY <1>4
  <2>2. /\ \A q \in Slots \ {s} : slots'[q] = slots[q]
        /\ slots'[s].id_task = Head(tasks).id
    BY <1>2, <2>1, LaunchEffect
  <2>3. CASE Head(tasks).id = i
    <3>1. Fresh(i) /\ Untouched(i)
      BY <1>1, <1>2, <2>3, WaitingUntouched DEF GenerationInv, FreshBefore
    <3>2. results'[i] = << >> /\ decoded'[i] = 0 /\ m = 0
      BY <1>1, <3>1 DEF Fresh
    <3> QED  BY <3>2, NothingSent DEF InOrderNext
  <2>4. CASE Head(tasks).id # i
    <3>1. \A q \in Slots : StillRuns(q, i)
      BY <2>2, <2>4, UnmovedRuns DEF StillRuns
    <3> QED  BY <1>1, <3>1, QuietStep
  <2> QED  BY <2>3, <2>4
<1> QED  BY <1>3, <1>4 DEF ProcessCompletion

\* A final result says all there is to say.
LEMMA FinalSent ==
  ASSUME ServingInv, GenerationInv, NEW s \in Slots, NEW i \in TaskIds, Runs(s, i)
  PROVE  /\ FinalResult(slots[s]) \in Result
         /\ FinalResult(slots[s]).kind = "final"
         /\ FinalResult(slots[s]).predicted = decoded[i]
         /\ FinalResult(slots[s]).text \in FinalTexts(i, decoded[i])
<1>1. /\ slots[s] \in Slot /\ slots[s].id_task = i
      /\ slots[s].stream \in SlotStream /\ slots[s].n_decoded = decoded[i]
  BY DEF ServingInv, TypeOK, SchedulerTypeOK, GenerationInv, CountsAgree, Runs
<1>2. SlotStream \subseteq BOOLEAN
  BY SchedulerAssumption
<1>3. FinalResult(slots[s]) \in Result
  BY <1>1, ResultTypes, MaxTasksAssumption
<1>4. FinalResult(slots[s]).text \in FinalTexts(i, decoded[i])
  BY <1>1, <1>2 DEF FinalResult, FinalTexts
<1> QED  BY <1>1, <1>3, <1>4 DEF FinalResult

\* A pass of update_slots() answers the task of a call that waits.
LEMMA UpdateInOrder ==
  ASSUME ServingInv, PlacesInv, GenerationInv, UpdateSlots,
         NEW i \in TaskIds, NEW m \in Nat, InOrder(i, m), i \in waitingIds
  PROVE  InOrderNext(i, m)
<1>1. /\ decoded \in [TaskIds -> Nat] /\ results[i] \in Seq(Result)
      /\ UNCHANGED decoded /\ results'[i] = FinalsSent(i)
      /\ \A q \in Slots : slots'[q] = UpdatedSlot(slots[q])
      /\ \A q \in Slots : slots[q] \in Slot
  BY DEF ServingInv, TypeOK, QueueTypeOK, SchedulerTypeOK, UpdateSlots
<1>2. \A q \in Slots : StillRuns(q, i)
  BY UpdateEffect, UnmovedRuns
<1>3. CASE Answered(i) = {}
  BY <1>1, <1>2, <1>3, QuietStep DEF FinalsSent
<1>4. CASE Answered(i) # {}
  <2>1. PICK s \in Slots : /\ s \in Answered(i)
                           /\ results'[i] = Append(results[i], FinalResult(slots[s]))
    BY <1>1, <1>4 DEF FinalsSent, Answered
  <2>2. Runs(s, i) /\ (Releasing(slots[s]) \/ Finished(slots[s]))
    BY <2>1 DEF Answered, Runs, Busy, Releasing, Finished
  <2>3. /\ ChunksInOrder(i, results'[i], m, decoded[i])
        /\ FinalsWhole(i, results'[i], m, decoded[i])
        /\ StoppedBefore(results'[i], Len(results'[i]) + 1)
    <3>1. SentSoFar(slots[s], results[i], m, decoded[i])
      BY <2>2 DEF InOrder
    <3> DEFINE e == FinalResult(slots[s])
    <3>2. /\ e \in Result /\ e.kind = "final" /\ e.predicted = decoded[i]
          /\ e.text \in FinalTexts(i, decoded[i])
      BY <2>2, FinalSent
    <3>3. decoded[i] \in Nat /\ results'[i] = Append(results[i], e)
      BY <1>1, <2>1
    <3> HIDE DEF e
    <3>4. IsStop(e)
      BY <3>2 DEF IsStop
    <3>5. FALSE \notin SlotStream =>
            \/ StoppedBefore(results[i], Len(results[i]) + 1)
            \/ AllButLast(m + Len(results[i]), decoded[i])
      BY <3>1 DEF SentSoFar
    <3>6. /\ ChunksInOrder(i, results[i], m, decoded[i])
          /\ FinalsWhole(i, results[i], m, decoded[i])
      BY DEF InOrder
    <3> QED  BY <1>1, <3>2, <3>3, <3>4, <3>5, <3>6, StopSentInOrder
  <2>4. ASSUME NEW q \in Slots, slots'[q].state = "PROCESSING", slots'[q].id_task = i
        PROVE  ~slots'[q].has_next_token
    <3>1. q = s
      BY <1>2, <2>2, <2>4 DEF StillRuns, PlacesInv, OnePlace, Runs
    <3>2. ~Releasing(slots[s])
      <4> SUFFICES ASSUME Releasing(slots[s]) PROVE FALSE
        OBVIOUS
      <4>1. UpdatedSlot(slots[s]) = Released(slots[s])
        BY DEF UpdatedSlot, Releasing, Finished
      <4>2. Released(slots[s]).state = "IDLE"
        BY <1>1, ReleasedFields
      <4> QED  BY <1>1, <2>4, <3>1, <4>1, <4>2
    <3>3. ~slots[s].has_next_token
      BY <2>2, <3>2 DEF Finished
    <3> QED  BY <1>2, <2>4, <3>1, <3>3 DEF StillRuns
  <2> QED  BY <1>1, <2>3, <2>4 DEF InOrderNext, SentSoFar
<1> QED  BY <1>3, <1>4

\* What the slot of a task generates is added to the chunks that are queued.
LEMMA TokenInOrder ==
  ASSUME ServingInv, PlacesInv, GenerationInv, NEW s \in Slots, DecodeToken(s),
         NEW i \in TaskIds, NEW m \in Nat, InOrder(i, m), i \in waitingIds
  PROVE  InOrderNext(i, m)
<1>1. /\ decoded \in [TaskIds -> Nat] /\ results \in [TaskIds -> Seq(Result)]
      /\ slots[s] \in Slot
  BY DEF ServingInv, TypeOK, QueueTypeOK, SchedulerTypeOK
<1>2. Busy(s) /\ slots[s].has_next_token
  BY DEF DecodeToken, Busy
<1>3. PICK more \in BOOLEAN : ProcessToken(s, more) /\ SendToken(s, more)
  BY DEF DecodeToken
<1>4. /\ \A q \in Slots \ {s} : slots'[q] = slots[q]
      /\ Continues(s)
      /\ slots'[s].has_next_token = more
  BY <1>3, TokenEffect
<1>5. CASE slots[s].id_task = i
  <2> DEFINE res == results[i]
             d   == decoded[i]
             e   == PartialResult(slots[s], slots[s].n_decoded + 1)
             new == results'[i]
  <2>1. /\ Runs(s, i) /\ \A q \in Slots : Runs(q, i) => q = s
        /\ slots[s].stream \in SlotStream /\ slots[s].n_decoded = d
    BY <1>2, <1>5, OwnerOf DEF Runs, GenerationInv, CountsAgree
  <2>2. /\ AllChunks(res)
        /\ m + Len(res) = IF slots[s].stream THEN d ELSE 0
        /\ ChunksInOrder(i, res, m, d)
    BY <1>2, <2>1 DEF InOrder, SentSoFar
  <2>3. /\ d \in Nat /\ res \in Seq(Result) /\ Len(res) \in Nat
        /\ decoded'[i] = d + 1
        /\ new = IF more /\ slots[s].stream THEN Append(res, e) ELSE res
    BY <1>1, <1>3, <1>5, LenProperties DEF DecodeToken, ProcessToken, SendToken, SendTo
  <2>4. /\ ~IsStop(e) /\ e.text = << <<i, d + 1>> >>
        /\ e \in Result
    <3>1. d + 1 \in Nat
      BY <2>3
    <3> QED  BY <1>1, <1>5, <2>1, <3>1, ResultTypes DEF PartialResult, IsStop
  <2> HIDE DEF e, new, res, d
  <2>5. /\ ChunksInOrder(i, new, m, d + 1)
        /\ AllChunks(new)
        /\ m + Len(new) = IF slots[s].stream THEN IF more THEN d + 1 ELSE d ELSE 0
    <3>1. CASE more /\ slots[s].stream
      BY <2>2, <2>3, <2>4, <3>1, ChunkSent
    <3>2. CASE ~(more /\ slots[s].stream)
      <4>1. ChunksInOrder(i, res, m, d + 1)
        <5> SUFFICES ASSUME NEW k \in DOMAIN res, m + k <= d PROVE m + k <= d + 1
          BY <2>2 DEF ChunksInOrder
        <5>1. k \in Int
          BY <2>3, LenProperties
        <5> QED  BY <2>3, <5>1
      <4> QED  BY <2>2, <2>3, <3>2, <4>1
    <3> QED  BY <3>1, <3>2
  <2>6. FinalsWhole(i, new, m, d + 1)
    BY <2>5 DEF AllChunks, FinalsWhole, IsStop
  <2>7. SentSoFar(slots'[s], new, m, d + 1)
    <3>1. slots'[s].stream = slots[s].stream
      BY <1>4 DEF Continues
    <3>2. d = d + 1 - 1
      BY <2>3
    <3>3. FALSE \notin SlotStream => slots[s].stream
      BY <2>1, SchedulerAssumption
    <3>4. slots'[s].has_next_token =>
            AllChunks(new) /\ m + Len(new) = IF slots'[s].stream THEN d + 1 ELSE 0
      BY <1>4, <2>5, <3>1
    <3>5. slots[s].stream => AllButLast(m + Len(new), d + 1)
      BY <2>5, <3>2 DEF AllButLast
    <3> QED  BY <3>3, <3>4, <3>5 DEF SentSoFar
  <2>8. \A q \in Slots : slots'[q].state = "PROCESSING" /\ slots'[q].id_task = i => q = s
    BY <1>4, <2>1 DEF Runs, Busy
  <2> QED  BY <2>3, <2>5, <2>6, <2>7, <2>8 DEF InOrderNext, new, d
<1>6. CASE slots[s].id_task # i
  <2>1. results'[i] = results[i] /\ decoded'[i] = decoded[i]
    BY <1>1, <1>3, <1>6 DEF DecodeToken, ProcessToken, SendToken, SendTo
  <2>2. \A q \in Slots : StillRuns(q, i)
    BY <1>4, <1>6, UnmovedRuns DEF Continues, StillRuns
  <2> QED  BY <2>1, <2>2, QuietStep
<1> QED  BY <1>5, <1>6

\* An error ends what a slot does for its call.
LEMMA FailInOrder ==
  ASSUME ServingInv, PlacesInv, NEW s \in Slots, EngineFails(s),
         NEW i \in TaskIds, NEW m \in Nat, InOrder(i, m), i \in waitingIds
  PROVE  InOrderNext(i, m)
<1>1. /\ decoded \in [TaskIds -> Nat] /\ results \in [TaskIds -> Seq(Result)]
      /\ UNCHANGED decoded
  BY DEF ServingInv, TypeOK, QueueTypeOK, SchedulerTypeOK, EngineFails
<1>2. /\ \A q \in Slots \ {s} : slots'[q] = slots[q]
      /\ Continues(s)
      /\ slots'[s].has_next_token = FALSE
  BY FailEffect
<1>3. CASE slots[s].id_task = i
  <2> DEFINE e == [kind |-> "error", text |-> << >>, predicted |-> 0]
  <2>1. e \in Result /\ IsStop(e) /\ e.kind # "final"
    BY PlainResultType DEF ResultKinds, IsStop
  <2>2. results'[i] = Append(results[i], e)
    BY <1>1, <1>3 DEF EngineFails, SendTo
  <2> HIDE DEF e
  <2>3. /\ ChunksInOrder(i, results'[i], m, decoded[i])
        /\ FinalsWhole(i, results'[i], m, decoded[i])
        /\ StoppedBefore(results'[i], Len(results'[i]) + 1)
    BY <1>1, <2>1, <2>2, StopSentInOrder DEF InOrder
  <2>4. \A q \in Slots : Runs(q, i) => q = s
    BY <1>3, OwnerOf DEF EngineFails, Busy, Runs
  <2>5. \A q \in Slots : slots'[q].state = "PROCESSING" /\ slots'[q].id_task = i => q = s
    BY <1>2, <2>4 DEF Runs, Busy
  <2>6. SentSoFar(slots'[s], results'[i], m, decoded[i])
    BY <1>2, <2>3 DEF SentSoFar
  <2> QED  BY <1>1, <2>3, <2>5, <2>6 DEF InOrderNext
<1>4. CASE slots[s].id_task # i
  <2>1. results'[i] = results[i]
    BY <1>1, <1>4 DEF EngineFails, SendTo
  <2>2. \A q \in Slots : StillRuns(q, i)
    BY <1>2, <1>4, UnmovedRuns DEF Continues, StillRuns
  <2> QED  BY <1>1, <2>1, <2>2, QuietStep
<1> QED  BY <1>3, <1>4

\* Every step of the queue thread keeps what is on its way to a call in order.
LEMMA SchedulerInOrder ==
  ASSUME ServingInv, PlacesInv, GenerationInv, SchedulerNext,
         NEW r \in Completions, At(r, "waiting"),
         NEW i \in TaskIds, i = callId[r],
         NEW m \in Nat, InOrder(i, m), m <= decoded[i]
  PROVE  InOrderNext(i, m)
<1>1. i \in waitingIds /\ r \in Calls /\ Posted(r) /\ QueueTypeOK
  BY MaxTasksAssumption DEF ServingInv, TypeOK, RegisteredFirst, Calls, At, Posted,
     TaskIds, NoTask
<1>2. CASE ProcessCompletion
  BY <1>2, LaunchInOrder
<1>3. CASE ProcessCancel
  <2>1. results'[i] = results[i] /\ decoded'[i] = decoded[i]
    BY <1>3 DEF ProcessCancel
  <2> QED  BY <1>3, <2>1, CancelEffect, UnmovedRuns, QuietStep
<1>4. CASE ProcessOther \/ AnswerQuery
  <2>1. /\ tasks # << >> /\ TakeTask /\ UNCHANGED <<slots, decoded>>
        /\ Head(tasks).type \in {"METRICS", "EMBEDDING"}
    BY <1>4 DEF ProcessOther, AnswerQuery, Arrived, schedulerVars
  <2>2. Head(tasks).id # i
    BY <1>1, <2>1, TakenPlaces, NoQueryFor DEF PlacesInv
  <2>3. results'[i] = results[i]
    BY <1>1, <1>4, <2>2 DEF ProcessOther, AnswerQuery, SendTo, QueueTypeOK
  <2> QED  BY <2>1, <2>3, UnmovedRuns, QuietStep
<1>5. CASE UpdateSlots
  BY <1>1, <1>5, UpdateInOrder
<1>6. ASSUME NEW s \in Slots, DecodeToken(s) \/ EngineFails(s)
      PROVE  InOrderNext(i, m)
  BY <1>1, <1>6, TokenInOrder, FailInOrder
<1>7. ASSUME NEW j \in TaskIds, PostCancel(j)
      PROVE  InOrderNext(i, m)
  <2>1. UNCHANGED <<slots, results, decoded>>
    BY <1>7 DEF PostCancel
  <2> QED  BY <2>1, UnmovedRuns, QuietStep
<1> QED  BY <1>2, <1>3, <1>4, <1>5, <1>6, <1>7 DEF SchedulerNext, ProcessSingleTask

\* What a call takes is what its client lacks: the next chunk.
LEMMA ChunkReceived ==
  ASSUME ServingInv, NEW r \in Completions, RecvPartial(r), UNCHANGED schedulerVars,
         NEW i \in TaskIds, i = callId[r],
         NEW m \in Nat, m = Len(reply[r]), InOrder(i, m), reply[r] = Text(i, m)
  PROVE  /\ reply'[r] = Text(i, m + 1)
         /\ m + 1 <= decoded[i]
         /\ InOrderNext(i, m + 1)
<1>1. /\ results \in [TaskIds -> Seq(Result)] /\ decoded \in [TaskIds -> Nat]
      /\ results[i] # << >> /\ results'[i] = Tail(results[i])
      /\ ~IsStop(Head(results[i]))
      /\ reply \in [Calls -> Seq(Token)] /\ r \in Calls
      /\ reply'[r] = reply[r] \o Head(results[i]).text
      /\ UNCHANGED <<slots, decoded>>
  BY DEF ServingInv, TypeOK, QueueTypeOK, SchedulerTypeOK, HandlersTypeOK, RecvPartial,
     Receive, HasResult, Consume, NextResult, Calls, schedulerVars
<1>2. /\ Head(results[i]).text = << <<i, m + 1>> >>
      /\ m + 1 <= decoded[i]
      /\ ChunksInOrder(i, Tail(results[i]), m + 1, decoded[i])
      /\ FinalsWhole(i, Tail(results[i]), m + 1, decoded[i])
      /\ \A slot : SentSoFar(slot, results[i], m, decoded[i]) =>
                     SentSoFar(slot, Tail(results[i]), m + 1, decoded[i])
  <2>1. results[i] \in Seq(Result) /\ decoded[i] \in Nat
    BY <1>1
  <2> QED  BY <1>1, <2>1, ChunkTaken DEF InOrder
<1>3. reply'[r] = Text(i, m + 1)
  BY <1>1, <1>2, OneMoreToken
<1>4. InOrderNext(i, m + 1)
  BY <1>1, <1>2 DEF InOrderNext, InOrder, Runs, Busy
<1> QED  BY <1>2, <1>3, <1>4

\* A step of another call does not touch what is on its way to r.
LEMMA OthersKeepInOrder ==
  ASSUME ServingInv, UNCHANGED schedulerVars,
         NEW q \in Calls, Arrives(q) \/ Proceeds(q),
         NEW i \in TaskIds, i # callId[q] \/ UNCHANGED results,
         NEW m, InOrder(i, m)
  PROVE  InOrderNext(i, m)
<1>1. UNCHANGED <<slots, decoded>> /\ results \in [TaskIds -> Seq(Result)]
  BY DEF schedulerVars, ServingInv, TypeOK, QueueTypeOK
<1>2. results'[i] = results[i]
  BY <1>1 DEF Arrives, Proceeds, Reject, GetNewId, AddWaiting, PostTask,
     RecvPartial, RecvStop, RecvAnswer, Timeout, RemoveWaiting, Receive, Consume, queueVars
<1> QED  BY <1>1, <1>2, UnmovedRuns, QuietStep

\* The state of a call that waits, in the terms of the lemmas above.
LEMMA WaitingCall ==
  ASSUME ServingInv, RepliesInOrder, WaitingInOrder, NEW r \in Completions, At(r, "waiting")
  PROVE  /\ r \in Calls /\ callId[r] \in TaskIds /\ callId[r] # NoTask
         /\ Len(reply[r]) \in Nat
         /\ InOrder(callId[r], Len(reply[r]))
         /\ reply[r] = Text(callId[r], Len(reply[r]))
         /\ Len(reply[r]) <= decoded[callId[r]]
<1>1. r \in Calls
  BY DEF Calls
<1>2. callId[r] \in TaskIds /\ reply[r] \in Seq(Token)
  BY <1>1 DEF ServingInv, TypeOK, HandlersTypeOK, OwnIds, At
<1>3. callId[r] # NoTask
  BY <1>2, MaxTasksAssumption DEF TaskIds, NoTask
<1> QED  BY <1>1, <1>2, <1>3, LenProperties DEF RepliesInOrder, WaitingInOrder

\* What each step of a call does to the text its client has.
LEMMA ReplyEffect ==
  ASSUME ServingInv, RepliesInOrder, WaitingInOrder, UNCHANGED schedulerVars,
         NEW q \in Completions, Arrives(q) \/ Proceeds(q)
  PROVE  \/ reply'[q] = reply[q] /\ callId'[q] = callId[q]
         \/ reply[q] = << >> /\ reply'[q] = << >> /\ GetNewId(q)
         \/ RecvPartial(q) /\ callId'[q] = callId[q]
         \/ /\ RecvStop(q) /\ callId'[q] = callId[q] /\ q \in PredictCalls
            /\ NextResult(callId[q]).kind = "final"
            /\ reply'[q] = NextResult(callId[q]).text
<1>1. q \in Calls /\ HandlersTypeOK /\ OwnIds
  BY DEF Calls, ServingInv, TypeOK
<1>2. CASE GetNewId(q)
  <2>1. callId[q] = NoTask /\ reply' = reply
    BY <1>1, <1>2 DEF GetNewId, OwnIds
  <2> QED  BY <1>2, <2>1 DEF RepliesInOrder
<1>3. CASE RecvPartial(q)
  BY <1>3 DEF RecvPartial
<1>4. CASE RecvStop(q)
  BY <1>1, <1>4 DEF RecvStop, HandlersTypeOK, FinalText
<1> QED  BY <1>2, <1>3, <1>4 DEF Arrives, Proceeds, Reject, AddWaiting, PostTask,
         RecvAnswer, Timeout, RemoveWaiting

\* The final result that a call takes is about all that was generated.
LEMMA FinalReceived ==
  ASSUME ServingInv, RepliesInOrder, WaitingInOrder, NEW r \in Completions, RecvStop(r),
         NextResult(callId[r]).kind = "final"
  PROVE  /\ NextResult(callId[r]).predicted = decoded[callId[r]]
         /\ NextResult(callId[r]).text \in FinalTexts(callId[r], decoded[callId[r]])
         /\ FALSE \notin SlotStream => AllButLast(Len(reply[r]), decoded[callId[r]])
         /\ \A s \in Slots : ~Generates(s, callId[r])
         /\ results[callId[r]] # << >>
<1>1. /\ At(r, "waiting") /\ results[callId[r]] # << >>
      /\ IsStop(Head(results[callId[r]]))
      /\ NextResult(callId[r]) = Head(results[callId[r]])
  BY DEF RecvStop, Receive, HasResult, NextResult
<1>2. PICK i \in TaskIds : i = callId[r]
  BY <1>1, WaitingCall
<1>3. PICK m \in Nat : m = Len(reply[r])
  BY <1>1, WaitingCall
<1>4. InOrder(i, m) /\ results[i] \in Seq(Result)
  BY <1>1, <1>2, <1>3, WaitingCall DEF ServingInv, TypeOK, QueueTypeOK
<1>5. 1 \in DOMAIN results[i] /\ results[i][1] = Head(results[i])
  BY <1>1, <1>2, <1>4, TailPlaces
<1>6. ~StoppedBefore(results[i], 1)
  <2>1. \A j \in DOMAIN results[i] : ~(j < 1)
    BY <1>4, LenProperties
  <2> QED  BY <2>1 DEF StoppedBefore
<1>7. m + 1 - 1 = m
  OBVIOUS
<1>8. /\ results[i][1].predicted = decoded[i]
      /\ results[i][1].text \in FinalTexts(i, decoded[i])
      /\ FALSE \notin SlotStream => AllButLast(m, decoded[i])
  BY <1>1, <1>2, <1>4, <1>5, <1>6, <1>7 DEF InOrder, FinalsWhole
<1>9. \A s \in Slots : ~Generates(s, i)
  BY <1>1, <1>2, <1>4, <1>5 DEF InOrder, SentSoFar, AllChunks, Generates
<1> QED  BY <1>1, <1>2, <1>3, <1>5, <1>8, <1>9

-----------------------------------------------------------------------------
(* The invariant *)

\* A call that has no id yet has no text either.
LEMMA IdsOfReplies ==
  ASSUME ServingInv, RepliesInOrder, NEW r \in Completions
  PROVE  /\ r \in Calls
         /\ callId[r] \in TaskIds \cup {NoTask}
         /\ reply[r] \in Seq(Token)
         /\ Len(reply[r]) \in Nat
         /\ callId[r] # NoTask => decoded[callId[r]] \in Nat
<1>1. r \in Calls
  BY DEF Calls
<1>2. callId[r] \in TaskIds \cup {NoTask} /\ reply[r] \in Seq(Token)
  BY <1>1 DEF ServingInv, TypeOK, HandlersTypeOK
<1> QED  BY <1>1, <1>2, LenProperties DEF ServingInv, TypeOK, SchedulerTypeOK

\* The reply of a call stays a beginning of what is generated for it.
LEMMA RepliesStep ==
  ASSUME ServingInv, PlacesInv, DeliveryInv, [Next]_vars
  PROVE  RepliesInOrder'
<1> USE DEF DeliveryInv
<1> SUFFICES ASSUME NEW r \in Completions
             PROVE  /\ reply'[r] = Text(callId'[r], Len(reply'[r]))
                    /\ callId'[r] = NoTask => reply'[r] = << >>
                    /\ callId'[r] # NoTask => Len(reply'[r]) <= decoded'[callId'[r]]
  BY DEF RepliesInOrder
<1>1. /\ reply[r] = Text(callId[r], Len(reply[r]))
      /\ callId[r] = NoTask => reply[r] = << >>
      /\ callId[r] # NoTask => Len(reply[r]) <= decoded[callId[r]]
      /\ r \in Calls
  BY IdsOfReplies DEF RepliesInOrder
<1>2. CASE SchedulerNext /\ UNCHANGED handlerVars
  <2>1. reply'[r] = reply[r] /\ callId'[r] = callId[r]
    BY <1>2 DEF handlerVars
  <2>2. ASSUME NEW i \in TaskIds, i = callId[r] PROVE Len(reply[r]) <= decoded'[i]
    <3>1. decoded'[i] \in Nat /\ decoded'[i] >= decoded[i]
      BY <1>2, DecodedGrows
    <3>2. i # NoTask
      BY MaxTasksAssumption DEF TaskIds, NoTask
    <3> QED  BY <1>1, <2>2, <3>1, <3>2, IdsOfReplies
  <2> QED  BY <1>1, <2>1, <2>2, IdsOfReplies
<1>3. ASSUME NEW q \in Calls, Arrives(q) \/ Proceeds(q), UNCHANGED schedulerVars
      PROVE  /\ reply'[r] = Text(callId'[r], Len(reply'[r]))
             /\ callId'[r] = NoTask => reply'[r] = << >>
             /\ callId'[r] # NoTask => Len(reply'[r]) <= decoded'[callId'[r]]
  <2>1. UNCHANGED decoded
    BY <1>3 DEF schedulerVars
  <2>2. CASE reply'[r] = reply[r] /\ callId'[r] = callId[r]
    BY <1>1, <2>1, <2>2
  <2>3. CASE r # q
    BY <1>1, <1>3, <2>2, <2>3, HandlerEffect
  <2>4. CASE r = q
    <3>1. CASE reply[q] = << >> /\ reply'[q] = << >> /\ GetNewId(q)
      <4>1. Len(<< >>) = 0 /\ Text(callId'[r], 0) = << >>
        BY NoText
      <4>2. callId'[r] \in TaskIds /\ decoded[callId'[r]] \in Nat
        BY <1>1, <2>4, <3>1, MaxTasksAssumption DEF GetNewId, TaskIds, HandlersTypeOK,
           ServingInv, TypeOK, QueueTypeOK, SchedulerTypeOK
      <4>3. decoded[callId'[r]] >= 0
        BY <4>2
      <4> QED  BY <2>1, <2>4, <3>1, <4>1, <4>3
    <3>2. CASE RecvPartial(q) /\ callId'[q] = callId[q]
      <4>1. At(r, "waiting")
        BY <2>4, <3>2 DEF RecvPartial, Receive
      <4>2. PICK i \in TaskIds : i = callId[r]
        BY <4>1, WaitingCall
      <4>3. PICK m \in Nat : m = Len(reply[r])
        BY <4>1, WaitingCall
      <4>4. InOrder(i, m) /\ reply[r] = Text(i, m) /\ callId[r] # NoTask
        BY <4>1, <4>2, <4>3, WaitingCall
      <4>5. reply'[r] = Text(i, m + 1) /\ m + 1 <= decoded[i]
        BY <1>3, <2>4, <3>2, <4>2, <4>3, <4>4, ChunkReceived
      <4>6. m + 1 \in Nat
        OBVIOUS
      <4>7. Len(Text(i, m + 1)) = m + 1
        BY <4>6, TextIs
      <4> QED  BY <2>1, <2>4, <3>2, <4>2, <4>4, <4>5, <4>7
    <3>3. CASE /\ RecvStop(q) /\ callId'[q] = callId[q] /\ q \in PredictCalls
               /\ NextResult(callId[q]).kind = "final"
               /\ reply'[q] = NextResult(callId[q]).text
      <4>1. At(r, "waiting")
        BY <2>4, <3>3 DEF RecvStop, Receive
      <4>2. PICK i \in TaskIds : i = callId[r] /\ callId[r] # NoTask
        BY <4>1, WaitingCall
      <4>3. reply'[r] \in {<< >>, Text(i, decoded[i])}
        BY <2>4, <3>3, <4>2, FinalReceived DEF FinalTexts
      <4>4. decoded[i] \in Nat
        BY <4>2 DEF ServingInv, TypeOK, SchedulerTypeOK
      <4>5. Len(Text(i, decoded[i])) = decoded[i] /\ Len(<< >>) = 0 /\ Text(i, 0) = << >>
        BY <4>4, TextIs, NoText
      <4> QED  BY <2>1, <2>4, <3>3, <4>2, <4>3, <4>4, <4>5
    <3> QED  BY <1>3, <2>2, <2>4, <3>1, <3>2, <3>3, ReplyEffect
  <2> QED  BY <2>3, <2>4
<1>4. CASE UNCHANGED vars
  BY <1>1, <1>4 DEF vars, schedulerVars, handlerVars
<1> QED  BY <1>2, <1>3, <1>4 DEF Next, HandlerNext

\* WaitingInOrder after a step, call by call.
LEMMA WaitingNext ==
  ASSUME \A r \in Completions : pc'[r] = "waiting" =>
           InOrderNext(callId'[r], Len(reply'[r]))
  PROVE  WaitingInOrder'
<1>1. ASSUME NEW i, NEW m, InOrderNext(i, m)
      PROVE  /\ ChunksInOrder(i, results'[i], m, decoded'[i])
             /\ FinalsWhole(i, results'[i], m, decoded'[i])
             /\ \A s \in Slots : slots'[s].state = "PROCESSING" /\ slots'[s].id_task = i =>
                  SentSoFar(slots'[s], results'[i], m, decoded'[i])
  BY <1>1 DEF InOrderNext
<1> QED  BY <1>1 DEF WaitingInOrder, InOrder, At, Runs, Busy

\* What is queued for a call that waits stays in order.
LEMMA WaitingStep ==
  ASSUME ServingInv, PlacesInv, GenerationInv, DeliveryInv, [Next]_vars
  PROVE  WaitingInOrder'
<1> USE DEF DeliveryInv
<1> SUFFICES ASSUME NEW r \in Completions, pc'[r] = "waiting"
             PROVE  InOrderNext(callId'[r], Len(reply'[r]))
  BY WaitingNext
<1>1. r \in Calls
  BY IdsOfReplies
<1>2. CASE SchedulerNext /\ UNCHANGED handlerVars
  <2>1. At(r, "waiting") /\ callId'[r] = callId[r] /\ reply'[r] = reply[r]
    BY <1>2 DEF handlerVars, At
  <2>2. PICK i \in TaskIds : i = callId[r]
    BY <2>1, WaitingCall
  <2>3. PICK m \in Nat : m = Len(reply[r])
    BY <2>1, WaitingCall
  <2>4. InOrder(i, m) /\ m <= decoded[i]
    BY <2>1, <2>2, <2>3, WaitingCall
  <2> QED  BY <1>2, <2>1, <2>2, <2>3, <2>4, SchedulerInOrder
<1>3. ASSUME NEW q \in Calls, Arrives(q) \/ Proceeds(q), UNCHANGED schedulerVars
      PROVE  InOrderNext(callId'[r], Len(reply'[r]))
  <2>1. CASE r # q
    <3>1. At(r, "waiting") /\ callId'[r] = callId[r] /\ reply'[r] = reply[r]
      BY <1>1, <1>3, <2>1, HandlerEffect DEF At
    <3>2. PICK i \in TaskIds : i = callId[r]
      BY <3>1, WaitingCall
    <3>3. InOrder(i, Len(reply[r])) /\ callId[r] # NoTask
      BY <3>1, <3>2, WaitingCall
    <3>4. i # callId[q]
      BY <1>1, <2>1, <3>2, <3>3 DEF ServingInv, OwnIds
    <3> QED  BY <1>3, <3>1, <3>2, <3>3, <3>4, OthersKeepInOrder
  <2>2. CASE r = q
    <3>1. \/ PostTask(q) \/ RecvPartial(q)
      BY <1>1, <1>3, <2>2 DEF ServingInv, TypeOK, HandlersTypeOK, At, Goto, Leave, EndsWith,
         Arrives, Proceeds, Reject, GetNewId, AddWaiting, RecvStop, RecvAnswer,
         Timeout, RemoveWaiting
    <3>2. CASE PostTask(q)
      <4>1. /\ pc[r] = "registered" /\ callId'[r] = callId[r] /\ reply'[r] = reply[r]
            /\ UNCHANGED <<results, slots, decoded>>
        BY <1>3, <2>2, <3>2 DEF PostTask, At, schedulerVars
      <4>2. PICK i \in TaskIds : i = callId[r]
        BY <1>1, <4>1 DEF ServingInv, OwnIds
      <4>3. Fresh(i) /\ Untouched(i)
        BY <1>1, <4>1, <4>2, WaitingUntouched DEF GenerationInv, FreshBefore
      <4>4. i # NoTask
        BY MaxTasksAssumption DEF TaskIds, NoTask
      <4>5. Len(reply[r]) = 0
        <5>1. Len(reply[r]) <= 0 /\ Len(reply[r]) \in Nat
          BY <4>2, <4>3, <4>4, IdsOfReplies DEF RepliesInOrder, Fresh
        <5> QED  BY <5>1
      <4> QED  BY <4>1, <4>2, <4>3, <4>5, NothingSent
               DEF InOrderNext, Fresh, Untouched, Runs, Busy
    <3>3. CASE RecvPartial(q)
      <4>1. At(r, "waiting") /\ callId'[r] = callId[r]
        BY <2>2, <3>3 DEF RecvPartial, Receive
      <4>2. PICK i \in TaskIds : i = callId[r]
        BY <4>1, WaitingCall
      <4>3. PICK m \in Nat : m = Len(reply[r])
        BY <4>1, WaitingCall
      <4>4. InOrder(i, m) /\ reply[r] = Text(i, m)
        BY <4>1, <4>2, <4>3, WaitingCall
      <4>5. reply'[r] = Text(i, m + 1) /\ InOrderNext(i, m + 1)
        BY <1>3, <2>2, <3>3, <4>2, <4>3, <4>4, ChunkReceived
      <4>6. m + 1 \in Nat
        OBVIOUS
      <4>7. Len(Text(i, m + 1)) = m + 1
        BY <4>6, TextIs
      <4> QED  BY <4>1, <4>2, <4>5, <4>7
    <3> QED  BY <3>1, <3>2, <3>3
  <2> QED  BY <2>1, <2>2
<1>4. CASE UNCHANGED vars
  <2>1. At(r, "waiting") /\ callId'[r] = callId[r] /\ reply'[r] = reply[r]
        /\ UNCHANGED <<results, slots, decoded>>
    BY <1>4 DEF vars, queueVars, schedulerVars, handlerVars, At
  <2>2. InOrder(callId[r], Len(reply[r]))
    BY <2>1, WaitingCall
  <2> QED  BY <2>1, <2>2, UnmovedRuns, QuietStep
<1> QED  BY <1>2, <1>3, <1>4 DEF Next, HandlerNext

\* NothingFollows after the step
NothingFollowsNext(i) ==
  /\ \A s \in Slots : ~(/\ slots'[s].state = "PROCESSING"
                        /\ slots'[s].id_task = i
                        /\ slots'[s].has_next_token)
  /\ \A k \in DOMAIN tasks' : tasks'[k].type = "COMPLETION" => tasks'[k].id # i
  /\ \A k \in DOMAIN deferred' : deferred'[k].id # i

\* The queue thread does not take up again what got its final result.
LEMMA SchedulerAddsNothing ==
  ASSUME ServingInv, PlacesInv, SchedulerNext, NEW i \in TaskIds, NothingFollows(i)
  PROVE  NothingFollowsNext(i) /\ decoded'[i] = decoded[i]
<1>1. /\ QueueTypeOK /\ tasks \in Seq(Task) /\ deferred \in Seq(Task)
      /\ \A s \in Slots : ~(Runs(s, i) /\ slots[s].has_next_token)
      /\ \A k \in DOMAIN tasks : tasks[k].type = "COMPLETION" => tasks[k].id # i
      /\ \A k \in DOMAIN deferred : deferred[k].id # i
  BY DEF ServingInv, TypeOK, QueueTypeOK, NothingFollows, Generates
<1>2. decoded'[i] = decoded[i]
  BY DecodedGrows DEF NothingFollows
<1>3. ASSUME tasks # << >>, TakeTask
      PROVE  \A k \in DOMAIN tasks' : tasks'[k].type = "COMPLETION" => tasks'[k].id # i
  BY <1>1, <1>3, TakenPlaces
<1>4. ASSUME \A s \in Slots : StillRuns(s, i)
      PROVE  \A s \in Slots : ~(/\ slots'[s].state = "PROCESSING"
                                /\ slots'[s].id_task = i
                                /\ slots'[s].has_next_token)
  BY <1>1, <1>4 DEF StillRuns
<1>5. CASE ProcessCompletion
  <2>1. tasks # << >> /\ TakeTask /\ Head(tasks).type = "COMPLETION"
    BY <1>5 DEF ProcessCompletion, Arrived
  <2>2. Head(tasks) \in Task /\ Head(tasks).id # i
    BY <1>1, <2>1, TakenPlaces
  <2>3. CASE /\ \E s \in Slots : BestSlot(s) /\ LaunchSlotWithTask(s, Head(tasks))
             /\ UNCHANGED deferred
    <3>1. PICK s \in Slots : BestSlot(s) /\ LaunchSlotWithTask(s, Head(tasks))
      BY <2>3
    <3>2. /\ \A q \in Slots \ {s} : slots'[q] = slots[q]
          /\ slots'[s].id_task # i
      BY <2>2, <3>1, LaunchEffect
    <3>3. \A q \in Slots : StillRuns(q, i)
      BY <3>2, UnmovedRuns DEF StillRuns
    <3> QED  BY <1>1, <1>2, <1>3, <1>4, <2>1, <2>3, <3>3 DEF NothingFollowsNext
  <2>4. CASE Defer(Head(tasks)) /\ UNCHANGED <<slots, clock>>
    <3>1. \A k \in DOMAIN deferred' : deferred'[k].id # i
      BY <1>1, <2>2, <2>4, AppendPlaces DEF Defer
    <3> QED  BY <1>2, <1>3, <1>4, <2>1, <2>4, <3>1, UnmovedRuns DEF NothingFollowsNext
  <2> QED  BY <1>5, <2>3, <2>4 DEF ProcessCompletion
<1>6. CASE ProcessCancel
  <2>1. tasks # << >> /\ TakeTask /\ UNCHANGED deferred
    BY <1>6 DEF ProcessCancel, Arrived
  <2> QED  BY <1>1, <1>2, <1>3, <1>4, <1>6, <2>1, CancelEffect, UnmovedRuns
           DEF NothingFollowsNext
<1>7. CASE ProcessOther \/ AnswerQuery
  <2>1. tasks # << >> /\ TakeTask /\ UNCHANGED <<deferred, slots>>
    BY <1>7 DEF ProcessOther, AnswerQuery, Arrived, schedulerVars
  <2> QED  BY <1>1, <1>2, <1>3, <1>4, <2>1, UnmovedRuns DEF NothingFollowsNext
<1>8. CASE UpdateSlots
  <2>1. UNCHANGED <<tasks, deferred>>
    BY <1>8 DEF UpdateSlots
  <2> QED  BY <1>1, <1>2, <1>4, <1>8, <2>1, UpdateEffect, UnmovedRuns DEF NothingFollowsNext
<1>9. ASSUME NEW s \in Slots, DecodeToken(s) \/ EngineFails(s)
      PROVE  NothingFollowsNext(i)
  <2>1. UNCHANGED <<tasks, deferred>>
    BY <1>9 DEF DecodeToken, EngineFails
  <2>2. slots[s].id_task # i
    BY <1>1, <1>9 DEF DecodeToken, EngineFails, Runs, Busy
  <2>3. Continues(s) /\ \A q \in Slots \ {s} : slots'[q] = slots[q]
    BY <1>9, TokenEffect, FailEffect DEF DecodeToken
  <2>4. \A q \in Slots : StillRuns(q, i)
    BY <2>2, <2>3, UnmovedRuns DEF Continues, StillRuns
  <2> QED  BY <1>1, <1>4, <2>1, <2>4 DEF NothingFollowsNext
<1>10. ASSUME NEW j \in TaskIds, PostCancel(j)
       PROVE  NothingFollowsNext(i)
  <2> DEFINE cancel == [type |-> "CANCEL", id |-> j]
  <2>1. /\ cancel \in Task /\ tasks' = Append(tasks, cancel) /\ cancel.type = "CANCEL"
        /\ UNCHANGED <<slots, deferred>>
    BY <1>10 DEF PostCancel, Post, Task, TaskTypes
  <2> HIDE DEF cancel
  <2>2. \A k \in DOMAIN tasks' : tasks'[k].type = "COMPLETION" => tasks'[k].id # i
    BY <1>1, <2>1, AppendPlaces
  <2> QED  BY <1>1, <1>4, <2>1, <2>2, UnmovedRuns DEF NothingFollowsNext
<1> QED  BY <1>2, <1>5, <1>6, <1>7, <1>8, <1>9, <1>10 DEF SchedulerNext,
     ProcessSingleTask

\* Nor does another call post it again.
LEMMA HandlerAddsNothing ==
  ASSUME ServingInv, UNCHANGED schedulerVars,
         NEW q \in Calls, Arrives(q) \/ Proceeds(q),
         NEW i, i # callId[q] \/ UNCHANGED tasks, NothingFollows(i)
  PROVE  NothingFollowsNext(i)
<1>1. /\ tasks \in Seq(Task) /\ UNCHANGED <<slots, deferred>>
      /\ \A s \in Slots : ~(Runs(s, i) /\ slots[s].has_next_token)
      /\ \A k \in DOMAIN tasks : tasks[k].type = "COMPLETION" => tasks[k].id # i
      /\ \A k \in DOMAIN deferred : deferred[k].id # i
  BY HandlerEffect DEF ServingInv, TypeOK, QueueTypeOK, NothingFollows, Generates, schedulerVars
<1>2. \A k \in DOMAIN tasks' : tasks'[k].type = "COMPLETION" => tasks'[k].id # i
  <2>1. CASE UNCHANGED tasks
    BY <1>1, <2>1
  <2>2. CASE PostTask(q) /\ tasks' = Append(tasks, TaskOf(q)) /\ i # callId[q]
    <3>1. callId[q] \in TaskIds
      BY <2>2 DEF PostTask, At, ServingInv, OwnIds
    <3>2. TaskOf(q) \in Task /\ TaskOf(q).id # i
      BY <2>2, <3>1 DEF TaskOf, TaskType, Task, TaskTypes, Calls
    <3> QED  BY <1>1, <2>2, <3>2, AppendPlaces
  <2> QED  BY <2>1, <2>2, HandlerEffect
<1> QED  BY <1>1, <1>2 DEF NothingFollowsNext, Runs, Busy

\* What an answered call has, and where its task is not.
AnswerNext(r) ==
  /\ pc'[r] \in {"leaving", "done"}
  /\ callId'[r] # NoTask
  /\ NothingFollowsNext(callId'[r])
  /\ r \in PredictCalls => reply'[r] \in FinalTexts(callId'[r], decoded'[callId'[r]])
  /\ r \in StreamCalls =>
       /\ usage'[r] = decoded'[callId'[r]]
       /\ FALSE \notin SlotStream => AllButLast(Len(reply'[r]), decoded'[callId'[r]])

\* AnswersWhole after a step, call by call.
LEMMA AnswersNext ==
  ASSUME \A r \in Completions : outcome'[r] = "answered" => AnswerNext(r)
  PROVE  AnswersWhole'
<1>1. ASSUME NEW i, NothingFollowsNext(i)
      PROVE  /\ \A s \in Slots : ~(/\ slots'[s].state = "PROCESSING"
                                   /\ slots'[s].id_task = i
                                   /\ slots'[s].has_next_token)
             /\ \A k \in DOMAIN tasks' : tasks'[k].type = "COMPLETION" => tasks'[k].id # i
             /\ \A k \in DOMAIN deferred' : deferred'[k].id # i
  BY <1>1 DEF NothingFollowsNext
<1> QED  BY <1>1 DEF AnswersWhole, AnswerNext, NothingFollows, Generates, Runs, Busy

\* An answer stays what it was, and nothing is generated after it.
LEMMA AnswersStep ==
  ASSUME ServingInv, PlacesInv, GenerationInv, DeliveryInv, [Next]_vars
  PROVE  AnswersWhole'
<1> USE DEF DeliveryInv
<1> SUFFICES ASSUME NEW r \in Completions, outcome'[r] = "answered"
             PROVE  AnswerNext(r)
  BY AnswersNext
<1>1. r \in Calls /\ callId[r] \in TaskIds \cup {NoTask}
  BY IdsOfReplies
<1>2. outcome[r] = "answered" =>
        /\ pc[r] \in {"leaving", "done"}
        /\ callId[r] \in TaskIds
        /\ callId[r] # NoTask
        /\ NothingFollows(callId[r])
        /\ r \in PredictCalls => reply[r] \in FinalTexts(callId[r], decoded[callId[r]])
        /\ r \in StreamCalls =>
             /\ usage[r] = decoded[callId[r]]
             /\ FALSE \notin SlotStream => AllButLast(Len(reply[r]), decoded[callId[r]])
  BY <1>1 DEF AnswersWhole
<1>3. ASSUME outcome[r] = "answered", UNCHANGED <<callId[r], reply[r], usage[r]>>,
             pc'[r] \in {"leaving", "done"},
             NEW i \in TaskIds, i = callId[r], decoded'[i] = decoded[i], NothingFollowsNext(i)
      PROVE  AnswerNext(r)
  BY <1>2, <1>3 DEF AnswerNext
<1>4. CASE SchedulerNext /\ UNCHANGED handlerVars
  <2>1. outcome[r] = "answered" /\ pc'[r] = pc[r]
        /\ UNCHANGED <<callId[r], reply[r], usage[r]>>
    BY <1>4 DEF handlerVars
  <2>2. PICK i \in TaskIds : i = callId[r]
    BY <1>2, <2>1
  <2>3. decoded'[i] = decoded[i] /\ NothingFollowsNext(i)
    BY <1>2, <1>4, <2>1, <2>2, SchedulerAddsNothing
  <2> QED  BY <1>2, <1>3, <2>1, <2>2, <2>3
<1>5. ASSUME NEW q \in Calls, Arrives(q) \/ Proceeds(q), UNCHANGED schedulerVars
      PROVE  AnswerNext(r)
  <2>1. UNCHANGED decoded
    BY <1>5 DEF schedulerVars
  <2>2. CASE r # q
    <3>1. /\ pc'[r] = pc[r] /\ callId'[r] = callId[r] /\ reply'[r] = reply[r]
          /\ usage'[r] = usage[r] /\ outcome'[r] = outcome[r]
      BY <1>1, <1>5, <2>2, HandlerEffect
    <3>2. PICK i \in TaskIds : i = callId[r]
      BY <1>2, <3>1
    <3>3. i # callId[q]
      BY <1>1, <1>2, <2>2, <3>1, <3>2 DEF ServingInv, OwnIds
    <3>4. NothingFollowsNext(i)
      BY <1>2, <1>5, <3>1, <3>2, <3>3, HandlerAddsNothing
    <3> QED  BY <1>2, <1>3, <2>1, <3>1, <3>2, <3>4
  <2>3. CASE r = q
    <3>1. \/ RemoveWaiting(q) /\ outcome[r] = "answered"
          \/ RecvStop(q) /\ NextResult(callId[q]).kind = "final"
      BY <1>1, <1>2, <1>5, <2>3, CallsAssumption
         DEF ServingInv, TypeOK, HandlersTypeOK, At, Goto, Leave, EndsWith,
         Arrives, Proceeds, Reject, GetNewId, AddWaiting, PostTask, RecvPartial, RecvStop,
         RecvAnswer, Timeout, RemoveWaiting, Receive, Completions
    <3>2. CASE RemoveWaiting(q) /\ outcome[r] = "answered"
      <4>1. /\ UNCHANGED <<callId[r], reply[r], usage[r], tasks>>
            /\ pc'[r] = "done"
        BY <1>1, <2>3, <3>2 DEF RemoveWaiting, Goto, ServingInv, TypeOK, HandlersTypeOK
      <4>2. PICK i \in TaskIds : i = callId[r]
        BY <1>2, <3>2
      <4>3. NothingFollowsNext(i)
        BY <1>2, <1>5, <3>2, <4>1, <4>2, HandlerAddsNothing
      <4> QED  BY <1>3, <2>1, <3>2, <4>1, <4>2, <4>3
    <3>3. CASE RecvStop(q) /\ NextResult(callId[q]).kind = "final"
      <4> DEFINE res == NextResult(callId[r])
      <4>1. At(r, "waiting")
        BY <2>3, <3>3 DEF RecvStop, Receive
      <4>2. PICK i \in TaskIds : i = callId[r] /\ callId[r] # NoTask
        BY <4>1, WaitingCall
      <4>3. /\ res.predicted = decoded[i]
            /\ res.text \in FinalTexts(i, decoded[i])
            /\ FALSE \notin SlotStream => AllButLast(Len(reply[r]), decoded[i])
            /\ \A s \in Slots : ~Generates(s, i)
            /\ results[i] # << >>
        BY <2>3, <3>3, <4>2, FinalReceived
      <4>4. NothingFollows(i)
        BY <4>3 DEF NothingFollows, GenerationInv, FreshBefore, Fresh
      <4>5. /\ UNCHANGED <<callId[r], tasks>>
            /\ pc'[r] = "leaving"
            /\ r \in PredictCalls => reply'[r] = res.text
            /\ r \in StreamCalls => usage'[r] = res.predicted /\ reply'[r] = reply[r]
        BY <1>1, <2>3, <3>3, CallsAssumption DEF RecvStop, FinalText, Leave, Goto,
           ServingInv, TypeOK, HandlersTypeOK
      <4>6. NothingFollowsNext(i)
        BY <1>5, <4>4, <4>5, HandlerAddsNothing
      <4> QED  BY <2>1, <4>2, <4>3, <4>5, <4>6 DEF AnswerNext
    <3> QED  BY <3>1, <3>2, <3>3
  <2> QED  BY <2>2, <2>3
<1>6. CASE UNCHANGED vars
  <2>1. /\ outcome[r] = "answered" /\ pc'[r] = pc[r] /\ UNCHANGED <<slots, tasks, deferred, decoded>>
        /\ UNCHANGED <<callId[r], reply[r], usage[r]>>
    BY <1>6 DEF vars, queueVars, schedulerVars, handlerVars
  <2>2. PICK i \in TaskIds : i = callId[r]
    BY <1>2, <2>1
  <2>3. NothingFollowsNext(i)
    BY <1>2, <2>1, <2>2 DEF NothingFollows, NothingFollowsNext, Generates, Runs, Busy
  <2> QED  BY <1>2, <1>3, <2>1, <2>2, <2>3
<1> QED  BY <1>4, <1>5, <1>6 DEF Next, HandlerNext

\* No call has a reply, and none waits, when the server starts.
LEMMA DeliveryInit == Init => DeliveryInv
<1> SUFFICES ASSUME Init PROVE DeliveryInv
  OBVIOUS
<1>1. \A r \in Completions : /\ pc[r] = "start" /\ callId[r] = NoTask /\ reply[r] = << >>
                             /\ outcome[r] = "none"
  BY DEF Init, HandlersInit, Calls
<1>2. Len(<< >>) = 0 /\ Text(NoTask, 0) = << >>
  BY NoText
<1> QED  BY <1>1, <1>2 DEF DeliveryInv, RepliesInOrder, WaitingInOrder, AnswersWhole, At

\* Every step of the server keeps DeliveryInv.
LEMMA DeliveryStep ==
  ServingInv /\ PlacesInv /\ GenerationInv /\ DeliveryInv /\ [Next]_vars => DeliveryInv'
<1> SUFFICES ASSUME ServingInv, PlacesInv, GenerationInv, DeliveryInv, [Next]_vars
             PROVE  DeliveryInv'
  OBVIOUS
<1> QED  BY RepliesStep, WaitingStep, AnswersStep DEF DeliveryInv

\* What is on its way to the clients is in order and complete, whatever
\* the slots, the cancellations and the timeouts do.
THEOREM DeliveryInvariance == SafetySpec => []DeliveryInv
<1>1. Init => DeliveryInv
  BY DeliveryInit
<1>2. ServingInv /\ PlacesInv /\ GenerationInv /\ DeliveryInv /\ [Next]_vars => DeliveryInv'
  BY DeliveryStep
<1> QED  BY <1>1, <1>2, ServingInvariance, PlacesInvariance, GenerationInvariance, PTL
         DEF SafetySpec

\* "streaming never duplicates tokens": a PredictStream client has a beginning
\* of what was generated for its own task, and nothing else.
THEOREM StreamInOrderHolds == SafetySpec => []StreamInOrder
<1>1. DeliveryInv => StreamInOrder
  BY DEF DeliveryInv, RepliesInOrder, StreamInOrder, Completions
<1> QED  BY <1>1, DeliveryInvariance, PTL

\* Where the slots stream, a stream that ends with its final result has all
\* its tokens but the last, and reports how many there were.  llama.cpp sets
\* slot.params.stream when it makes a slot, and launch_slot_with_task()
\* leaves it alone: of the slots that do not stream this is not true.
THEOREM StreamReplyCompleteHolds ==
  ASSUME FALSE \notin SlotStream
  PROVE  SafetySpec => []StreamReplyComplete
<1>1. ServingInv /\ DeliveryInv => StreamReplyComplete
  <2> SUFFICES ASSUME ServingInv, DeliveryInv, NEW r \in StreamCalls, outcome[r] = "answered"
               PROVE  /\ usage[r] = decoded[callId[r]]
                      /\ Len(reply[r]) \in {usage[r], usage[r] - 1}
    BY DEF StreamReplyComplete
  <2>1. r \in Completions
    BY DEF Completions
  <2> QED  BY <2>1 DEF DeliveryInv, AnswersWhole, AllButLast
<1> QED  BY <1>1, ServingInvariance, DeliveryInvariance, PTL

\* Where the slots do not stream, Predict that ends with its final result
\* returns all the text that was generated for its task and nothing else.
THEOREM BlockingReplyCompleteHolds ==
  ASSUME TRUE \notin SlotStream
  PROVE  SafetySpec => []BlockingReplyComplete
<1>1. DeliveryInv => BlockingReplyComplete
  <2> SUFFICES ASSUME DeliveryInv, NEW r \in PredictCalls, outcome[r] = "answered"
               PROVE  reply[r] = Text(callId[r], decoded[callId[r]])
    BY DEF BlockingReplyComplete
  <2>1. r \in Completions
    BY DEF Completions
  <2> QED  BY <2>1 DEF DeliveryInv, AnswersWhole, FinalTexts
<1> QED  BY <1>1, DeliveryInvariance, PTL

-----------------------------------------------------------------------------
(* The promises of CompletionService *)

\* What the abstract service sees of call q does not change.
Unseen(q) ==
  /\ Produced(callId[q])' = Produced(callId[q])
  /\ reply'[q] = reply[q]
  /\ Status(q)' = Status(q)

\* A step that shows nothing of any completion is a stutter of the service.
LEMMA ServiceStutters ==
  ASSUME \A q \in Completions : Unseen(q)
  PROVE  UNCHANGED Service!vars
  BY DEF Service!vars, Unseen

\* A server that starts is a service that starts.
LEMMA ServiceInit == Init => Service!Init
<1> SUFFICES ASSUME Init PROVE Service!Init
  OBVIOUS
<1>1. \A r \in Completions : pc[r] = "start" /\ callId[r] = NoTask /\ reply[r] = << >>
  BY DEF Init, HandlersInit, Calls
<1> QED  BY <1>1 DEF Service!Init, Produced, Status

\* What a step of one call has to be, so that it is one of the service: its
\* first step,
LEMMA ServiceOpens ==
  ASSUME NEW r \in Completions, \A q \in Completions \ {r} : Unseen(q),
         Produced(callId[r])' = Produced(callId[r]), reply'[r] = reply[r],
         Status(r) = "new", Status(r)' \in {"open", "closed"}
  PROVE  Service!Next
<1>1. Service!Open(r) \/ Service!Refuse(r)
  BY DEF Service!Open, Service!Refuse, Unseen
<1> QED  BY <1>1 DEF Service!Next

\* ... its end, with the whole text or with what was delivered,
LEMMA ServiceCloses ==
  ASSUME NEW r \in Completions, \A q \in Completions \ {r} : Unseen(q),
         Produced(callId[r])' = Produced(callId[r]),
         \/ reply'[r] = reply[r]
         \/ r \in PredictCalls /\ reply'[r] = Produced(callId[r]),
         Status(r) = "open", Status(r)' = "closed"
  PROVE  Service!Next
<1>1. Service!Close(r) \/ Service!Answer(r)
  BY DEF Service!Close, Service!Answer, Unseen
<1> QED  BY <1>1 DEF Service!Next

\* ... the next token delivered,
LEMMA ServiceDelivers ==
  ASSUME NEW r \in Completions, \A q \in Completions \ {r} : Unseen(q),
         Produced(callId[r])' = Produced(callId[r]),
         Len(reply[r]) < Len(Produced(callId[r])),
         reply'[r] = Append(reply[r], Produced(callId[r])[Len(reply[r]) + 1]),
         Status(r) = "open", Status(r)' = "open"
  PROVE  Service!Next
<1>1. Service!Deliver(r)
  BY DEF Service!Deliver, Unseen
<1> QED  BY <1>1 DEF Service!Next

\* ... or a token generated for it.
LEMMA ServiceProduces ==
  ASSUME NEW r \in Completions, \A q \in Completions \ {r} : Unseen(q),
         NEW t \in TaskIds \X (1 .. MaxTokens),
         \A q \in Completions : \A k \in DOMAIN Produced(callId[q]) :
           Produced(callId[q])[k] # t,
         Produced(callId[r])' = Append(Produced(callId[r]), t),
         reply'[r] = reply[r],
         Status(r) # "new", Status(r)' = Status(r)
  PROVE  Service!Next
<1>1. Service!Produce(r)
  BY DEF Service!Produce, Unseen
<1> QED  BY <1>1 DEF Service!Next

\* A token is generated for the call the slot works for.
LEMMA TokenProduced ==
  ASSUME ServingInv, PlacesInv, GenerationInv, DeliveryInv, UNCHANGED handlerVars,
         NEW s \in Slots, DecodeToken(s)
  PROVE  Service!Next
<1>1. /\ Busy(s) /\ slots[s].has_next_token
      /\ decoded \in [TaskIds -> Nat]
      /\ decoded' = [decoded EXCEPT ![slots[s].id_task] = @ + 1]
  BY DEF DecodeToken, Busy, ServingInv, TypeOK, SchedulerTypeOK
<1>2. PICK i \in TaskIds : i = slots[s].id_task
  BY <1>1, OwnerOf
<1>3. PICK r \in Completions : Posted(r) /\ callId[r] = i
  BY <1>1, <1>2, OwnerOf
<1>4. PICK d \in Nat : d = decoded[i]
  BY <1>1
<1>5. d < MaxTokens /\ MaxTokens \in Nat
  BY <1>1, <1>2, <1>4, SchedulerAssumption DEF GenerationInv, CountsAgree
<1> DEFINE t == <<i, d + 1>>
<1>6. t \in TaskIds \X (1 .. MaxTokens)
  BY <1>4, <1>5
<1>7. /\ i # NoTask
      /\ \A q \in Completions : callId[q] = i => q = r
  BY <1>3, PostedIds, MaxTasksAssumption DEF TaskIds, NoTask, Completions, Calls
<1>8. \A q \in Completions : q # r => Unseen(q)
  <2> SUFFICES ASSUME NEW q \in Completions, q # r PROVE Unseen(q)
    OBVIOUS
  <2>1. callId'[q] = callId[q] /\ reply'[q] = reply[q] /\ pc'[q] = pc[q] /\ callId[q] # i
    BY <1>7 DEF handlerVars
  <2>2. callId[q] # NoTask => decoded'[callId[q]] = decoded[callId[q]]
    BY <1>1, <1>2, <2>1, IdsOfReplies DEF DeliveryInv
  <2> QED  BY <2>1, <2>2 DEF Unseen, Produced, Status
<1>9. /\ Produced(callId[r]) = Text(i, d)
      /\ Produced(callId[r])' = Text(i, d + 1)
      /\ Text(i, d) \o <<t>> = Text(i, d + 1)
  BY <1>1, <1>2, <1>3, <1>4, <1>7, OneMoreToken DEF Produced, handlerVars
<1>10. Produced(callId[r])' = Append(Produced(callId[r]), t)
  <2>1. t \in {i} \X Nat
    BY <1>4
  <2>2. Text(i, d) \in Seq({i} \X Nat)
    BY <1>4, TextIs
  <2> HIDE DEF t
  <2>3. Append(Text(i, d), t) = Text(i, d) \o <<t>>
    BY <2>1, <2>2, AppendProperties
  <2> QED  BY <1>9, <2>3
<1>11. \A q \in Completions : \A k \in DOMAIN Produced(callId[q]) :
         Produced(callId[q])[k] # t
  <2> SUFFICES ASSUME NEW q \in Completions, NEW k \in DOMAIN Produced(callId[q])
               PROVE  Produced(callId[q])[k] # t
    OBVIOUS
  <2>1. callId[q] # NoTask
    BY DEF Produced
  <2>2. PICK n \in Nat : n = decoded[callId[q]]
    BY <2>1, IdsOfReplies DEF DeliveryInv
  <2>3. Produced(callId[q]) = Text(callId[q], n)
    BY <2>1, <2>2 DEF Produced
  <2>4. k \in 1 .. n /\ Produced(callId[q])[k] = <<callId[q], k>>
    <3> DEFINE j == callId[q]
               text == Produced(j)
    <3> HIDE DEF j, text
    <3>1. text = Text(j, n) /\ k \in DOMAIN text
      BY <2>3 DEF j, text
    <3>2. k \in 1 .. n /\ text[k] = <<j, k>>
      BY <3>1, TextIs
    <3> QED  BY <3>2 DEF j, text
  <2>5. callId[q] = i => k # d + 1
    BY <1>4, <2>2, <2>4
  <2> QED  BY <2>4, <2>5
<1>12. reply'[r] = reply[r] /\ Status(r) # "new" /\ Status(r)' = Status(r)
  BY <1>3 DEF handlerVars, Status, Posted
<1> HIDE DEF t
<1> QED  BY <1>6, <1>8, <1>10, <1>11, <1>12, ServiceProduces

\* A step of a call is seen only of that call.
LEMMA OthersUnseen ==
  ASSUME ServingInv, UNCHANGED schedulerVars,
         NEW q \in Calls, Arrives(q) \/ Proceeds(q), NEW r \in Completions, r # q
  PROVE  Unseen(r)
<1>1. r \in Calls
  BY DEF Calls
<1>2. pc'[r] = pc[r] /\ callId'[r] = callId[r] /\ reply'[r] = reply[r]
      /\ UNCHANGED decoded
  BY <1>1, HandlerEffect DEF schedulerVars
<1> QED  BY <1>2 DEF Unseen, Produced, Status

\* What a completion does is a step of the service, or not seen there.
LEMMA CallServed ==
  ASSUME PredictCalls = {} \/ TRUE \notin SlotStream,
         ServingInv, GenerationInv, DeliveryInv, UNCHANGED schedulerVars,
         NEW r \in Completions, Arrives(r) \/ Proceeds(r)
  PROVE  Service!Next \/ UNCHANGED Service!vars
<1> USE DEF DeliveryInv, At, Goto, Leave, EndsWith
<1>1. r \in Calls /\ HandlersTypeOK /\ UNCHANGED decoded
  BY DEF Calls, ServingInv, TypeOK, schedulerVars
<1>2. \A q \in Completions \ {r} : Unseen(q)
  BY <1>1, OthersUnseen
<1>3. ASSUME callId'[r] = callId[r]
      PROVE  Produced(callId[r])' = Produced(callId[r])
  BY <1>1, <1>3 DEF Produced
<1>4. ASSUME callId'[r] = callId[r], reply'[r] = reply[r], Status(r)' = Status(r)
      PROVE  UNCHANGED Service!vars
  BY <1>2, <1>3, <1>4, ServiceStutters DEF Unseen
<1>5. CASE Reject(r)
  <2>1. /\ callId'[r] = callId[r] /\ reply'[r] = reply[r]
        /\ Status(r) = "new" /\ Status(r)' = "closed"
    BY <1>1, <1>5 DEF Reject, HandlersTypeOK, Status
  <2> QED  BY <1>2, <1>3, <2>1, ServiceOpens
<1>6. CASE GetNewId(r)
  <2>1. /\ callId[r] = NoTask /\ callId'[r] = nextId /\ nextId \in TaskIds
        /\ reply'[r] = reply[r] /\ Status(r) = "new" /\ Status(r)' = "open"
    BY <1>1, <1>6, MaxTasksAssumption DEF GetNewId, HandlersTypeOK, Status, TaskIds,
       ServingInv, TypeOK, QueueTypeOK, OwnIds
  <2>2. nextId >= nextId
    BY DEF ServingInv, TypeOK, QueueTypeOK
  <2>3. decoded[nextId] = 0 /\ nextId # NoTask
    BY <2>1, <2>2, MaxTasksAssumption DEF GenerationInv, FreshBefore, Fresh, TaskIds, NoTask
  <2>4. Produced(callId[r])' = << >> /\ Produced(callId[r]) = << >>
    BY <1>1, <2>1, <2>3, NoText DEF Produced
  <2> QED  BY <1>2, <2>1, <2>4, ServiceOpens
<1>7. CASE AddWaiting(r) \/ PostTask(r) \/ RemoveWaiting(r)
  <2>1. callId'[r] = callId[r] /\ reply'[r] = reply[r] /\ Status(r)' = Status(r)
    BY <1>1, <1>7 DEF AddWaiting, PostTask, RemoveWaiting, HandlersTypeOK, Status
  <2> QED  BY <1>4, <2>1
<1>8. CASE RecvPartial(r)
  <2>1. At(r, "waiting") /\ callId'[r] = callId[r] /\ pc' = pc
    BY <1>8 DEF RecvPartial, Receive
  <2>2. PICK i \in TaskIds : i = callId[r] /\ callId[r] # NoTask
    BY <2>1, WaitingCall
  <2>3. PICK m \in Nat : m = Len(reply[r])
    BY <2>1, WaitingCall
  <2>4. PICK d \in Nat : d = decoded[i]
    BY DEF ServingInv, TypeOK, SchedulerTypeOK
  <2>5. InOrder(i, m) /\ reply[r] = Text(i, m)
    BY <2>1, <2>2, <2>3, WaitingCall
  <2>6. reply'[r] = Text(i, m + 1) /\ m + 1 <= d
    BY <1>8, <2>2, <2>3, <2>4, <2>5, ChunkReceived
  <2>7. Produced(callId[r]) = Text(i, d)
    BY <2>2, <2>4 DEF Produced
  <2>8. Len(Text(i, d)) = d /\ Text(i, d)[m + 1] = <<i, m + 1>>
    <3>1. m + 1 \in 1 .. d
      BY <2>6
    <3> QED  BY <3>1, TextIs
  <2>9. Append(Text(i, m), <<i, m + 1>>) = Text(i, m + 1)
    <3> DEFINE e == <<i, m + 1>>
    <3>1. e \in {i} \X Nat
      OBVIOUS
    <3>2. Text(i, m) \in Seq({i} \X Nat)
      BY TextIs
    <3>3. Text(i, m) \o <<e>> = Text(i, m + 1)
      BY OneMoreToken
    <3> HIDE DEF e
    <3>4. Append(Text(i, m), e) = Text(i, m) \o <<e>>
      BY <3>1, <3>2, AppendProperties
    <3> QED  BY <3>3, <3>4 DEF e
  <2>10. Len(reply[r]) < Len(Produced(callId[r]))
    <3>1. m < d
      BY <2>6
    <3> QED  BY <2>3, <2>7, <2>8, <3>1
  <2>11. reply'[r] = Append(reply[r], Produced(callId[r])[Len(reply[r]) + 1])
    <3>1. Produced(callId[r])[Len(reply[r]) + 1] = <<i, m + 1>>
      BY <2>3, <2>7, <2>8
    <3> QED  BY <2>5, <2>6, <2>9, <3>1
  <2>12. Status(r) = "open" /\ Status(r)' = "open"
    BY <2>1 DEF Status
  <2> QED  BY <1>2, <1>3, <2>1, <2>10, <2>11, <2>12, ServiceDelivers
<1>9. CASE RecvStop(r)
  <2>1. /\ At(r, "waiting") /\ callId'[r] = callId[r]
        /\ Status(r) = "open" /\ Status(r)' = "closed"
    BY <1>1, <1>9 DEF RecvStop, Receive, HandlersTypeOK, Status
  <2>2. \/ reply'[r] = reply[r]
        \/ r \in PredictCalls /\ reply'[r] = Produced(callId[r])
    <3>1. CASE ~(r \in PredictCalls /\ NextResult(callId[r]).kind = "final")
      BY <1>1, <1>9, <3>1 DEF RecvStop, FinalText, HandlersTypeOK
    <3>2. CASE r \in PredictCalls /\ NextResult(callId[r]).kind = "final"
      <4>1. reply'[r] = NextResult(callId[r]).text
        BY <1>1, <1>9, <3>2 DEF RecvStop, FinalText, HandlersTypeOK
      <4>2. NextResult(callId[r]).text \in FinalTexts(callId[r], decoded[callId[r]])
        BY <1>9, <3>2, FinalReceived
      <4>3. NextResult(callId[r]).text = Text(callId[r], decoded[callId[r]])
        BY <3>2, <4>2 DEF FinalTexts
      <4> QED  BY <2>1, <3>2, <4>1, <4>3, WaitingCall DEF Produced
    <3> QED  BY <3>1, <3>2
  <2> QED  BY <1>2, <1>3, <2>1, <2>2, ServiceCloses
<1>10. CASE Timeout(r)
  <2>1. /\ callId'[r] = callId[r] /\ reply'[r] = reply[r]
        /\ Status(r) = "open" /\ Status(r)' = "closed"
    BY <1>1, <1>10 DEF Timeout, HandlersTypeOK, Status
  <2> QED  BY <1>2, <1>3, <2>1, ServiceCloses
<1>11. ~RecvAnswer(r)
  BY CallsAssumption DEF RecvAnswer, Completions
<1> QED  BY <1>5, <1>6, <1>7, <1>8, <1>9, <1>10, <1>11 DEF Arrives, Proceeds

\* Every step of the server is a step of the service, or a stutter.
LEMMA ServiceStep ==
  ASSUME PredictCalls = {} \/ TRUE \notin SlotStream
  PROVE  ServingInv /\ PlacesInv /\ GenerationInv /\ DeliveryInv /\ [Next]_vars
           => [Service!Next]_(Service!vars)
<1> SUFFICES ASSUME ServingInv, PlacesInv, GenerationInv, DeliveryInv, [Next]_vars
             PROVE  Service!Next \/ UNCHANGED Service!vars
  OBVIOUS
<1>1. ASSUME UNCHANGED <<handlerVars, decoded>>
      PROVE  UNCHANGED Service!vars
  BY <1>1, ServiceStutters DEF handlerVars, Unseen, Produced, Status
<1>2. CASE SchedulerNext /\ UNCHANGED handlerVars
  <2>1. CASE \E s \in Slots : DecodeToken(s)
    BY <1>2, <2>1, TokenProduced
  <2>2. CASE UNCHANGED decoded
    BY <1>1, <1>2, <2>2
  <2> QED  BY <1>2, <2>1, <2>2 DEF SchedulerNext, ProcessSingleTask, ProcessCompletion,
       ProcessCancel, ProcessOther, AnswerQuery, UpdateSlots, EngineFails, PostCancel,
       schedulerVars
<1>3. ASSUME NEW q \in Calls, Arrives(q) \/ Proceeds(q), UNCHANGED schedulerVars
      PROVE  Service!Next \/ UNCHANGED Service!vars
  <2>1. CASE q \in Completions
    BY <1>3, <2>1, CallServed
  <2>2. CASE q \notin Completions
    BY <1>3, <2>2, OthersUnseen, ServiceStutters
  <2> QED  BY <2>1, <2>2
<1>4. CASE UNCHANGED vars
  BY <1>1, <1>4 DEF vars, schedulerVars
<1> QED  BY <1>2, <1>3, <1>4 DEF Next, HandlerNext

\* The handlers, the queues and the slots together give every client the
\* tokens generated for it, each once and in order, and no others.  Predict
\* keeps this promise only if no slot streams: a final result has no text then.
THEOREM KeepsTextPromisesHolds ==
  ASSUME PredictCalls = {} \/ TRUE \notin SlotStream
  PROVE  SafetySpec => KeepsTextPromises
<1>1. Init => Service!Init
  BY ServiceInit
<1>2. ServingInv /\ PlacesInv /\ GenerationInv /\ DeliveryInv /\ [Next]_vars
        => [Service!Next]_(Service!vars)
  BY ServiceStep
<1> QED  BY <1>1, <1>2, ServingInvariance, PlacesInvariance, GenerationInvariance,
         DeliveryInvariance, PTL DEF SafetySpec, KeepsTextPromises, Service!SafetySpec

=============================================================================
