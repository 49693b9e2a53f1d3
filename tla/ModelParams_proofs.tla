------------------------- MODULE ModelParams_proofs -------------------------
(***************************************************************************)
(* ModelParams for every list of options and every environment: ParamsInv  *)
(* is inductive, and what params_parse says of n_parallel and              *)
(* cont_batching follows from it.                                          *)
(***************************************************************************)
EXTENDS ModelParams, TLAPS

-----------------------------------------------------------------------------
(* Lemmas about the operators *)

\* A number above all of a set is the largest once it is added.
LEMMA MaxOfAdded ==
  ASSUME NEW n \in Int, NEW S \in SUBSET Int, \A k \in S : k < n
  PROVE  Max(S \cup {n}) = n
<1> DEFINE IsMax(x) == x \in S \cup {n} /\ \A y \in S \cup {n} : x >= y
<1>1. IsMax(n)
  OBVIOUS
<1>2. \A x : IsMax(x) => x = n
  OBVIOUS
<1>3. Max(S \cup {n}) = CHOOSE x : IsMax(x)
  BY DEF Max
<1> HIDE DEF IsMax
<1> QED  BY <1>1, <1>2, <1>3

\* What std::stoi accepts is a number.
LEMMA NumberType == \A v : IsNumber(v) => Number[v] \in Int
  BY DEF IsNumber, Number

\* More slots than one bring continuous batching.
LEMMA WithParallelSets ==
  ASSUME NEW p \in Params, NEW n \in Int
  PROVE  LET q == WithParallel(p, n)
         IN  /\ q \in Params
             /\ q.n_parallel = n
             /\ n > 1 => q.cont_batching
<1>1. (n > 1 \/ p.cont_batching) \in BOOLEAN
  BY DEF Params
<1> DEFINE b == n > 1 \/ p.cont_batching
           r == [n_parallel |-> n, cont_batching |-> b]
<1>2. WithParallel(p, n) = r
  BY DEF WithParallel
<1>3. n > 1 => b
  OBVIOUS
<1> HIDE DEF b
<1>4. r \in Params /\ r.n_parallel = n /\ r.cont_batching = b
  BY <1>1 DEF Params, b
<1> QED  BY <1>2, <1>3, <1>4

\* What an option can do to n_parallel and to cont_batching.
LEMMA AppliedSets ==
  ASSUME NEW p \in Params, NEW opt
  PROVE  LET q == Applied(p, opt)
         IN  /\ q \in Params
             /\ SaysParallel(opt) => /\ q.n_parallel = Number[opt.value]
                                     /\ q.n_parallel > 1 => q.cont_batching
             /\ ~SaysParallel(opt) => q.n_parallel = p.n_parallel
             /\ ~SaysParallel(opt) /\ opt.name \notin BatchingNames => q = p
<1>1. CASE SaysParallel(opt)
  <2>1. Number[opt.value] \in Int
    BY <1>1, NumberType DEF SaysParallel
  <2>2. Applied(p, opt) = WithParallel(p, Number[opt.value])
    BY <1>1 DEF SaysParallel, Applied, ParallelNames, BatchingNames
  <2> QED  BY <1>1, <2>1, <2>2, WithParallelSets
<1>2. CASE ~SaysParallel(opt) /\ opt.name \in BatchingNames
  <2>1. Applied(p, opt) = [p EXCEPT !.cont_batching = IsTrue(opt.value)]
    BY <1>2 DEF SaysParallel, Applied, ParallelNames, BatchingNames
  <2>2. IsTrue(opt.value) \in BOOLEAN
    BY DEF IsTrue
  <2> QED  BY <1>2, <2>1, <2>2 DEF Params
<1>3. CASE ~SaysParallel(opt) /\ opt.name \notin BatchingNames
  <2>1. Applied(p, opt) = p
    BY <1>3 DEF SaysParallel, Applied, ParallelNames
  <2> QED  BY <1>3, <2>1
<1> QED  BY <1>1, <1>2, <1>3

-----------------------------------------------------------------------------
(* Initial states *)

\* Before the loop no option is read: the two fields have their defaults.
LEMMA ParamsInit == Init => ParamsInv
<1> SUFFICES ASSUME Init PROVE ParamsInv
  OBVIOUS
<1>1. TypeOK
  <2>1. options \in Seq([name : STRING, value : STRING])
    BY ParamsAssumption DEF Init
  <2> QED  BY <2>1 DEF Init, TypeOK, Params
<1>2. ParallelOptions = {}
  BY DEF Init, ParallelOptions
<1>3. LastParallelWins /\ ParallelBatches
  BY <1>2 DEF Init, LastParallelWins, ParallelBatches
<1> QED  BY <1>1, <1>2, <1>3 DEF ParamsInv

-----------------------------------------------------------------------------
(* Steps *)

\* An option that is read adds its place to ParallelOptions, or does not.
LEMMA ParallelGrows ==
  ASSUME TypeOK, ReadOption
  PROVE  /\ ParallelOptions \in SUBSET Int
         /\ \A k \in ParallelOptions : k < next
         /\ ParallelOptions' = IF SaysParallel(options[next])
                                 THEN ParallelOptions \cup {next}
                                 ELSE ParallelOptions
<1>1. next \in Nat \ {0} /\ next' = next + 1 /\ options' = options
  BY DEF TypeOK, ReadOption
<1>2. 1 .. next' - 1 = (1 .. next - 1) \cup {next}
  BY <1>1
<1> QED  BY <1>1, <1>2 DEF ParallelOptions, SaysParallel

\* Reading an option keeps ParamsInv: the last option that says something
\* about n_parallel is the one just read, or is still the one it was.
LEMMA ReadOptionKeeps == ParamsInv /\ ReadOption => ParamsInv'
<1> SUFFICES ASSUME ParamsInv, ReadOption PROVE ParamsInv'
  OBVIOUS
<1> DEFINE opt  == options[next]
           P    == ParallelOptions
           last == Max(P)
<1>1. TypeOK /\ LastParallelWins /\ ParallelBatches /\ (P # {} => last \in P)
  BY DEF ParamsInv
<1>2. /\ next \in Nat \ {0} /\ next' = next + 1 /\ next <= Len(options)
      /\ UNCHANGED <<options, env, place>> /\ place = "options"
      /\ Len(options) \in Nat
  BY <1>1, ParamsAssumption DEF TypeOK, ReadOption
<1>3. /\ P \in SUBSET Int
      /\ \A k \in P : k < next
      /\ P' = IF SaysParallel(opt) THEN P \cup {next} ELSE P
  BY <1>1, ParallelGrows
<1>4. /\ params' \in Params
      /\ SaysParallel(opt) => /\ params'.n_parallel = Number[opt.value]
                              /\ params'.n_parallel > 1 => params'.cont_batching
      /\ ~SaysParallel(opt) => params'.n_parallel = params.n_parallel
      /\ ~SaysParallel(opt) /\ opt.name \notin BatchingNames => params' = params
  BY <1>1, AppliedSets DEF TypeOK, ReadOption
<1>5. TypeOK'
  BY <1>1, <1>2, <1>4 DEF TypeOK
<1>6. params.n_parallel = IF P = {} THEN 1 ELSE Number[options[last].value]
  BY <1>1, <1>2 DEF LastParallelWins
<1>7. CASE SaysParallel(opt)
  <2>1. P' = P \cup {next}
    BY <1>3, <1>7
  <2>2. Max(P') = next
    <3>1. next \in Int
      BY <1>2
    <3> HIDE DEF P
    <3> QED  BY <1>3, <2>1, <3>1, MaxOfAdded
  <2>3. LastParallelWins'
    BY <1>2, <1>4, <1>7, <2>1, <2>2 DEF LastParallelWins
  <2>4. ParallelBatches'
    BY <1>4, <1>7 DEF ParallelBatches
  <2> QED  BY <1>5, <2>1, <2>2, <2>3, <2>4 DEF ParamsInv
<1>8. CASE ~SaysParallel(opt)
  <2>1. P' = P /\ params'.n_parallel = params.n_parallel
    BY <1>3, <1>4, <1>8
  <2>2. LastParallelWins'
    BY <1>2, <1>6, <2>1 DEF LastParallelWins
  <2>3. ParallelBatches'
    <3> SUFFICES ASSUME params.n_parallel > 1, ~params'.cont_batching
                 PROVE  \E k \in 1 .. next :
                          /\ options[k].name \in BatchingNames
                          /\ P # {} /\ last < k
      BY <1>2, <2>1 DEF ParallelBatches, BatchingNames
    <3>1. P # {}
      BY <1>6
    <3>2. CASE opt.name \in BatchingNames
      <4>1. last < next
        BY <1>1, <1>3, <3>1
      <4> QED  BY <1>2, <3>1, <3>2, <4>1
    <3>3. CASE opt.name \notin BatchingNames
      <4>1. ~params.cont_batching
        BY <1>4, <1>8, <3>3
      <4>2. PICK k \in 1 .. next - 1 :
              options[k].name \in BatchingNames /\ P # {} /\ last < k
        BY <1>1, <4>1 DEF ParallelBatches, BatchingNames
      <4> QED  BY <1>2, <4>2
    <3> QED  BY <3>2, <3>3
  <2> QED  BY <1>1, <1>5, <2>1, <2>2, <2>3 DEF ParamsInv
<1> QED  BY <1>7, <1>8

\* What comes after the options reads none of them.
LEMMA SameOptions ==
  ASSUME UNCHANGED <<options, next>>
  PROVE  ParallelOptions' = ParallelOptions
  BY DEF ParallelOptions

\* The environment speaks only where n_parallel is 1 still.
LEMMA EnvFallbackKeeps == ParamsInv /\ EnvFallback => ParamsInv'
<1> SUFFICES ASSUME ParamsInv, EnvFallback PROVE ParamsInv'
  OBVIOUS
<1>1. TypeOK /\ LastParallelWins /\ ParallelBatches
  BY DEF ParamsInv
<1>2. /\ UNCHANGED <<options, env, next>> /\ place = "options" /\ place' = "done"
      /\ ParallelOptions' = ParallelOptions
  BY SameOptions DEF EnvFallback
<1>3. CASE params.n_parallel = 1 /\ IsNumber(env)
  <2>1. params' = WithParallel(params, Number[env]) /\ Number[env] \in Int
    BY <1>3, NumberType DEF EnvFallback
  <2>2. /\ params' \in Params
        /\ params'.n_parallel = Number[env]
        /\ params'.n_parallel > 1 => params'.cont_batching
    BY <1>1, <2>1, WithParallelSets DEF TypeOK
  <2>3. TypeOK'
    BY <1>1, <1>2, <2>2 DEF TypeOK
  <2>4. LastParallelWins'
    BY <1>1, <1>2, <1>3, <2>2 DEF LastParallelWins
  <2>5. ParallelBatches'
    BY <2>2 DEF ParallelBatches
  <2> QED  BY <1>2, <2>3, <2>4, <2>5 DEF ParamsInv
<1>4. CASE ~(params.n_parallel = 1 /\ IsNumber(env))
  <2>1. params' = params
    BY <1>4 DEF EnvFallback
  <2>2. TypeOK'
    BY <1>1, <1>2, <2>1 DEF TypeOK
  <2>3. LastParallelWins'
    BY <1>1, <1>2, <1>4, <2>1 DEF LastParallelWins
  <2>4. ParallelBatches'
    BY <1>1, <1>2, <2>1 DEF ParallelBatches
  <2> QED  BY <1>2, <2>2, <2>3, <2>4 DEF ParamsInv
<1> QED  BY <1>3, <1>4

\* Every step of params_parse keeps ParamsInv.
LEMMA ParamsStep == ParamsInv /\ [Next]_vars => ParamsInv'
<1> SUFFICES ASSUME ParamsInv, UNCHANGED vars PROVE ParamsInv'
  BY ReadOptionKeeps, EnvFallbackKeeps DEF Next
<1> QED  BY SameOptions DEF vars, ParamsInv, TypeOK, LastParallelWins, ParallelBatches

-----------------------------------------------------------------------------
(* What params_parse promises, for every list of options *)

\* ParamsInv holds in every reachable state.
THEOREM ParamsInvariance == Spec => []ParamsInv
<1> QED  BY ParamsInit, ParamsStep, PTL DEF Spec

\* The last number that is given for parallel wins, in either spelling and
\* whatever comes between; the environment only fills in for 1.
THEOREM LastParallelWinsHolds == Spec => []LastParallelWins
<1>1. ParamsInv => LastParallelWins
  BY DEF ParamsInv
<1> QED  BY <1>1, ParamsInvariance, PTL

\* More than one slot goes without continuous batching only if a later option
\* says so.
THEOREM ParallelBatchesHolds == Spec => []ParallelBatches
<1>1. ParamsInv => ParallelBatches
  BY DEF ParamsInv
<1> QED  BY <1>1, ParamsInvariance, PTL

=============================================================================
