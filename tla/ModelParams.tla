---------------------------- MODULE ModelParams -----------------------------
(***************************************************************************)
(* params_parse of commoncod/proto_mapping.cpp: from the ModelOptions of a *)
(* LoadModel request to gpt_params.  It sets defaults, reads the options   *)
(* "name:value" one after the other and falls back on an environment       *)
(* variable.  At this commit nothing calls it: handle_load_model has six   *)
(* assignments of its own and knows no options.                            *)
(*                                                                         *)
(* n_parallel and cont_batching are followed, the two fields that several  *)
(* places set; an option for any other field is one with another name.     *)
(* What comes after the environment sets neither.                          *)
(*                                                                         *)
(* An operator named X_Fault is a wrong version of X that no action uses.  *)
(***************************************************************************)
EXTENDS Integers, FiniteSetsExt, Sequences

CONSTANTS
  OptionLists,   \* the options of a request: sequences of [name, value]
  Env            \* values of LLAMACPP_PARALLEL; "" if it is not set

ASSUME ParamsAssumption == OptionLists \subseteq Seq([name : STRING, value : STRING])

VARIABLES
  options,       \* the options of the request
  env,           \* the environment
  next,          \* the option that is read next
  params,        \* gpt_params
  place          \* where params_parse stands

vars == <<options, env, next, params, place>>

\* The values std::stoi accepts, of those that occur
Number == [v \in {"-1", "0", "1", "4"} |->
             CASE v = "-1" -> -1 [] v = "0" -> 0 [] v = "1" -> 1 [] v = "4" -> 4]

IsNumber(v) == v \in DOMAIN Number
IsTrue(v)   == v \in {"true", "1", "yes", "on", "enabled"}

\* Fault: the short spelling of n_parallel is forgotten.
ParallelNames_Fault == {"n_parallel"}

ParallelNames == {"parallel", "n_parallel"}
BatchingNames == {"cont_batching", "continuous_batching"}

Params == [n_parallel : Int, cont_batching : BOOLEAN]

Init ==
  /\ options \in OptionLists
  /\ env \in Env
  /\ next = 1
  /\ params = [n_parallel |-> 1, cont_batching |-> TRUE]
  /\ place = "options"

\* More than one slot switches continuous batching on.
WithParallel(p, n) == [n_parallel |-> n, cont_batching |-> n > 1 \/ p.cont_batching]

\* What one option does; a value that means nothing leaves all as it is.
Applied(p, opt) ==
  CASE opt.name \in ParallelNames /\ IsNumber(opt.value)
                                  -> WithParallel(p, Number[opt.value])
    [] opt.name \in BatchingNames -> [p EXCEPT !.cont_batching = IsTrue(opt.value)]
    [] OTHER                      -> p

ReadOption ==
  /\ place = "options"
  /\ next <= Len(options)
  /\ params' = Applied(params, options[next])
  /\ next' = next + 1
  /\ UNCHANGED <<options, env, place>>

\* Fault: more slots from the environment, without continuous batching.
EnvFallback_Fault ==
  /\ place = "options"
  /\ next > Len(options)
  /\ params' = IF params.n_parallel = 1 /\ IsNumber(env)
                 THEN [params EXCEPT !.n_parallel = Number[env]]
                 ELSE params
  /\ place' = "done"
  /\ UNCHANGED <<options, env, next>>

\* LLAMACPP_PARALLEL is read if n_parallel is 1, by default or by an option.
EnvFallback ==
  /\ place = "options"
  /\ next > Len(options)
  /\ params' = IF params.n_parallel = 1 /\ IsNumber(env)
                 THEN WithParallel(params, Number[env])
                 ELSE params
  /\ place' = "done"
  /\ UNCHANGED <<options, env, next>>

Next == ReadOption \/ EnvFallback

Spec == Init /\ [][Next]_vars

-----------------------------------------------------------------------------
(* Properties *)

\* The options that were read and say something about n_parallel
SaysParallel(opt) == opt.name \in {"parallel", "n_parallel"} /\ IsNumber(opt.value)
ParallelOptions   == {k \in 1 .. next - 1 : SaysParallel(options[k])}

\* "Primero establecer defaults, luego overridear con options": the number
\* of slots is what the last option with a number says, in either spelling,
\* whatever comes between; the environment only fills in for 1.
LastParallelWins ==
  LET said == IF ParallelOptions = {} THEN 1 ELSE Number[options[Max(ParallelOptions)].value]
  IN  params.n_parallel = IF place = "options" \/ said # 1 \/ ~IsNumber(env)
                            THEN said
                            ELSE Number[env]

\* More than one slot goes without continuous batching only if an option
\* that comes after those slots were asked for switches it off.
ParallelBatches ==
  params.n_parallel > 1 /\ ~params.cont_batching =>
    \E k \in 1 .. next - 1 :
      /\ options[k].name \in {"cont_batching", "continuous_batching"}
      /\ ParallelOptions # {} /\ Max(ParallelOptions) < k

TypeOK ==
  /\ options \in OptionLists
  /\ env \in Env
  /\ next \in 1 .. Len(options) + 1
  /\ params \in Params
  /\ place \in {"options", "done"}

\* The inductive invariant from which the two follow: which option asked for
\* the slots is known by the number of options that were read.
ParamsInv ==
  /\ TypeOK
  /\ ParallelOptions # {} => Max(ParallelOptions) \in ParallelOptions
  /\ LastParallelWins
  /\ ParallelBatches

=============================================================================
