# Formal models of cuyex-ik-llama-cpp

The repository is a gRPC backend for LocalAI: a process that loads one model
into a `server_context` of llama.cpp (ik_llama.cpp fork) and serves inference
calls. This directory holds TLA+ modules that model its concurrent core, the
TLC configurations that check them, and TLAPS proofs about them.

## 1. The system

| Part | State it keeps | Operations | Talks to |
|---|---|---|---|
| `main.cpp` | `loaded_model` (atomic), `model_mutex`, `model_cv`, the global `ctx_server` | start the queue thread, build the server, `Wait`, stop | queue thread through the condition variable; `queue_tasks.terminate()` |
| queue thread (`main.cpp` 61-67) | where it stands | wait for `loaded_model`, then `start_loop()` | callbacks 92-105: `process_single_task`, `update_slots`, `on_finish_multitask` |
| `grpccod/service.cpp` | none | one RPC method per handler, `Status`, `Health` | calls the handler, always returns OK |
| `grpccod/model.cpp` | none of its own | `LoadModel`, `TokenizeString`, `GetMetrics`, `ModelMetadata` | `ctx_server`, the gate (`loaded_model`), both queues |
| `grpccod/predict.cpp` | `full_content` of a call | `PredictStream`, `Predict`, prompt preparation, tool call parsing | both queues |
| `grpccod/embedding.cpp` | none | `Embedding` | both queues |
| `server/update_slots.cpp` | the slots of `ctx_server` | take tasks, launch slots, release them, send results | both queues |
| `ctx.queue_tasks`, `ctx.queue_results` (llama.cpp) | pending tasks, deferred tasks, next id; waiting ids, results | post, defer, take; send, receive with or without time-out | every thread |
| `commoncod/` | none | request to JSON, `params_parse`, string helpers | pure functions |
| scripts, Makefile, CMake | files | build, package, choose a binary | run by hand |

How they interact: each RPC runs in a gRPC thread. An inference handler takes
an id, registers it with `queue_results`, posts a task to `queue_tasks` and
then blocks on `queue_results`. The one queue thread takes tasks, gives them to
slots and sends results. LoadModel, the queue thread and the main thread meet
at the condition variable of `main.cpp`.

What is hard here, and what makes each part correct:

- *Calls against the queue thread.* A handler must not wait for something that
  is no longer under way (`handle_embedding` would hang for ever), whatever the
  order of registration, posting, sending and time-outs. (`NoStrandedCaller`,
  `EveryCallReturns`, `EmbeddingReturns`)
- *Calls that gave up.* Nothing cancels their task: its slot must stay within
  reach of the engine or of `update_slots()`, and what it still generates must
  not pile up. (`NoStuckSlot`, `AbandonedIdsStayQuiet`)
- *Before there is a model.* Handlers do not look at `loaded_model`, and tasks
  can be posted before there is a loop to take them. (`CallsHaveModel`,
  `BacklogServed`)
- *Slots used again and again.* The text of a call must be its own, in order,
  without repetition or gap. (`StreamInOrder`, `StreamReplyComplete`,
  `BlockingReplyComplete`, `KeepsPromises`)
- *Tasks move* between the queue, the deferred list and a slot; they must not
  be duplicated or lost. (`OneHolder`, `DeferredTaskRuns`)
- *Release in two passes*: `update_slots()` sends results in both.
  (`OneFinalResponse`)
- *Start and stop*: a lost wake-up, a loop that starts too early, a stop that
  cannot complete. (`NoLostWakeup`, `LoopAfterLoad`, `LoopStarts`,
  `LoopingStops`)
- *From request to prompt*: the prompt comes from the client or from a template,
  and the markers must fit the images although another model may be loaded
  meanwhile. (`ImagesMarked`, `TextModelUntouched`, `EarlierTurnsUntouched`,
  `NullOnlyAfterReload`) Tools and reasoning options pass through two conversions,
  each of which may drop a part. (`TemplateSeesRequest`, `ReasoningAgrees`)
- *Model options* are applied in the order of the client and undo each other.
  (`LastParallelWins`, `ParallelBatches`)
- *Reloads*: `Status` and the exclusion of loads. (`SuccessIsReady`,
  `BusyWhileLoading`, `LoadsExclude`)

The hazards, each at its line, are listed in `PROJECT.json`.

## 2. Modules

| Module | Models | Variables |
|---|---|---|
| `ServerQueues` | the two queues of llama.cpp, as `src/` uses them | `tasks`, `deferred`, `nextId`, `waitingIds`, `results` |
| `SlotScheduler` | `server/update_slots.cpp`, run by the queue thread | `slots`, `clock`, `cancels`, `decoded` (history) |
| `CallHandlers` | `predict.cpp`, `embedding.cpp`, `handle_get_metrics` | `pc`, `callId`, `reply`, `usage`, `outcome` (history) |
| `Serving` | both over the shared queues; the properties | all of the above |
| `CompletionService` | the promise of Predict and PredictStream (abstract) | `produced`, `delivered`, `status` |
| `ModelGate` | `main.cpp`, `handle_load_model`, `Status` | `loaded`, `mutex`, `running`, `queue`, `load`, `main` |
| `Backend` | the whole process: `Serving` behind `ModelGate` | those of both, `context` (history) |
| `ChatRequest` | from a request to the prompt of its task: `parse_options`, markers, template, tokenizing; how the reply is parsed | `request`, `model`, `reloads`, `place`, `data`, `has_mctx`, `templated`, `inputs`, `files`, `outcome`, `parsedAs` |
| `ModelParams` | `params_parse`: the number of slots and continuous batching | `options`, `env`, `next`, `params`, `place` |
| `MCServing`, `MCModelGate`, `MCBackend`, `MCChatRequest`, `MCModelParams` | the sets TLC works on | |
| `ServingInvariants` | the inductive invariants of `Serving`: where a task is, what was generated, what is on its way | those of `Serving` |
| `Serving_proofs`, `Places_proofs`, `Delivery_proofs` | theorems about `Serving`, each module on the one before | |
| `ModelGate_proofs`, `Backend_proofs` | theorems about the gate and the whole process | |
| `ChatRequest_proofs`, `ModelParams_proofs` | theorems about one request and about the model options | |
| `TextLemmas` | induction over sets of numbers; what `FlattenSeq` does; how often something occurs in a text | |

`Serving` extends `SlotScheduler` and `CallHandlers`, which both extend
`ServerQueues`. `Backend` extends `Serving` and takes `ModelGate` as an
instance over variables of its own. Operators called `X_Fault` are wrong versions of `X`. No action
uses them: each is put in the place of `X` to see that a property notices, and
`PROJECT.json` lists them under `mutants`.

### State and actions against the code

*CallHandlers.* A call is one element of `StreamCalls`, `PredictCalls`,
`EmbeddingCalls` or `MetricsCalls` and runs once. Its steps are the operations
other threads can come between:

| `pc` | Action | Code |
|---|---|---|
| `start` | `Reject` | the early returns on an empty prompt or no tokens; an exception out of `data["prompt"].get` |
| `start` | `GetNewId` | `get_new_id()` |
| `named` | `AddWaiting` | `add_waiting_task_id` |
| `registered` | `PostTask` | `post(std::move(task))` |
| `waiting` | `RecvPartial` | a chunk: written to the client, or added to `full_content` |
| `waiting` | `RecvStop` | a stop result: last chunk, or `full_content` replaced; an error ends the loop and leaves the text |
| `waiting` | `RecvAnswer` | `recv` in Embedding, `recv_with_timeout` in GetMetrics |
| `waiting` | `Timeout` | `recv_with_timeout` returns null (1 s, 30 s, 5 s); Embedding has none |
| `leaving` | `RemoveWaiting` | `remove_waiting_task_id` |

Text is abstracted to tokens `<<id, k>>`: token number `k` generated for task
`id`, which is what the properties must tell apart. The moment a time-out fires
is free: a time-out may come although a result has just been queued.

*SlotScheduler.* `ProcessCompletion`, `ProcessCancel` and `ProcessOther` are the
cases of `process_single_task`, the last one its default branch, which drops the
task; `AnswerQuery` is external (see below). `UpdateSlots` is one pass of
`update_slots()` over all slots. `DecodeToken` is the engine generating a token:
it calls `process_token` (`ProcessToken`, which sends nothing) and then sends the
token of a streaming slot (`SendToken`, external). The early returns of `update_slots()` (no slots, all idle)
change nothing and are stuttering steps.

*ChatRequest.* One call is followed from its request to the moment its task has
tokens. Every step reads the model in `ctx_server` at most once, because
LoadModel may replace it at any moment (`Reload`). Text is a sequence of pieces,
of which only the image markers and the turns of the template are told apart.
`has_mctx` is read once and used twice, for the markers and for the way to
tokenize; that is what keeps the two consistent under a reload
(`ImagesMarked`). The pointers behind it, `ctx.mctx` and
`ctx.chat_params.tmpls`, are read again after they were tested; one that is null
by then ends in the outcome `"crash"`, and `NullOnlyAfterReload` shows that only
a load in between can make it so. `CallHandlers` sees all of this as `Reject` or `GetNewId`.
The tools, the choice among them and the reasoning options travel from the
request to `data` and from there to the inputs of the template; `ParseReply` is
what `handle_predict` does with the text it has collected.

*Backend.* One queue thread appears in both components: in `ModelGate` it goes
from the condition variable to `start_loop()`, in `Serving` it is what runs
inside. `InLoop` allows the steps of the second only at the place `"looping"` of
the first. Handlers run in threads of gRPC and are not held up by the gate.
The clients are assumed to ask for inference only after Status has said READY
(`Invited`), because a handler that runs earlier uses a null model, which is
undefined behaviour: `CallsHaveModel` then shows that the flag behind READY can be
relied on. The history variable `context` tells a context that is empty from
one that `load_model()` has filled and one that `init()` has prepared (`hasModel`),
so that a load whose failure is ignored and an `init()` that is left out both
show. GetMetrics touches no model and may be called at any time. A client
tries LoadModel until one attempt succeeds, one attempt at a time; loads that
overlap or follow a success are in `ModelGate` (findings 4 and 5).

*ModelParams.* Of the fields of `gpt_params`, `n_parallel` and `cont_batching` are
followed: each is set in several places, and setting the first may set the second.
`ReadOption` is one pass of the loop over the options, in which an option for any
other field is one with another name; `EnvFallback` is what follows the loop.
`Number` is `std::stoi` on the values that occur.

### What is external, and how it is read

- `server_slot::available`, `reset`, `release` and `add_token_string` are
  llama.cpp. `release()` is modelled as a request: `update_slots()` acts on
  `SLOT_COMMAND_RELEASE`, no code under `src/` sets it, and `release()` is what
  the two places that want a slot released call.
- The two-argument `send_final_response` and the free `process_single_task` of
  `update_slots.cpp` share their names with members of `server_context`;
  `update_slots()` and `main.cpp` call the members, whose bodies are not in the
  repository. The models take the definitions written here as what the name
  means, and add one possibility: the `process_single_task` of
  `update_slots.cpp` drops METRICS and EMBEDDING tasks (`ProcessOther`), while
  the handlers count on an answer, which the method of llama.cpp may give
  (`AnswerQuery`). The constant `QueryTypes` holds the types that are answered.
  It is empty in the runs of `Serving`, among them `embedding_reply` (finding 3).
  `backend` has `{"EMBEDDING"}`: the Embedding call is answered, and the METRICS
  task is dropped while its caller times out. The theorems hold for every value,
  and promise a result only to callers whose type is answered (`Served`).
- Nothing under `src/` calls `process_token` or `send_partial_response`. The
  comment at `update_slots.cpp` 85 leaves the sending to "update_slots o quien
  llame a process_token", and `update_slots()` does not do it. The models let
  the external decoder do both, as that comment asks.
- `CMakeLists.txt` 164-166 compiles `server-context.cpp` of llama.cpp and
  `update_slots.cpp`, which define the same members of `server_context`; the
  models follow the repository's.
- `slot.params.stream` at construction is a constant set, `SlotStream`, because
  no code under `src/` ever assigns it.
- `queue_results.send` drops a result nobody is registered for, and
  `remove_waiting_task_id` does not purge results that are queued.
- `common_chat_templates_apply` renders every message in order, or throws.
  `process_mtmd_prompt` throws when markers and files differ in number, and
  with a null context its behaviour is undefined (outcome `"crash"`).
- No code under `src/` posts a CANCEL task; `PostCancel` stands for another user
  of the queue and lets the CANCEL case be exercised.

## 3. What the runs check

| Run | Checks | Instance |
|---|---|---|
| `serving` | `ServingInv`, `OneHolder`, `PlacesInv`, `AbandonedIdsStayQuiet` | 3 streams (interchangeable), 2 slots, 1 token, 1 cancel |
| `stream_promises` | `StreamInOrder`, `StreamReplyComplete`, `GenerationInv`, `DeliveryInv`, `KeepsPromises` (refinement of `CompletionService`, its liveness included) | 2 streams, 1 slot, 3 tokens, 1 cancel |
| `blocking_promises` | `BlockingReplyComplete`, `DeliveryInv`, `NoStuckSlot`, `KeepsPromises` | 2 Predicts, 1 slot, 2 tokens, 1 cancel |
| `backend` | `BackendInv`, `CallsHaveModel`, `NoStrandedCaller`, `EveryCallReturns`, `BacklogServed` | 2 load attempts, stream, Embedding (answered), GetMetrics (dropped), 1 slot, 1 token |
| `gate` | `GateInv`, `NoLostWakeup`, `LoopAfterLoad`, `SuccessIsReady`, `LoopStarts`, `LoopingStops` | 3 loads, stop allowed |
| `chat_request` | `ImagesMarked`, `TextModelUntouched`, `EarlierTurnsUntouched`, `NullOnlyAfterReload`, `TemplateSeesRequest`, `ReasoningAgrees`, `ChatInv` | all requests of up to 2 messages, 3 texts, 6 lists of images, 18 combinations of tools, choice and reasoning; 4 models, 1 reload |
| `model_params` | `LastParallelWins`, `ParallelBatches`, `ParamsInv` | all lists of up to 4 of 6 options, 4 environments |

What the passing runs do not show: `StreamReplyComplete` and `DeliveryInv` allow the
token that ended a generation to be missing from a stream, since nothing sends
it; `AbandonedIdsStayQuiet` is about results sent after a call has left, and those
already queued then do stay, because `remove_waiting_task_id` does not purge them;
`TemplateSeesRequest` allows a `tool_choice` that is kept although the tools were
dropped; `BacklogServed` says that a task is taken, which a deferred one was.

Five more runs look for a counterexample to something the repository says, and
find it; the five findings below describe them.

Bounds. `MaxTasks` is the number of calls, so no call is ever kept from its id.
In `serving` the third stream meets two busy slots and is deferred, or uses a slot
again after another call: the least that lets a task be in the queue, set aside and
in a slot while a second slot is free for a duplicate. One token is enough there,
since where a task is does not depend on its length. `MaxTokens` is 3 where chunks
matter: two chunks are the least that can be swapped, repeated or skipped, and the
third token is the one that ends the generation and is not sent. Two calls on one
slot give the rivalry over its counters: one is deferred, or gets the slot after the
other, or times out while its task is still queued. One cancellation can hit a
queued, a running, a finished or an already answered task. In `backend` one token
per completion is enough, since only the end of the call matters, and two attempts
give a failed load before one that succeeds. In `model_params` four options are
enough for one that is set, one that undoes it and two in between. In
`chat_request` two messages give a user message before, after or without another
one, and two images of three kinds all the ways to prepare them; one reload between
any two steps is enough to part a test from its use. Deadlock is not checked
(`CHECK_DEADLOCK FALSE`) because the system may stop: the calls of an instance come
to an end, and a backend with no client does nothing.

Fairness (`Serving!Fairness`): a handler that has taken an id keeps running, and its
timed waits end by themselves; `start_loop()` goes on taking tasks
(`ProcessSingleTask`). There is none for `UpdateSlots`, `DecodeToken` and
`EngineFails`: nothing under `src/` asks the queue for another pass of
`update_slots()` or makes the engine go on, so no property counts on it. What the
code does decide is whether a busy slot is in a state those two look at, and that
is `NoStuckSlot`. The liveness of `KeepsPromises` and `EveryCallReturns` therefore
rests on the time-outs of the handlers, and for Embedding, which has none, on the
answer to its task. `Backend!BackendFairness` is the same inside the loop, with that
of `ModelGate`. A client need not call: `Arrives` has no fairness. In `ModelGate`
threads run and loads end; taking `model_mutex` in LoadModel is strongly fair,
since only endless spurious wake-ups of the queue thread could keep it out; no
fairness makes a client load a model, a spurious wake-up happen, or `Wait()`
return.

## 4. Findings

1. **Two final responses** (`two_finals`, `OneFinalResponse`).
   `update_slots.cpp` 49-57 asks for the release of a finished slot and sends
   its final response; the next pass runs 34-46 and sends it again.
2. **Deferred tasks stay deferred** (`deferred_task`, `DeferredTaskRuns`).
   A slot is made idle without telling the queue; nothing under `src/` takes a
   deferred task back.
3. **Embedding is never answered** (`embedding_reply`, `EmbeddingReturns`).
   The default branch of `process_single_task` in `update_slots.cpp` (158-160) drops
   the task, and `handle_embedding` waits for it in `recv()` without a time-out,
   while `README.md` 59 promises "Full support". It depends on which
   `process_single_task` the callback of `main.cpp` reaches (section 2, external).
4. **READY while loading** (`gate_reload`, `BusyWhileLoading`). A second
   LoadModel does not clear `loaded_model`.
5. **Loads do not exclude each other** (`gate_two_loads`, `LoadsExclude`).
   `model_mutex` covers the flag only.

Not a run, but visible in the code: `launch_slot_with_task` (180-192) keeps the task
in `slot.task` and never copies its `params`, so the `stream` flag that the handlers
set (`predict.cpp` 356 and 497) has no effect: a slot streams, or not, as it was
built. That is why `SlotStream` is a constant, and why three theorems in section 5
have a condition.

Not a finding, but visible in `ModelGate`: if `Wait()` returned before any load,
the program would hang in `join()`, since the wait of the queue thread has no
way out but a loaded model. Nothing under `src/` makes `Wait()` return, so
`LoopingStops` promises an end only when the thread serves tasks.

`ChatRequest` shows two more: a client that sends messages with
`usetokenizertemplate` off still gets the template's prompt if the model has
one, and a reload may leave `ctx.mctx` null after `has_mctx` was read. Tools that
cannot be parsed are dropped while their `tool_choice` stays, so that the template
may be told that a tool is required and given none. Reading the code for it also
showed that the chat format and the grammar in `chat_params_result` are not kept:
the reply is always parsed as `COMMON_CHAT_FORMAT_CONTENT_ONLY`.

`ModelParams` models code without a caller: `handle_load_model` makes six
assignments of its own, so no option of a LoadModel request has any effect, and
a model loaded for reranking only is not loaded as an embedding model. In
`params_parse` itself an explicit `parallel:1` cannot be told from the default
and is replaced by `LLAMACPP_PARALLEL`.

## 5. What is proved

All theorems hold for every value of the constants that meets the named
assumptions (`MaxTasksAssumption`, `SchedulerAssumption`, `CallsAssumption`,
`GateAssumption`, `BackendAssumption`, `ChatAssumption`, `ParamsAssumption`): any
number of calls, slots, tokens, cancellations and loads, requests with any number
of messages, images and reloads, option lists of any length and content. Every
inductive invariant is also an invariant of a run, so that TLC has looked at it
before it was proved.

### Calls, queues and slots

| Invariant | Says | Needed because | Theorems |
|---|---|---|---|
| `ServingInv` | types; ids are not shared; what a call waits for is under way | "some result is queued" is lost when the caller takes a chunk | `ServingInvariance`, `NoStrandedCallerHolds` |
| `PlacesInv` | a task was posted by a call and is in one place; an id given back is not registered | that a task is in one place is lost by a task that is put aside, unless its id is known to be nowhere else | `PlacesInvariance`, `OneHolderHolds`, `AbandonedIdsStayQuietHolds` |
| `GenerationInv` | nothing is generated before a slot has the task; the counter of a slot is that of its task | a slot is used again, and the numbers of its tokens come from its counter | `GenerationInvariance`, `NoStuckSlotHolds` |
| `DeliveryInv` | reply, queued results and tokens of a call fit together | what a client has says nothing about what is still queued for it | `DeliveryInvariance`, `StreamInOrderHolds`, `StreamReplyCompleteHolds`, `BlockingReplyCompleteHolds` |

Each rests on those above it, and all four are proved step by step of `Next`.
*ServingInv*: the results queued for an id *end* with one that ends the wait,
unless its task is queued, set aside or in a slot (`StopIsComing`). This needs
that ids are not shared (`OwnIds`: otherwise another call could take the result
or give the id back) and that a waiting call is registered (`RegisteredFirst`:
otherwise the result is dropped). *DeliveryInv*: the chunks queued for a call
continue its reply without a gap and lie before anything that ends the wait
(`ChunksInOrder`); a final result is about all that was generated and behind all
chunks (`FinalsWhole`); a slot that goes on has sent all it generated if it
streams, and nothing if not (`SentSoFar`); and nothing is generated for a call
that was answered (`NothingFollows`) - the second final response of
`update_slots()` comes too late to be taken.

`NoStuckSlotHolds` follows the slots only: what is launched has a next token, a
token leaves one or a count above zero, and a cancelled or failed slot has asked for
its release, so a release is never lost and no slot is left in a state that nothing
looks at. It needs of the other invariants that the types hold.

`KeepsTextPromisesHolds`: `Serving` implements `KeepsTextPromises`, the safety part of
`CompletionService` (`KeepsPromises`, which the runs check, without its fairness), under the mapping of `Serving!Service`. A call that takes an
id is opened, a token is produced for the call the slot works for, a chunk
that is received is the next token delivered, a final result answers, and every
other step is a stutter.

Three theorems are about slots that suit the calls. `StreamReplyCompleteHolds` is
for slots that all stream, `BlockingReplyCompleteHolds` for slots that all
collect, and `KeepsTextPromisesHolds` for a backend without Predict calls or with
slots that collect. These are not conveniences: `launch_slot_with_task` does not
copy the params of the task, so a stream on a slot that collects gets
its text in a final result that `handle_predict_stream` does not send, and a
Predict on a slot that streams has the text it collected replaced by an empty
one. The properties are false there. `StreamInOrder`, `OneHolder`,
`AbandonedIdsStayQuiet`, `NoStuckSlot` and `NoStrandedCaller` need no such condition.

### Gate and process

`ModelGate_proofs`: `GateInvariance`, and from it `NoLostWakeupHolds`,
`LoopAfterLoadHolds` and `SuccessIsReadyHolds`. The point of `GateInv` is that
while the queue thread is between its test and its sleep it holds the mutex and
the flag is still false, so a LoadModel call can set the flag only before the
test or after the sleep, and after the sleep its notification is to come.

`Backend_proofs`: every step of the process is a step of `Serving` or leaves its
variables alone (`BackendServes`), so that what is proved of `Serving` carries
over to the process as a whole (`BackendStrandsNoCaller`, `BackendHoldsOnce`,
`BackendStreamsInOrder`, `BackendStaysQuiet`, `BackendKeepsTextPromises`).
`BackendInvariance` follows a load from `init()` to the flag and from the flag to
the calls and the loop that wait for it; `CallsHaveModelHolds` is its last part.

### Requests and options

`ChatRequest_proofs`: `ChatInv` says that the data of a call is a function of its
request, of the model `MarkImages` found and of whether the template was applied
(`DataFollows`), that what the template got, the images and the end of the
call follow from that (`ResultsFollow`), and that a test the model no longer
passes was made before a reload (`TestsHold`, from which `NullOnlyAfterReloadHolds`
follows). A model loaded later is in none of it,
which is why the six properties hold under reloads. `ImagesMarkedHolds` counts:
the rendered turns have the markers of the client, plus one per image in the
marked message (`MarkersInTurns`). `EarlierTurnsUntouchedHolds` compares the two
renderings up to the marked message (`PromptBegins`).

Both need that `FlattenSeq`, a recursive function of the community modules, does
what its equation says for texts of any length. The library's induction theorems
take an operator, which the installed provers cannot instantiate; `TextLemmas`
does induction with a set in its place (`SetInduction`, from `WFMin` and the
well-foundedness of `<` on the numbers) and derives what is needed: one more
element comes at the end (`FlatStep`), a prefix stays a prefix (`FlatBegins`), and
what occurs more often in one element occurs more often in all (`FlatOccurs`).

`ModelParams_proofs`: `ParamsInv` adds to the two properties that `n_parallel`
is always a number, whatever was read, and that the last option that set it
exists. Options that are refused or about something else are part of the proof,
since the list is arbitrary. `LastParallelWinsHolds`, `ParallelBatchesHolds`.

### Only model-checked

Liveness is out of reach of the prover: `EveryCallReturns`, `BacklogServed`, `LoopStarts`, `LoopingStops`, and the part of `KeepsPromises` that
is the fairness of `CompletionService`. All other properties of the passing runs
are theorems.

## 6. Not modelled

The sampling fields of `parse_options` and the fields of `params_parse` other than
`n_parallel` and `cont_batching`: they are copied, and no rule connects them. What the parsers of
llama.cpp accept or find in a text. The string helpers of `utils.cpp` other than
`base64_decode`, and `config/options.h`: nothing uses them.
`on_finish_multitask`: no multitask is ever created. `send_error`: its body is
empty. Health, ModelMetadata: they answer constants. The numbers in the answer to
GetMetrics. Build, packaging and launch scripts: not part of the running system.
A client that goes away: the result of `Write()` is ignored, so its effect is
that of a time-out. Inference calls before READY: undefined behaviour of
llama.cpp.

## 7. Plan

1. Done: queues, scheduler, handlers, their composition and its abstract service,
   the model gate, the whole process, the request, the model options; all safety
   properties proved, with the inductive invariants they need.
2. A bound on the queues: how many results can be queued for an id at most, and how
   many for ids that nobody reads any more, as an invariant with its proof.
3. What a slot may do in which order (`IDLE` to `PROCESSING` with the command
   `LOAD_PROMPT`, then `RELEASE`, then `IDLE`) as an abstract slot that
   `SlotScheduler` implements.
4. The totals of GetMetrics and their widths, a hazard without a property.
