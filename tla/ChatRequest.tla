----------------------------- MODULE ChatRequest -----------------------------
(***************************************************************************)
(* From the request of a client to the prompt of its task: parse_options,  *)
(* inject_image_markers, apply_chat_template_with_tools and the first half *)
(* of handle_predict, handle_predict_stream, handle_embedding and          *)
(* handle_tokenize_string; then what handle_predict does with the text it  *)
(* gets back (CallHandlers has how it gets it).                            *)
(*                                                                         *)
(* One call is followed.  What it works on is its own, except the model in *)
(* ctx_server, which a LoadModel call in another thread may replace at any *)
(* moment: each step below reads the model at most once.                   *)
(*                                                                         *)
(* Text is a sequence of pieces.  A "marker" is one <__media__>, a "turn"  *)
(* is what the chat template writes around a message.                      *)
(***************************************************************************)
EXTENDS Integers, SequencesExt

CONSTANTS
  Handlers,     \* which of the four handlers are called
  Contents,     \* the texts a client writes, as a prompt or in a message
  Images,       \* the lists of images a client sends
  Options,      \* what it asks of the template: tools, thinking
  MaxMessages,  \* bound: messages of a request
  MaxReloads    \* bound: LoadModel calls that end while the call is at work

\* The values of reasoning_format that have a meaning of their own
Names == {"deepseek", "deepseek_legacy", "none"}

ASSUME ChatAssumption ==
  /\ Handlers \subseteq {"PredictStream", "Predict", "Embedding", "TokenizeString"}
  /\ Contents \subseteq Seq({"text", "marker"})
  /\ Images \subseteq Seq({"plain", "uri", "broken"})
  /\ Options \subseteq [tools            : {"absent", "tools", "other json", "no json"},
                         tool_choice      : {"absent", "required", "unknown"},
                         enable_thinking  : BOOLEAN,
                         reasoning_format : {"absent"} \cup Names \cup {"unknown"}]
  /\ MaxMessages \in Nat
  /\ MaxReloads \in Nat

VARIABLES
  request,      \* what the client sent
  model,        \* of ctx_server: is there a multimodal context, a template
  reloads,      \* number of reloads so far
  place,        \* where the handler stands
  data,         \* the JSON object the handler works on
  has_mctx,     \* the local variable has_mctx
  templated,    \* did apply_chat_template_with_tools return true
  inputs,       \* what the template was given beside the messages
  files,        \* the decoded images
  outcome,      \* how the preparation ended
  parsedAs      \* the reasoning format the reply is parsed in

requestVars == <<request, model, reloads, data>>
localVars   == <<has_mctx, templated, inputs, files>>
vars == <<requestVars, localVars, place, outcome, parsedAs>>

Message  == [role : {"user", "other"}, content : Contents]
Models   == [mctx : BOOLEAN, tmpls : BOOLEAN]
Requests == [handler  : Handlers,
             usetokenizertemplate : BOOLEAN,
             prompt   : Contents,
             messages : UNION {[1 .. n -> Message] : n \in 0 .. MaxMessages},
             images   : Images,
             options  : Options]

\* data["prompt"] may be missing: it is a sequence of at most one text.
NoData == [prompt |-> << >>, messages |-> << >>, image_data |-> << >>,
           tools |-> "absent", tool_choice |-> "absent",
           enable_thinking |-> FALSE, reasoning_format |-> "absent"]

\* common_chat_templates_inputs (llama.cpp) as it is constructed
NoInputs == [tools |-> "absent", tool_choice |-> "auto", enable_thinking |-> FALSE,
             reasoning_format |-> "auto"]

Init ==
  /\ request \in Requests
  /\ model \in Models
  /\ reloads = 0
  /\ place = "start"
  /\ data = NoData
  /\ has_mctx = FALSE
  /\ templated = FALSE
  /\ inputs = NoInputs
  /\ files = << >>
  /\ outcome = "none"
  /\ parsedAs = "not parsed"

Completing == request.handler \in {"PredictStream", "Predict"}

Goes(from, to) == place = from /\ place' = to
EndsWith(how)  == outcome' = how

\* data.value("prompt", "")
Prompt == IF data.prompt = << >> THEN << >> ELSE data.prompt[1]

Markers(text) == Cardinality({k \in DOMAIN text : text[k] = "marker"})

-----------------------------------------------------------------------------
(* parse_options *)

\* The client's prompt is left out if the template is to make one.
ClientPrompt(req) ==
  IF ~req.usetokenizertemplate \/ req.messages = << >> THEN << req.prompt >> ELSE << >>

\* Tools that are not JSON are dropped, and the request goes on.
ParsedTools(tools) == IF tools = "no json" THEN "absent" ELSE tools

ParsedData(req) == [prompt           |-> ClientPrompt(req),
                    messages         |-> req.messages,
                    image_data       |-> req.images,
                    tools            |-> ParsedTools(req.options.tools),
                    tool_choice      |-> req.options.tool_choice,
                    enable_thinking  |-> req.options.enable_thinking,
                    reasoning_format |-> req.options.reasoning_format]

ParseOptions ==
  /\ Goes("start", IF Completing THEN "parsed" ELSE "plain")
  /\ data' = ParsedData(request)
  /\ UNCHANGED <<request, model, reloads, localVars, outcome, parsedAs>>

-----------------------------------------------------------------------------
(* inject_image_markers *)

IsUser(message) == message.role = "user"

\* Fault: the first message of the user is taken.
MarkedMessage_Fault(messages) == SelectInSeq(messages, IsUser)

\* The last message of the user; 0 if there is none.
MarkedMessage(messages) == SelectLastInSeq(messages, IsUser)

\* Fault: the test for a multimodal context is missing.
WantsMarkers_Fault(d, mctx) ==
  d.image_data # << >> /\ MarkedMessage(d.messages) # 0

WantsMarkers(d, mctx) ==
  mctx /\ d.image_data # << >> /\ MarkedMessage(d.messages) # 0

\* One marker per image, after the text the message has.
InjectImageMarkers(d, mctx) ==
  IF WantsMarkers(d, mctx)
    THEN [d EXCEPT !.messages[MarkedMessage(d.messages)].content =
                     @ \o [k \in DOMAIN d.image_data |-> "marker"]]
    ELSE d

\* has_mctx = (ctx.mctx != nullptr) and what depends on it at once
MarkImages ==
  /\ Goes("parsed", "marked")
  /\ has_mctx' = model.mctx
  /\ data' = InjectImageMarkers(data, model.mctx)
  /\ UNCHANGED <<request, model, reloads, templated, inputs, files, outcome, parsedAs>>

-----------------------------------------------------------------------------
(* apply_chat_template_with_tools *)

\* The early return: no messages, or a model without a template.
SkipTemplate ==
  /\ Goes("marked", "chosen")
  /\ data.messages = << >> \/ ~model.tmpls
  /\ UNCHANGED <<requestVars, localVars, outcome, parsedAs>>

\* Fault: nobody asks whether the model has a template.
EnterTemplate_Fault ==
  /\ Goes("marked", "templating")
  /\ data.messages # << >>
  /\ UNCHANGED <<requestVars, localVars, outcome, parsedAs>>

EnterTemplate ==
  /\ Goes("marked", "templating")
  /\ data.messages # << >>
  /\ model.tmpls
  /\ UNCHANGED <<requestVars, localVars, outcome, parsedAs>>

\* common_chat_templates_apply (llama.cpp): every message in order, then the
\* beginning of the answer.
Render(messages) ==
  FlattenSeq([k \in DOMAIN messages |-> << "turn" >> \o messages[k].content])
    \o << "turn" >>

\* data.value("reasoning_format", "auto"), then the names the template knows
TemplateFormat(name) == IF name \in Names THEN name ELSE "auto"

\* Fault: the tools stay in data and never get into the inputs.
TemplateInputs_Fault(d) ==
  [NoInputs EXCEPT !.tool_choice      = IF d.tool_choice = "required" THEN d.tool_choice ELSE @,
                   !.enable_thinking  = d.enable_thinking,
                   !.reasoning_format = TemplateFormat(d.reasoning_format)]

\* Tools or a tool_choice that the parser of llama.cpp does not accept are
\* left out, each by itself, and the template is applied all the same.
TemplateInputs(d) ==
  [tools            |-> IF d.tools = "tools" THEN d.tools ELSE NoInputs.tools,
   tool_choice      |-> IF d.tool_choice = "required" THEN d.tool_choice
                                                      ELSE NoInputs.tool_choice,
   enable_thinking  |-> d.enable_thinking,
   reasoning_format |-> TemplateFormat(d.reasoning_format)]

ApplyTemplate ==
  /\ Goes("templating", "chosen")
  /\ model.tmpls
  /\ templated' = TRUE
  /\ inputs' = TemplateInputs(data)
  /\ data' = [data EXCEPT !.prompt = << Render(data.messages) >>]
  /\ UNCHANGED <<request, model, reloads, has_mctx, files, outcome, parsedAs>>

\* Messages the parser of llama.cpp does not accept, or a template that
\* fails: the exception is caught and false returned.
TemplateThrows ==
  /\ Goes("templating", "chosen")
  /\ UNCHANGED <<requestVars, localVars, outcome, parsedAs>>

\* tmpls was checked before, and is a null pointer now.
TemplateGone ==
  /\ Goes("templating", "done")
  /\ ~model.tmpls
  /\ EndsWith("crash")
  /\ UNCHANGED <<requestVars, localVars, parsedAs>>

-----------------------------------------------------------------------------
(* handle_predict and handle_predict_stream up to the task *)

\* An empty prompt ends the call, without an error for the client.
EmptyPrompt ==
  /\ Goes("chosen", "done")
  /\ Prompt = << >>
  /\ EndsWith("empty")
  /\ UNCHANGED <<requestVars, localVars, parsedAs>>

\* What follows the comma of "data:image/...;base64,"
WithoutPrefix(image) == IF image = "uri" THEN "plain" ELSE image

Decoded(images) == [k \in DOMAIN images |-> WithoutPrefix(images[k])]

\* base64_decode of each image, whether or not the model can use images
ExtractImages ==
  /\ Goes("chosen", "extracted")
  /\ Prompt # << >>
  /\ \A k \in DOMAIN data.image_data : WithoutPrefix(data.image_data[k]) = "plain"
  /\ files' = Decoded(data.image_data)
  /\ UNCHANGED <<requestVars, has_mctx, templated, inputs, outcome, parsedAs>>

\* The base64 library throws, and nothing catches it before gRPC does.
BadImage ==
  /\ Goes("chosen", "done")
  /\ Prompt # << >>
  /\ \E k \in DOMAIN data.image_data : WithoutPrefix(data.image_data[k]) = "broken"
  /\ EndsWith("exception")
  /\ UNCHANGED <<requestVars, localVars, parsedAs>>

\* Fault: the model is asked again, instead of the variable.
Multimodal_Fault == model.mctx /\ files # << >>

Multimodal == has_mctx /\ files # << >>

\* process_mtmd_prompt (llama.cpp) throws unless there are as many markers as
\* files.  The multimodal context is read again, and may be a null pointer.
TokenizeImages ==
  /\ Goes("extracted", "done")
  /\ Multimodal
  /\ outcome' = IF ~model.mctx                        THEN "crash"
                ELSE IF Markers(Prompt) = Len(files)  THEN "task"
                ELSE "mismatch"
  /\ UNCHANGED <<requestVars, localVars, parsedAs>>

\* tokenize_input_prompts, which may find nothing to tokenize
TokenizeText ==
  /\ Goes("extracted", "done")
  /\ ~Multimodal
  /\ outcome' \in {"task", "no tokens"}
  /\ UNCHANGED <<requestVars, localVars, parsedAs>>

-----------------------------------------------------------------------------
(* The reply of handle_predict *)

\* Fault: a name is forgotten here that the template was taught.
ReplyFormat_Fault(name) == IF name \in Names \ {"deepseek_legacy"} THEN name ELSE "auto"

\* The names of TemplateFormat, written out a second time
ReplyFormat(name) == IF name \in Names THEN name ELSE "auto"

\* parse_tool_calls_from_content: a reply without text is not parsed; from
\* any other, the tool calls and the reasoning that are found are added.
ParsedReply(hasText, format) == IF hasText THEN format ELSE "not parsed"

\* The whole text is the message in any case.
ParseReply ==
  /\ request.handler = "Predict"
  /\ outcome = "task"
  /\ Goes("done", "replied")
  /\ \E hasText \in BOOLEAN :
       parsedAs' = ParsedReply(hasText, ReplyFormat(data.reasoning_format))
  /\ UNCHANGED <<requestVars, localVars, outcome>>

-----------------------------------------------------------------------------
(* handle_embedding and handle_tokenize_string *)

\* data["prompt"].get<std::string>() throws if there is no prompt.
TakePrompt ==
  /\ Goes("plain", "done")
  /\ outcome' \in IF data.prompt = << >> THEN {"exception"} ELSE {"task", "no tokens"}
  /\ UNCHANGED <<requestVars, localVars, parsedAs>>

\* A LoadModel call of another thread replaces the model.
Reload ==
  /\ place \notin {"done", "replied"}
  /\ reloads < MaxReloads
  /\ model' \in Models
  /\ reloads' = reloads + 1
  /\ UNCHANGED <<request, place, data, localVars, outcome, parsedAs>>

Next ==
  \/ ParseOptions
  \/ MarkImages
  \/ SkipTemplate \/ EnterTemplate
  \/ ApplyTemplate \/ TemplateThrows \/ TemplateGone
  \/ EmptyPrompt
  \/ ExtractImages \/ BadImage
  \/ TokenizeImages \/ TokenizeText
  \/ ParseReply
  \/ TakePrompt
  \/ Reload

Spec == Init /\ [][Next]_vars

-----------------------------------------------------------------------------
(* Properties *)

\* The markers the client wrote itself
OwnMarkers(messages) == Markers(FlattenSeq([k \in DOMAIN messages |-> messages[k].content]))

\* inject_image_markers: without its markers mtmd_tokenize() finds no image.
\* A chat with images, a user message and no markers of its own never fails
\* for a wrong number of markers once the template was applied, whichever
\* model is loaded while it is prepared.
ImagesMarked ==
  outcome = "mismatch" =>
    \/ ~templated
    \/ MarkedMessage(request.messages) = 0
    \/ OwnMarkers(request.messages) > 0

\* The images of a text-only model leave the text alone: its prompt is what
\* the same request would give without them.
TextModelUntouched ==
  place = "extracted" /\ ~has_mctx =>
    Prompt = IF templated THEN Render(request.messages) ELSE request.prompt

\* The pictures belong to what the user said last: what comes before the
\* last user message reaches the prompt as the client wrote it.
EarlierTurnsUntouched ==
  templated =>
    LET last   == CHOOSE n \in 0 .. Len(request.messages) :
                    /\ n > 0 => IsUser(request.messages[n])
                    /\ \A k \in n + 1 .. Len(request.messages) : ~IsUser(request.messages[k])
        others == IF last = 0 THEN Len(request.messages) ELSE last - 1
        before == FlattenSeq([k \in 1 .. others |->
                                << "turn" >> \o request.messages[k].content])
                    \o << "turn" >>
    IN  SubSeq(Prompt, 1, Len(before)) = before

\* A model without a template or a multimodal context has null pointers in
\* their place.  The tests of tmpls and mctx, made some steps before they are
\* used, keep every call from them, unless a LoadModel call comes in between.
NullOnlyAfterReload == outcome = "crash" => reloads > 0

\* predict.cpp:98: there was a time when the tools of a request never reached
\* the template.  A template that is applied has seen what the client asked
\* for; a part of it that makes no sense costs nothing but that part.
TemplateSeesRequest ==
  templated =>
    /\ inputs.tools = "tools" <=> request.options.tools = "tools"
    /\ inputs.tool_choice = "required" <=> request.options.tool_choice = "required"
    /\ inputs.enable_thinking = request.options.enable_thinking
    /\ request.options.reasoning_format \in Names =>
         inputs.reasoning_format = request.options.reasoning_format

\* The template tells the model how to write its reasoning; the reply is
\* parsed by what data says then, long after.  Both mean the same format.
ReasoningAgrees ==
  templated /\ parsedAs # "not parsed" => parsedAs = inputs.reasoning_format

-----------------------------------------------------------------------------
(* The inductive invariant *)

Parsed == ParsedData(request)
Marked == InjectImageMarkers(Parsed, has_mctx)

TypeOK ==
  /\ request \in Requests
  /\ model \in Models
  /\ reloads \in Nat
  /\ has_mctx \in BOOLEAN
  /\ templated \in BOOLEAN
  /\ place \in {"start", "parsed", "plain", "marked", "templating", "chosen",
                "extracted", "done", "replied"}

\* Which handlers come where
PlacesAgree ==
  /\ place \in {"parsed", "marked", "templating", "chosen", "extracted"} => Completing
  /\ place = "plain" => ~Completing
  /\ templated => Completing /\ place \in {"chosen", "extracted", "done", "replied"}
  /\ outcome # "none" => place \in {"done", "replied"}

\* data is a function of the request, of the model MarkImages found and of
\* whether the template was applied; no model that came later is in it.
Prepared == IF templated
              THEN [Marked EXCEPT !.prompt = << Render(Marked.messages) >>]
              ELSE Marked

DataFollows ==
  /\ place = "start" => data = NoData
  /\ place = "parsed" \/ (place # "start" /\ ~Completing) => data = Parsed
  /\ place \notin {"start", "parsed"} /\ Completing => data = Prepared

\* So are what the template got, the images, and the end of the call.
ResultsFollow ==
  /\ templated => inputs = TemplateInputs(Parsed)
  /\ files \in {<< >>, Decoded(request.images)}
  /\ place = "extracted" => Prompt # << >>
  /\ outcome = "mismatch" =>
       Completing /\ has_mctx /\ files # << >> /\ Markers(Prompt) # Len(files)
  /\ parsedAs \in {"not parsed", ReplyFormat(request.options.reasoning_format)}

\* What becomes of the request
Prepares == TypeOK /\ PlacesAgree /\ DataFollows /\ ResultsFollow

\* What a test has found is still there, if no model was loaded since.
TestsHold ==
  (place = "templating" /\ ~model.tmpls) \/ (has_mctx /\ ~model.mctx) => reloads > 0

\* The six properties above follow from it.
ChatInv == Prepares /\ TestsHold /\ NullOnlyAfterReload

=============================================================================
