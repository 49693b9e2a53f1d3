------------------------ MODULE ChatRequest_proofs --------------------------
(***************************************************************************)
(* ChatRequest for requests of any length, any texts and images, and any   *)
(* number of reloads: ChatInv is inductive, and the six properties of the  *)
(* preparation follow from it, with the lemmas of TextLemmas about what    *)
(* the chat template makes of the messages.                                *)
(***************************************************************************)
EXTENDS ChatRequest, TextLemmas

Piece == {"text", "marker", "turn"}

\* What the template writes for each message, and what the client wrote
Turns(messages) == [k \in DOMAIN messages |-> << "turn" >> \o messages[k].content]
Texts(messages) == [k \in DOMAIN messages |-> messages[k].content]

\* The markers inject_image_markers adds
Added(images) == [k \in DOMAIN images |-> "marker"]

-----------------------------------------------------------------------------
(* The request *)

\* What a client sends is made of sequences, as ChatAssumption says.
LEMMA ConstantTypes ==
  /\ \A c \in Contents : c \in Seq({"text", "marker"})
  /\ \A c \in Images : c \in Seq({"plain", "uri", "broken"})
  /\ MaxMessages \in Nat
<1>1. Contents \subseteq Seq({"text", "marker"})
  BY ChatAssumption
<1>2. Images \subseteq Seq({"plain", "uri", "broken"})
  BY ChatAssumption
<1>3. MaxMessages \in Nat
  BY ChatAssumption
<1> QED  BY <1>1, <1>2, <1>3

\* The parts of a request are sequences of what a client may send.
LEMMA RequestType ==
  ASSUME request \in Requests
  PROVE  /\ request.messages \in Seq(Message)
         /\ \A k \in DOMAIN request.messages :
              request.messages[k].content \in Seq({"text", "marker"})
         /\ request.prompt \in Seq({"text", "marker"})
         /\ request.images \in Seq({"plain", "uri", "broken"})
<1>1. /\ request.messages \in UNION {[1 .. n -> Message] : n \in 0 .. MaxMessages}
      /\ request.prompt \in Contents
      /\ request.images \in Images
  BY DEF Requests
<1>2. PICK n \in 0 .. MaxMessages : request.messages \in [1 .. n -> Message]
  BY <1>1
<1>3. n \in Nat
  BY ConstantTypes
<1>4. request.messages \in Seq(Message)
  BY <1>2, <1>3
<1>5. \A m \in Message : m.content \in Seq({"text", "marker"})
  BY ConstantTypes DEF Message
<1>6. \A k \in DOMAIN request.messages : request.messages[k] \in Message
  BY <1>2
<1> QED  BY <1>1, <1>4, <1>5, <1>6, ConstantTypes

\* The last message of the user
LEMMA MarkedIsLast ==
  ASSUME NEW messages \in Seq(Message)
  PROVE  LET j == MarkedMessage(messages)
         IN  /\ j \in 0 .. Len(messages)
             /\ j # 0 => IsUser(messages[j])
             /\ \A k \in 1 .. Len(messages) : k > j => ~IsUser(messages[k])
<1> DEFINE n == Len(messages)
           U == {k \in 1 .. n : IsUser(messages[k])}
<1>1. MarkedMessage(messages) = IF U # {} THEN Max(U) ELSE 0
  BY DEF MarkedMessage, SelectLastInSeq
<1>2. n \in Nat /\ U \in SUBSET (1 .. n)
  OBVIOUS
<1>3. CASE U = {}
  BY <1>1, <1>2, <1>3
<1>4. CASE U # {}
  <2>1. Max(U) \in U /\ \A k \in U : k <= Max(U)
    <3> HIDE DEF U, n
    <3> QED  BY <1>2, <1>4, LargestIndex
  <2>2. \A k \in 1 .. n : k > Max(U) => k \notin U
    BY <1>2, <2>1
  <2> QED  BY <1>1, <1>4, <2>1, <2>2
<1> QED  BY <1>3, <1>4

\* inject_image_markers changes the content of one message, and nothing else.
LEMMA InjectedData ==
  ASSUME request \in Requests, NEW mctx \in BOOLEAN
  PROVE  LET d == InjectImageMarkers(Parsed, mctx)
             j == MarkedMessage(request.messages)
         IN  /\ d.prompt = ClientPrompt(request)
             /\ d.image_data = request.images
             /\ d.tools = ParsedTools(request.options.tools)
             /\ d.tool_choice = request.options.tool_choice
             /\ d.enable_thinking = request.options.enable_thinking
             /\ d.reasoning_format = request.options.reasoning_format
             /\ DOMAIN d.messages = DOMAIN request.messages
             /\ \A k \in DOMAIN request.messages :
                  d.messages[k].content =
                    IF WantsMarkers(Parsed, mctx) /\ k = j
                      THEN request.messages[k].content \o Added(request.images)
                      ELSE request.messages[k].content
<1>1. /\ Parsed.prompt = ClientPrompt(request)
      /\ Parsed.image_data = request.images
      /\ Parsed.messages = request.messages
      /\ Parsed.tools = ParsedTools(request.options.tools)
      /\ Parsed.tool_choice = request.options.tool_choice
      /\ Parsed.enable_thinking = request.options.enable_thinking
      /\ Parsed.reasoning_format = request.options.reasoning_format
  BY DEF Parsed, ParsedData
<1>2. CASE ~WantsMarkers(Parsed, mctx)
  BY <1>1, <1>2 DEF InjectImageMarkers
<1>3. CASE WantsMarkers(Parsed, mctx)
  <2> DEFINE j == MarkedMessage(request.messages)
             d == InjectImageMarkers(Parsed, mctx)
  <2>1. d = [Parsed EXCEPT !.messages[j].content = @ \o Added(request.images)]
    BY <1>1, <1>3 DEF InjectImageMarkers, Added
  <2>2. j \in DOMAIN request.messages
    <3>1. j \in 0 .. Len(request.messages) /\ j # 0
      BY <1>1, <1>3, RequestType, MarkedIsLast DEF WantsMarkers
    <3> QED  BY <3>1, RequestType
  <2>3. request.messages[j] \in Message
    BY <2>2, RequestType
  <2> HIDE DEF j, d
  <2>4. d.messages = [request.messages EXCEPT ![j].content = @ \o Added(request.images)]
    BY <1>1, <2>1 DEF Parsed, ParsedData
  <2>5. /\ d.prompt = Parsed.prompt
        /\ d.image_data = Parsed.image_data
        /\ d.tools = Parsed.tools
        /\ d.tool_choice = Parsed.tool_choice
        /\ d.enable_thinking = Parsed.enable_thinking
        /\ d.reasoning_format = Parsed.reasoning_format
    BY <2>1 DEF Parsed, ParsedData
  <2>6. DOMAIN d.messages = DOMAIN request.messages
    BY <2>4
  <2>7. \A k \in DOMAIN request.messages :
          d.messages[k].content = IF k = j THEN request.messages[k].content
                                                  \o Added(request.images)
                                           ELSE request.messages[k].content
    BY <2>2, <2>3, <2>4 DEF Message
  <2> QED  BY <1>1, <1>3, <2>5, <2>6, <2>7 DEF d, j
<1> QED  BY <1>2, <1>3

-----------------------------------------------------------------------------
(* The steps *)

\* A call starts with an empty JSON object and nothing decided.
LEMMA PreparesInit == Init => Prepares
<1> SUFFICES ASSUME Init PROVE Prepares
  OBVIOUS
<1>1. TypeOK
  BY DEF Init, TypeOK
<1>2. PlacesAgree
  BY DEF Init, PlacesAgree
<1>3. DataFollows
  BY DEF Init, DataFollows
<1>4. ResultsFollow
  BY DEF Init, ResultsFollow
<1> QED  BY <1>1, <1>2, <1>3, <1>4 DEF Prepares

\* What is a function of the request stays what it is.
LEMMA SameRequest ==
  ASSUME request' = request
  PROVE  /\ Parsed' = Parsed
         /\ Completing' = Completing
         /\ has_mctx' = has_mctx => Marked' = Marked
         /\ has_mctx' = has_mctx /\ templated' = templated => Prepared' = Prepared
         /\ data' = data => Prompt' = Prompt
         /\ has_mctx' = has_mctx /\ files' = files => Multimodal' = Multimodal
<1>1. Parsed' = Parsed /\ Completing' = Completing
  BY DEF Parsed, Completing
<1>2. has_mctx' = has_mctx => Marked' = Marked
  BY <1>1 DEF Marked
<1>3. has_mctx' = has_mctx /\ templated' = templated => Prepared' = Prepared
  BY <1>2 DEF Prepared
<1>4. data' = data => Prompt' = Prompt
  BY DEF Prompt
<1>5. has_mctx' = has_mctx /\ files' = files => Multimodal' = Multimodal
  BY DEF Multimodal
<1> QED  BY <1>1, <1>2, <1>3, <1>4, <1>5

\* Steps that leave the data as they are: what is to be shown of them is
\* where they go and how the call ends.
LEMMA QuietStep ==
  ASSUME Prepares, UNCHANGED <<request, data, has_mctx, templated, inputs>>,
         model' \in Models, TypeOK', PlacesAgree',
         (place # "start" /\ place' \notin {"start", "parsed"})
           \/ place' = place,
         place = "parsed" => place' = place,
         files' \in {<< >>, Decoded(request.images)},
         place' = "extracted" => Prompt # << >>,
         outcome' = "mismatch" =>
           Completing /\ has_mctx /\ files' # << >> /\ Markers(Prompt) # Len(files'),
         parsedAs' \in {"not parsed", ReplyFormat(request.options.reasoning_format)}
  PROVE  Prepares'
<1>1. /\ Parsed' = Parsed /\ Completing' = Completing /\ Prepared' = Prepared
      /\ Prompt' = Prompt
  BY SameRequest
<1>2. DataFollows'
  BY <1>1 DEF Prepares, DataFollows
<1>3. Markers(Prompt)' = Markers(Prompt)
  BY <1>1 DEF Markers
<1>4. Multimodal' = (has_mctx /\ files' # << >>)
  BY DEF Multimodal
<1>5. ResultsFollow'
  BY <1>1, <1>3, <1>4 DEF Prepares, ResultsFollow
<1> QED  BY <1>2, <1>5 DEF Prepares

\* parse_options makes data a function of the request.
LEMMA ParseOptionsKeeps == Prepares /\ ParseOptions => Prepares'
<1> SUFFICES ASSUME Prepares, ParseOptions PROVE Prepares'
  OBVIOUS
<1> USE DEF ParseOptions, Goes, localVars
<1>1. Parsed' = Parsed /\ Completing' = Completing /\ data' = Parsed
  BY SameRequest DEF Parsed
<1>2. outcome = "none" /\ ~templated
  BY DEF Prepares, PlacesAgree
<1>3. TypeOK'
  BY DEF Prepares, TypeOK
<1>4. PlacesAgree'
  BY <1>1, <1>2 DEF PlacesAgree
<1>5. DataFollows'
  BY <1>1 DEF DataFollows
<1>6. ResultsFollow'
  BY <1>2 DEF Prepares, ResultsFollow
<1> QED  BY <1>3, <1>4, <1>5, <1>6 DEF Prepares

\* inject_image_markers and has_mctx read the same model.
LEMMA MarkImagesKeeps == Prepares /\ MarkImages => Prepares'
<1> SUFFICES ASSUME Prepares, MarkImages PROVE Prepares'
  OBVIOUS
<1> USE DEF MarkImages, Goes
<1>1. Parsed' = Parsed /\ Completing' = Completing
  BY SameRequest
<1>2. outcome = "none" /\ ~templated /\ Completing /\ data = Parsed
  BY DEF Prepares, PlacesAgree, DataFollows
<1>3. data' = Marked'
  BY <1>1, <1>2 DEF Marked
<1>4. TypeOK'
  BY DEF Prepares, TypeOK, Models
<1>5. PlacesAgree'
  BY <1>1, <1>2 DEF PlacesAgree
<1>6. DataFollows'
  BY <1>1, <1>2, <1>3 DEF DataFollows, Prepared
<1>7. ResultsFollow'
  BY <1>2 DEF Prepares, ResultsFollow
<1> QED  BY <1>4, <1>5, <1>6, <1>7 DEF Prepares

\* Markers in the messages leave what the template is given beside them alone.
LEMMA SameInputs ==
  ASSUME request \in Requests, has_mctx \in BOOLEAN
  PROVE  TemplateInputs(Marked) = TemplateInputs(Parsed)
<1>1. /\ Marked.tools = Parsed.tools
      /\ Marked.tool_choice = Parsed.tool_choice
      /\ Marked.enable_thinking = Parsed.enable_thinking
      /\ Marked.reasoning_format = Parsed.reasoning_format
  BY InjectedData DEF Marked, Parsed, ParsedData
<1> QED  BY <1>1 DEF TemplateInputs

\* The template replaces the prompt, and nothing else of data.
LEMMA ApplyTemplateKeeps == Prepares /\ ApplyTemplate => Prepares'
<1> SUFFICES ASSUME Prepares, ApplyTemplate PROVE Prepares'
  OBVIOUS
<1> USE DEF ApplyTemplate, Goes
<1>1. Parsed' = Parsed /\ Completing' = Completing /\ Marked' = Marked
  BY SameRequest
<1>2. outcome = "none" /\ ~templated /\ Completing /\ data = Marked
  BY DEF Prepares, PlacesAgree, DataFollows, Prepared
<1>3. data' = Prepared'
  BY <1>1, <1>2 DEF Prepared
<1>4. TypeOK'
  BY DEF Prepares, TypeOK
<1>5. PlacesAgree'
  BY <1>1, <1>2 DEF PlacesAgree
<1>6. DataFollows'
  BY <1>1, <1>2, <1>3 DEF DataFollows
<1>7. inputs' = TemplateInputs(Parsed)
  BY <1>2, SameInputs DEF Prepares, TypeOK
<1>8. ResultsFollow'
  BY <1>1, <1>2, <1>7 DEF Prepares, ResultsFollow
<1> QED  BY <1>4, <1>5, <1>6, <1>8 DEF Prepares

\* A template that does not apply leaves everything as it was.
LEMMA TemplateSkipped ==
  Prepares /\ (SkipTemplate \/ EnterTemplate \/ TemplateThrows \/ TemplateGone) => Prepares'
<1> SUFFICES ASSUME Prepares, SkipTemplate \/ EnterTemplate \/ TemplateThrows \/ TemplateGone
             PROVE  Prepares'
  OBVIOUS
<1> USE DEF SkipTemplate, EnterTemplate, TemplateThrows, TemplateGone, Goes, EndsWith,
        requestVars, localVars
<1>1. /\ UNCHANGED <<request, data, has_mctx, templated, inputs, files, model, reloads, parsedAs>>
      /\ place \in {"marked", "templating"}
      /\ place' \in {"templating", "chosen", "done"}
      /\ outcome' \in {outcome, "crash"}
      /\ outcome' # outcome => place' = "done"
  OBVIOUS
<1>2. outcome = "none" /\ ~templated /\ Completing /\ Completing' = Completing
  BY <1>1, SameRequest DEF Prepares, PlacesAgree
<1>3. TypeOK'
  BY <1>1 DEF Prepares, TypeOK
<1>4. PlacesAgree'
  BY <1>1, <1>2 DEF PlacesAgree
<1>5. model' \in Models
  BY <1>1 DEF Prepares, TypeOK
<1> QED  BY <1>1, <1>2, <1>3, <1>4, <1>5, QuietStep DEF Prepares, ResultsFollow

\* The images are decoded, or the call ends without a task.
LEMMA ChosenKeeps ==
  Prepares /\ (EmptyPrompt \/ ExtractImages \/ BadImage) => Prepares'
<1> SUFFICES ASSUME Prepares, EmptyPrompt \/ ExtractImages \/ BadImage PROVE Prepares'
  OBVIOUS
<1> USE DEF EmptyPrompt, ExtractImages, BadImage, Goes, EndsWith, requestVars, localVars
<1>1. /\ UNCHANGED <<request, data, has_mctx, templated, inputs, model, reloads, parsedAs>>
      /\ place = "chosen"
      /\ place' \in {"extracted", "done"}
      /\ outcome' \in {outcome, "empty", "exception"}
      /\ outcome' # outcome => place' = "done"
      /\ place' = "extracted" => Prompt # << >>
  OBVIOUS
<1>2. outcome = "none" /\ Completing /\ Completing' = Completing
  BY <1>1, SameRequest DEF Prepares, PlacesAgree
<1>3. files' \in {<< >>, Decoded(request.images)}
  <2>1. CASE files' = files
    BY <2>1 DEF Prepares, ResultsFollow
  <2>2. CASE ExtractImages
    <3>1. data.image_data = request.images
      <4>1. data = Prepared /\ request \in Requests /\ has_mctx \in BOOLEAN
        BY <1>1, <1>2 DEF Prepares, TypeOK, DataFollows
      <4>2. Marked.image_data = request.images
        BY <4>1, InjectedData DEF Marked
      <4>3. Prepared.image_data = Marked.image_data
        BY DEF Prepared
      <4> QED  BY <4>1, <4>2, <4>3
    <3> QED  BY <2>2, <3>1
  <2> QED  BY <2>1, <2>2
<1>4. TypeOK'
  BY <1>1 DEF Prepares, TypeOK
<1>5. PlacesAgree'
  BY <1>1, <1>2 DEF Prepares, PlacesAgree
<1>6. model' \in Models
  BY <1>1 DEF Prepares, TypeOK
<1> QED  BY <1>1, <1>2, <1>3, <1>4, <1>5, <1>6, QuietStep
         DEF Prepares, ResultsFollow

\* Tokenizing ends the preparation; only images can end it in a mismatch.
LEMMA TokenizeKeeps ==
  Prepares /\ (TokenizeImages \/ TokenizeText \/ TakePrompt) => Prepares'
<1> SUFFICES ASSUME Prepares, TokenizeImages \/ TokenizeText \/ TakePrompt PROVE Prepares'
  OBVIOUS
<1> USE DEF TokenizeImages, TokenizeText, TakePrompt, Goes, requestVars, localVars
<1>1. /\ UNCHANGED <<request, data, has_mctx, templated, inputs, files, model, reloads, parsedAs>>
      /\ place \in {"extracted", "plain"}
      /\ place' = "done"
      /\ outcome' = "mismatch" =>
           place = "extracted" /\ Multimodal /\ Markers(Prompt) # Len(files)
  OBVIOUS
<1>2. /\ Completing' = Completing
      /\ place = "extracted" => Completing
      /\ templated => Completing
  BY <1>1, SameRequest DEF Prepares, PlacesAgree
<1>3. TypeOK'
  BY <1>1 DEF Prepares, TypeOK
<1>4. PlacesAgree'
  BY <1>1, <1>2 DEF Prepares, PlacesAgree
<1>5. model' \in Models
  BY <1>1 DEF Prepares, TypeOK
<1>6. outcome' = "mismatch" =>
        Completing /\ has_mctx /\ files' # << >> /\ Markers(Prompt) # Len(files')
  BY <1>1, <1>2 DEF Multimodal
<1> QED  BY <1>1, <1>2, <1>3, <1>4, <1>5, <1>6, QuietStep DEF Prepares, ResultsFollow

\* The format of the reply is the one that data has had since parse_options.
LEMMA ParseReplyKeeps == Prepares /\ ParseReply => Prepares'
<1> SUFFICES ASSUME Prepares, ParseReply PROVE Prepares'
  OBVIOUS
<1> USE DEF ParseReply, Goes, requestVars, localVars
<1>1. /\ UNCHANGED <<request, data, has_mctx, templated, inputs, files, model, reloads, outcome>>
      /\ place = "done" /\ place' = "replied" /\ outcome = "task"
      /\ Completing /\ Completing' = Completing
  BY SameRequest DEF Completing
<1>2. data.reasoning_format = request.options.reasoning_format
  <2>1. data = Prepared /\ request \in Requests /\ has_mctx \in BOOLEAN
    BY <1>1 DEF Prepares, TypeOK, DataFollows
  <2>2. Marked.reasoning_format = request.options.reasoning_format
    BY <2>1, InjectedData DEF Marked
  <2>3. Prepared.reasoning_format = Marked.reasoning_format
    BY DEF Prepared
  <2> QED  BY <2>1, <2>2, <2>3
<1>3. parsedAs' \in {"not parsed", ReplyFormat(request.options.reasoning_format)}
  BY <1>2 DEF ParsedReply
<1>4. TypeOK'
  BY <1>1 DEF Prepares, TypeOK
<1>5. PlacesAgree'
  BY <1>1 DEF Prepares, PlacesAgree
<1>6. model' \in Models
  BY <1>1 DEF Prepares, TypeOK
<1> QED  BY <1>1, <1>3, <1>4, <1>5, <1>6, QuietStep DEF Prepares, ResultsFollow

\* A model that is replaced is not in the data, nor in has_mctx.
LEMMA ReloadKeeps == Prepares /\ Reload => Prepares'
<1> SUFFICES ASSUME Prepares, Reload PROVE Prepares'
  OBVIOUS
<1>1. /\ UNCHANGED <<request, data, has_mctx, templated, inputs, files, outcome, parsedAs,
                     place>>
      /\ model' \in Models /\ reloads' = reloads + 1
  BY DEF Reload, localVars
<1>2. Parsed' = Parsed /\ Completing' = Completing /\ Prepared' = Prepared /\ Prompt' = Prompt
      /\ Multimodal' = Multimodal
  BY <1>1, SameRequest
<1>3. TypeOK' /\ PlacesAgree' /\ DataFollows'
  BY <1>1, <1>2 DEF Prepares, TypeOK, PlacesAgree, DataFollows
<1>4. Markers(Prompt)' = Markers(Prompt)
  BY <1>2 DEF Markers
<1>5. ResultsFollow'
  BY <1>1, <1>2, <1>4 DEF Prepares, ResultsFollow
<1> QED  BY <1>3, <1>5 DEF Prepares

\* Every step of a call, and every reload, keeps Prepares.
LEMMA PreparesStep == Prepares /\ [Next]_vars => Prepares'
<1> SUFFICES ASSUME Prepares, [Next]_vars PROVE Prepares'
  OBVIOUS
<1>1. CASE Next
  BY <1>1, ParseOptionsKeeps, MarkImagesKeeps, TemplateSkipped, ApplyTemplateKeeps,
     ChosenKeeps, TokenizeKeeps, ParseReplyKeeps, ReloadKeeps DEF Next
<1>2. CASE UNCHANGED vars
  <2> USE <1>2 DEF vars, requestVars, localVars
  <2>1. Parsed' = Parsed /\ Completing' = Completing /\ Prepared' = Prepared
        /\ Prompt' = Prompt /\ Multimodal' = Multimodal
    BY SameRequest
  <2>2. TypeOK' /\ PlacesAgree' /\ DataFollows'
    BY <2>1 DEF Prepares, TypeOK, PlacesAgree, DataFollows
  <2>3. Markers(Prompt)' = Markers(Prompt)
    BY <2>1 DEF Markers
  <2>4. ResultsFollow'
    BY <2>1, <2>3 DEF Prepares, ResultsFollow
  <2> QED  BY <2>2, <2>4 DEF Prepares
<1> QED  BY <1>1, <1>2

\* tmpls is tested as the call enters the try block, mctx as has_mctx is
\* read, and only a reload can take away what was found then.
LEMMA TestsStep ==
  ChatInv /\ [Next]_vars => TestsHold' /\ NullOnlyAfterReload'
<1> SUFFICES ASSUME ChatInv, [Next]_vars PROVE TestsHold' /\ NullOnlyAfterReload'
  OBVIOUS
<1> USE DEF ChatInv, TestsHold, NullOnlyAfterReload, Goes, EndsWith, requestVars, localVars
<1>1. CASE Reload
  <2>1. reloads' = reloads + 1 /\ reloads \in Nat
    BY <1>1 DEF Reload, Prepares, TypeOK
  <2> QED  BY <2>1
<1>2. CASE MarkImages
  BY <1>2 DEF MarkImages
<1>3. CASE ParseOptions \/ SkipTemplate \/ EnterTemplate \/ ApplyTemplate
             \/ TemplateThrows \/ TemplateGone
  BY <1>3 DEF ParseOptions, SkipTemplate, EnterTemplate, ApplyTemplate, TemplateThrows,
     TemplateGone
<1>4. CASE EmptyPrompt \/ ExtractImages \/ BadImage \/ ParseReply
  BY <1>4 DEF EmptyPrompt, ExtractImages, BadImage, ParseReply
<1>5. CASE TokenizeImages
  BY <1>5 DEF TokenizeImages, Multimodal
<1>6. CASE TokenizeText \/ TakePrompt
  <2>1. /\ UNCHANGED <<model, reloads, has_mctx>> /\ place' = "done"
        /\ outcome' \in {"task", "no tokens", "exception"}
    BY <1>6 DEF TokenizeText, TakePrompt
  <2> QED  BY <2>1
<1>7. CASE UNCHANGED vars
  BY <1>7 DEF vars
<1> QED  BY <1>1, <1>2, <1>3, <1>4, <1>5, <1>6, <1>7 DEF Next

\* ChatInv holds in every reachable state, for any request and any reloads.
THEOREM ChatInvariance == Spec => []ChatInv
<1>1. Init => ChatInv
  BY PreparesInit DEF ChatInv, Prepares, TestsHold, NullOnlyAfterReload, Init
<1>2. ChatInv /\ [Next]_vars => ChatInv'
  BY PreparesStep, TestsStep DEF ChatInv
<1> QED  BY <1>1, <1>2, PTL DEF Spec

-----------------------------------------------------------------------------
(* The prompt *)

\* What the template makes of the messages, message by message
LEMMA RenderedPrompt ==
  ASSUME request \in Requests, has_mctx \in BOOLEAN
  PROVE  LET n == Len(request.messages)
             e == Turns(Marked.messages)
         IN  /\ n \in Nat
             /\ DOMAIN request.messages = 1 .. n
             /\ Render(Marked.messages) = Flat(e, n) \o << "turn" >>
             /\ Flat(e, n) \in Seq(Piece)
             /\ \A k \in 1 .. n : e[k] \in Seq(Piece)
             /\ \A k \in 1 .. n :
                  e[k] = << "turn" >> \o
                           IF WantsMarkers(Parsed, has_mctx)
                                /\ k = MarkedMessage(request.messages)
                             THEN request.messages[k].content \o Added(request.images)
                             ELSE request.messages[k].content
<1> DEFINE n == Len(request.messages)
           e == Turns(Marked.messages)
<1>1. n \in Nat /\ DOMAIN request.messages = 1 .. n
  BY RequestType
<1>2. DOMAIN Marked.messages = 1 .. n
  BY <1>1, InjectedData DEF Marked
<1>3. \A k \in 1 .. n : e[k] = << "turn" >> \o Marked.messages[k].content
  BY <1>2 DEF Turns
<1>4. \A k \in 1 .. n :
        Marked.messages[k].content =
          IF WantsMarkers(Parsed, has_mctx) /\ k = MarkedMessage(request.messages)
            THEN request.messages[k].content \o Added(request.images)
            ELSE request.messages[k].content
  BY <1>1, InjectedData DEF Marked
<1>5. Added(request.images) \in Seq(Piece) /\ << "turn" >> \in Seq(Piece)
  <2>1. request.images \in Seq({"plain", "uri", "broken"})
    BY RequestType
  <2> QED  BY <2>1 DEF Added, Piece
<1>6. \A k \in 1 .. n : request.messages[k].content \in Seq(Piece)
  BY <1>1, RequestType DEF Piece
<1>7. \A s, t \in Seq(Piece) : s \o t \in Seq(Piece)
  OBVIOUS
<1>8. \A k \in 1 .. n : e[k] \in Seq(Piece)
  <2> SUFFICES ASSUME NEW k \in 1 .. n PROVE e[k] \in Seq(Piece)
    OBVIOUS
  <2> HIDE DEF e, n
  <2>1. Marked.messages[k].content \in Seq(Piece)
    <3>1. request.messages[k].content \o Added(request.images) \in Seq(Piece)
      BY <1>5, <1>6, <1>7
    <3> QED  BY <1>4, <1>6, <3>1
  <2>2. << "turn" >> \o Marked.messages[k].content \in Seq(Piece)
    BY <1>5, <1>7, <2>1
  <2> QED  BY <1>3, <2>2
<1>9. Render(Marked.messages) = Flat(e, n) \o << "turn" >>
  <2>1. [k \in DOMAIN Marked.messages |-> << "turn" >> \o Marked.messages[k].content]
          = [k \in 1 .. n |-> e[k]]
    BY <1>2, <1>3
  <2> HIDE DEF e, n
  <2> QED  BY <2>1 DEF Render, Flat
<1>10. Flat(e, n) \in Seq(Piece)
  <2> HIDE DEF e, n
  <2> QED  BY <1>1, <1>8, FlatType
<1> HIDE DEF e, n
<1>11. \A k \in 1 .. n :
         e[k] = << "turn" >> \o
                  IF WantsMarkers(Parsed, has_mctx) /\ k = MarkedMessage(request.messages)
                    THEN request.messages[k].content \o Added(request.images)
                    ELSE request.messages[k].content
  BY <1>3, <1>4
<1> QED  BY <1>1, <1>8, <1>9, <1>10, <1>11 DEF e, n

\* A prompt is what the template made, or what the client wrote.
LEMMA PromptIs ==
  ASSUME ChatInv, Completing, place \notin {"start", "parsed"}
  PROVE  /\ templated => Prompt = Render(Marked.messages)
         /\ ~templated => data.prompt = ClientPrompt(request)
<1>1. data = Prepared /\ request \in Requests /\ has_mctx \in BOOLEAN
  BY DEF ChatInv, Prepares, TypeOK, DataFollows
<1>2. Marked.prompt = ClientPrompt(request)
  BY <1>1, InjectedData DEF Marked
<1>3. templated => data.prompt = << Render(Marked.messages) >>
  <2>1. "prompt" \in DOMAIN Marked
    <3>1. DOMAIN Marked = DOMAIN Parsed
      BY DEF Marked, InjectImageMarkers
    <3> QED  BY <3>1 DEF Parsed, ParsedData
  <2> QED  BY <1>1, <2>1 DEF Prepared
<1> QED  BY <1>1, <1>2, <1>3 DEF Prompt, Prepared

-----------------------------------------------------------------------------
(* What the preparation promises, for any request *)

\* The images of a text-only model leave the text alone, whatever model is
\* loaded while the prompt is prepared.
THEOREM TextModelUntouchedHolds == Spec => []TextModelUntouched
<1>1. ChatInv => TextModelUntouched
  <2> SUFFICES ASSUME ChatInv, place = "extracted", ~has_mctx
               PROVE  Prompt = IF templated THEN Render(request.messages)
                                            ELSE request.prompt
    BY DEF TextModelUntouched
  <2>1. Completing /\ Prompt # << >>
    BY DEF ChatInv, Prepares, PlacesAgree, ResultsFollow
  <2>2. Marked.messages = request.messages
    BY DEF Marked, InjectImageMarkers, WantsMarkers, Parsed, ParsedData
  <2>3. CASE templated
    BY <2>1, <2>2, <2>3, PromptIs
  <2>4. CASE ~templated
    <3>1. data.prompt = ClientPrompt(request) /\ data.prompt # << >>
      BY <2>1, <2>4, PromptIs DEF Prompt
    <3> QED  BY <2>4, <3>1 DEF Prompt, ClientPrompt
  <2> QED  BY <2>3, <2>4
<1> QED  BY <1>1, ChatInvariance, PTL

\* No call meets a null pointer for want of a template or of a multimodal
\* context, unless a model was loaded while it was prepared.
THEOREM NullOnlyAfterReloadHolds == Spec => []NullOnlyAfterReload
<1>1. ChatInv => NullOnlyAfterReload
  BY DEF ChatInv
<1> QED  BY <1>1, ChatInvariance, PTL

\* A template that is applied has seen what the client asked for.
THEOREM TemplateSeesRequestHolds == Spec => []TemplateSeesRequest
<1>1. ChatInv => TemplateSeesRequest
  <2> SUFFICES ASSUME ChatInv, templated PROVE TemplateSeesRequest
    BY DEF TemplateSeesRequest
  <2>1. inputs = TemplateInputs(Parsed)
    BY DEF ChatInv, Prepares, ResultsFollow
  <2> QED  BY <2>1 DEF TemplateSeesRequest, TemplateInputs, TemplateFormat, NoInputs, Parsed,
           ParsedData, ParsedTools
<1> QED  BY <1>1, ChatInvariance, PTL

\* The reply is parsed in the format the template was told.
THEOREM ReasoningAgreesHolds == Spec => []ReasoningAgrees
<1>1. ChatInv => ReasoningAgrees
  <2> SUFFICES ASSUME ChatInv, templated, parsedAs # "not parsed"
               PROVE  parsedAs = inputs.reasoning_format
    BY DEF ReasoningAgrees
  <2>1. parsedAs = ReplyFormat(request.options.reasoning_format)
    BY DEF ChatInv, Prepares, ResultsFollow
  <2>2. inputs = TemplateInputs(Parsed)
    BY DEF ChatInv, Prepares, ResultsFollow
  <2>3. inputs.reasoning_format = TemplateFormat(request.options.reasoning_format)
    BY <2>2 DEF TemplateInputs, Parsed, ParsedData
  <2> QED  BY <2>1, <2>3 DEF TemplateFormat, ReplyFormat
<1> QED  BY <1>1, ChatInvariance, PTL

\* The turns the template writes have the markers the client wrote, and one
\* more for each image if the model takes images and the user said something.
LEMMA MarkersInTurns ==
  ASSUME request \in Requests, has_mctx \in BOOLEAN,
         WantsMarkers(Parsed, has_mctx), MarkedMessage(request.messages) # 0
  PROVE  /\ OwnMarkers(request.messages) \in Nat
         /\ Len(request.images) \in Nat
         /\ Markers(Render(Marked.messages))
              = OwnMarkers(request.messages) + Len(request.images)
<1> DEFINE n == Len(request.messages)
           j == MarkedMessage(request.messages)
           c == Len(request.images)
           e == Turns(Marked.messages)
           d == Texts(request.messages)
           a == Added(request.images)
           O(s) == Occurs("marker", s)
<1>1. /\ n \in Nat
      /\ DOMAIN request.messages = 1 .. n
      /\ Render(Marked.messages) = Flat(e, n) \o << "turn" >>
      /\ Flat(e, n) \in Seq(Piece)
      /\ \A k \in 1 .. n : e[k] \in Seq(Piece)
      /\ \A k \in 1 .. n :
           e[k] = << "turn" >> \o IF k = j THEN d[k] \o a ELSE d[k]
  <2>1. \A k \in DOMAIN request.messages : d[k] = request.messages[k].content
    BY DEF Texts
  <2> HIDE DEF d
  <2> QED  BY <2>1, RenderedPrompt
<1>2. j \in 1 .. n
  <2>1. j \in 0 .. n /\ j # 0
    BY RequestType, MarkedIsLast
  <2> HIDE DEF j
  <2> QED  BY <1>1, <2>1
<1>3. /\ \A k \in 1 .. n : d[k] \in Seq(Piece)
      /\ c \in Nat /\ a \in Seq(Piece) /\ << "turn" >> \in Seq(Piece)
      /\ O(a) = c /\ O(<< "turn" >>) = 0
  <2>1. \A k \in 1 .. n : d[k] \in Seq(Piece)
    <3>1. \A k \in 1 .. n : d[k] = request.messages[k].content
      BY <1>1 DEF Texts
    <3>2. \A k \in 1 .. n : request.messages[k].content \in Seq({"text", "marker"})
      BY <1>1, RequestType
    <3>3. \A s \in Seq({"text", "marker"}) : s \in Seq(Piece)
      BY DEF Piece
    <3> HIDE DEF d
    <3> QED  BY <3>1, <3>2, <3>3
  <2>2. request.images \in Seq({"plain", "uri", "broken"})
    BY RequestType
  <2>3. /\ a \in Seq(Piece) /\ Len(a) = c /\ c \in Nat
        /\ \A k \in DOMAIN a : a[k] = "marker"
    BY <2>2 DEF Added, Piece
  <2>4. O(a) = c
    <3> HIDE DEF a, c
    <3> QED  BY <2>3, OccursEverywhere
  <2>5. << "turn" >> \in Seq(Piece) /\ \A k \in DOMAIN << "turn" >> : << "turn" >>[k] # "marker"
    BY DEF Piece
  <2>6. O(<< "turn" >>) = 0
    BY <2>5, OccursNowhere
  <2> QED  BY <2>1, <2>3, <2>4, <2>5, <2>6
<1> HIDE DEF n, j, c, e, d, a
<1>4. ASSUME NEW k \in 1 .. n PROVE O(e[k]) = O(d[k]) + (IF k = j THEN c ELSE 0)
  <2>1. d[k] \in Seq(Piece) /\ d[k] \o a \in Seq(Piece) /\ O(d[k]) \in Nat
    BY <1>3, OccursType
  <2>2. CASE k = j
    <3>1. e[k] = << "turn" >> \o (d[k] \o a)
      BY <1>1, <2>2
    <3>2. O(e[k]) = O(<< "turn" >>) + O(d[k] \o a)
      BY <1>3, <2>1, <3>1, OccursConcat
    <3>3. O(d[k] \o a) = O(d[k]) + O(a)
      BY <1>3, <2>1, OccursConcat
    <3> QED  BY <1>3, <2>1, <2>2, <3>2, <3>3
  <2>3. CASE k # j
    <3>1. e[k] = << "turn" >> \o d[k]
      BY <1>1, <2>3
    <3>2. O(e[k]) = O(<< "turn" >>) + O(d[k])
      BY <1>3, <2>1, <3>1, OccursConcat
    <3> QED  BY <1>3, <2>1, <2>3, <3>2
  <2> QED  BY <2>2, <2>3
<1>5. O(Flat(e, n)) = O(Flat(d, n)) + c
  <2>1. HasMore(Piece, n, d, e, "marker", j, c)
    BY <1>1, <1>3, <1>4 DEF HasMore
  <2>2. n \in Nat /\ c \in Nat
    BY <1>1, <1>3
  <2> QED  BY <1>2, <2>1, <2>2, FlatOccurs
<1>6. Flat(d, n) \in Seq(Piece) /\ O(Flat(d, n)) \in Nat
  BY <1>1, <1>3, FlatType, OccursType
<1>7. O(Flat(e, n) \o << "turn" >>) = O(Flat(e, n)) + O(<< "turn" >>)
  BY <1>1, <1>3, OccursConcat
<1>8. \A s : Markers(s) = O(s)
  BY DEF Markers, Occurs, At
<1>9. OwnMarkers(request.messages) = O(Flat(d, n))
  <2>1. [k \in DOMAIN request.messages |-> request.messages[k].content]
          = [k \in 1 .. n |-> d[k]]
    BY <1>1 DEF d, Texts
  <2> QED  BY <1>8, <2>1 DEF OwnMarkers, Flat
<1>10. Markers(Render(Marked.messages)) = O(Flat(d, n)) + c
  BY <1>1, <1>3, <1>5, <1>6, <1>7, <1>8
<1> QED  BY <1>3, <1>6, <1>9, <1>10 DEF c

\* A chat with images, a user message and no markers of its own never fails
\* for a wrong number of markers once the template was applied.
THEOREM ImagesMarkedHolds == Spec => []ImagesMarked
<1>1. ChatInv => ImagesMarked
  <2> SUFFICES ASSUME ChatInv, outcome = "mismatch", templated,
                      MarkedMessage(request.messages) # 0,
                      ~(OwnMarkers(request.messages) > 0)
               PROVE  FALSE
    BY DEF ImagesMarked
  <2>1. /\ request \in Requests /\ has_mctx
        /\ Completing /\ place \notin {"start", "parsed"}
        /\ files = Decoded(request.images) /\ files # << >>
        /\ Markers(Prompt) # Len(files)
    BY DEF ChatInv, Prepares, TypeOK, PlacesAgree, ResultsFollow
  <2>2. request.images # << >> /\ Len(files) = Len(request.images)
    <3>1. request.images \in Seq({"plain", "uri", "broken"})
      BY <2>1, RequestType
    <3> QED  BY <2>1, <3>1 DEF Decoded
  <2>3. WantsMarkers(Parsed, has_mctx)
    BY <2>1, <2>2 DEF WantsMarkers, Parsed, ParsedData
  <2>4. /\ OwnMarkers(request.messages) \in Nat
        /\ Markers(Prompt) = OwnMarkers(request.messages) + Len(request.images)
        /\ Len(request.images) \in Nat
    BY <2>1, <2>3, MarkersInTurns, PromptIs
  <2> QED  BY <2>1, <2>2, <2>4
<1> QED  BY <1>1, ChatInvariance, PTL

\* What comes before the turn of message m + 1, and that turn's beginning, are
\* the beginning of all turns, or these are over.
LEMMA PromptBegins ==
  ASSUME NEW n \in Nat, NEW e, \A k \in 1 .. n : e[k] \in Seq(Piece),
         NEW m \in 0 .. n,
         \A k \in 1 .. n : \E w \in Seq(Piece) : e[k] = << "turn" >> \o w
  PROVE  \E t \in Seq(Piece) :
           Flat(e, n) \o << "turn" >> = (Flat(e, m) \o << "turn" >>) \o t
<1> DEFINE turn == << "turn" >>
           u    == Flat(e, m)
<1>1. turn \in Seq(Piece) /\ << >> \in Seq(Piece)
  BY DEF Piece
<1>2. u \in Seq(Piece)
  BY FlatType
<1> HIDE DEF turn, u
<1>3. CASE m = n
  <2>1. u \o turn \in Seq(Piece)
    BY <1>1, <1>2
  <2>2. u \o turn = (u \o turn) \o << >>
    BY <2>1
  <2> QED  BY <1>1, <1>3, <2>2 DEF u, turn
<1>4. CASE m # n
  <2>1. m + 1 \in 1 .. n /\ m + 1 \in 0 .. n /\ m \in Nat
    BY <1>4
  <2>2. PICK t \in Seq(Piece) : Flat(e, n) = Flat(e, m + 1) \o t
    <3> DEFINE i == m + 1
    <3>1. i \in 0 .. n
      BY <2>1
    <3> HIDE DEF i
    <3>2. Begins(Piece, Flat(e, i), Flat(e, n))
      BY <3>1, FlatBegins
    <3> QED  BY <3>2 DEF i, Begins
  <2>3. PICK w \in Seq(Piece) : e[m + 1] = turn \o w
    BY <2>1 DEF turn
  <2>4. Flat(e, m + 1) = u \o e[m + 1]
    <3>1. \A k \in 1 .. m + 1 : e[k] \in Seq(Piece)
      BY <2>1
    <3> QED  BY <2>1, <3>1, FlatStep DEF u
  <2>5. Flat(e, n) \o turn = ((u \o (turn \o w)) \o t) \o turn
    BY <2>2, <2>3, <2>4
  <2>6. \A a, b, c \in Seq(Piece) : (a \o b) \o c = a \o (b \o c)
    OBVIOUS
  <2>7. \A a, b \in Seq(Piece) : a \o b \in Seq(Piece)
    OBVIOUS
  <2>8. ((u \o (turn \o w)) \o t) \o turn = (u \o turn) \o (w \o (t \o turn))
    <3>1. u \o (turn \o w) = (u \o turn) \o w
      BY <1>1, <1>2, <2>6
    <3>2. ((u \o turn) \o w) \o t = (u \o turn) \o (w \o t)
      BY <1>1, <1>2, <2>6, <2>7
    <3>3. ((u \o turn) \o (w \o t)) \o turn = (u \o turn) \o ((w \o t) \o turn)
      <4>1. u \o turn \in Seq(Piece) /\ w \o t \in Seq(Piece)
        BY <1>1, <1>2, <2>7
      <4> DEFINE x == u \o turn  y == w \o t
      <4> HIDE DEF x, y
      <4>2. (x \o y) \o turn = x \o (y \o turn)
        BY <1>1, <4>1 DEF x, y
      <4> QED  BY <4>2 DEF x, y
    <3>4. (w \o t) \o turn = w \o (t \o turn)
      BY <1>1, <2>6
    <3> QED  BY <3>1, <3>2, <3>3, <3>4
  <2>9. w \o (t \o turn) \in Seq(Piece)
    BY <1>1, <2>7
  <2> QED  BY <2>5, <2>8, <2>9 DEF u, turn
<1> QED  BY <1>3, <1>4

\* What comes before the last message of the user reaches the prompt as the
\* client wrote it.
THEOREM EarlierTurnsUntouchedHolds == Spec => []EarlierTurnsUntouched
<1>1. ChatInv => EarlierTurnsUntouched
  <2> SUFFICES ASSUME ChatInv, templated PROVE EarlierTurnsUntouched
    BY DEF EarlierTurnsUntouched
  <2> DEFINE msgs == request.messages
             n == Len(msgs)
             j == MarkedMessage(msgs)
             e == Turns(Marked.messages)
             IsLast(l) == /\ l > 0 => IsUser(msgs[l])
                          /\ \A k \in l + 1 .. n : ~IsUser(msgs[k])
             last == CHOOSE l \in 0 .. n : IsLast(l)
             m == IF last = 0 THEN n ELSE last - 1
             before == FlattenSeq([k \in 1 .. m |-> << "turn" >> \o msgs[k].content])
                         \o << "turn" >>
  <2>1. /\ request \in Requests /\ has_mctx \in BOOLEAN
        /\ Completing /\ place \notin {"start", "parsed"}
    BY DEF ChatInv, Prepares, TypeOK, PlacesAgree
  <2>2. /\ n \in Nat /\ DOMAIN msgs = 1 .. n
        /\ Prompt = Flat(e, n) \o << "turn" >>
        /\ Flat(e, n) \in Seq(Piece)
        /\ \A k \in 1 .. n : e[k] \in Seq(Piece)
        /\ \A k \in 1 .. n :
             e[k] = << "turn" >> \o
                      IF WantsMarkers(Parsed, has_mctx) /\ k = j
                        THEN msgs[k].content \o Added(request.images)
                        ELSE msgs[k].content
    BY <2>1, PromptIs, RenderedPrompt
  <2>3. /\ j \in 0 .. n
        /\ j # 0 => IsUser(msgs[j])
        /\ \A k \in 1 .. n : k > j => ~IsUser(msgs[k])
    BY <2>1, RequestType, MarkedIsLast
  <2>4. last \in 0 .. n /\ IsLast(last)
    <3>1. IsLast(j)
      <4> HIDE DEF j, n, msgs
      <4> QED  BY <2>2, <2>3
    <3> HIDE DEF j, n, IsLast
    <3> QED  BY <2>3, <3>1
  <2> HIDE DEF last
  <2>5. m \in 0 .. n /\ \A k \in 1 .. m : k \in 1 .. n /\ k # j
    <3> HIDE DEF j, n, msgs
    <3>1. CASE last = 0
      <4>1. \A k \in 1 .. n : ~IsUser(msgs[k])
        BY <2>2, <2>4, <3>1
      <4>2. j = 0
        BY <2>2, <2>3, <4>1
      <4> QED  BY <2>2, <3>1, <4>2
    <3>2. CASE last # 0
      <4>1. IsUser(msgs[last]) /\ last \in 1 .. n
        BY <2>2, <2>4, <3>2
      <4>2. ~(last > j)
        BY <2>3, <4>1
      <4> QED  BY <2>2, <2>3, <3>2, <4>1, <4>2
    <3> QED  BY <3>1, <3>2
  <2> HIDE DEF m
  <2>6. before = Flat(e, m) \o << "turn" >>
    <3>1. \A k \in 1 .. m : e[k] = << "turn" >> \o msgs[k].content
      BY <2>2, <2>5
    <3>2. [k \in 1 .. m |-> << "turn" >> \o msgs[k].content] = [k \in 1 .. m |-> e[k]]
      BY <3>1
    <3> QED  BY <3>2 DEF Flat
  <2>7. \A k \in 1 .. n : \E w \in Seq(Piece) : e[k] = << "turn" >> \o w
    <3> TAKE k \in 1 .. n
    <3>1. msgs[k].content \in Seq({"text", "marker"})
      BY <2>1, <2>2, RequestType
    <3>2. msgs[k].content \in Seq(Piece)
      BY <3>1 DEF Piece
    <3>3. Added(request.images) \in Seq(Piece)
      <4>1. request.images \in Seq({"plain", "uri", "broken"})
        BY <2>1, RequestType
      <4> QED  BY <4>1 DEF Added, Piece
    <3>4. \A a, b \in Seq(Piece) : a \o b \in Seq(Piece)
      OBVIOUS
    <3> DEFINE w == IF WantsMarkers(Parsed, has_mctx) /\ k = j
                      THEN msgs[k].content \o Added(request.images)
                      ELSE msgs[k].content
    <3>5. w \in Seq(Piece)
      BY <3>2, <3>3, <3>4
    <3>6. e[k] = << "turn" >> \o w
      BY <2>2
    <3> HIDE DEF w
    <3> QED  BY <3>5, <3>6
  <2> HIDE DEF e, n
  <2>8. PICK t \in Seq(Piece) : Prompt = before \o t
    BY <2>2, <2>5, <2>6, <2>7, PromptBegins
  <2>9. before \in Seq(Piece)
    <3>1. Flat(e, m) \in Seq(Piece)
      <4>1. m \in Nat /\ \A k \in 1 .. m : e[k] \in Seq(Piece)
        BY <2>2, <2>5
      <4> QED  BY <4>1, FlatType
    <3>2. << "turn" >> \in Seq(Piece)
      BY DEF Piece
    <3> DEFINE x == Flat(e, m)  y == << "turn" >>
    <3> HIDE DEF x, y
    <3>3. x \o y \in Seq(Piece)
      BY <3>1, <3>2 DEF x, y
    <3> QED  BY <2>6, <3>3 DEF x, y
  <2>10. SubSeq(Prompt, 1, Len(before)) = before
    <3> HIDE DEF before
    <3> QED  BY <2>8, <2>9
  <2> QED  BY <2>10 DEF EarlierTurnsUntouched, before, m, last, n, msgs
<1> QED  BY <1>1, ChatInvariance, PTL

=============================================================================
