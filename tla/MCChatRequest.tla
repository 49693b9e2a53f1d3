--------------------------- MODULE MCChatRequest ----------------------------
(* ChatRequest with the texts and images TLC works on.                     *)
EXTENDS ChatRequest

AllHandlers == {"PredictStream", "Predict", "Embedding", "TokenizeString"}

SmallTexts == {<< >>, << "text" >>, << "text", "marker" >>}

UpToTwoImages == {<< >>, << "plain" >>, << "uri" >>, << "broken" >>,
                  << "plain", "uri" >>, << "plain", "broken" >>}

Plain == [tools |-> "absent", tool_choice |-> "absent",
          enable_thinking |-> FALSE, reasoning_format |-> "absent"]

\* The tools and the choice among them are parsed together, the rest alone.
ToolsOrReasoning ==
  {[Plain EXCEPT !.tools = t, !.tool_choice = c] :
     t \in {"absent", "tools", "other json", "no json"},
     c \in {"absent", "required", "unknown"}}
    \cup {[Plain EXCEPT !.reasoning_format = f] : f \in Names \cup {"unknown"}}
    \cup {[Plain EXCEPT !.enable_thinking = TRUE]}

=============================================================================
