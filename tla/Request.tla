-------------------------------- MODULE Request --------------------------------
(***************************************************************************)
(* What agent_chat sends after it has run the tools of a reply: the        *)
(* messages as they are stored, build_messages_json with the wire format   *)
(* of the provider, the tools of the registry, and the body each provider  *)
(* makes of them.                                                          *)
(*                                                                         *)
(* Operators named Wrong... are faulty variants that the specification     *)
(* never uses; see module Agent.                                           *)
(***************************************************************************)
EXTENDS Provider

CONSTANTS
  MaxTools,     (* MAX_TOOLS                                                *)
  Registrations (* the tools registered at boot, in their order             *)

-----------------------------------------------------------------------------
(* The registry of tools.                                                  *)

Tool(name, exec) == [name |-> name, exec |-> exec]

\* tool_register: a tool too many, or one without a name, is not taken; nobody asks.
tool_register(tools, tool) ==
  IF Len(tools) >= MaxTools \/ tool.name = "none" THEN tools ELSE Append(tools, tool)

Registry == FoldLeft(tool_register, <<>>, Registrations)

NoTool == Tool("none", "none")

\* tool_find: the first of that name.
tool_find(name) ==
  LET i == SelectInSeq(Registry, LAMBDA t : t.name = name)
  IN  IF i = 0 THEN NoTool ELSE Registry[i]

\* tool_generate_json
tool_generate_json == [i \in DOMAIN Registry |-> Registry[i].name]

-----------------------------------------------------------------------------
(* The messages.                                                           *)

StoredMessage(role, content, id, name, calls) ==
  [role |-> role, content |-> content, id |-> id, name |-> name, calls |-> calls]

NoId == Server(1, "none")

\* What is left of a text without its <think> blocks.
strip_think_tags(content) == IF content = "think" THEN "empty" ELSE content

\* What agent_chat adds for a reply with tool calls: the assistant's message, then a
\* result for each call under its id and name.
Added ==
  <<StoredMessage("assistant", strip_think_tags(response.content), NoId, "none", response.calls)>>
    \o [k \in DOMAIN response.calls |->
          StoredMessage("tool", "text", response.calls[k].id, response.calls[k].name, <<>>)]

\* The turn's messages as they stand in the window.
Window ==
  <<StoredMessage("system", "text", NoId, "none", <<>>),
    StoredMessage("user", "text", NoId, "none", <<>>)>> \o Added

\* provider->fmt, as ollama_create and openai_create set it.
Format ==
  IF backend = "ollama"
  THEN [include_name |-> TRUE, args_as_object |-> TRUE, tool_choice_auto |-> FALSE,
        empty_content |-> FALSE]
  ELSE [include_name |-> FALSE, args_as_object |-> FALSE, tool_choice_auto |-> TRUE,
        empty_content |-> FALSE]

\* The arguments of a stored call as they are sent: an object, an empty one if the
\* string is not JSON, or the string as it is.
SentArguments(args) ==
  IF Format.args_as_object
  THEN <<"object", IF args = "json" THEN "json" ELSE "empty">>
  ELSE <<"string", args>>

SentCall(call) == [id |-> call.id, name |-> call.name, args |-> SentArguments(call.args)]

\* The id of a result left out where its name is.
WrongSentMessage(m) ==
  LET toolOnly == m.role = "assistant" /\ m.calls # <<>> /\ m.content # "text"
      result   == m.role = "tool" /\ Format.include_name
  IN  [role    |-> m.role,
       content |-> IF toolOnly /\ ~Format.empty_content THEN "absent" ELSE m.content,
       id      |-> IF result THEN m.id ELSE NoId,
       name    |-> IF result THEN m.name ELSE "none",
       calls   |-> [k \in DOMAIN m.calls |-> SentCall(m.calls[k])]]

\* A message of build_messages_json: no content where there are only tool calls, the id
\* of a result always and its name if the provider wants it.
SentMessage(m) ==
  LET toolOnly == m.role = "assistant" /\ m.calls # <<>> /\ m.content # "text"
      result   == m.role = "tool"
  IN  [role    |-> m.role,
       content |-> IF toolOnly /\ ~Format.empty_content THEN "absent" ELSE m.content,
       id      |-> IF result THEN m.id ELSE NoId,
       name    |-> IF result /\ Format.include_name THEN m.name ELSE "none",
       calls   |-> [k \in DOMAIN m.calls |-> SentCall(m.calls[k])]]

build_messages_json ==
  LET window == Window IN [i \in DOMAIN window |-> SentMessage(window[i])]

\* The body of the next request; tools that there are none of are not sent, and
\* tool_choice goes with them.
Body ==
  [messages |-> build_messages_json, tools |-> tool_generate_json,
   choice   |-> Format.tool_choice_auto /\ tool_generate_json # <<>>]

-----------------------------------------------------------------------------

\* The results of a message with calls stand behind it, one for each and in their order.
ResultsFollow(messages) ==
  \A i \in DOMAIN messages : \A k \in DOMAIN messages[i].calls :
    /\ i + k \in DOMAIN messages
    /\ messages[i + k].role = "tool"
    /\ messages[i + k].id = messages[i].calls[k].id

\* The model is sent back what it has said: the calls of its reply that were run, in
\* their order, under the ids of the results behind them and with the arguments it gave,
\* whichever way the provider encodes them; where it said something beside them, and
\* beside what it thought, that too; and a tool is offered only if it can be found.
SentAsStored ==
  LET body == Body
  IN  phase = "ran" =>
        /\ ResultsFollow(body.messages)
        /\ \E i \in DOMAIN body.messages :
             LET sent == body.messages[i]
             IN  /\ Len(sent.calls) = Len(ran)
                 /\ sent.content = "text" <=> reply.kind = "message" /\ reply.content = "text"
                 /\ \A k \in DOMAIN ran :
                      LET asked == AskedFor[ran[k].of]
                      IN  /\ sent.calls[k].name = asked.name
                          /\ asked.args # "broken" =>
                               (sent.calls[k].args[2] = "json" <=> asked.args # "none")
        /\ \A i \in DOMAIN body.tools : tool_find(body.tools[i]) # NoTool
=============================================================================
