------------------------------- MODULE Provider -------------------------------
(***************************************************************************)
(* What the providers make of the model's replies (providers/ollama and    *)
(* providers/openai) and what agent_chat then runs: the normalisation of   *)
(* tool calls, their ids, the recovery of calls from a rejected reply, and *)
(* parse_tool_arguments.                                                   *)
(*                                                                         *)
(* A call is abstracted to what the code asks of it: whether it has a      *)
(* "function", whether that has a usable name, and whether its arguments   *)
(* are missing, a JSON object, a string that is JSON or one that is not.   *)
(*                                                                         *)
(* Operators named Wrong... are faulty variants that the specification     *)
(* never uses; see module Agent.                                           *)
(***************************************************************************)
EXTENDS Integers, Sequences, SequencesExt, Ordering

CONSTANTS
  Backends,     (* the providers in use, of "ollama" and "openai"           *)
  MaxCalls,     (* bound: tool calls in one reply                           *)
  MaxArrays,    (* bound: brackets in a failed_generation                   *)
  MaxCounter    (* bound: ids given out                                     *)

VARIABLES
  backend,    (* provider->chat_complete                                    *)
  counter,    (* call_counter of ollama.c, fg_counter of openai.c           *)
  phase,      (* between calls of the provider, or with its response        *)
  reply,      (* the body of the last HTTP response                         *)
  response,   (* the llm_response_t made of it                              *)
  ran         (* the calls agent_chat has run for it                        *)

provider == <<backend, counter, phase, reply, response, ran>>

-----------------------------------------------------------------------------
(* Replies.                                                                *)

Call(function, name, args, id) ==
  [function |-> function, name |-> name, args |-> args, id |-> id]

Names == {"usable", "unusable"}
Arguments == {"none", "object", "json", "broken"}

Calls(ids) ==
  {Call(TRUE, name, args, id) : name \in Names, args \in Arguments, id \in ids}
    \cup {Call(FALSE, "unusable", "none", "none")}

\* No HTTP response, no JSON, or an error in it; for OpenAI also no message in it.
NoReply == [kind |-> "failed"]

\* How a generation ended, the text of the message and the tool calls in it.  A text may
\* be nothing but a <think> block.
Contents == {"none", "empty", "think", "text"}

Message(ids) ==
  [kind : {"message"}, end : {"stop", "length"}, content : Contents,
   calls : BoundedSeq(Calls(ids), MaxCalls)]

\* A status outside 200-299 with code tool_use_failed: what cJSON_Parse makes of the
\* failed generation from each "[" on.  <<>> stands for what is not JSON, not an array
\* or an empty one.  With another code there are none.
Rejection ==
  [kind : {"rejected"},
   arrays : BoundedSeq(BoundedSeq(Calls({"none"}) \ {Call(FALSE, "unusable", "none", "none")},
                                  MaxCalls), MaxArrays)]

Replies ==
  IF backend = "ollama"
  THEN {NoReply} \cup Message({"none"})
  ELSE {NoReply} \cup Message({"given", "none"}) \cup Rejection

-----------------------------------------------------------------------------
(* Responses.                                                              *)

Error == [kind |-> "error", content |-> "none", calls |-> <<>>]

Response(content, calls) == [kind |-> "ok", content |-> content, calls |-> calls]

\* The array of a failed attempt at recovery is freed twice.
DoubleFree == [kind |-> "undefined", content |-> "none", calls |-> <<>>]

\* "arguments" as it is stored: a string, "{}" if there was none.
Encoded(args) ==
  CASE args = "none" -> "empty"
    [] args \in {"object", "json"} -> "json"
    [] OTHER -> "broken"

Counted(n) == <<"counter", n>>
Server(i, id) == IF id = "given" THEN <<"server", i>> ELSE <<"none", 0>>

Normal(id, i, call) ==
  [id |-> id, of |-> i, name |-> call.name, args |-> Encoded(call.args)]

\* A call ollama_chat_complete takes over.
Valid(call) == call.function /\ call.name = "usable" /\ call.args # "broken"

Kept(calls) == InOrder({i \in DOMAIN calls : Valid(calls[i])})

\* The count started anew in each reply.
WrongOllamaCalls(calls) ==
  LET kept == Kept(calls)
  IN  [k \in DOMAIN kept |-> Normal(Counted(k), kept[k], calls[kept[k]])]

\* The loop of ollama_chat_complete.
OllamaCalls(calls) ==
  LET kept == Kept(calls)
  IN  [k \in DOMAIN kept |-> Normal(Counted(counter + k), kept[k], calls[kept[k]])]

\* Calls of a generation that was cut off are run all the same.
WrongOllama(r) ==
  IF r.kind = "failed" THEN Error
  ELSE IF r.calls # <<>> /\ OllamaCalls(r.calls) = <<>> /\ r.content = "none" THEN Error
  ELSE Response(r.content, OllamaCalls(r.calls))

\* ollama_chat_complete: calls in a generation that was cut off make an error, and so
\* do calls none of which is valid, unless there is a text, be it an empty one.
Ollama(r) ==
  IF r.kind = "failed" \/ (r.end = "length" /\ r.calls # <<>>) THEN Error
  ELSE IF r.calls # <<>> /\ OllamaCalls(r.calls) = <<>> /\ r.content = "none" THEN Error
  ELSE Response(r.content, OllamaCalls(r.calls))

\* The loop of openai_chat_complete: ids and arguments are taken as they come.
OpenAICalls(calls) ==
  LET kept == InOrder({i \in DOMAIN calls : calls[i].function})
  IN  [k \in DOMAIN kept |->
        Normal(Server(kept[k], calls[kept[k]].id), kept[k], calls[kept[k]])]

\* The arrays of a rejected reply that are not empty, and the first of them.
Full(arrays)  == {i \in DOMAIN arrays : arrays[i] # <<>>}
First(arrays) == arrays[CHOOSE i \in Full(arrays) : \A j \in Full(arrays) : i <= j]

\* The recovery of tool_use_failed: the first array that is not empty is it, or ends it.
Recovered(r) ==
  LET calls == First(r.arrays)
  IN  IF Full(r.arrays) = {} THEN Error
      ELSE IF \E i \in DOMAIN calls : calls[i].name = "unusable" THEN DoubleFree
      ELSE Response("none", [i \in DOMAIN calls |-> Normal(Counted(counter + i), i, calls[i])])

\* openai_chat_complete: an empty text is no text; a generation that was cut off is
\* used like any other.
OpenAI(r) ==
  CASE r.kind = "failed"   -> Error
    [] r.kind = "rejected" -> Recovered(r)
    [] r.kind = "message"  ->
         Response(IF r.content = "empty" THEN "none" ELSE r.content, OpenAICalls(r.calls))

-----------------------------------------------------------------------------

Init ==
  /\ backend \in Backends
  /\ counter = 0
  /\ phase = "idle"
  /\ reply = NoReply
  /\ response = Error
  /\ ran = <<>>

\* One call of chat_complete.
Chat ==
  /\ phase = "idle" /\ counter + MaxCalls <= MaxCounter
  /\ \E r \in Replies :
       /\ reply' = r
       /\ response' = IF backend = "ollama" THEN Ollama(r) ELSE OpenAI(r)
       /\ counter' = counter + Cardinality({k \in DOMAIN response'.calls :
                                              response'.calls[k].id[1] = "counter"})
       /\ phase' = IF response'.kind = "undefined" THEN "undefined" ELSE "received"
  /\ UNCHANGED <<backend, ran>>

\* parse_tool_arguments: what is not JSON counts as no arguments.
ToolArguments(args) == IF args = "broken" THEN "empty" ELSE args

\* The calls of the response are run in their order, those with an unknown name to the
\* answer "Unknown tool".
RunTools ==
  /\ phase = "received"
  /\ response.calls # <<>>
  /\ ran' = [k \in DOMAIN response.calls |->
               [of |-> response.calls[k].of, args |-> ToolArguments(response.calls[k].args)]]
  /\ phase' = "ran"
  /\ UNCHANGED <<backend, counter, reply, response>>

\* An error ends the turn, a text is the answer; or the results of the tools are sent.
Continue ==
  /\ \/ phase = "ran"
     \/ phase = "received" /\ response.calls = <<>>
  /\ phase' = "idle"
  /\ reply' = NoReply /\ response' = Error /\ ran' = <<>>
  /\ UNCHANGED <<backend, counter>>

Next == Chat \/ RunTools \/ Continue

Spec == Init /\ [][Next]_provider

-----------------------------------------------------------------------------

\* Every call of the reply, wherever in it the calls are.
AskedFor ==
  IF reply.kind = "message" THEN reply.calls
  ELSE First(reply.arrays)

\* "Surface it as an error ... instead of silently executing a tool with empty /
\* garbled arguments" (ollama.c): what is run is what the model has asked for, in its
\* order, once, with its arguments, and under Ollama nothing of a generation that was
\* cut off and no call whose arguments cannot be read.
RunsWhatWasAsked ==
  phase = "ran" =>
    /\ \A j, k \in DOMAIN ran : j < k => ran[j].of < ran[k].of
    /\ \A k \in DOMAIN ran :
         LET asked == AskedFor[ran[k].of].args
         IN  asked # "broken" => (ran[k].args = "empty" <=> asked = "none")
    /\ backend = "ollama" =>
         /\ reply.end = "stop"
         /\ \A k \in DOMAIN ran : AskedFor[ran[k].of].args # "broken"

\* "Unique monotonic ID - reusing call_0/call_1 per response causes the model to
\* misattribute tool results" (ollama.c): an id the program gives is not one it has
\* given before, nor given to two calls of a reply.
IdsFresh ==
  [][\A j, k \in DOMAIN response'.calls :
       (phase = "idle" /\ phase' = "received" /\ response'.calls[k].id[1] = "counter") =>
         /\ response'.calls[k].id[2] \in (counter + 1)..counter'
         /\ response'.calls[j].id = response'.calls[k].id => j = k]_provider

-----------------------------------------------------------------------------
(* What comments of the code say, and the code does not do.                *)

\* provider.h: "Text response (may be NULL if tool_calls)": a response with neither an
\* error nor tool calls has a text, which agent_chat passes on to strdup.
AnswerHasText ==
  phase = "received" /\ response.kind = "ok" /\ response.calls = <<>>
    => response.content # "none"
=============================================================================
