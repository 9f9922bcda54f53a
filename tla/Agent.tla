-------------------------------- MODULE Agent --------------------------------
(***************************************************************************)
(* The agentic tool loop of agent/agent.c: the window of messages kept for *)
(* the model, the turn that agent_chat runs over it, the compaction that   *)
(* makes room in the window, and the rollback of a turn that failed.       *)
(*                                                                         *)
(* agent_chat is one call on one thread (gateway.c serialises its callers, *)
(* module Gateway), but it hands control to the provider and to the tools; *)
(* the actions below are the stretches of code between those calls.        *)
(*                                                                         *)
(* A message is abstracted to its role, the turn and the iteration of the  *)
(* loop that added it, and one number: the tool calls an assistant message *)
(* makes, or the position of the call a tool message answers.              *)
(***************************************************************************)
EXTENDS Integers, Sequences

CONSTANTS
  Capacity,     (* MAX_MESSAGES, the length of agent_t.messages             *)
  MaxMessages,  (* agent->max_messages, as configured                       *)
  MaxIter,      (* agent->max_iterations                                    *)
  MaxCalls,     (* bound: tool calls in one response of the provider        *)
  MaxTurns      (* bound: turns explored                                    *)

ASSUME AgentAssumption ==
  /\ Capacity \in Nat /\ Capacity >= 2
  /\ MaxMessages \in Int
  /\ MaxIter \in Nat \ {0}
  /\ MaxCalls \in Nat
  /\ MaxTurns \in Nat

VARIABLES
  messages,   (* agent->messages[0 .. message_count-1]                      *)
  phase,      (* where agent_chat stands: between turns, in the provider,   *)
              (* or running the tool calls of the last response             *)
  iter,       (* the loop counter                                           *)
  preTurn,    (* pre_turn_count                                             *)
  calls,      (* num_calls of the response whose calls are being run        *)
  done,       (* t: how many of them have been answered                     *)
  turn,       (* turns started so far                                       *)
  reply,      (* what the last agent_chat returned                          *)
  before,     (* history: the window when the turn started                  *)
  added,      (* history: messages the turn has added, counted to Limit + 1   *)
  compacted,  (* history: compaction has removed something in this turn     *)
  torn        (* history: a compacted turn of this conversation was rolled  *)
              (* back                                                       *)

control == <<phase, iter, preTurn, calls, done, turn, reply>>
history == <<before, added, compacted, torn>>
vars == <<messages, control, history>>

-----------------------------------------------------------------------------
(* An operator named Wrong... is a variant of the operator it precedes with a *)
(* plausible mistake in it; the specification never uses it.  It shows that a *)
(* property of the specification fails when the code has that mistake.        *)

Roles == {"system", "user", "assistant", "tool"}

Message == [role : Roles, turn : Nat, iter : Nat, n : Nat]

\* max_messages taken without comparing it with MAX_MESSAGES.
WrongLimit == IF MaxMessages > 0 THEN MaxMessages ELSE Capacity

\* The limit agent_add_message and agent_compact_history both derive.
Limit == IF MaxMessages \in 1..Capacity THEN MaxMessages ELSE Capacity

\* The oldest quarter of the window, at least one message.
Quarter == IF Limit \div 4 < 1 THEN 1 ELSE Limit \div 4

HasToolCalls(m) == m.role = "assistant" /\ m.n > 0

\* keep counted twice.
WrongFirstCut(w) == IF 2 + Quarter > Len(w) THEN Len(w) ELSE 2 + Quarter

\* cut_end before it walks back: just past the oldest quarter.
FirstCut(w) == IF 1 + Quarter > Len(w) THEN Len(w) ELSE 1 + Quarter

\* cut_end after it walked back over the assistant messages with tool calls;
\* the first removable message (position 2) is where the walk stops.
CutEnd(w) ==
  IF FirstCut(w) <= 2
  THEN FirstCut(w)
  ELSE CHOOSE c \in 2..FirstCut(w) :
         /\ c = 2 \/ ~HasToolCalls(w[c])
         /\ \A d \in (c + 1)..FirstCut(w) : HasToolCalls(w[d])

\* keep = 0.
WrongCompactKeepsNothing(w) == SubSeq(w, CutEnd(w), Len(w))

\* keep = 2, with the cut moved along.
WrongCompactKeepsQuestion(w) ==
  IF CutEnd(w) <= 1 THEN w
  ELSE SubSeq(w, 1, 2) \o SubSeq(w, CutEnd(w) + 2, Len(w))

\* agent_compact_history: drop positions 2 .. CutEnd(w), keep the system message.
Compact(w) ==
  IF CutEnd(w) <= 1 THEN w
  ELSE SubSeq(w, 1, 1) \o SubSeq(w, CutEnd(w) + 1, Len(w))

\* The window agent_add_message appends to.
Room(w) == IF Len(w) >= Limit THEN Compact(w) ELSE w

AddMessage(w, m) == Append(Room(w), m)

\* One message popped, the user's, as if the turn had added no other.
WrongPopTo(w, n) == IF Len(w) > n THEN SubSeq(w, 1, Len(w) - 1) ELSE w

\* while (message_count > pre_turn_count) agent_pop_last_message()
PopTo(w, n) == IF Len(w) > n THEN SubSeq(w, 1, n) ELSE w

System == [role |-> "system", turn |-> 0, iter |-> 0, n |-> 0]
User(t) == [role |-> "user", turn |-> t, iter |-> 0, n |-> 0]
Assistant(t, i, k) == [role |-> "assistant", turn |-> t, iter |-> i, n |-> k]
ToolResult(t, i, k) == [role |-> "tool", turn |-> t, iter |-> i, n |-> k]

-----------------------------------------------------------------------------

Init ==
  /\ messages = <<>>
  /\ phase = "idle"
  /\ iter = 0
  /\ preTurn = 0
  /\ calls = 0
  /\ done = 0
  /\ turn = 0
  /\ reply = "none"
  /\ before = <<>>
  /\ added = 0
  /\ compacted = FALSE
  /\ torn = FALSE

\* Append m for the turn in progress and record what that did to the window.
Add(m) ==
  /\ messages' = AddMessage(messages, m)
  /\ added' = IF added > Limit THEN added ELSE added + 1
  /\ compacted' = (compacted \/ Room(messages) # messages)

\* The entry of agent_chat: the system message if the window is empty, then
\* pre_turn_count, then the user's message.
StartTurn ==
  LET w == IF messages = <<>> THEN AddMessage(messages, System) ELSE messages
  IN  /\ phase = "idle"
      /\ turn < MaxTurns
      /\ phase' = "calling"
      /\ iter' = 0
      /\ preTurn' = Len(w)
      /\ turn' = turn + 1
      /\ messages' = AddMessage(w, User(turn + 1))
      /\ before' = w
      /\ added' = 1
      /\ compacted' = (Room(w) # w)
      /\ UNCHANGED <<calls, done, reply, torn>>

\* Both failure paths end the same way: pop what the turn added, return an error.
Fail ==
  /\ messages' = PopTo(messages, preTurn)
  /\ phase' = "idle"
  /\ reply' = "failed"
  /\ torn' = (torn \/ compacted)
  /\ UNCHANGED <<preTurn, calls, done, turn, before, added, compacted>>

\* The provider reports an error.
ProviderError ==
  /\ phase = "calling"
  /\ Fail
  /\ UNCHANGED iter

\* The provider asks for k tool calls.
ProviderToolCalls ==
  \E k \in 1..MaxCalls :
    /\ phase = "calling"
    /\ Add(Assistant(turn, iter, k))
    /\ phase' = "tools"
    /\ calls' = k
    /\ done' = 0
    /\ UNCHANGED <<iter, preTurn, turn, reply, before, torn>>

\* The next tool call is run, known tool or not, and its result appended.
RunToolCall ==
  /\ phase = "tools"
  /\ done < calls
  /\ Add(ToolResult(turn, iter, done + 1))
  /\ done' = done + 1
  /\ UNCHANGED <<phase, iter, preTurn, calls, turn, reply, before, torn>>

\* t < num_calls - 1.
WrongNextIterationEarly ==
  /\ phase = "tools"
  /\ done + 1 >= calls
  /\ iter + 1 < MaxIter
  /\ iter' = iter + 1
  /\ phase' = "calling"
  /\ UNCHANGED <<messages, preTurn, calls, done, turn, reply, history>>

\* The loop counter not advanced after a round of tool calls.
WrongNextIterationUncounted ==
  /\ phase = "tools"
  /\ done = calls
  /\ phase' = "calling"
  /\ UNCHANGED <<messages, iter, preTurn, calls, done, turn, reply, history>>

\* Every call is answered and the loop goes round.
NextIteration ==
  /\ phase = "tools"
  /\ done = calls
  /\ iter + 1 < MaxIter
  /\ iter' = iter + 1
  /\ phase' = "calling"
  /\ UNCHANGED <<messages, preTurn, calls, done, turn, reply, history>>

\* The loop ends without an answer.
MaxIterations ==
  /\ phase = "tools"
  /\ done = calls
  /\ iter + 1 >= MaxIter
  /\ iter' = iter + 1
  /\ Fail

\* The provider answers in plain text.
FinalResponse ==
  /\ phase = "calling"
  /\ Add(Assistant(turn, iter, 0))
  /\ phase' = "idle"
  /\ reply' = "answered"
  /\ UNCHANGED <<iter, preTurn, calls, done, turn, before, torn>>

\* agent_new_conversation, called between turns by the slash commands.
NewConversation ==
  /\ phase = "idle"
  /\ messages # <<>>
  /\ messages' = <<>>
  /\ torn' = FALSE
  /\ UNCHANGED <<control, before, added, compacted>>

TurnStep ==
  \/ ProviderError
  \/ ProviderToolCalls
  \/ RunToolCall
  \/ NextIteration
  \/ MaxIterations
  \/ FinalResponse

Next ==
  \/ StartTurn
  \/ TurnStep
  \/ NewConversation

Spec == Init /\ [][Next]_vars

\* The thread in agent_chat keeps running: the provider call returns (120 s
\* timeout of http_client.c) and so do the tools.
FairSpec == Spec /\ WF_vars(TurnStep)

-----------------------------------------------------------------------------

\* Every variable keeps the type the code gives it.
TypeOK ==
  /\ messages \in Seq(Message)
  /\ phase \in {"idle", "calling", "tools"}
  /\ iter \in 0..MaxIter
  /\ preTurn \in Nat
  /\ calls \in Nat
  /\ done \in 0..calls
  /\ turn \in 0..MaxTurns
  /\ reply \in {"none", "answered", "failed"}
  /\ before \in Seq(Message)
  /\ added \in Nat
  /\ compacted \in BOOLEAN
  /\ torn \in BOOLEAN

\* The window never outgrows its configured limit: a full window can always be compacted, however
\* many assistant messages the walk back refuses to cut.  With a limit of 1 the
\* system message cannot make room for another one and the window holds two.
WindowBounded == Len(messages) <= IF Limit < 2 THEN 2 ELSE Limit

\* agent_add_message never writes past messages[MAX_MESSAGES - 1], whatever limit
\* is configured.
NoOverflow == Len(messages) <= Capacity

\* The system message is the first of the window and appears nowhere else,
\* whatever compaction, rollback and new conversations did to it.
SystemFirst ==
  \A i \in 1..Len(messages) : messages[i].role = "system" <=> i = 1

SameIteration(m, a) == m.turn = a.turn /\ m.iter = a.iter

Answers(m, a) == m.role = "tool" /\ HasToolCalls(a) /\ SameIteration(m, a)

\* In a conversation where no compacted turn was rolled back, the provider is
\* never shown a tool call without its result: each assistant message with tool
\* calls is followed at once by one result per call, in the order of the calls.
CallsAnswered ==
  (phase = "calling" /\ ~torn) =>
    \A i \in 1..Len(messages) : HasToolCalls(messages[i]) =>
      /\ i + messages[i].n <= Len(messages)
      /\ \A k \in 1..messages[i].n :
           messages[i + k] = ToolResult(messages[i].turn, messages[i].iter, k)

\* When compaction does separate results from their call, it does so only at the
\* head of the window, whatever was rolled back since: an orphaned result is preceded by
\* nothing but the system message and other results of its own iteration.
OrphansOnlyAtHead ==
  \A i \in 1..Len(messages) :
    (/\ messages[i].role = "tool"
     /\ ~\E j \in 1..(i - 1) : Answers(messages[i], messages[j])) =>
       \A j \in 2..i : /\ messages[j].role = "tool"
                       /\ SameIteration(messages[j], messages[i])

\* The provider still sees the question it is asked to answer, as long as the
\* turn has added no more messages than a compacted full window holds.
QuestionKept ==
  (phase = "calling" /\ added <= Limit - Quarter) =>
    \E i \in 1..Len(messages) : messages[i] = User(turn)

\* A turn that fails without compaction leaves the window as it found it, on the
\* provider's error and on the iteration limit alike (agent.c:403-411, 469-474).
RollbackExact ==
  [][(phase # "idle" /\ phase' = "idle" /\ reply' = "failed" /\ ~compacted)
       => messages' = before]_vars

\* Every turn comes to an end.
TurnEnds == phase # "idle" ~> phase = "idle"

-----------------------------------------------------------------------------
(* What comments of the code say, and the code does not do.                *)

\* agent.c:13, "[FIX-3] History compaction never splits a tool_calls/tool-result
\* pair": whenever the provider is called, each tool result in the window comes
\* after the assistant message whose call it answers.
NoSplitPair ==
  phase = "calling" =>
    \A i \in 1..Len(messages) : messages[i].role = "tool" =>
      \E j \in 1..(i - 1) : Answers(messages[i], messages[j])

=============================================================================
