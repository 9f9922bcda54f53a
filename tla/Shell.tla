-------------------------------- MODULE Shell --------------------------------
(***************************************************************************)
(* One call of shell_exec (tools/shell/shell_tool.c): the poll loop of     *)
(* shell_run_timed against the child it forks, the processes the child     *)
(* leaves in the background, the pipe they all write to, and the clock.    *)
(*                                                                         *)
(* The pipe is a queue of bytes, which are text or zero.  One step of the  *)
(* tool is one read, one waitpid or one look at the clock; the other       *)
(* processes and the clock move between any two of them.                   *)
(*                                                                         *)
(* Operators named Wrong... are faulty variants that the specification     *)
(* never uses; see module Agent.                                           *)
(***************************************************************************)
EXTENDS Integers, Sequences, SequencesExt

CONSTANTS
  Timeouts,         (* what the model may ask for as timeout                *)
  DefaultTimeout,   (* DEFAULT_TIMEOUT                                      *)
  MaxTimeout,       (* 300                                                  *)
  Codes,            (* exit codes                                           *)
  Chunk,            (* sizeof(buf) - 1                                      *)
  MaxOutput,        (* MAX_OUTPUT_SIZE                                      *)
  PipeSize,         (* what the kernel buffers in a pipe                    *)
  MaxWrites,        (* bound: bytes written by a command that is not Endless *)
  Endless           (* whether the processes may write for ever             *)

ASSUME ShellAssumption ==
  /\ Timeouts \subseteq Int
  /\ MaxTimeout \in Nat /\ DefaultTimeout \in 1..MaxTimeout
  /\ Codes \subseteq Nat
  /\ Chunk \in Nat \ {0} /\ MaxOutput \in Nat \ {0} /\ PipeSize \in Nat \ {0}
  /\ MaxWrites \in Nat
  /\ Endless \in BOOLEAN

VARIABLES
  tool,         (* where shell_execute stands                               *)
  left,         (* time left until the deadline                             *)
  child,        (* the process forked: sh, or what it has become            *)
  background,   (* whether a process it started still has the pipe          *)
  pipe,         (* bytes written and not read                               *)
  budget,       (* bytes the processes may still write                      *)
  code,         (* the code the child has exited with                       *)
  out,          (* sb.len                                                   *)
  exit,         (* *out_exit                                                *)
  note,         (* what is appended to the output                           *)
  owed,         (* history: text written while the child was there, up to   *)
                (* MaxOutput                                                *)
  binary,       (* history: a zero has been written                         *)
  lost          (* history: text that was read was thrown away              *)

processes == <<child, background, budget, code, owed, binary>>
vars == <<tool, left, pipe, out, exit, note, lost, processes>>

-----------------------------------------------------------------------------

Bytes  == {"text", "zero"}
NoCode == -1

Least(a, b) == IF a < b THEN a ELSE b

\* The timeout shell_execute goes by.
Granted(t) == IF t <= 0 \/ t > MaxTimeout THEN DefaultTimeout ELSE t

Init ==
  /\ tool = "idle"
  /\ left = 0
  /\ child = "none"
  /\ background = FALSE
  /\ pipe = <<>>
  /\ budget = MaxWrites
  /\ code = NoCode
  /\ out = 0
  /\ exit = NoCode
  /\ note = "none"
  /\ owed = 0
  /\ binary = FALSE
  /\ lost = FALSE

-----------------------------------------------------------------------------
(* The call.                                                               *)

\* No command, or one the allowlist does not permit.
Refuse ==
  /\ tool = "idle"
  /\ tool' = "refused"
  /\ UNCHANGED <<left, pipe, out, exit, note, lost, processes>>

\* pipe or fork fails.
SpawnFails ==
  /\ tool = "idle"
  /\ tool' = "failed"
  /\ UNCHANGED <<left, pipe, out, exit, note, lost, processes>>

Spawn(t) ==
  /\ tool = "idle"
  /\ tool' = "drain"
  /\ left' = Granted(t)
  /\ child' = "running"
  /\ UNCHANGED <<pipe, out, exit, note, lost, background, budget, code, owed, binary>>

\* What strbuf_append takes of a chunk: the text before the first zero.
TextOf(chunk) ==
  IF \E i \in DOMAIN chunk : chunk[i] = "zero"
  THEN SelectInSeq(chunk, LAMBDA b : b = "zero") - 1
  ELSE Len(chunk)

\* read: a chunk of the pipe, kept as far as the cap allows.
Take ==
  LET chunk == SubSeq(pipe, 1, Least(Chunk, Len(pipe)))
      kept  == SubSeq(chunk, 1, Least(Len(chunk), MaxOutput - out))
  IN  /\ pipe # <<>>
      /\ out' = out + TextOf(kept)
      /\ lost' = (lost \/ TextOf(kept) < TextOf(chunk))
      /\ pipe' = SubSeq(pipe, Len(chunk) + 1, Len(pipe))

Read ==
  /\ tool = "drain"
  /\ Take
  /\ UNCHANGED <<tool, left, exit, note, processes>>

\* The pipe is empty: EAGAIN, or the end of it.
Drained ==
  /\ tool = "drain" /\ pipe = <<>>
  /\ tool' = "wait"
  /\ UNCHANGED <<left, pipe, out, exit, note, lost, processes>>

\* The last drain left out.
WrongWait ==
  /\ tool = "wait"
  /\ IF child = "exited"
     THEN /\ child' = "reaped"
          /\ exit' = code
          /\ tool' = "close"
     ELSE tool' = "check" /\ UNCHANGED <<child, exit>>
  /\ UNCHANGED <<left, pipe, out, note, lost, background, budget, code, owed, binary>>

\* waitpid(WNOHANG)
Wait ==
  /\ tool = "wait"
  /\ IF child = "exited"
     THEN /\ child' = "reaped"
          /\ exit' = code
          /\ tool' = "last"
     ELSE tool' = "check" /\ UNCHANGED <<child, exit>>
  /\ UNCHANGED <<left, pipe, out, note, lost, background, budget, code, owed, binary>>

\* The deadline looked at only where the child is gone.
WrongDeadline ==
  /\ tool = "check"
  /\ IF left = 0 /\ child # "running"
     THEN /\ child' = "reaped"
          /\ note' = "timed out"
          /\ tool' = "last"
     ELSE tool' = "sleep" /\ UNCHANGED <<child, note>>
  /\ UNCHANGED <<left, pipe, out, exit, lost, background, budget, code, owed, binary>>

\* The deadline: kill and waitpid, whether the child is there or has just exited.
Check ==
  /\ tool = "check"
  /\ IF left = 0
     THEN /\ child' = "reaped"
          /\ note' = "timed out"
          /\ tool' = "last"
     ELSE tool' = "sleep" /\ UNCHANGED <<child, note>>
  /\ UNCHANGED <<left, pipe, out, exit, lost, background, budget, code, owed, binary>>

Awake ==
  /\ tool = "sleep"
  /\ tool' = "drain"
  /\ UNCHANGED <<left, pipe, out, exit, note, lost, processes>>

LastRead ==
  /\ tool = "last"
  /\ Take
  /\ UNCHANGED <<tool, left, exit, note, processes>>

LastDrained ==
  /\ tool = "last" /\ pipe = <<>>
  /\ tool' = "close"
  /\ UNCHANGED <<left, pipe, out, exit, note, lost, processes>>

\* close, the note, and the answer.
Close ==
  /\ tool = "close"
  /\ tool' = "done"
  /\ note' = IF note = "none" /\ out >= MaxOutput THEN "truncated" ELSE note
  /\ UNCHANGED <<left, pipe, out, exit, lost, processes>>

Tool ==
  \/ Refuse \/ SpawnFails \/ \E t \in Timeouts : Spawn(t)
  \/ Read \/ Drained \/ Wait \/ Check \/ Awake \/ LastRead \/ LastDrained \/ Close

-----------------------------------------------------------------------------
(* The processes behind the pipe, and the clock.                           *)

Write(b) ==
  /\ child = "running" \/ background
  /\ tool \notin {"done"} /\ Len(pipe) < PipeSize
  /\ Endless \/ budget > 0
  /\ pipe' = Append(pipe, b)
  /\ budget' = IF Endless THEN budget ELSE budget - 1
  /\ owed' = IF child = "running" /\ b = "text" THEN Least(MaxOutput, owed + 1) ELSE owed
  /\ binary' = (binary \/ b = "zero")
  /\ UNCHANGED <<tool, left, out, exit, note, lost, child, background, code>>

Fork ==
  /\ child = "running"
  /\ background' = TRUE
  /\ UNCHANGED <<tool, left, pipe, out, exit, note, lost, child, budget, code, owed, binary>>

BackgroundEnds ==
  /\ background
  /\ background' = FALSE
  /\ UNCHANGED <<tool, left, pipe, out, exit, note, lost, child, budget, code, owed, binary>>

\* The child exits with a code, or is ended by a signal.
ChildExits ==
  /\ child = "running"
  /\ child' = "exited"
  /\ code' \in Codes \cup {NoCode}
  /\ UNCHANGED <<tool, left, pipe, out, exit, note, lost, background, budget, owed, binary>>

Processes == (\E b \in Bytes : Write(b)) \/ Fork \/ BackgroundEnds \/ ChildExits

Tick ==
  /\ left > 0
  /\ left' = left - 1
  /\ UNCHANGED <<tool, pipe, out, exit, note, lost, processes>>

Next == Tool \/ Processes \/ Tick

\* The tool is scheduled and the clock runs; nothing is asked of the command.
Spec == Init /\ [][Next]_vars /\ WF_vars(Tool) /\ WF_vars(Tick)

-----------------------------------------------------------------------------

\* Everything the command wrote before it exited or was killed is in the answer, up to
\* the cap, however the exit falls between the reads and the waitpid and whatever a
\* background process writes, unless it holds a zero byte; an answer that text was left
\* out of says so; and nothing is kept beyond the cap, though the chunks do not divide it.
OutputComplete ==
  /\ out <= MaxOutput
  /\ tool = "done" =>
       /\ ~binary => out >= owed
       /\ lost => note # "none"

\* shell_exec leaves no zombie behind: when it answers, the child has been waited for,
\* on every path, also if it exits between the waitpid and the kill.  The exit code in
\* the answer is the child's own, and only a child that was killed has none.
ChildReaped ==
  tool = "done" =>
    /\ child = "reaped"
    /\ exit = code \/ (exit = NoCode /\ note = "timed out")

\* shell_tool.c: "Hard deadline in seconds": the call is answered.
Returns == tool = "drain" ~> tool = "done"
=============================================================================
