-------------------------------- MODULE Serial --------------------------------
(***************************************************************************)
(* One call of serial_execute (tools/serial/serial_tool.c) against the     *)
(* device at the other end of the line: the login, the commands, and       *)
(* read_until with its deadline.                                           *)
(*                                                                         *)
(* What travels is tokens: a prompt, an echo, a piece of text.  The device *)
(* answers what is typed to it in order, and each token arrives whenever   *)
(* it likes, so an answer may come after the tool has stopped waiting for  *)
(* it.                                                                     *)
(*                                                                         *)
(* Operators named Wrong... are faulty variants that the specification     *)
(* never uses; see module Agent.                                           *)
(***************************************************************************)
EXTENDS Integers, Sequences, SequencesExt

CONSTANTS
  Commands,   (* how many commands the call has                             *)
  Profiles,   (* how tool and device may be set up, see Profile             *)
  Leftovers,  (* what the device may still have to say when the port is     *)
              (* opened                                                     *)
  MaxBuffer,  (* SERIAL_MAX_OUTPUT_BYTES, in tokens                         *)
  MaxLine     (* what the kernel keeps of an input line, in tokens          *)

(* A profile: whether the tool logs in and has a password, whether the     *)
(* device asks for one and accepts it, what it prints above its login      *)
(* prompt, and what a command prints.                                      *)

VARIABLES
  tool,       (* where serial_execute stands                                *)
  cmd,        (* the command it is at                                       *)
  port,       (* whether the port is open                                   *)
  buf,        (* the strbuf of read_until                                   *)
  late,       (* mono_now_ms has passed the deadline                        *)
  results,    (* the results so far; "at" is a history: whom the device     *)
              (* took the command for                                       *)
  status,     (* "status" of the answer                                     *)
  rx,         (* arrived and not read                                       *)
  todo,       (* what the device has still to send                          *)
  device,     (* what the device takes the next line for                    *)
  profile,    (* the profile of this call                                   *)
  stale       (* history: there was something left over                     *)

call  == <<tool, cmd, port, late, results, status>>
line  == <<rx, todo, device>>
fixed == <<profile, stale>>
vars  == <<call, buf, line, fixed>>

-----------------------------------------------------------------------------
(* Tokens, and what the device answers.                                    *)

Token(kind, of, hash) == [kind |-> kind, cmd |-> of, hash |-> hash]

Prompt     == Token("prompt", 0, TRUE)        \* dev.prompt on a line of its own
Login      == Token("login", 0, FALSE)        \* one of the login patterns
Password   == Token("password", 0, FALSE)     \* "password:"
Failed     == Token("text", 0, FALSE)         \* "Login incorrect"
Echo(i)    == Token("echo", i, FALSE)
Text(i)    == Token("text", i, FALSE)
Hash(i)    == Token("text", i, TRUE)          \* text that holds the prompt

Enter == 0    \* an empty line
User  == -1
Pass  == -2

\* What a command prints: for profile.hash a line that holds the prompt is among it.
Output(i) == IF profile.hash THEN <<Hash(i), Text(i)>> ELSE <<Text(i)>>

LoginPrompt == (IF profile.banner THEN <<Hash(0)>> ELSE <<>>) \o <<Login>>

\* What the device makes of a line l.
Becomes(l) ==
  CASE device = "login"    -> IF l = Enter THEN "login"
                              ELSE IF profile.asks THEN "password" ELSE "shell"
    [] device = "password" -> IF l = Pass /\ profile.accepts THEN "shell" ELSE "login"
    [] device = "shell"    -> "shell"

Answer(l) ==
  CASE device = "login"    -> IF l = Enter THEN LoginPrompt
                              ELSE IF profile.asks THEN <<Password>> ELSE <<Prompt>>
    [] device = "password" -> IF Becomes(l) = "shell" THEN <<Prompt>>
                              ELSE <<Failed>> \o LoginPrompt
    [] device = "shell"    -> IF l \in 1..Commands
                              THEN <<Echo(l)>> \o Output(l) \o <<Prompt>>
                              ELSE <<Prompt>>

\* serial_send
Type(l) ==
  /\ device' = Becomes(l)
  /\ todo' = todo \o Answer(l)

\* serial_send where nobody looks at whether write fails.
TypeBlindly(l) == Type(l) \/ UNCHANGED <<device, todo>>

-----------------------------------------------------------------------------

Waiting == tool \in {"login", "password", "prompt", "await"}

Init ==
  /\ tool = "idle" /\ cmd = 1 /\ port = "closed"
  /\ buf = <<>> /\ late = FALSE
  /\ results = <<>> /\ status = "none"
  /\ profile \in Profiles
  /\ rx = <<>> /\ todo \in Leftovers
  /\ device \in {"login", "password", "shell"}
  /\ stale = (todo # <<>>)

\* A device that is not in device.conf, a parameter missing, a port that does not open.
Refuse ==
  /\ tool = "idle"
  /\ tool' = "done" /\ status' = "error"
  /\ UNCHANGED <<cmd, port, buf, late, results, line, fixed>>

\* serial_open throws away what has arrived.
Open ==
  /\ tool = "idle"
  /\ tool' = "opened" /\ port' = "open"
  /\ rx' = <<>>
  /\ UNCHANGED <<cmd, buf, late, results, status, todo, device, fixed>>

\* serial_login without credentials.
SkipLogin ==
  /\ tool = "opened" /\ ~profile.login
  /\ tool' = "send"
  /\ UNCHANGED <<cmd, port, buf, late, results, status, line, fixed>>

\* serial_login up to its first read_until: the deadline and the empty line.
Tickle ==
  /\ tool = "opened" /\ profile.login
  /\ tool' = "login" /\ late' = FALSE
  /\ TypeBlindly(Enter)
  /\ UNCHANGED <<cmd, port, buf, results, status, rx, fixed>>

\* The password sent after the username without waiting to be asked.
WrongSendUsername ==
  /\ tool = "username"
  /\ tool' = IF profile.password THEN "secret" ELSE "prompt"
  /\ buf' = <<>>
  /\ TypeBlindly(User)
  /\ UNCHANGED <<cmd, port, late, results, status, rx, fixed>>

SendUsername ==
  /\ tool = "username"
  /\ tool' = IF profile.password THEN "password" ELSE "prompt"
  /\ buf' = <<>>
  /\ TypeBlindly(User)
  /\ UNCHANGED <<cmd, port, late, results, status, rx, fixed>>

SendPassword ==
  /\ tool = "secret"
  /\ tool' = "prompt"
  /\ buf' = <<>>
  /\ TypeBlindly(Pass)
  /\ UNCHANGED <<cmd, port, late, results, status, rx, fixed>>

\* The buffer of the last command used for this one.
WrongSend ==
  /\ tool = "send"
  /\ tool' = "await" /\ late' = FALSE
  /\ rx' = <<>>
  /\ Type(cmd)
  /\ results' = Append(results, [status |-> "sent", output |-> <<>>, at |-> device])
  /\ UNCHANGED <<cmd, port, buf, status, fixed>>

\* run_one_command up to read_until: what has arrived is flushed and the command sent.
Send ==
  /\ tool = "send"
  /\ tool' = "await" /\ late' = FALSE
  /\ rx' = <<>> /\ buf' = <<>>
  /\ Type(cmd)
  /\ results' = Append(results, [status |-> "sent", output |-> <<>>, at |-> device])
  /\ UNCHANGED <<cmd, port, status, fixed>>

\* The next command after an inter-command delay, or the end.
Advance ==
  IF cmd < Commands THEN tool' = "send" /\ cmd' = cmd + 1
                    ELSE tool' = "close" /\ UNCHANGED cmd

\* write fails.
SendFails ==
  /\ tool = "send"
  /\ results' = Append(results, [status |-> "error", output |-> <<>>, at |-> "none"])
  /\ Advance
  /\ rx' = <<>>
  /\ UNCHANGED <<port, buf, late, status, todo, device, fixed>>

-----------------------------------------------------------------------------
(* read_until.                                                             *)

Shows(b)           == \E k \in DOMAIN b : b[k].hash
ShowsKind(b, kind) == \E k \in DOMAIN b : b[k].kind = kind

\* A pattern of the place is in the buffer; at the login the shell's prompt is the
\* last of them.
Matches(b) ==
  \/ tool \in {"login", "prompt", "await"} /\ Shows(b)
  \/ tool \in {"login", "password"} /\ ShowsKind(b, tool)

\* Where serial_login goes on from there.
After(b) ==
  CASE tool = "login"    -> IF ShowsKind(b, "login") THEN "username" ELSE "send"
    [] tool = "password" -> "secret"
    [] tool = "prompt"   -> "send"

\* The output of a command: what was read, each token where it was in the buffer, without
\* prompts and without the first echo of the command.
Cleaned(b) ==
  LET firstEcho(k) == b[k] = Echo(cmd) /\ \A j \in 1..(k - 1) : b[j] # Echo(cmd)
  IN  [k \in {k \in DOMAIN b : b[k] # Prompt /\ ~firstEcho(k)} |-> b[k]]

Report(s, b) ==
  /\ results' = [results EXCEPT ![cmd].status = s, ![cmd].output = Cleaned(b)]
  /\ Advance

\* One read of whatever has arrived, as far as the cap allows.
Read ==
  /\ Waiting /\ ~late /\ rx # <<>>
  /\ \E n \in 1..Len(rx) :
       LET got == buf \o SubSeq(rx, 1, n)
           b   == SubSeq(got, 1, Min({Len(got), MaxBuffer}))
       IN  /\ buf' = b
           /\ rx' = SubSeq(rx, n + 1, Len(rx))
           /\ IF ~Matches(b) THEN UNCHANGED <<tool, cmd, results>>
              ELSE IF tool = "await" THEN Report("ok", b)
              ELSE tool' = After(b) /\ UNCHANGED <<cmd, results>>
  /\ UNCHANGED <<port, late, status, todo, device, fixed>>

\* The deadline has passed when the loop looks at it.
TimeOut ==
  /\ Waiting /\ late
  /\ IF tool = "await"
     THEN Report("timeout", buf) /\ UNCHANGED status
     ELSE tool' = "close" /\ status' = "login_failed" /\ UNCHANGED <<cmd, results>>
  /\ UNCHANGED <<port, buf, late, line, fixed>>

\* The port left open after a failed login.
WrongClose ==
  /\ tool = "close"
  /\ tool' = "done"
  /\ IF status = "login_failed" THEN UNCHANGED <<port, status>>
     ELSE port' = "closed" /\ status' = "ok"
  /\ UNCHANGED <<cmd, buf, late, results, line, fixed>>

\* close, and the overall status.
Close ==
  /\ tool = "close"
  /\ tool' = "done" /\ port' = "closed"
  /\ status' = IF status = "login_failed" THEN status
               ELSE IF \E i \in DOMAIN results : results[i].status = "error" THEN "error"
               ELSE IF \E i \in DOMAIN results : results[i].status = "timeout" THEN "timeout"
               ELSE "ok"
  /\ UNCHANGED <<cmd, buf, late, results, line, fixed>>

Tool ==
  \/ Refuse \/ Open \/ SkipLogin \/ Tickle \/ SendUsername \/ SendPassword
  \/ Send \/ SendFails \/ Read \/ TimeOut \/ Close

-----------------------------------------------------------------------------
(* The line and the clock.                                                 *)

Arrive ==
  /\ todo # <<>> /\ Len(rx) < MaxLine
  /\ rx' = Append(rx, Head(todo))
  /\ todo' = Tail(todo)
  /\ UNCHANGED <<call, buf, device, fixed>>

\* The kernel of the device prints on its console.
Chat ==
  /\ profile.chatty /\ Len(rx) < MaxLine
  /\ rx' = Append(rx, Text(0))
  /\ UNCHANGED <<call, buf, todo, device, fixed>>

Expire ==
  /\ Waiting /\ ~late
  /\ late' = TRUE
  /\ UNCHANGED <<tool, cmd, port, buf, results, status, line, fixed>>

Next == Tool \/ Arrive \/ Chat \/ Expire

\* The tool is scheduled and the clock runs; nothing is asked of the device.
Spec == Init /\ [][Next]_vars /\ WF_vars(Tool) /\ WF_vars(Expire)

-----------------------------------------------------------------------------

\* Nothing that holds the prompt comes where it is not one, and nothing was on its way
\* when the port was opened.
Clean == ~profile.banner /\ ~profile.hash /\ ~stale

\* "Per-command shell prompt detection for output boundary": as long as no command has
\* timed out, each one's output is its own and whole, however the answers are cut up
\* on the way; only the console may talk in between.
OwnOutput ==
  \A i \in DOMAIN results :
    (/\ Clean
     /\ \A j \in 1..i : results[j].status = "ok" /\ results[j].at = "shell")
      => LET output == results[i].output
         IN  \E k \in DOMAIN output :
               output[k] = Text(i) /\ \A j \in DOMAIN output : output[j].cmd # 0 <=> j = k

\* A tool that logs in types its commands to a shell and to nothing else, and its
\* password only where the device has asked for one, whatever the device was doing when
\* the port was opened.
TypedWhereAsked ==
  [][/\ (tool = "send" /\ tool' = "await" /\ Clean /\ profile.login) => device = "shell"
     /\ (tool = "secret" /\ tool' = "prompt" /\ Clean) => device = "password"]_vars

\* "Port always closed on all exit paths": whatever the answer is, it comes with the
\* port closed, and with ok only if each command has been answered.
ClosedAndDone ==
  tool = "done" =>
    /\ port = "closed"
    /\ status = "ok" => /\ Len(results) = Commands
                        /\ \A i \in DOMAIN results : results[i].status = "ok"

\* "Explicit deadline on every op": the call returns, also on a line that never falls
\* silent.
Returns == tool = "opened" ~> tool = "done"
=============================================================================
