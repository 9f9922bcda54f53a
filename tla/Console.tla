-------------------------------- MODULE Console --------------------------------
(***************************************************************************)
(* The process around the agent (cli/main.c) with its signals, the spinner *)
(* thread (ux/typing.c), the slash commands (ux/slash_commands.c) and the  *)
(* skills: boot and its failures, the command line, the daemon's wait, and *)
(* cleanup.                                                                *)
(*                                                                         *)
(* A step of the main thread or of the spinner is what it does between two *)
(* points at which the other thread or a signal can get in between; a      *)
(* critical section of g_typing_mutex is one step.  A signal is handled by *)
(* the main thread.  Turns, the gateway and the tables of the subsystems   *)
(* are in modules of their own.                                            *)
(*                                                                         *)
(* Operators named Wrong... are faulty variants that the specification     *)
(* never uses; see module Agent.                                           *)
(***************************************************************************)
EXTENDS Skills

CONSTANTS
  Directories,    (* what may lie in workspace/skills                       *)
  MaxIterations,  (* agent->max_iterations                                  *)
  MaxLines,       (* bound: lines the user types                            *)
  MaxSignals,     (* bound: signals sent to the process                     *)
  MaxEdits        (* bound: changes of the directory while it runs          *)

VARIABLES
  main,       (* where the main thread stands                               *)
  daemon,     (* args.daemon_mode                                           *)
  created,    (* the subsystems that exist or have existed                  *)
  gone,       (* the subsystems destroyed, in order                         *)
  code,       (* the exit status of the process                             *)
  running,    (* g_running                                                  *)
  sigint,     (* g_sigint_caught                                            *)
  input,      (* what readline has returned                                 *)
  iteration,  (* calls of on_thinking in this turn                          *)
  active,     (* g_typing_active                                            *)
  message,    (* g_typing_message                                           *)
  spinner,    (* where the spinner thread stands                            *)
  held,       (* msg of typing_thread_fn                                    *)
  dir,        (* workspace/skills                                           *)
  skills,     (* skills_t                                                   *)
  prompt,     (* the part of the system prompt made of the skills           *)
  asked,      (* history: the user or a signal has asked the process to end *)
  seen,       (* history: dir at the last scan, and at boot                 *)
  budget      (* lines, signals and edits so far                            *)

boot    == <<daemon, created, gone, code>>
signals == <<running, sigint>>
typed   == <<input, iteration, asked, budget>>
typing  == <<active, message, spinner, held>>
known   == <<dir, skills, prompt, seen>>
vars    == <<main, boot, signals, typed, typing, known>>

-----------------------------------------------------------------------------

\* What cleanup destroys, in its order.  The spinner, which it stops before anything
\* else, is off wherever it is called.
Teardown ==
  <<"gateway", "heartbeat", "skills", "scheduler", "memory", "agent", "provider",
    "allowlist", "registry", "http", "history", "config", "log">>

Early == {"config", "log", "history", "http", "registry", "allowlist"}
Late  == {"agent", "memory", "scheduler", "skills", "heartbeat"}

Lines == {"empty", "/new", "/status", "/skills reload", "/quit", "chat"}
Eof   == "eof"    \* readline returns NULL

NoHandlers == {"args", "configured", "provided", "built"}
Over       == {"exited", "killed", "undefined"}

Init ==
  /\ main = "args" /\ daemon \in BOOLEAN
  /\ created = {} /\ gone = <<>> /\ code = 0
  /\ running = TRUE /\ sigint = FALSE
  /\ input = Eof /\ iteration = 0 /\ asked = FALSE
  /\ active = FALSE /\ message = "null" /\ spinner = "none" /\ held = "none"
  /\ dir \in Directories /\ skills = <<>> /\ prompt = skills_get_prompt(<<>>)
  /\ seen = [boot |-> {}, scan |-> {}]
  /\ budget = [lines |-> 0, signals |-> 0, edits |-> 0]

\* The main thread goes on and changes nothing else.
Goes(from, to) ==
  /\ main = from
  /\ main' = to
  /\ UNCHANGED <<boot, signals, typed, typing, known>>

-----------------------------------------------------------------------------
(* boot.                                                                   *)

\* parse_args: an unknown option, or --help.
Usage == Goes("args", "exited")

Configure ==
  /\ main = "args"
  /\ main' = "configured" /\ created' = Early
  /\ UNCHANGED <<daemon, gone, code, signals, typed, typing, known>>

\* No model, or a provider that cannot be created, under its name or a detected one.
BootFails ==
  /\ main = "configured"
  /\ main' = "cleanup" /\ code' = 1
  /\ UNCHANGED <<daemon, created, gone, signals, typed, typing, known>>

Provide ==
  /\ main = "configured"
  /\ main' = "provided" /\ created' = created \cup {"provider"}
  /\ UNCHANGED <<daemon, gone, code, signals, typed, typing, known>>

\* The agent with its tools, the memory, the scheduler, the skills and their prompt.
Build ==
  /\ main = "provided"
  /\ main' = "built" /\ created' = created \cup Late
  /\ skills' \in Scans(dir)
  /\ prompt' = skills_get_prompt(skills')
  /\ seen' = [boot |-> dir, scan |-> dir]
  /\ UNCHANGED <<daemon, gone, code, signals, typed, typing, dir>>

\* The handlers are installed; run_daemon begins with ignoring SIGHUP.
Install == Goes("built", IF daemon THEN "daemon" ELSE "top")

-----------------------------------------------------------------------------
(* run_daemon.                                                             *)

StartGateway ==
  /\ main = "daemon"
  /\ main' = "idle" /\ created' = created \cup {"gateway"}
  /\ UNCHANGED <<daemon, gone, code, signals, typed, typing, known>>

\* gateway_start fails, and cleanup destroys what was never started: it closes a socket
\* again and joins a thread that is none.
GatewayFails == Goes("daemon", "undefined")

\* while (g_running): the test, and the call of pause.
Idle  == Goes("idle", IF running THEN "pause" ELSE "cleanup")
Pause == Goes("pause", "paused")

-----------------------------------------------------------------------------
(* run_cli.                                                                *)

Top == Goes("top", IF running THEN "reset" ELSE "cleanup")

Reset ==
  /\ main = "reset"
  /\ main' = "readline" /\ sigint' = FALSE
  /\ UNCHANGED <<boot, running, typed, typing, known>>

\* The user presses Enter or Ctrl-D.
Type(l) ==
  /\ main = "readline" /\ budget.lines < MaxLines
  /\ main' = "returned" /\ input' = l
  /\ asked' = (asked \/ l \in {Eof, "/quit"})
  /\ budget' = [budget EXCEPT !.lines = @ + 1]
  /\ UNCHANGED <<boot, signals, iteration, typing, known>>

\* NULL taken for the end of the input.
WrongNoInput == input = Eof /\ Goes("returned", "cleanup")

\* NULL: after Ctrl-C a new prompt, after Ctrl-D the end; the flag tells them apart.
NoInput == input = Eof /\ Goes("returned", IF sigint THEN "top" ELSE "cleanup")

\* An empty line, or a command that changes nothing here: /new is NewConversation of
\* module Agent.
Command == input \in {"empty", "/new", "/status"} /\ Goes("returned", "top")

Quit == input = "/quit" /\ Goes("returned", "cleanup")

\* skills_reload: the prompt stays as it was made at boot.
Reload ==
  /\ main = "returned" /\ input = "/skills reload"
  /\ main' = "top"
  /\ skills' \in Scans(dir)
  /\ seen' = [seen EXCEPT !.scan = dir]
  /\ UNCHANGED <<boot, signals, typed, typing, dir, prompt>>

\* status_set_detail, under the mutex: the last message is freed.
SetMessage(m) ==
  /\ message' = m
  /\ held' = IF held = "live" THEN "freed" ELSE held

BeginTurn ==
  /\ main = "returned" /\ input = "chat"
  /\ main' = "start" /\ iteration' = 0
  /\ SetMessage("null")
  /\ UNCHANGED <<boot, signals, input, asked, budget, active, spinner, known>>

\* pthread_create, whose failure nobody looks at.
StartSpinner ==
  /\ main = "start"
  /\ main' = "turn"
  /\ active' = TRUE /\ spinner' \in {"test", "none"}
  /\ UNCHANGED <<boot, signals, typed, message, held, known>>

\* on_thinking, as an iteration of agent_chat begins.
OnThinking ==
  /\ main = "turn" /\ iteration < MaxIterations
  /\ iteration' = iteration + 1
  /\ SetMessage("set")
  /\ UNCHANGED <<main, boot, signals, input, asked, budget, active, spinner, known>>

\* agent_chat returns, and status_set(STATE_READY) frees the message.
Answer ==
  /\ main = "turn" /\ iteration > 0
  /\ main' = "stop"
  /\ SetMessage("null")
  /\ UNCHANGED <<boot, signals, typed, active, spinner, known>>

\* The thread told to stop and not waited for.
WrongStopSpinner ==
  /\ main = "stop"
  /\ main' = "reply" /\ active' = FALSE
  /\ UNCHANGED <<boot, signals, typed, message, spinner, held, known>>

StopSpinner ==
  /\ main = "stop"
  /\ main' = "join" /\ active' = FALSE
  /\ UNCHANGED <<boot, signals, typed, message, spinner, held, known>>

\* pthread_join; of a thread that could not be created it is undefined.
JoinSpinner ==
  /\ main = "join" /\ spinner \in {"none", "gone"}
  /\ main' = IF spinner = "gone" THEN "reply" ELSE "undefined"
  /\ spinner' = "none" /\ held' = "none"
  /\ UNCHANGED <<boot, signals, typed, active, message, known>>

\* A loop that does not look at g_running.
WrongReply == Goes("reply", "reset")

\* The reply is printed.  Back to the top of the loop.
Reply == Goes("reply", "top")

-----------------------------------------------------------------------------
(* cleanup.                                                                *)

\* Where in Teardown stands what is created and not destroyed yet; the destructors pass
\* over what is NULL.
Left == {i \in DOMAIN Teardown : Teardown[i] \in created \ ToSet(gone)}

DestroyNext ==
  \E i \in Left :
    /\ \A j \in Left : i <= j
    /\ gone' = Append(gone, Teardown[i])
    /\ UNCHANGED main

\* Nothing destroyed when boot has failed.
WrongCleanup ==
  /\ main = "cleanup"
  /\ IF Left = {} \/ code = 1 THEN main' = "exited" /\ UNCHANGED gone ELSE DestroyNext
  /\ UNCHANGED <<daemon, created, code, signals, typed, typing, known>>

\* One destructor after the other, and exit.
Cleanup ==
  /\ main = "cleanup"
  /\ IF Left = {} THEN main' = "exited" /\ UNCHANGED gone ELSE DestroyNext
  /\ UNCHANGED <<daemon, created, code, signals, typed, typing, known>>

Boot   == Usage \/ Configure \/ BootFails \/ Provide \/ Build \/ Install
Daemon == StartGateway \/ GatewayFails \/ Idle \/ Pause
Prompt == Top \/ Reset \/ NoInput \/ Command \/ Quit \/ Reload
Turn   == BeginTurn \/ StartSpinner \/ OnThinking \/ Answer \/ StopSpinner \/ JoinSpinner \/ Reply

Main == Boot \/ Daemon \/ Prompt \/ Turn \/ Cleanup

-----------------------------------------------------------------------------
(* typing_thread_fn.                                                       *)

Spin ==
  /\ spinner = "test"
  /\ spinner' = IF active THEN "take" ELSE "clear"
  /\ UNCHANGED <<main, boot, signals, typed, active, message, held, known>>

\* Under the mutex, the address of the message.
TakeMessage ==
  /\ spinner = "take"
  /\ spinner' = "print" /\ held' = IF message = "null" THEN "label" ELSE "live"
  /\ UNCHANGED <<main, boot, signals, typed, active, message, known>>

\* And out of it, what is there, or what was there before it was freed.
PrintMessage ==
  /\ spinner = "print"
  /\ spinner' = "test" /\ held' = "none"
  /\ UNCHANGED <<main, boot, signals, typed, active, message, known>>

ClearLine ==
  /\ spinner = "clear"
  /\ spinner' = "gone"
  /\ UNCHANGED <<main, boot, signals, typed, active, message, held, known>>

Spinner == Spin \/ TakeMessage \/ PrintMessage \/ ClearLine

-----------------------------------------------------------------------------
(* Signals and the directory.                                              *)

\* A handled signal ends pause; readline it may end, with one of lines, or not.
Interrupted(lines) ==
  CASE main = "paused"   -> main' = "idle" /\ UNCHANGED input
    [] main = "readline" -> \/ UNCHANGED <<main, input>>
                            \/ main' = "returned" /\ input' \in lines
    [] OTHER             -> UNCHANGED <<main, input>>

Sent ==
  /\ main \notin Over /\ budget.signals < MaxSignals
  /\ budget' = [budget EXCEPT !.signals = @ + 1]
  /\ UNCHANGED <<boot, iteration, typing, known>>

\* No handler yet: the process ends.
Killed ==
  /\ Sent /\ main \in NoHandlers
  /\ main' = "killed"
  /\ UNCHANGED <<signals, input, asked>>

\* SIGTERM, or SIGHUP where it is not ignored.
Terminate ==
  /\ Sent /\ main \notin NoHandlers
  /\ running' = FALSE /\ asked' = TRUE
  /\ Interrupted({Eof})
  /\ UNCHANGED sigint

\* SIGINT.  With rl_done set, readline returns what has been typed so far, whatever that
\* is, as if Enter had been pressed.
Interrupt ==
  /\ Sent /\ main \notin NoHandlers
  /\ sigint' = TRUE
  /\ Interrupted({Eof} \cup Lines)
  /\ UNCHANGED <<running, asked>>

\* Somebody changes the skills.
Edit ==
  /\ main \notin Over /\ budget.edits < MaxEdits
  /\ dir' \in Directories \ {dir}
  /\ budget' = [budget EXCEPT !.edits = @ + 1]
  /\ UNCHANGED <<main, boot, signals, input, iteration, asked, typing, skills, prompt, seen>>

Outside == (\E l \in Lines \cup {Eof} : Type(l)) \/ Killed \/ Terminate \/ Interrupt \/ Edit

Next == Main \/ (Spinner /\ main \notin Over) \/ Outside

\* Both threads are scheduled; nothing is asked of the user.
Spec == Init /\ [][Next]_vars /\ WF_vars(Main) /\ WF_vars(Spinner /\ main \notin Over)

-----------------------------------------------------------------------------

\* typing.c: "writes only while readline is NOT active": between a reply and the next
\* turn there is no spinner thread, and with it no use of a message that was freed.
SpinnerOffAtPrompt ==
  main \in {"reply", "top", "reset", "readline", "returned", "cleanup", "exited"} =>
    spinner = "none" /\ held = "none"

\* The process ends only for Ctrl-D, /quit, SIGTERM or SIGHUP, however these race with
\* Ctrl-C, because boot fails, or for a /quit that was typed and not entered when Ctrl-C
\* came.  "Ctrl-C: cancel current readline line, do NOT exit" is thus not what the code
\* does: the line is not cancelled but taken, a /quit among them, while no other line and
\* no NULL that Ctrl-C makes readline return ends the process.
LeavesWhenAsked ==
  main \in {"cleanup", "exited"} /\ created # {} =>
    asked \/ code = 1 \/ (sigint /\ input = "/quit")

\* However the process ends, all that was created is destroyed once, and before what it
\* uses: the gateway's threads use the agent and the scheduler, the agent the provider,
\* the provider libcurl, and everything the log.
Uses ==
  {<<"gateway", "agent">>, <<"gateway", "scheduler">>, <<"gateway", "memory">>,
   <<"agent", "provider">>, <<"provider", "http">>}
    \cup ({Teardown[i] : i \in DOMAIN Teardown} \ {"log"}) \X {"log"}

LeavesClean ==
  /\ main = "exited" => ToSet(gone) = created
  /\ \A i, j \in DOMAIN gone : i < j => gone[i] # gone[j] /\ <<gone[j], gone[i]>> \notin Uses

\* "SIGTERM / SIGHUP -> clean shutdown": with g_running cleared the process ends, unless
\* it was cleared between the daemon's test and its pause, or between the test of the
\* command line and its prompt, where it waits for the next signal or line.
SignalHeard ==
  (~running /\ main \notin {"pause", "paused", "reset", "readline"}) ~> main \in Over

-----------------------------------------------------------------------------
(* What a comment of the code says, and the code does not do.              *)

\* main.c: "SIGTERM / SIGHUP -> clean shutdown", of the daemon.
SigtermStopsDaemon == (daemon /\ ~running) ~> main \in Over
=============================================================================
