# Verification of the Vajra/Aham agent

Vajra is a local AI agent written in C: a process that talks to a language model over HTTP, lets it call tools
(shell, serial console, files, memory, scheduler, skills) and serves a command line or a small web page. This
directory holds TLA+ models of its state machines, the TLC configurations that check them, and TLAPS proofs of every
safety property they check. `PROJECT.json` maps every definition to the lines it models.

Paths below are relative to `src/src/`. Tools: `tlc -config X.cfg M`, `tlapm M.tla`.

## 1. The system

    main.c (boot, run_cli | run_daemon, cleanup)
      |-- templates, history, memory          files under workspace/memory
      |-- heartbeat, scheduler                background threads
      |-- gateway  --listener--> workers --agent_mutex--+
      |                                                 v
      +-- run_cli ---------------------------------> agent_chat
                                                       |  window of messages
                                                       |--> provider (http_client, ollama | openai)
                                                       +--> tool registry
                                                              shell_exec, serial_exec, file tools,
                                                              memory_*, schedule_*, skill_*

| component (code) | state | operations | hard behaviour | what makes it correct |
|---|---|---|---|---|
| agent (`agent/agent.c`) | `messages[128]`, `message_count`, `pre_turn_count`, the loop counter | `agent_chat`, `agent_add_message`, `agent_compact_history`, `agent_new_conversation`, rollback | compaction in the middle of a turn, a failure after it, any number of calls per response | no overflow; system prompt first; calls and results stay together; a failed turn leaves no trace; every turn ends |
| gateway (`gateway/gateway.c`, `run_daemon`, `cleanup`) | `running`, socket, `thread_slots`, `agent_mutex`, detached workers | listen thread, connection thread, start, destroy | slots handed between threads on many exit paths; shutdown against workers at any stage | slots conserved; one turn at a time; requests served; shutdown ends; nothing used after free |
| scheduler (`tools/scheduler/scheduler.c`) | `tasks[]`, `next_id`, `running`, mutex | thread, `schedule_add`, `schedule_control`, destroy | a clock read outside the mutex, forks inside it, deletes between passes | only live tasks are run, not too early, again and again; ids stay unique; destroy stops all |
| memory (`memory/md_memory.c`) | `MEMORY.md`, its `.tmp` | create, migrate, store, recall, context | crashes, short writes, files edited by hand, repeated headings and keys, values of several lines, migration at each start | a store changes one fact; facts survive restarts; a short write makes none up |
| history (`history/history.c`) | `HISTORY.md`, `last_date` | create, log | midnight, restarts, writes that fail, the file deleted underneath | grouped by date; append-only |
| shell (`tools/shell/shell_tool.c`) | child, pipe, buffer, deadline | `shell_execute`, `shell_run_timed` | exit against drain, waitpid and kill; background processes; caps | complete output; no zombie; the right exit code; the deadline holds |
| serial (`tools/serial/serial_tool.c`) | port, buffer, deadline | open, login, commands | a device in an unknown state, late and split answers | each output is its own command's; nothing typed at the wrong prompt; port closed |
| providers (`providers/`) | call counters | chat: request, normalise the answer | truncated and malformed tool calls | no call lost, made up or without an id |
| boot and signals (`cli/main.c`) | `g_running`, `g_sigint_caught`, the subsystems | boot, CLI, daemon, cleanup, handlers | a signal between test and `pause()`, or around `readline`; failure halfway | the process ends when asked and only then; each subsystem created is destroyed once |
| spinner (`ux/typing.c`) | message, thread | start, set detail, stop | the message is freed while the thread prints it | no thread, and so no such use, at the prompt |
| requests (`agent/agent.c`, `agent/tool_registry.c`, `providers/`) | the window, the table of tools | register, find, build the messages and the body | two wire formats, three representations of a call | the model is sent back what it has said and what came of it |
| file tools (`tools/file_ops/file_tool.c`) | none | read, write, list, search, delete | files that change between `stat`, `open` and the reads, entries that go during a walk | what is answered is what there was |
| config, `.env` (`core/config.c`) | table of 256 entries | load, get, set | keys and files that repeat each other, a full table | the order of priority holds |
| device.conf (`tools/serial/serial_tool.c`) | 64 profiles, read at each call | parse, look up, override | repeated and unfinished sections | a field is what its own section and the arguments say |
| allowlist (`security/allowlist.c`) | three tables of rules | load, check | sections in any order, empty lists | a list permits what its own patterns match |
| provider choice (`providers/registry.c`, constructors, `boot`) | none | find, detect, resolve, create | a name, a key and a URL that disagree | requests go where they are set to go |
| skills (`tools/skills/skills.c`) | list of 64 | scan, reload, prompt | a reload does not reach the prompt; rules inside a text | prompt and list show what was there |
| slash commands (`ux/slash_commands.c`) | none | `/new`, `/skills reload`, `/quit` | | part of the prompt loop |
| heartbeat, http client, strings, log, results | little or none | | | see section 7 |
| cJSON | vendored | | | |

## 2. Modules

| module | models | composes |
|---|---|---|
| `Agent` | the window and the tool loop | |
| `SerialChat` | abstract: turns one at a time, one per request | |
| `Gateway` | listener, workers, mutex, start and destroy | implements `SerialChat` |
| `Interval` | `parse_interval` as a function on forms of text | |
| `Scheduler` | table, thread, tools, destroy | extends `Interval` |
| `FactStore` | abstract: a map of facts changed by single stores | |
| `MemoryFile` | `memory_store` and `memory_recall` as functions on lines | |
| `Workspace` | boot, turns, stop and crash around `MEMORY.md` and `HISTORY.md` | extends `MemoryFile`, implements `FactStore` |
| `Ordering` | the positions taken out of an array, in their order | extended by `Provider`, `Skills` and `Files` |
| `Skills` | `SKILL.md` files, the scan and the part of the prompt made of it | |
| `Console` | the process from its arguments to its exit: boot, prompt loop, daemon, handlers, spinner, cleanup | extends `Skills` |
| `Provider` | replies of the model, their normalisation, ids, recovery, and what is run | |
| `Request` | the next request made of a reply and its results | extends `Provider` |
| `Files` | one call of a file tool, and other processes | extends `Ordering` |
| `Settings`, `Allowlist`, `Devices`, `Endpoint` | what is read from `.env`, `aham.conf`, `allowlist.conf`, `device.conf` and the provider's settings, as functions | |
| `Shell` | one `shell_exec`, its processes and the clock | |
| `Serial` | one `serial_exec` and the device | |
| `AgentProofs`, `GatewayProofs`, `SchedulerProofs`, `SerialProofs`, `WorkspaceProofs` | theorems and the inductive invariants behind them | extend their module and `TLAPS` |
| `ConsoleProofs` | the same of the process and of the skills | extends `MCConsole` |
| `FilesProofs` | the same of one call of a file tool, and what the configuration files come to | extends `Files`, instantiates `Settings`, `Allowlist`, `Devices`, `Endpoint` |
| `ToolsProofs` | theorems about what `tools` checks: the shell, calls, replies, texts | extends `MCTools`, instantiates `SerialProofs` and `FilesProofs` |
| `MCAgent`, `MCGateway`, `MCScheduler`, `MCWorkspace`, `MCConsole`, `MCShell` | instances for TLC | extend their module |
| `MCTools` | one instance for all that a single call or text comes to | extends `MCShell`, instantiates `Serial`, `Request`, `Files`, `Settings`, `Allowlist`, `Devices`, `Endpoint` |

Definitions whose names begin with `Wrong` are variants of the definition they precede with a plausible mistake in
it. No specification uses them; each is paired in `PROJECT.json` with the property that fails if the mistake is made.

### Agent
A message keeps its role, the turn and the iteration that added it and one number (calls made, or position of the
call answered); its text is left out. `StartTurn` is the entry of `agent_chat` up to the first provider call,
`ProviderError`, `ProviderToolCalls` and `FinalResponse` are what the provider may return, `RunToolCall` one round of
the loop over calls, `NextIteration` and `MaxIterations` the end of an iteration. `AddMessage` contains the compaction,
as `agent_add_message` does. `before`, `added`, `compacted` and `torn` are history variables. A null argument and
failed allocations are left out. The provider and the tools are nondeterministic.

### Gateway
One step is the stretch between two points at which threads see each other: `sem_wait`, `accept`, lock, unlock, post,
close, join. Clients connect, and each sends a chat request, sends another one, hangs up or stays silent. `Launch` and
`Shutdown` are `run_daemon` and the gateway's part of `cleanup`. A worker that would touch the freed gateway sets
`fault`; so does a join of a thread that was never created. After a fault, or the exit of the process, nothing moves.

### Scheduler and Interval
Time is relative (`age`, `lag`, `quiet`), so behaviours are infinite and liveness means something. The tools hold the
mutex without waiting and are one step; the thread's pass is `Lock`, then `Skip`, `Choose` and `Fork` per task, then
`Unlock`, with the clock running in between. A deleted task keeps its slot, as in the code. Time does not go
backwards; the forked command is out of the model. `Interval` distinguishes what the two `sscanf` calls do, and
wraps behind `MaxInt`. No property is stated of it: the only definition of the right interval would be the code's own
table of units. What comes out of it is the interval of a task.

### MemoryFile and Workspace
A line is a heading, a bullet with name and value, or text; a file may lack its last newline. Sections are given by
their canonical names. `Label` is what reading back a written key yields (a key is cut at its first colon).
`memory_store` and `memory_recall` do not read a file alike, and neither does the model: the store takes a heading for
its section's only if it is `Exact`, recall also one that is `Padded` with blanks (`Trimmed`); recall answers a value
as `Shown`, its first line up to 511 bytes; a line that is `full` does not fit the 2048 bytes of `linebuf`, and at the
NUL the store puts out with it the file ends (`Stored`). A value is a first line and the lines that follow it (`More`),
which stand in the file as headings and bullets of their own (`Fact`).

`Workspace` runs `templates_seed`, `history_create`, the log entries of `boot`, `memory_create` with the migration,
and then turns; stores are two steps around the `rename`, and the process may be killed between any two steps. A file
may not open, `rename` and `unlink` may fail (`Fails`), and a write may reach the file in part (`ComesShort`): the code
does not look at the results of `fputs`, `fprintf`, `fwrite` and `fclose`, so the short file is kept, or renamed over
`MEMORY.md` (`RenameShort`). `Shorter` are the files that hold the first bytes of another, up to the end of a line or
to somewhere within one. `sound` is a history variable: the files whose writes all came out whole, `MEMORY.md` as long
as it was `Fit` to be read too (within the limit, no line too long, no padded heading, no last line without newline
that a store could continue). The entries of `HISTORY.md` carry their date only.

### Skills and Console
A `SKILL.md` is a sequence of rules, fields and text lines; a directory is a set of entries, which `readdir` gives in
any order. `MCConsole` writes the files from what an author wants, and `SkillsKnown` compares with that. `Console` has
a main thread (`boot`, then `run_cli` or `run_daemon`, then `cleanup`), the spinner thread and signals, which are
handled by the main thread between any two of its steps: a `readline` that Ctrl-C ends returns any line, what was
typed so far (`Interrupt`); a critical section of the spinner's mutex is one step. `created` and `gone` are the
subsystems, `held` the message the spinner still has a pointer to. `Reset`, `Type` and `NoInput` are the three reads
and writes of `g_sigint_caught` around `readline`; `Idle` and `Pause` are the test of `g_running` and the call of
`pause`. Where the code has undefined behaviour (a join of a thread that was never created) the model stops.

### Provider and Request
A tool call of a reply is reduced to what the code asks of it: a `function`, a usable name, and arguments that are
missing, an object, JSON in a string, or not JSON. `Ollama` and `OpenAI` are the two `chat_complete` from the parsed
body on; `Recovered` is the recovery of a `tool_use_failed` error, one element per bracket that is tried. `Chat`,
`RunTools` and `Continue` are the part of `agent_chat` around them, with `ToolArguments` for `parse_tool_arguments`;
`counter` is the static counter behind the ids. `Agent` takes the outcomes (error, calls, text) as given. `Request`
goes on from there: `Added` is what `agent_chat` stores for the reply, its `<think>` blocks taken out by
`strip_think_tags`, `SentMessage` what `build_messages_json` makes of a stored message under the provider's `Format`,
`Body` what is posted.

### Files
Names are the nodes of a small tree, contents short sequences of bytes. Each `stat`, `fopen`, `fread`, `fwrite`,
`fclose`, `opendir` and `readdir` is a step, and others create, rewrite in place and remove files between any two of
them. An open file that is removed lives on. `fopen` may always fail, `opendir` only where there is no directory;
a `readdir` may return an entry that has gone since. A byte is one that can be printed, one that `sanitize_output` drops
(`Control`) or the 0 it stops at (`Nul`); `Content` is what is answered. Links and permissions are left out.

### Settings, Allowlist, Devices, Endpoint
Functions from the lines of a file to what is asked of it, each folded line by line as the code does. In `Settings`
section and key are one name; in `Devices` two fields that have to be there, one that may be empty and a number stand
for all; in `Allowlist` patterns are characters and `*`; in `Endpoint` a URL or a key is the provider it gives away.
Each has one property, a definition of the result that looks at all lines at once.

### Shell
One step of the tool is one read, one `waitpid` or one look at the clock. The child and what it has put in the
background write to a bounded pipe, exit and close it at any time. `MAX_OUTPUT_SIZE`, the chunk and the timeouts are
constants. The allowlist's answer is a choice (`Refuse` or `Spawn`).

### Serial
Tokens (prompt, echo, text, login, password) travel in both directions; the device is a small machine with a login, a
password prompt and a shell, and each token it owes arrives whenever it likes. `Profile` says how the device and the
tool are set up, including a banner or an output that contains the prompt, and a console that talks unasked.

## 3. Runs

| run | question | instance | result |
|---|---|---|---|
| `agent_window` | is the window sound through compaction, rollback and new conversations, and does each turn end? | 8 slots, limit 9 overruled, 3 turns, 3 iterations, 3 calls | `NoOverflow`, `SystemFirst`, `CallsAnswered`, `OrphansOnlyAtHead`, `QuestionKept`, `RollbackExact`, `TurnEnds` hold |
| `agent_split` | does compaction never split a call from its results? | code's 128, default limit 20, 10 iterations, 2 calls | violated, finding 1 |
| `gateway` | slots, exclusive turns, service and shutdown | 3 connections, 2 slots | all hold, with clients that send or hang up |
| `gateway_free` | is the gateway alive as long as a worker uses it? | 2 connections, 2 slots | violated, finding 3 |
| `scheduler` | does the thread run the right tasks at the right time until destroyed? | 2 slots, intervals 1 and 2, lag 1 | all hold |
| `workspace` | do files and prompt agree, and do facts survive? | 2 starts, 1 turn, 1 store, 1 failing call or short write, 2 sections, 2 keys, 3 values, 2 days, 3 initial files | `PromptIsCurrent`, `GroupedByDate`, `ShortWriteOnlyLoses`, `StoreIsExact`, `ImplementsFactStore` hold |
| `workspace_history` | is the history append-only? | the same | violated, finding 4 |
| `console` | does the process leave when it is asked to, and cleanly; is the spinner off at the prompt; what do prompt and list show of the skills? | command line and daemon, 2 lines, 2 signals, 1 edit, 3 sets of skills | `SpinnerOffAtPrompt`, `LeavesWhenAsked`, `LeavesClean`, `SkillsKnown`, `SignalHeard` hold |
| `daemon_signal` | does SIGTERM always end the daemon? | one line, one signal | violated, finding 6 |
| `tools` | is what a call answers, runs and sends what was there, asked and stored, and does it return? | see below | `OutputComplete`, `NothingLeftOpen`, `OwnOutput`, `TypedWhereAsked`, `FileAnswers`, `CallsReturn`, `RunsWhatWasAsked`, `IdsFresh`, `SentAsStored`, `ReadAsConfigured` hold |
| `shell_deadline` | the deadline, for commands that write without end | the shell of `tools`, `Endless` | violated, finding 5 |
| `provider_text` | has a response without error and calls a text? | OpenAI, the replies of `tools` | violated, finding 2 |

A behaviour of `tools` follows one part, chosen at the start: the parts share no state. `OutputComplete` is about
`Shell`; `OwnOutput` and `TypedWhereAsked` about `Serial`; `NothingLeftOpen` about both (child reaped with its own
code; port closed, and ok only if all is answered); `FileAnswers` about `Files`; `CallsReturn` about the three;
`RunsWhatWasAsked` and `IdsFresh` about `Provider`, `SentAsStored` about `Request`;
`ReadAsConfigured` about `Settings` (values and log level), `Allowlist`, `Devices` and `Endpoint`.

Why the bounds suffice.
- `agent_window`: a turn adds up to 13 messages to a window of 8, so it is compacted several times within a turn, at
  every alignment of the cut with groups of one to four messages; three turns are needed for a rollback, then a
  compaction of what it left, then a question. The proofs cover all other sizes for the properties they state.
- `gateway`: the third connection must wait for a slot; shutdown meets each pair of worker stages. More workers add
  only symmetric cases, and the safety part is proved for any number.
- `scheduler`: with two tasks one is due in a pass where the other is not, the table can fill, and a slot of a deleted
  task stays in the way. A lag of one second is enough to separate clock and fork. Safety is proved for any size.
- `workspace`: a fact stored in one life is read in the next, after a migration; the user's files hold a section
  twice, a key twice, a key with a colon, blanks around a heading and a line that is too long, and the template has no
  final newline. One value is of one line, one fills its bullet and one opens the other section; a short write may cut
  a file within or behind any line. One fault meets every step of a life and what the next one makes of it; two days
  put midnight anywhere. `MaxLines` is 9, which a store over a migrated file reaches.
- `console`: two signals are one to be confused with another, at one prompt or around `pause`; two lines are a turn
  and what comes after it; each set of skills fills the list of two and one of them asks for more than fits.
- `tools`, shell: output of up to five bytes, read two at a time into three, through a pipe of three; timeouts below,
  at and above the maximum. Chunks do not divide the cap, and the pipe fills.
- `tools`, serial: two commands, a buffer of four and a line of three tokens, which overflow; leftovers put the device
  in each of its states with something on its way; every profile of device and tool.
- `tools`, files: a tree with a file, a hidden one, a file and a directory below the depth of the search; three bytes
  to write two at a time, files at and over the limit, with bytes
  that are dropped and one that is 0; two changes by others, which is a file that is gone and back.
- `tools`, replies: two calls, two brackets, six ids: a good call with every kind of bad one, in both orders, and
  replies one after the other; two of four registrations fit the table.
- `tools`, texts: two lines of `.env` and four of `aham.conf` against a table of four entries; three lines of
  `allowlist.conf` against a table of three rules, one of them with three patterns; four lines of `device.conf`
  against two sections; every combination of the provider's settings.

`CHECK_DEADLOCK FALSE` stands where the system may stop: the bounds on turns and boots, the exit of the process, a
call of a tool that has returned, and texts that are only looked at. `scheduler` runs for ever and is checked for
deadlock.

## 4. Fairness

- Agent: `WF(TurnStep)`. The provider's call ends (120 s in `http_client.c`) and the loop is one thread. Tools are
  assumed to return; `shell_deadline` shows the one case found where a tool need not. Nothing makes users start turns.
- Gateway: weak fairness of listener, each worker, `Launch` and `Shutdown`: threads are scheduled, the mutex is granted
  (each worker takes it once). `SF(Accept)`: connections that get neither memory nor a thread, or an `accept` that
  fails on an open socket, may recur but not for ever. `PromptSpec` adds that a connected client sends or hangs up:
  `read_request` has no timeout, so as many silent clients as slots block everything, shutdown included. `Stop` is
  never forced.
- Scheduler: weak fairness of the clock, the thread and, once `Stop` was taken, join and free.
- Console: weak fairness of the main thread, which the kernel runs and whose tools and provider are assumed to return,
  and of the spinner while the process lives. Nothing is asked of the user or of signals: `readline` and `pause` are
  steps that need one, so `SignalHeard` says nothing of a process that waits there.
- Shell, Serial, Files: weak fairness of the tool and of the clock; nothing is asked of commands, devices and other
  processes. `MCTools` assumes the same for the part it follows.
- Workspace, Provider, Request and texts: safety only.

## 5. Findings

1. `agent_split`: agent.c:13 "[FIX-3] History compaction never splits a tool_calls/tool-result pair." The walk back
   passes over assistant messages with calls only, so a cut among results, or a quarter that begins with the assistant
   message, leaves results without their call. `OrphansOnlyAtHead` says how far the damage goes.
2. `provider_text`: provider.h:69 "Text response (may be NULL if tool_calls)". A message with missing or empty content
   and no usable tool call becomes a response with no error, no calls and a null text; `agent_chat` takes it for the
   final answer and passes the null to `strdup` (agent.c:464). The C library leaves that undefined and declares the
   argument nonnull; the program has a `strdup` of its own with a test for null (core/types.c:107), which a compiler may
   drop because of that declaration. With it, `agent_chat` returns null: the command line prints no answer, the gateway
   sends an empty one.
3. `gateway_free`: gateway.h:45 "Graceful shutdown", gateway.h:30 "must outlive gateway". `gateway_destroy` joins the
   listener, not the detached workers. `NoWorkAfterJoin` is the part that holds.
4. `workspace_history`: history.h:7 "Append-only. Entries are never modified or deleted." `migrate_legacy_files` takes
   `HISTORY.md` for an old memory file, stores its first 2 KB as one bullet of Important Notes and unlinks it, at every
   start.
5. `shell_deadline`: shell_tool.c:61 "Hard deadline in seconds (1–300)." The loops that drain the pipe look at nothing
   but the pipe.
6. `daemon_signal`: main.c:95 "SIGTERM / SIGHUP → clean shutdown". A signal between `while (g_running)` and `pause()`
   (main.c:480) is handled and then waited for: the daemon serves on until another one comes. `SignalHeard` says where
   else the process notices.

More was met on the way that is not run as a finding of its own. The models do what the code does; the properties are
stated with the conditions this puts on them, and the hazards of `PROJECT.json` say where. Texts of the repository
that the code does not keep to:

- agent.c:375, 395, 407, 469 speak of a rollback to the state before the turn: a turn that fails after a compaction is
  not rolled back whole, because `pre_turn_count` is a length and then counts messages of the turn itself
  (`RollbackExact` is stated for turns that compacted nothing, `CallsAnswered` for conversations without such a
  rollback).
- main.c:98 "cancel current readline line, do NOT exit" and :107 "so it returns NULL immediately": `rl_done = 1` makes
  `readline` return what was typed so far, and `run_cli` acts on it. A `/quit` that was typed and then given up with
  Ctrl-C ends the process, a question is sent. `LeavesWhenAsked` excepts that `/quit`, and says that nothing else
  Ctrl-C does ends the process.
- main.c:240 and :272 put the option `-l` before the variable `LOG_LEVEL`; main.c:11 and `resolve_log_level` put the
  variable first (`LevelFromGiven` says that it is one of the two). registry.h:34 "Checks key prefix first, then URL
  keyword": the table's order decides, the key goes first only within an entry (`GoesWhereSet` says nothing of a key
  and a URL that disagree but that the URL is used).
- scheduler.c:6 names cron lines: a cron line is read by its first field, as seconds (modelled, no property).
- history.h:8 "## YYYY-MM-DD sections auto-created": after the migration has deleted `HISTORY.md`, the next
  entries of the day go into a new file without any heading, because `last_date` is still today's (`GroupedByDate`
  says that nothing else stands without a heading, and of which date it is).
- md_memory.c:109 "Write string back atomically": a write that comes out short is renamed all the same, and what lay
  behind the cut is lost (`ImplementsFactStore` is stated while writes come out whole, `ShortWriteOnlyLoses` for the
  others).
- md_memory.c:215 "its line is replaced": `memory_store` does not see a heading with blanks around it, which
  `memory_recall` does; a value comes back up to 511 bytes of its first line; a bullet that fills its 2048 bytes cuts
  off the file at the next store; keys with a colon are read back cut off; the template ends without a newline, so the
  first appended bullet is lost on its last line. `StoreIsExact` says what is left of the promise.
- file_tool.c:69 names /proc: files there are answered as empty because `stat` gives them no size.
- skills.h:25-26 and skills.c:18 say that unavailable skills still appear in the summary: one that should always be
  active and is missing something is in neither part of the prompt. `SkillsKnown` does not say what is listed of it.
- `ux/typing.h` says that there is no background thread, and `typing.c` starts one.

And what no text was found to speak of: a failed recovery of tool calls frees its array twice (`DoubleFree`, where the
model stops); OpenAI replies are used when they are cut off, and arguments that are not JSON are then run as none
(`RunsWhatWasAsked` says more of Ollama); a full table of settings takes no update; a fact in Important Notes is no
longer found once a later migration puts a heading above it (`ImplementsFactStore` leaves that section out); slots of
deleted tasks are not reused; an interval that overflows may wrap to a positive one and is then taken; output that
arrives after a serial timeout is taken for the next command's (`OwnOutput` is stated up to the first timeout);
processes a killed command leaves behind go on; commands of serial_exec beyond the 32nd are dropped and the answer is
ok; `file_write` does not look at `fclose`; a Ctrl-C at a `readline` that goes on makes a Ctrl-D after it count as
Ctrl-C; a reload of the skills does not reach the prompt; the `[endpoints]` of `allowlist.conf` are loaded and never
asked; a failing `gateway_start` leads to a join of a thread that does not exist.

## 6. Proofs

Safety theorems for every value of the constants, from the named assumptions of each module (`AgentAssumption`,
`GatewayAssumption`, `SchedulerAssumption`, `IntervalAssumption`, `ShellAssumption`: sizes are positive, sets finite
where counted; `Workspace` has four of its own, see below), which TLC evaluates on every run. Where a theorem needs
more it says so in its statement, as a named hypothesis. Each theorem has the same shape: an inductive invariant holds
initially, every action keeps it, it implies the property; what follows is why the property alone is not inductive.

- `AgentProofs`: `TypeCorrect`, `WindowIsBounded`, `ArrayNeverOverflows`, `SystemStaysFirst`, `RollbackIsExact`. The
  inductive invariant `IInv` adds to `TypeOK` that the window is good (bounded, system message first and nowhere
  else), that inside a turn it is not empty and `preTurn` is the length of `before` (`ControlInv`), and that until a
  compaction it extends `before` (`RollbackInv`). The heart is the lemma that a full good window always has something
  to remove: `CutEnd` lies strictly behind the system message, so `AddMessage` keeps the bound.
  `CallsStayAnswered`, `OrphansStayAtHead`, `QuestionStaysInWindow` are about compaction itself. `AddShifts` says that
  appending removes the messages behind the head, at most a quarter, and moves all others alike. A call in the window
  has its results behind it or is the one being run, and the window the turn found is answered too, since a failure
  brings it back (`AnsweredInv`); a result follows its call or another result of its iteration, unless it is first
  behind the head (`FollowInv`); and the question stands where the messages added since have put it, until they could
  fill three quarters of the window (`QuestionInv`). `CallsAnswered` is stated while no compacted turn was rolled back
  (`torn`); the other two hold whatever was rolled back.
- `GatewayProofs`: `TypeCorrect`, `SlotsAreConserved`, `WorkersAreBounded`, `AgentIsExclusive`,
  `NoWorkIsAddedAfterJoin`, and `GatewayIsSerial`, that the gateway implements `SerialChat`. `SlotsConserved` is not
  inductive alone: the backlog must hold each queued connection once (`BacklogInv`), else accepting one twice makes up
  a worker. `JoinedInv` ties the main thread to the listener; `AnsweredInv` keeps a finished request from a second turn.
- `SchedulerProofs`: `TypeCorrect`, `OnlyRunnableTasksAreRun`, `IdsAreUnique`, `DestroyStopsAllTasks`,
  `TasksAreSpaced`. `HeldInv` (the mutex is held exactly while the thread scans or forks) is what keeps tools out
  between decision and fork; `AgeInv` and `ForkInv` bound a task's age by the time since its last launch plus the lag.
- `ConsoleProofs`: `SpinnerIsOffAtThePrompt`, `OnlyLeavesWhenAsked`, `AlwaysLeavesClean`, for any number of lines,
  signals and edits, and `SkillsAreKnown`, `FrontIsRead` (below). `SpinnerInv` keeps the spinner thread inside a turn.
  `AskedInv` relates the flags and the last input to the past: `running` is down only if somebody asked, and a
  `readline` that ended counts as asked unless a Ctrl-C is on record, which a `/quit` it returned keeps until the end.
  `TeardownInv` says that what is gone went in the order of `cleanup` and before what is left. `SkillsAreKnown` says
  of prompt and list what the author of the files means by them. `SkillBounds` asks that the directories are those of
  `MCConsole` and each fits the list; the bounds, the edits and the order of `readdir` are any. `FrontMatterIs` finds
  the two rules of a text, `FrontIsRead` shows what the parser makes of a head that is closed, field by field,
  whatever body follows it; `ScanFinds` that a scan takes each loadable entry once (`TakenOnce`: positions taken in
  their order come once each, by counting them). `SkillsInv` is that the directory is one of those, that the prompt
  was made of a scan of what boot saw and the list of what the last scan saw.
- `FilesProofs`: `FilesAnswer`, for every tree of names, content, chunk, limit and whatever others do during the call.
  The hypothesis `SetUp` is that names form a finite tree (each but the top has one above it, and one can count the
  way up), that what there is at first hangs together, and that what can be written is made of bytes. Then, of what is
  read from configuration files: `SettingInPriority`, `LevelFollows`, `AllowedByPatterns`, `GoesByWhatIsWritten`,
  `GoesWhereItIsSet`, for files of any length.

  A call: `ReadInv` says that each byte read stood at its place in a content the file had during the call, and that a
  file nobody touches has been read from its beginning; `WriteInv` that such a file holds what has been written so
  far; `WalkInv` that the walks know only names there have been. `ListInv` and `SearchInv` are the hard ones. A name
  that is there all the time is found, or it is due in the open directory; for `file_search`, it or one of the names
  above it is due in the directory open at that depth. `Way` is the way up from a name, `Sought` what the search has
  to find; `AboveAreMany` relates how far below the path a name is to how many are above it.

  The texts: `FoldExists` and `FoldSteps` turn the fold over lines that the models use into a sequence of states from
  line to line, and `PositionByPosition` is the induction over them, in first-order form: there is no least line at
  which it goes wrong (`LeastNumber`). What is then shown of each line is `LastOfEach` (each key of a file stands once
  in the table, with its last value) in `Settings`; `LoadedSo` (the lists have the patterns of their own sections, and
  no more of them than `Total`) in `Allowlist`; `Placed` and `Filled` (the profiles stand in the order of their
  headers, and each field has the last value given below its header) in `Devices`. `LevelFollows` says of the log
  level that one of the given ones counts, not which. Hypotheses are that the names are no blanks, and what the
  properties themselves say of room in the tables.
- `SerialProofs`: `AlwaysClosedAndDone`, `OutputIsOwn`, `TypesWhereAsked`, for every profile, list of commands, buffer
  and line. The hypothesis `SetUp` is that there is a command (`serial_tool.c:722` refuses a call without) and that
  what a device may still have to say is made of tokens. `CountInv` counts results against commands. `Talk` says, for
  each place the tool can be in, what the buffer, the line and what the device still owes form together (`Said`): a
  token read too early or left over would break it. It speaks of calls that find the line empty and whose device
  prints its prompt only where there is one (`Clean`), and of commands up to the first that timed out; so do the
  properties. Outputs keep their positions in the answer, so that a token lost in between would show.
- `ToolsProofs`: `ChildIsReaped`, `OutputIsComplete` for every timeout, cap, chunk and pipe. `ChildInv` ties the
  child's state to where the tool stands; `OutputInv` says that what the command wrote before it exited or was killed
  is in the output or still in the pipe, unless the cap was reached, and that the last drain empties the pipe.

  `NothingIsLeftOpen`, `OutputsAreOwn`, `LinesGoWhereAsked` and `FilesAreAnswered` carry what is shown of `Shell`,
  `Serial` and `Files` over to `MCTools`, where parts follow each other (`Bounds`: at least one command; `FileBounds`:
  limits are numbers), by showing that its constants meet the hypotheses.

  `RunsAsAsked`, `IdsAreFresh` and `SentIsAsStored` are about replies with any number of calls and brackets
  (`ProviderBounds`: the bounds are numbers). `ReplyInv` says that calls about to be run are those of the reply in its
  order, and of Ollama that none is broken, and that the calls that have been run are these, one for one (`RanAll`);
  that an id is above the counter before the reply and given once follows from how one reply is taken (`ChatTakes`).
  `SentAsStored` follows from it message by message, with `OfferedIsFound`: what the registry offers it also finds,
  however few tools it has room for.

  `TextsAreRead` is about the texts `tools` reads with any room in the tables (`TextBounds`); it follows from the
  theorems of `FilesProofs`, whose operators are shown to be those of `MCTools` (`SettingAsThere` and its like).
- `WorkspaceProofs`: `EntriesAreGrouped` needs `LastDateKnown`: while the log's writes come out whole, `h->last_date`
  is unset or the date of the last heading in the file, through crashes and restarts, or it is the date of all that
  stands in a file begun after the migration's unlink. `PromptStaysCurrent` needs to know that only a daemon comes to
  its idle state without `Inject`.

  The other three, `StoringIsExact`, `ShortWritesOnlyLose` and `MemoryIsMap` (`Workspace` implements `FactStore`), rest
  on a theory of the rewritten file. `FlattenLays` gives each line of the file its place in what the loop puts out;
  `Woven` says what stands there: the lines of the old file in their order, the replaced ones as the bullet and the
  lines that follow it, and the same before the heading that ends the section. From it `OthersWoven` and `UnderWoven`
  follow (no line comes to stand in another section), `HitsWoven` (what holds the key is the bullet, or a line behind
  one) and `FirstWoven` (the first to hold it is a bullet as stored). `StoredElsewhere`, `StoredThere` and
  `StoredFirst` put the loop, the end of the file and the new section together: the first for other sections, the
  second for values of one line, the third for the key itself. They speak of a file as the store reads it;
  `ReadAlike` says when `memory_recall` reads it the same. `ShorterRecall` is that the answers of a file's first bytes
  are the file's own, cut off, or none; it has no condition on the file, so neither has `ShortWritesOnlyLose`.

  The assumptions of `Workspace` are that days are dates and not sections, that the files found are made of lines,
  that no section is called like a heading something was appended to, and that only the first line of a value can fill
  the bullet. `StoringIsExact` has the hypothesis `KeysReadBack` (keys without a colon); `MemoryIsMap` has it too, and
  that the template holds no facts (`TemplateIsBare`), else seeding would be a store. What else the map needs of the
  file is not assumed but observed: once a write of `MEMORY.md` came out short or left it unfit (over its limit, with
  a line too long, ending without a newline in a mapped section), `sound` is false and the map allows anything. The
  invariant is that a sound `MEMORY.md` is `Fit`, that what waits to be renamed was made of `MEMORY.md` as it still is
  (`Waiting`), and that no heading of `HISTORY.md` is a section (`LogLine`), or a migration would start one, whatever
  the writes that came out short have left of it. The instance of `MCWorkspace` meets the hypotheses.

Only model-checked: liveness (`TurnEnds`, `RequestsServed`, `ShutdownCompletes`, `TasksRecur`, `DestroyReturns`,
`SignalHeard`, `CallsReturn`), which needs ENABLED and fairness and is out of the prover's reach. Every other property
of a passing run is a theorem. What a recursive definition computes for every input is shown for the folds only,
whose recursion is over positions.

Two remarks for whoever goes on. The prover cannot expand `SelectSeq`, so `Settings`, `Provider` and `Skills` take
elements out of a sequence by their positions (`Ordering`). The cost of an obligation grows with all that is visible
where it stands, expanded or not: lemmas about a small module belong where only that module is visible, and an
instance right before its first use.

## 7. Not modelled

`sanitize_output` and `strip_ansi` of the output of shell_exec and serial_exec, HTML and JSON of answers, what is left
of a text beside a `<think>` block, strings and log (formatting); the HTTP client (one libcurl call with a timeout;
what it can come back with is in `Provider`); heartbeat (created and never started; its lifecycle is the scheduler's);
the output of `schedule_list`, `memory_search` and the slash commands that only print; the shell of a scheduled task;
links and permissions of files, and with them a `MEMORY.md` that is there and does not open to be read; cJSON (third
party).

## 8. Plan

1. The provider's outcomes as the source of `Agent`'s steps, with the ids in the window.
2. The sanitising of the output of shell_exec and serial_exec, as a function on tokens (`sanitize_output` of `Files`
   is a beginning).
