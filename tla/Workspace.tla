------------------------------ MODULE Workspace ------------------------------
(***************************************************************************)
(* The files of workspace/memory through the life of the program: boot of  *)
(* cli/main.c with templates_seed, history_create and memory_create, the   *)
(* turns in which the model stores facts, the log that history_log keeps,  *)
(* shutdown, and a crash at any point.                                     *)
(*                                                                         *)
(* An operation on a file is one step unless the process can stop in the   *)
(* middle of it with something to see: memory_store writes a temporary     *)
(* file and renames it, the migration stores HISTORY.md and then deletes   *)
(* it.  A file may not open, and a write may reach it in part; the code    *)
(* looks at the results of fopen and rename and of no other call.  Memory  *)
(* operations run under the mutex of memory_t and history_log under that   *)
(* of history_t, one caller at a time.                                     *)
(*                                                                         *)
(* Operators named Wrong... are faulty variants that the specification     *)
(* never uses; see module Agent.                                           *)
(***************************************************************************)
EXTENDS MemoryFile

CONSTANTS
  Sections,     (* CANONICAL_SECTIONS                                       *)
  Notes,        (* "Important Notes"                                        *)
  Keys,         (* the keys the model stores facts under                    *)
  Values,       (* the values it stores                                     *)
  Days,         (* dates, in the order in which they come                   *)
  Template,     (* templates/memory/MEMORY.md                               *)
  Edited,       (* the files a user may have left as MEMORY.md              *)
  Migrated,     (* the lines of HISTORY.md that fit into a bullet of 2048   *)
  MaxBoots,     (* bound: starts of the program                             *)
  MaxTurns,     (* bound: turns                                             *)
  MaxStores,    (* bound: facts stored                                      *)
  MaxFaults     (* bound: calls on a file that fail                         *)

\* There is a first day, and each has a date.
ASSUME DaysAreDates == Days \in Seq(STRING \ {None}) /\ Days # <<>>

\* The bullets that stand for one entry of HISTORY.md and for HISTORY.md itself.
Time == "Time"
HistoryKey == "HISTORY.md"

\* No section is named like a date, nor like a heading that something was appended to.
ASSUME SectionsAreApart ==
  /\ {"Preferences", Notes} \subseteq Sections
  /\ Garbled \notin Sections
  /\ \A i \in DOMAIN Days : Days[i] \notin Sections

\* The lines of MEMORY.md, and that the files found there are made of them.
MemoryLine ==
  [kind : {"heading", "bullet", "text"},
   name : STRING \cup Sections \cup Keys \cup {Time, HistoryKey, Garbled, None},
   val  : STRING \cup Values \cup {Garbled, None},
   full : BOOLEAN]

ASSUME FilesAreLines ==
  /\ Edited \cup {Template} \subseteq [lines : Seq(MemoryLine), open : BOOLEAN]
  /\ Migrated \in Nat /\ MaxLines \in Nat

\* The lines behind the first of a value share its 2048 bytes.
ASSUME ValuesAreLines ==
  /\ More \in [Values -> Seq(MemoryLine)]
  /\ \A v \in Values : \A i \in DOMAIN More[v] : ~More[v][i].full

VARIABLES
  memory,     (* MEMORY.md                                                  *)
  history,    (* HISTORY.md                                                 *)
  pending,    (* what write_memory_file is to write, until the rename       *)
  lastDate,   (* h->last_date                                               *)
  day,        (* today, as an index of Days                                 *)
  pc,         (* where the process stands                                   *)
  mode,       (* cli or daemon                                              *)
  prompt,     (* MEMORY.md as the system prompt quotes it                   *)
  boots,      (* starts so far                                              *)
  turns,      (* turns so far                                               *)
  stores,     (* facts stored so far                                        *)
  faults,     (* calls on a file that failed so far                         *)
  sound       (* no variable of the program: the files that every write has *)
              (* reached whole, MEMORY.md while it was fit to be read too   *)

files  == <<memory, history, pending>>
counts == <<boots, turns, stores, faults, sound>>
vars   == <<files, lastDate, day, pc, mode, prompt, counts>>

-----------------------------------------------------------------------------

Today == Days[day]

\* A MEMORY.md that memory_store and memory_recall read alike and keep: it is within
\* the limit, no line is too long for their buffers, no heading of a section has
\* blanks around it, and if the last line has no newline it is, as in the template,
\* text of the last section.
Fit(f) ==
  /\ Len(f.lines) <= MaxLines
  /\ \A i \in DOMAIN f.lines : ~f.lines[i].full
  /\ \A i \in DOMAIN f.lines, s \in Sections : f.lines[i] # Padded(s)
  /\ f.open /\ f # NoFile =>
       /\ f.lines # <<>>
       /\ Last(f.lines).kind = "text"
       /\ Under(f.lines, Len(f.lines), Exact(Notes))

\* A write that reaches MEMORY.md whole.
ComesWhole ==
  /\ UNCHANGED faults
  /\ sound' = IF Fit(memory') THEN sound ELSE sound \ {"MEMORY.md"}

\* A call that fails and changes nothing, and a write that reaches the file in part.
Fails ==
  /\ faults < MaxFaults
  /\ faults' = faults + 1
  /\ UNCHANGED sound

ComesShort(file) ==
  /\ faults < MaxFaults
  /\ faults' = faults + 1
  /\ sound' = sound \ {file}

\* create_initial_memory.
Initial == File(<<Heading("Preferences"), Heading(Notes)>>, FALSE)

Init ==
  /\ memory \in {NoFile} \cup Edited
  /\ history = NoFile
  /\ pending = NoFile
  /\ lastDate = None
  /\ day = 1
  /\ pc = "down"
  /\ mode \in {"cli", "daemon"}
  /\ prompt = Empty
  /\ boots = 0 /\ turns = 0 /\ stores = 0 /\ faults = 0
  /\ sound = IF Fit(memory) THEN {"MEMORY.md", "HISTORY.md"} ELSE {"HISTORY.md"}

-----------------------------------------------------------------------------
(* history.c.                                                              *)

\* detect_last_date: the last date heading of the file, or none if it is further
\* back than the 4096 bytes that are read.
Detected ==
  LET dates == {i \in DOMAIN history.lines : history.lines[i].kind = "heading"}
  IN  IF history = NoFile \/ dates = {} THEN {None}
      ELSE {None, history.lines[Max(dates)].name}

\* What history_log writes: a date heading if the date has changed, and the entry.
\* It begins with a newline or with the title of the entry, and so does not continue
\* a line that an earlier write left without its end.
Entry ==
  (IF Today # lastDate THEN <<Heading(Today)>> ELSE <<>>) \o <<Bullet(Time, Today)>>

\* HISTORY.md with lines appended, which creates it.
Logged(lines) ==
  File((IF history = NoFile THEN <<>> ELSE history.lines) \o lines, FALSE)

\* history_log: the entry, a part of it, or nothing where the file does not open.
Log ==
  \/ /\ history' = Logged(Entry)
     /\ lastDate' = Today
     /\ UNCHANGED <<faults, sound>>
  \/ /\ \E part \in Shorter(File(Entry, FALSE)) : history' = Logged(part.lines)
     /\ lastDate' = Today
     /\ ComesShort("HISTORY.md")
  \/ Fails /\ UNCHANGED <<history, lastDate>>

-----------------------------------------------------------------------------
(* boot.                                                                   *)

\* A new process.
PowerOn ==
  /\ pc = "down" /\ boots < MaxBoots
  /\ pc' = "seed"
  /\ lastDate' = None
  /\ prompt' = Empty
  /\ boots' = boots + 1
  /\ UNCHANGED <<files, day, mode, turns, stores, faults, sound>>

\* MEMORY.md made of the content if it is missing: not at all where it does not open,
\* and in part where the results of fwrite, fprintf and fclose would have told.
Made(content) ==
  \/ /\ memory' \in IF memory = NoFile THEN {NoFile, content} ELSE {memory}
     /\ ComesWhole
  \/ /\ memory = NoFile
     /\ memory' \in Shorter(content)
     /\ ComesShort("MEMORY.md")

\* templates_seed; where there is no template nothing happens.
Seed ==
  /\ pc = "seed"
  /\ Made(Template)
  /\ pc' = "history"
  /\ UNCHANGED <<history, pending, lastDate, day, mode, prompt, boots, turns, stores>>

\* The process stops before the copy is flushed: the file exists and is empty, and
\* will not be seeded again.
TornSeed ==
  /\ pc = "seed" /\ memory = NoFile
  /\ memory' = Empty
  /\ ComesWhole
  /\ pc' = "down"
  /\ UNCHANGED <<history, pending, lastDate, day, mode, prompt, boots, turns, stores>>

\* The date of HISTORY.md not looked up but taken from the clock.
WrongOpenHistory ==
  /\ pc = "history"
  /\ history' = IF history = NoFile THEN Empty ELSE history
  /\ lastDate' = IF history = NoFile THEN None ELSE Today
  /\ pc' = "starting"
  /\ UNCHANGED <<memory, pending, day, mode, prompt, counts>>

\* history_create; the header of a new file is text that is left out.
OpenHistory ==
  /\ pc = "history"
  /\ history' \in IF history = NoFile THEN {NoFile, Empty} ELSE {history}
  /\ lastDate' \in Detected
  /\ pc' = "starting"
  /\ UNCHANGED <<memory, pending, day, mode, prompt, counts>>

\* history_log("Agent Starting")
LogStarting ==
  /\ pc = "starting"
  /\ Log
  /\ pc' = "initialized"
  /\ UNCHANGED <<memory, pending, day, mode, prompt, boots, turns, stores>>

\* history_log("Agent Initialized"), or ("Startup Failed") and exit.
LogInitialized ==
  /\ pc = "initialized"
  /\ Log
  /\ pc' \in {"memory", "down"}
  /\ UNCHANGED <<memory, pending, day, mode, prompt, boots, turns, stores>>

\* memory_create up to the migration.
OpenMemory ==
  /\ pc = "memory"
  /\ Made(Initial)
  /\ pc' = "migrate"
  /\ UNCHANGED <<history, pending, lastDate, day, mode, prompt, boots, turns, stores>>

\* The bullet migrate_legacy_files stores: HISTORY.md as the value of a key, cut off
\* at the length of a bullet.
Copied ==
  <<Bullet(HistoryKey, None)>>
    \o SubSeq(history.lines, 1, IF Len(history.lines) < Migrated
                                THEN Len(history.lines) ELSE Migrated)

\* migrate_legacy_files takes HISTORY.md for a memory file of an older version, and
\* passes over it where it is missing or does not open.
Migrate ==
  /\ pc = "migrate"
  /\ \/ /\ IF history = NoFile THEN UNCHANGED <<faults, sound>> ELSE Fails
        /\ pc' = "inject"
        /\ UNCHANGED pending
     \/ /\ history # NoFile
        /\ \E long \in BOOLEAN :
             pending' = Stored(Read(memory), Notes, HistoryKey, Copied, long)
        /\ pc' = "rename"
        /\ UNCHANGED <<faults, sound>>
  /\ UNCHANGED <<memory, history, lastDate, day, mode, prompt, boots, turns, stores>>

\* The end of memory_store, for the migration and for a fact.
Replacing ==
  /\ pc \in {"rename", "stored"}
  /\ pending' = NoFile
  /\ pc' = IF pc = "rename" THEN "unlink" ELSE "turn"
  /\ UNCHANGED <<history, lastDate, day, mode, prompt, boots, turns, stores>>

\* write_memory_file: the temporary file written and renamed.
Rename ==
  /\ Replacing
  /\ memory' = pending
  /\ ComesWhole

\* What reached the disk written over MEMORY.md itself.
WrongRenameShort ==
  /\ Replacing
  /\ \E part \in Shorter(pending) :
       LET n == Len(part.lines)
       IN  memory' = File(part.lines \o SubSeq(memory.lines, n + 1, Len(memory.lines)),
                          memory.open)
  /\ ComesShort("MEMORY.md")

\* fputs or fclose fails, on a full disk for one: nobody asks, and the temporary file
\* is renamed all the same.
RenameShort ==
  /\ Replacing
  /\ memory' \in Shorter(pending)
  /\ ComesShort("MEMORY.md")

\* The temporary file does not open or the rename fails, and nothing is replaced; the
\* model is told of it, the migration does not listen.
RenameFails ==
  /\ Replacing
  /\ Fails
  /\ UNCHANGED memory

\* unlink(legacy_path), whose result is not asked for.
Unlink ==
  /\ pc = "unlink"
  /\ \/ history' = NoFile /\ UNCHANGED <<faults, sound>>
     \/ Fails /\ UNCHANGED history
  /\ pc' = "inject"
  /\ UNCHANGED <<memory, pending, lastDate, day, mode, prompt, boots, turns, stores>>

\* memory_get_context into the system prompt; the daemon goes on to its log entry.
Inject ==
  /\ pc = "inject"
  /\ prompt' = Read(memory)
  /\ pc' = IF mode = "daemon" THEN "daemon" ELSE "idle"
  /\ UNCHANGED <<files, lastDate, day, mode, counts>>

\* history_log("Daemon Started"), or ("Gateway Failed") and exit.
LogDaemon ==
  /\ pc = "daemon"
  /\ Log
  /\ pc' \in {"idle", "down"}
  /\ UNCHANGED <<memory, pending, day, mode, prompt, boots, turns, stores>>

-----------------------------------------------------------------------------
(* Turns, and the end.                                                     *)

BeginTurn ==
  /\ pc = "idle" /\ turns < MaxTurns
  /\ pc' = "turn"
  /\ turns' = turns + 1
  /\ UNCHANGED <<files, lastDate, day, mode, prompt, boots, stores, faults, sound>>

\* The bullet of a fact: a value of several lines becomes as many lines of the file,
\* headings and bullets among them.
Fact(k, v) == <<Bullet(k, v)>> \o More[v]

\* MEMORY.md itself opened to be written.
WrongStoreFact(s, k, v) ==
  /\ pc = "turn" /\ stores < MaxStores
  /\ pc' = "stored"
  /\ stores' = stores + 1
  /\ \E long \in BOOLEAN : pending' = Stored(Read(memory), s, k, Fact(k, v), long)
  /\ memory' = Empty
  /\ UNCHANGED <<history, lastDate, day, mode, prompt, boots, turns, faults, sound>>

\* memory_store up to write_memory_file.
StoreFact(s, k, v) ==
  /\ pc = "turn" /\ stores < MaxStores
  /\ pc' = "stored"
  /\ stores' = stores + 1
  /\ \E long \in BOOLEAN : pending' = Stored(Read(memory), s, k, Fact(k, v), long)
  /\ UNCHANGED <<memory, history, lastDate, day, mode, prompt, boots, turns, faults, sound>>

\* The prompt refreshed before the turn instead of after it.
WrongEndTurn ==
  /\ pc = "turn"
  /\ pc' = "idle"
  /\ IF mode = "cli" THEN Log ELSE UNCHANGED <<history, lastDate, faults, sound>>
  /\ UNCHANGED <<memory, pending, day, mode, prompt, boots, turns, stores>>

\* agent_chat returns.  run_cli logs a turn that was answered and refreshes the
\* memory in the prompt; handle_chat does neither.
EndTurn ==
  /\ pc = "turn"
  /\ pc' = "idle"
  /\ IF mode = "cli"
     THEN /\ Log \/ UNCHANGED <<history, lastDate, faults, sound>>
          /\ prompt' = Read(memory)
     ELSE UNCHANGED <<history, lastDate, prompt, faults, sound>>
  /\ UNCHANGED <<memory, pending, day, mode, boots, turns, stores>>

\* history_log("Agent Stopped"), cleanup and exit.
Stop ==
  /\ pc = "idle"
  /\ Log
  /\ pc' = "down"
  /\ UNCHANGED <<memory, pending, day, mode, prompt, boots, turns, stores>>

\* The process is killed.  The temporary file is left behind, where the next store
\* overwrites it.
Crash ==
  /\ pc # "down"
  /\ pc' = "down"
  /\ pending' = NoFile
  /\ UNCHANGED <<memory, history, lastDate, day, mode, prompt, counts>>

Midnight ==
  /\ day < Len(Days)
  /\ day' = day + 1
  /\ UNCHANGED <<files, lastDate, pc, mode, prompt, counts>>

Boot ==
  \/ PowerOn \/ Seed \/ TornSeed \/ OpenHistory \/ LogStarting \/ LogInitialized
  \/ OpenMemory \/ Migrate \/ Unlink \/ Inject \/ LogDaemon

Turn ==
  \/ BeginTurn
  \/ \E s \in Sections, k \in Keys, v \in Values : StoreFact(s, k, v)
  \/ EndTurn

Next == Boot \/ Turn \/ Rename \/ RenameShort \/ RenameFails \/ Stop \/ Crash \/ Midnight

Spec == Init /\ [][Next]_vars

-----------------------------------------------------------------------------

\* What memory_recall answers for every section and key.
Facts(sections) ==
  [sk \in sections \X Keys |-> Recall(Read(memory), sk[1], sk[2])]

\* The sections that the lines of a value open again.
Opened(v) ==
  {t \in Sections : \E i \in DOMAIN More[v] : More[v][i] \in Trimmed(t)}

\* md_memory.c: "If the key already exists, its line is replaced".  In a file that ends
\* with a newline and whose lines fit their buffers, whatever headings and bullets it
\* holds and however often they are repeated, a store changes no answer for another
\* section unless the value itself opens that section; and unless a heading of its own
\* section has blanks around it, the value becomes the answer for its key there, as much
\* as memory_recall gives of it, and if it is of one line nothing else changes.
StoreIsExact ==
  [][\A s \in Sections, k \in Keys, v \in Values :
       LET lines == Read(memory).lines IN
       (/\ StoreFact(s, k, v)
        /\ ~Read(memory).open
        /\ \A i \in DOMAIN lines : ~lines[i].full)
       => \A t \in Sections, l \in Keys :
            /\ t # s /\ t \notin Opened(v) =>
                 Recall(pending', t, l) = Recall(Read(memory), t, l)
            /\ (l = k \/ More[v] = <<>>) /\ (\A i \in DOMAIN lines : lines[i] # Padded(s)) =>
                 Recall(pending', s, l)
                   = IF l = k THEN Shown(v) ELSE Recall(Read(memory), s, l)]_vars

\* The sections other than "Important Notes" behave as a map, through boots,
\* migrations, crashes, failing writes and the log, for as long as every write of
\* MEMORY.md came out whole and left it fit to be read.
Store == INSTANCE FactStore
  WITH Sections <- Sections \ {Notes},
       Values   <- {Shown(v) : v \in {u \in Values : More[u] = <<>>}},
       Lists    <- {[first |-> Shown(v), opens |-> Opened(v)] :
                      v \in {u \in Values : More[u] # <<>>}},
       facts    <- Facts(Sections \ {Notes}),
       sound    <- "MEMORY.md" \in sound

ImplementsFactStore == Store!Spec

\* A store whose temporary file came out short loses facts and may cut the value of the
\* last one it kept, but gives none that was not to be stored, and none of a fact that
\* the file held before and was to hold no longer.
ShortWriteOnlyLoses ==
  [][RenameShort =>
       \A s \in Sections, l \in Keys :
         Recall(Read(memory'), s, l) \in {Recall(pending, s, l), None, Shown(Garbled)}]_vars

\* history.h: "Entries are grouped by date (## YYYY-MM-DD sections auto-created)".  As
\* long as every write of the log came out whole, an entry is written under the heading
\* of its date; but where the migration has deleted the file since the last one, it may
\* come to stand in a file of entries of its date alone, under no heading.
GroupedByDate ==
  [][\A i \in DOMAIN history'.lines :
       LET lines == history'.lines IN
       (i > Len(history.lines) /\ lines[i].kind = "bullet" /\ "HISTORY.md" \in sound')
       => \/ Under(lines, i, Exact(lines[i].val))
          \/ /\ pc \in {"daemon", "idle", "turn"}
             /\ \A j \in 1..(i - 1) : lines[j] = lines[i]]_vars

\* main.c: "Refresh memory context in system prompt slot after each turn": between the
\* turns of a command line session the prompt quotes MEMORY.md as it is.
PromptIsCurrent == mode = "cli" /\ pc = "idle" => prompt = Read(memory)

-----------------------------------------------------------------------------
(* What comments of the code say, and the code does not do.                *)

\* history.h: "Append-only. Entries are never modified or deleted."
HistoryIsAppendOnly == [][IsPrefix(history.lines, history'.lines)]_vars
=============================================================================
