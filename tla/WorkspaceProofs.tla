--------------------------- MODULE WorkspaceProofs ---------------------------
(***************************************************************************)
(* What holds of workspace/memory for every number of starts and turns,    *)
(* every file a user may have left, every sequence of dates and any number *)
(* of calls that fail: where the log puts its entries, what a store does   *)
(* to MEMORY.md, what a short write leaves of it, and that the file is a   *)
(* map.  What a key and a template have to be is a hypothesis of the       *)
(* theorem that needs it.                                                  *)
(***************************************************************************)
EXTENDS Workspace, TLAPS, WellFoundedInduction

-----------------------------------------------------------------------------
(* Numbers and sequences.                                                  *)

\* A set of numbers that is not empty has a least one.
LEMMA LeastNumber ==
  ASSUME NEW T, T \subseteq Nat, T # {}
  PROVE  Min(T) \in T /\ \A y \in T : Min(T) <= y
<1>1. \E x \in T : \A y \in T : ~(<<y, x>> \in OpToRel(<, Nat))
  BY NatLessThanWellFounded, WFMin, Zenon
<1>2. PICK x \in T : \A y \in T : ~(<<y, x>> \in OpToRel(<, Nat))
  BY <1>1
<1>3. \A y \in T : x <= y
  <2>1. TAKE y \in T
  <2>2. ~(<<y, x>> \in OpToRel(<, Nat))
    BY <1>2
  <2>3. x \in Nat /\ y \in Nat
    OBVIOUS
  <2> QED
    BY <2>2, <2>3 DEF OpToRel
<1> QED
  BY <1>3 DEF Min

\* And a greatest one, if it has a bound.
LEMMA GreatestNumber ==
  ASSUME NEW N \in Nat, NEW T, T \subseteq 1..N, T # {}
  PROVE  Max(T) \in T /\ \A y \in T : Max(T) >= y
<1> DEFINE U == {N - y : y \in T}
<1>1. Min(U) \in U /\ \A y \in U : Min(U) <= y
  <2>1. U \subseteq Nat /\ U # {}
    <3>1. \A y \in T : N - y \in Nat
      <4>1. \A y \in 1..N : N - y \in Nat
        OBVIOUS
      <4> QED
        BY <4>1
    <3> QED
      BY <3>1
  <2> HIDE DEF U
  <2> QED
    BY <2>1, LeastNumber
<1>2. PICK x \in T : Min(U) = N - x
  BY <1>1
<1>3. ASSUME NEW y \in T
      PROVE  x >= y
  <2>1. N - y \in U
    OBVIOUS
  <2>2. N - x <= N - y
    BY <1>1, <1>2, <2>1
  <2>3. x \in Nat /\ y \in Nat
    OBVIOUS
  <2> HIDE DEF U
  <2> QED
    BY <2>2, <2>3
<1> QED
  BY <1>3 DEF Max

\* The lines of c are those of a and then those of b.
Joined(c, a, b) ==
  /\ Len(a) \in Nat /\ Len(b) \in Nat /\ Len(c) = Len(a) + Len(b)
  /\ \A m \in 1..Len(a) : c[m] = a[m]
  /\ \A m \in 1..Len(b) : c[Len(a) + m] = b[m]

\* Two sequences put one after the other.
LEMMA ConcatAt ==
  ASSUME NEW L, NEW a \in Seq(L), NEW b \in Seq(L)
  PROVE  a \o b \in Seq(L) /\ Joined(a \o b, a, b)
BY DEF Joined

-----------------------------------------------------------------------------
(* HISTORY.md.  That an entry stands under its date says nothing of the    *)
(* entry to come: history_log trusts h->last_date.  What makes it          *)
(* trustworthy, as long as no write came out short, is that it is either   *)
(* unset or the date of the last heading of the file, which has to survive *)
(* a crash that leaves h->last_date to the next start; and that the one    *)
(* file it is not true of, the one begun after the migration has deleted   *)
(* the file that had the heading, holds entries of that date alone.        *)

DateLine == {Heading(date) : date \in STRING} \cup {Bullet(Time, date) : date \in STRING}

\* Where the process can stand once the migration is past.
Late == {"inject", "daemon", "idle", "turn", "stored", "down"}

LastDateKnown ==
  LET lines == history.lines
  IN  \/ lastDate = None
      \/ Under(lines, Len(lines), Exact(lastDate))
      \/ pc \in Late /\ \A i \in DOMAIN lines : lines[i] = Bullet(Time, lastDate)

Logs == [lines : Seq(DateLine), open : BOOLEAN]

HistoryInv ==
  /\ day \in DOMAIN Days
  /\ "HISTORY.md" \in sound => history \in Logs /\ LastDateKnown

\* The entry at the end of the file stands where it should.
EntryStands(lines) ==
  \/ Under(lines, Len(lines), Exact(Today))
  \/ /\ pc \in {"daemon", "idle", "turn"}
     /\ \A j \in 1..Len(lines) : lines[j] = Bullet(Time, Today)

\* An entry may be logged at any time.
LEMMA LogGroups ==
  ASSUME HistoryInv, "HISTORY.md" \in sound, pc # "inject",
         pc \in Late => pc \in {"daemon", "idle", "turn"},
         history' = Logged(Entry)
  PROVE  LET n == Len(history.lines)
             new == history'.lines
         IN  /\ history' \in Logs
             /\ \A i \in DOMAIN new : i > n /\ new[i].kind = "bullet" =>
                  i = Len(new) /\ new[i] = Bullet(Time, Today)
             /\ EntryStands(new)
<1> DEFINE old == IF history = NoFile THEN <<>> ELSE history.lines
           entry == Bullet(Time, Today)
           new == history'.lines
           n == Len(old)
<1>1. Today \in STRING /\ Today # None
  BY DaysAreDates DEF Today, HistoryInv
<1>2. entry \in DateLine /\ Heading(Today) \in DateLine
  BY <1>1 DEF DateLine
<1>3. history \in Logs /\ LastDateKnown
  BY DEF HistoryInv
<1>4. old \in Seq(DateLine) /\ old = history.lines
  BY <1>3 DEF Logs, NoFile, File
<1>5. new = old \o Entry /\ history' = File(new, FALSE)
  BY DEF Logged, File
<1>6. /\ entry.kind = "bullet" /\ entry.val = Today
      /\ Heading(Today).kind = "heading" /\ Heading(Today) \in Exact(Today)
  BY DEF Bullet, Heading, Line, Exact
<1>7. n \in Nat /\ DOMAIN old = 1..n /\ n = Len(history.lines)
  BY <1>4
<1>8. LastDateKnown =
        \/ lastDate = None
        \/ Under(old, n, Exact(lastDate))
        \/ pc \in Late /\ \A i \in 1..n : old[i] = Bullet(Time, lastDate)
  BY <1>4, <1>7 DEF LastDateKnown
<1>9. /\ Entry \in Seq(DateLine) /\ Len(Entry) = IF Today # lastDate THEN 2 ELSE 1
      /\ Today # lastDate => Entry[1] = Heading(Today) /\ Entry[2] = entry
      /\ Today = lastDate => Entry[1] = entry
  BY <1>2 DEF Entry
<1> HIDE DEF entry, old, n
<1>10. CASE Today # lastDate
  <2>1. new = old \o Entry
    BY <1>5
  <2> HIDE DEF new
  <2>2. /\ new \in Seq(DateLine)
        /\ DOMAIN new = 1..(n + 2) /\ Len(new) = n + 2
        /\ new[n + 1] = Heading(Today)
        /\ new[n + 2] = entry
    <3>1. new \in Seq(DateLine) /\ Joined(new, old, Entry)
      BY <1>4, <1>9, <2>1, ConcatAt
    <3>2. Len(Entry) = 2
      BY <1>9, <1>10
    <3> QED
      BY <1>7, <1>9, <1>10, <3>1, <3>2 DEF n, Joined
  <2>3. Under(new, Len(new), Exact(Today))
    <3>1. n + 1 \in 1..(n + 2) /\ new[n + 1] \in Exact(Today)
      BY <1>6, <1>7, <2>2
    <3>2. \A m \in ((n + 1) + 1)..(n + 2) : new[m].kind # "heading"
      BY <1>6, <1>7, <2>2
    <3> QED
      BY <2>2, <3>1, <3>2 DEF Under
  <2>4. history' \in Logs
    BY <1>5, <2>2 DEF Logs, File
  <2>5. \A i \in DOMAIN new : i > n /\ new[i].kind = "bullet" =>
          i = Len(new) /\ new[i] = entry
    BY <1>6, <1>7, <2>2
  <2> QED
    BY <1>7, <2>3, <2>4, <2>5 DEF EntryStands, entry, new
<1>11. CASE Today = lastDate
  <2>1. new = old \o Entry
    BY <1>5
  <2> HIDE DEF new
  <2>2. /\ new \in Seq(DateLine)
        /\ DOMAIN new = 1..(n + 1) /\ Len(new) = n + 1
        /\ \A i \in 1..n : new[i] = old[i]
        /\ new[n + 1] = entry
    <3>1. new \in Seq(DateLine) /\ Joined(new, old, Entry)
      BY <1>4, <1>9, <2>1, ConcatAt
    <3>2. Len(Entry) = 1
      BY <1>9, <1>11
    <3> QED
      BY <1>7, <1>9, <1>11, <3>1, <3>2 DEF n, Joined
  <2>3. EntryStands(new)
    <3>1. CASE Under(old, n, Exact(Today))
      <4>1. PICK j \in 1..n : /\ old[j] \in Exact(Today)
                              /\ \A m \in (j + 1)..n : old[m].kind # "heading"
        BY <3>1 DEF Under
      <4>2. j \in 1..(n + 1) /\ new[j] \in Exact(Today)
        BY <1>7, <2>2, <4>1
      <4>3. \A m \in (j + 1)..(n + 1) : new[m].kind # "heading"
        BY <1>6, <1>7, <2>2, <4>1
      <4> QED
        BY <2>2, <4>2, <4>3 DEF EntryStands, Under
    <3>2. CASE pc \in Late /\ \A i \in 1..n : old[i] = entry
      <4>1. pc \in {"daemon", "idle", "turn"}
        BY <3>2
      <4>2. \A j \in 1..Len(new) : new[j] = Bullet(Time, Today)
        BY <1>7, <2>2, <3>2 DEF entry
      <4> QED
        BY <4>1, <4>2 DEF EntryStands
    <3> QED
      BY <1>1, <1>3, <1>8, <1>11, <3>1, <3>2 DEF entry
  <2>4. history' \in Logs
    BY <1>5, <2>2 DEF Logs, File
  <2>5. \A i \in DOMAIN new : i > n /\ new[i].kind = "bullet" =>
          i = Len(new) /\ new[i] = entry
    BY <1>7, <2>2
  <2> QED
    BY <1>7, <2>3, <2>4, <2>5 DEF entry, new
<1> QED
  BY <1>10, <1>11

\* detect_last_date finds the date that the end of the file stands under, or nothing.
LEMMA DetectedIsLast ==
  ASSUME history \in Logs, NEW date \in Detected
  PROVE  date = None \/ Under(history.lines, Len(history.lines), Exact(date))
<1> DEFINE lines == history.lines
           dates == {i \in DOMAIN lines : lines[i].kind = "heading"}
<1>1. lines \in Seq(DateLine)
  BY DEF Logs
<1>2. DOMAIN lines = 1..Len(lines) /\ Len(lines) \in Nat
  BY <1>1
<1>3. CASE dates = {}
  BY <1>3 DEF Detected
<1>4. CASE dates # {}
  <2>1. dates \subseteq 1..Len(lines)
    BY <1>2
  <2>2. PICK j \in 1..Len(lines) :
          /\ lines[j].kind = "heading"
          /\ \A i \in 1..Len(lines) : lines[i].kind = "heading" => j >= i
          /\ j = Max(dates)
    <3>1. Max(dates) \in dates /\ \A i \in dates : Max(dates) >= i
      <4> HIDE DEF dates
      <4> QED
        BY <1>2, <1>4, <2>1, GreatestNumber
    <3> QED
      BY <1>2, <3>1
  <2>3. date \in {None, lines[j].name}
    BY <1>4, <2>2 DEF Detected
  <2> HIDE DEF lines
  <2>4. lines[j] = Heading(lines[j].name)
    <3>1. \A x \in DateLine : x.kind = "heading" => x = Heading(x.name)
      BY DEF DateLine, Heading, Bullet, Line
    <3> QED
      BY <1>1, <2>2, <3>1
  <2>5. \A m \in (j + 1)..Len(lines) : lines[m].kind # "heading"
    BY <1>2, <2>2
  <2>6. Under(lines, Len(lines), Exact(lines[j].name))
    BY <1>2, <2>2, <2>4, <2>5 DEF Under, Exact
  <2> QED
    BY <2>3, <2>6 DEF lines
<1> QED
  BY <1>3, <1>4

\* What a step may do to HISTORY.md, its date and the place of the process.
Stays ==
  /\ UNCHANGED <<history, lastDate>>
  /\ pc \in Late => pc' \in Late

Logging ==
  /\ pc \in {"starting", "initialized", "daemon", "idle", "turn"}
  /\ pc \in Late => pc' \in Late
  /\ history' = Logged(Entry)
  /\ lastDate' = Today

LEMMA HistorySteps ==
  ASSUME [Next]_vars
  PROVE  /\ sound' \subseteq sound
         /\ \/ "HISTORY.md" \notin sound'
            \/ PowerOn \/ OpenHistory \/ Midnight
            \/ (Stays \/ Logging) /\ UNCHANGED day
            \/ Unlink /\ history' = NoFile /\ UNCHANGED day
<1>1. ASSUME Log
      PROVE  /\ sound' \subseteq sound
             /\ \/ "HISTORY.md" \notin sound'
                \/ UNCHANGED <<history, lastDate>>
                \/ history' = Logged(Entry) /\ lastDate' = Today
  BY <1>1 DEF Log, Fails, ComesShort
<1>2. ASSUME NEW file, ComesShort(file)
      PROVE  sound' \subseteq sound
  BY <1>2 DEF ComesShort
<1>3. ASSUME ComesWhole
      PROVE  sound' \subseteq sound
  BY <1>3 DEF ComesWhole
<1>4. ASSUME Fails
      PROVE  sound' \subseteq sound
  BY <1>4 DEF Fails
<1>5. ASSUME NEW content, Made(content)
      PROVE  sound' \subseteq sound
  BY <1>2, <1>3, <1>5 DEF Made
<1>6. CASE Boot
  <2>1. CASE PowerOn \/ OpenHistory
    BY <2>1 DEF PowerOn, OpenHistory, counts
  <2>2. CASE LogStarting \/ LogInitialized \/ LogDaemon
    BY <1>1, <2>2 DEF LogStarting, LogInitialized, LogDaemon, Stays, Logging, Late
  <2>3. CASE Seed \/ OpenMemory
    BY <1>5, <2>3 DEF Seed, OpenMemory, Stays, Late
  <2>4. CASE TornSeed
    BY <1>3, <2>4 DEF TornSeed, Stays, Late
  <2>5. CASE Migrate
    BY <1>4, <2>5 DEF Migrate, Stays, Late
  <2>6. CASE Unlink
    BY <1>4, <2>6 DEF Unlink, Stays, Late
  <2>7. CASE Inject
    BY <2>7 DEF Inject, Stays, Late, files, counts
  <2> QED
    BY <1>6, <2>1, <2>2, <2>3, <2>4, <2>5, <2>6, <2>7 DEF Boot
<1>7. CASE Turn
  <2>1. CASE BeginTurn
    BY <2>1 DEF BeginTurn, Stays, Late, files
  <2>2. ASSUME NEW s \in Sections, NEW k \in Keys, NEW v \in Values, StoreFact(s, k, v)
        PROVE  sound' \subseteq sound /\ Stays /\ UNCHANGED day
    BY <2>2 DEF StoreFact, Stays, Late
  <2>3. CASE EndTurn
    BY <1>1, <2>3 DEF EndTurn, Stays, Logging, Late
  <2> QED
    BY <1>7, <2>1, <2>2, <2>3 DEF Turn
<1>8. CASE Rename \/ RenameShort \/ RenameFails
  <2>1. Stays /\ UNCHANGED day
    BY <1>8 DEF Rename, RenameShort, RenameFails, Replacing, Stays, Late
  <2> QED
    BY <1>2, <1>3, <1>4, <1>8, <2>1 DEF Rename, RenameShort, RenameFails
<1>9. CASE Stop
  BY <1>1, <1>9 DEF Stop, Stays, Logging, Late
<1>10. CASE Crash \/ Midnight \/ UNCHANGED vars
  BY <1>10 DEF Crash, Midnight, Stays, Late, counts, vars, files
<1> QED
  BY <1>6, <1>7, <1>8, <1>9, <1>10 DEF Next

\* What every step leaves of the log.
LEMMA NextHistory == HistoryInv /\ [Next]_vars => HistoryInv'
<1> SUFFICES ASSUME HistoryInv, [Next]_vars
             PROVE  HistoryInv'
  OBVIOUS
<1>1. day' \in DOMAIN Days
  <2>1. CASE Midnight
    BY <2>1, DaysAreDates DEF Midnight, HistoryInv
  <2>2. CASE UNCHANGED day
    BY <2>2 DEF HistoryInv
  <2>3. Midnight \/ UNCHANGED day
    BY DEF Next, Boot, Turn, PowerOn, Seed, TornSeed, OpenHistory, LogStarting,
           LogInitialized, OpenMemory, Migrate, Unlink, Inject, LogDaemon, BeginTurn,
           StoreFact, EndTurn, Rename, RenameShort, RenameFails, Replacing, Stop, Crash, vars
  <2> QED
    BY <2>1, <2>2, <2>3
<1> SUFFICES ASSUME "HISTORY.md" \in sound'
             PROVE  history' \in Logs /\ LastDateKnown'
  BY <1>1 DEF HistoryInv
<1>2. "HISTORY.md" \in sound /\ history \in Logs /\ LastDateKnown
  BY HistorySteps DEF HistoryInv
<1>3. CASE PowerOn
  BY <1>2, <1>3 DEF PowerOn, LastDateKnown, files
<1>4. CASE OpenHistory
  <2>1. history'.lines = history.lines /\ history' \in Logs
    <3>1. NoFile \in Logs /\ Empty \in Logs /\ NoFile.lines = Empty.lines
      BY DEF Logs, NoFile, Empty, File
    <3>2. history' = history \/ (history = NoFile /\ history' \in {NoFile, Empty})
      BY <1>4 DEF OpenHistory
    <3> QED
      BY <1>2, <3>1, <3>2
  <2>2. lastDate' = None \/ Under(history.lines, Len(history.lines), Exact(lastDate'))
    BY <1>2, <1>4, DetectedIsLast DEF OpenHistory
  <2> QED
    BY <2>1, <2>2 DEF LastDateKnown
<1>5. CASE Midnight \/ Stays
  <2>1. UNCHANGED <<history, lastDate>> /\ (pc \in Late => pc' \in Late)
    BY <1>5 DEF Midnight, Stays, files
  <2> QED
    BY <1>2, <2>1 DEF LastDateKnown
<1>6. CASE Logging
  <2>1. pc # "inject" /\ (pc \in Late => pc \in {"daemon", "idle", "turn"})
    BY <1>6 DEF Logging, Late
  <2>2. /\ history' \in Logs
        /\ EntryStands(history'.lines)
    BY <1>2, <1>6, <2>1, LogGroups DEF Logging
  <2>3. pc \in {"daemon", "idle", "turn"} => pc' \in Late
    BY <1>6 DEF Logging, Late
  <2>4. DOMAIN history'.lines = 1..Len(history'.lines)
    BY <2>2 DEF Logs
  <2> QED
    BY <1>6, <2>2, <2>3, <2>4 DEF EntryStands, LastDateKnown, Logging
<1>7. CASE Unlink /\ history' = NoFile
  <2>1. history'.lines = <<>> /\ history' \in Logs /\ pc' = "inject"
    BY <1>7 DEF Unlink, NoFile, File, Logs
  <2> QED
    BY <2>1 DEF LastDateKnown, Late
<1> QED
  BY <1>3, <1>4, <1>5, <1>6, <1>7, HistorySteps

LEMMA InitHistory == Init => HistoryInv
  BY DaysAreDates DEF Init, HistoryInv, LastDateKnown, Logs, NoFile, File

\* As long as every write came out whole an entry is written under the heading of its
\* date, or, where the migration has deleted the file with the heading, into a file of
\* entries of its date alone; whatever was deleted, whichever call failed and wherever
\* the program was stopped.
THEOREM EntriesAreGrouped == Spec => GroupedByDate
<1>1. ASSUME HistoryInv, [Next]_vars, "HISTORY.md" \in sound',
             NEW i \in DOMAIN history'.lines,
             i > Len(history.lines), history'.lines[i].kind = "bullet"
      PROVE  LET lines == history'.lines IN
             \/ Under(lines, i, Exact(lines[i].val))
             \/ /\ pc \in {"daemon", "idle", "turn"}
                /\ \A j \in 1..(i - 1) : lines[j] = lines[i]
  <2> DEFINE lines == history'.lines
  <2>1. "HISTORY.md" \in sound /\ history \in Logs /\ history' \in Logs
    BY <1>1, HistorySteps, NextHistory DEF HistoryInv
  <2>2. DOMAIN lines = 1..Len(lines) /\ Len(lines) \in Nat
    BY <2>1 DEF Logs
  <2>3. Logging
    <3>1. lines # history.lines /\ lines # <<>>
      BY <1>1, <2>1, <2>2 DEF Logs
    <3>2. ~OpenHistory
      BY <3>1 DEF OpenHistory, NoFile, Empty, File
    <3>3. ~PowerOn /\ ~Midnight /\ ~Stays
      BY <3>1 DEF PowerOn, Midnight, Stays, files
    <3>4. history' # NoFile
      BY <3>1 DEF NoFile, File
    <3> QED
      BY <1>1, <3>2, <3>3, <3>4, HistorySteps
  <2>4. pc # "inject" /\ (pc \in Late => pc \in {"daemon", "idle", "turn"})
    BY <2>3 DEF Logging, Late
  <2>5. /\ i = Len(lines) /\ lines[i] = Bullet(Time, Today)
        /\ EntryStands(lines)
    BY <1>1, <2>1, <2>3, <2>4, LogGroups DEF Logging
  <2>6. lines[i].val = Today
    BY <2>5 DEF Bullet, Line
  <2>7. \A j \in 1..(i - 1) : j \in 1..Len(lines)
    BY <2>2, <2>5
  <2> HIDE DEF lines
  <2> QED
    BY <2>5, <2>6, <2>7 DEF EntryStands, lines
<1>2. HistoryInv /\ [Next]_vars =>
        \A i \in DOMAIN history'.lines :
          LET lines == history'.lines IN
          (i > Len(history.lines) /\ lines[i].kind = "bullet" /\ "HISTORY.md" \in sound')
          => \/ Under(lines, i, Exact(lines[i].val))
             \/ /\ pc \in {"daemon", "idle", "turn"}
                /\ \A j \in 1..(i - 1) : lines[j] = lines[i]
  BY <1>1
<1> QED
  BY <1>2, InitHistory, NextHistory, PTL DEF Spec, GroupedByDate

-----------------------------------------------------------------------------
(* The prompt.  Only a daemon reaches its idle state without refreshing    *)
(* the prompt, in the step after its log entry, so the mode at that entry  *)
(* belongs to the invariant.                                               *)

PromptInv == PromptIsCurrent /\ (pc = "daemon" => mode = "daemon")

\* Between turns of a session the prompt quotes MEMORY.md, for every start and turn.
THEOREM PromptStaysCurrent == Spec => []PromptIsCurrent
<1>1. Init => PromptInv
  BY DEF Init, PromptInv, PromptIsCurrent
<1>2. PromptInv /\ [Next]_vars => PromptInv'
  <2> SUFFICES ASSUME PromptInv, [Next]_vars
               PROVE  PromptInv'
    OBVIOUS
  <2>1. CASE pc' \notin {"idle", "daemon"}
    BY <2>1 DEF PromptInv, PromptIsCurrent
  <2>2. CASE Inject
    <3>1. prompt' = Read(memory) /\ memory' = memory /\ mode' = mode
          /\ pc' = IF mode = "daemon" THEN "daemon" ELSE "idle"
      BY <2>2 DEF Inject, files
    <3> QED
      BY <3>1 DEF PromptInv, PromptIsCurrent, Read
  <2>3. CASE LogDaemon
    BY <2>3 DEF LogDaemon, PromptInv, PromptIsCurrent
  <2>4. CASE EndTurn
    <3>1. mode' = mode /\ memory' = memory /\ pc' = "idle"
          /\ (mode = "cli" => prompt' = Read(memory))
      BY <2>4 DEF EndTurn
    <3> QED
      BY <3>1 DEF PromptInv, PromptIsCurrent, Read
  <2>5. CASE UNCHANGED <<pc, mode, memory, prompt>>
    BY <2>5 DEF PromptInv, PromptIsCurrent, Read
  <2> QED
    <3>1. CASE Boot
      BY <3>1, <2>1, <2>2, <2>3
         DEF Boot, PowerOn, Seed, TornSeed, OpenHistory, LogStarting, LogInitialized,
             OpenMemory, Migrate, Unlink
    <3>2. CASE Turn
      BY <3>2, <2>1, <2>4 DEF Turn, BeginTurn, StoreFact
    <3> QED
      BY <3>1, <3>2, <2>1, <2>5
         DEF Next, Rename, RenameShort, RenameFails, Replacing, Stop, Crash, Midnight, vars, files
<1>3. PromptInv => PromptIsCurrent
  BY DEF PromptInv
<1> QED
  BY <1>1, <1>2, <1>3, PTL DEF Spec

-----------------------------------------------------------------------------
(* A rewritten file.  memory_store puts out, for each line it reads, one   *)
(* or more lines; what it returns is these pieces one after the other.     *)

\* The first n of the pieces, one after the other, are flat: piece i starts behind
\* position at[i], pieces do not overlap and leave no gap.
Laid(flat, pieces, n, at) ==
  /\ \A i \in 1..n : at[i] \in Nat /\ at[i] + Len(pieces[i]) <= Len(flat)
  /\ \A i, j \in 1..n : i < j => at[i] + Len(pieces[i]) <= at[j]
  /\ \A i \in 1..n : \A m \in 1..Len(pieces[i]) : flat[at[i] + m] = pieces[i][m]
  /\ \A p \in 1..Len(flat) : \E i \in 1..n : p - at[i] \in 1..Len(pieces[i])

\* One more piece goes behind the others.
LEMMA LaidNext ==
  ASSUME NEW S, NEW pieces \in Seq(Seq(S)), NEW n \in Nat, n + 1 <= Len(pieces),
         NEW flat \in Seq(S), NEW at, Laid(flat, pieces, n, at)
  PROVE  \E to : Laid(flat \o pieces[n + 1], pieces, n + 1, to)
<1> DEFINE more == flat \o pieces[n + 1]
           to == [i \in 1..(n + 1) |-> IF i = n + 1 THEN Len(flat) ELSE at[i]]
           k == Len(flat)
           l == Len(pieces[n + 1])
<1>1. pieces[n + 1] \in Seq(S) /\ \A i \in 1..n : pieces[i] \in Seq(S)
  OBVIOUS
<1>2. k \in Nat /\ l \in Nat /\ \A i \in 1..n : Len(pieces[i]) \in Nat
  BY <1>1
<1>3. /\ Len(more) = k + l
      /\ \A p \in 1..k : more[p] = flat[p]
      /\ \A p \in 1..l : more[k + p] = pieces[n + 1][p]
  BY <1>1
<1>4. to[n + 1] = k /\ \A i \in 1..n : to[i] = at[i]
  OBVIOUS
<1>5. /\ \A i \in 1..n : at[i] \in Nat /\ at[i] + Len(pieces[i]) <= k
      /\ \A i, j \in 1..n : i < j => at[i] + Len(pieces[i]) <= at[j]
      /\ \A i \in 1..n : \A m \in 1..Len(pieces[i]) : flat[at[i] + m] = pieces[i][m]
      /\ \A p \in 1..k : \E i \in 1..n : p - at[i] \in 1..Len(pieces[i])
  BY DEF Laid
<1>6. l = Len(pieces[n + 1])
  OBVIOUS
<1> HIDE DEF more, to, k, l
<1>7. \A i \in 1..(n + 1) : i \in 1..n \/ i = n + 1
  OBVIOUS
<1>8. \A i \in 1..(n + 1) : to[i] \in Nat /\ to[i] + Len(pieces[i]) <= Len(more)
  <2> SUFFICES ASSUME NEW i \in 1..(n + 1)
               PROVE  to[i] \in Nat /\ to[i] + Len(pieces[i]) <= Len(more)
    OBVIOUS
  <2>1. CASE i = n + 1
    BY <1>2, <1>3, <1>4, <1>6, <2>1, SMTT(60)
  <2>2. CASE i \in 1..n
    <3>1. to[i] = at[i] /\ at[i] \in Nat /\ at[i] + Len(pieces[i]) <= k /\ Len(pieces[i]) \in Nat
      BY <1>2, <1>4, <1>5, <2>2
    <3> QED
      BY <1>2, <1>3, <3>1, SMTT(60)
  <2> QED
    BY <1>7, <2>1, <2>2
<1>9. \A i, j \in 1..(n + 1) : i < j => to[i] + Len(pieces[i]) <= to[j]
  <2> SUFFICES ASSUME NEW i \in 1..(n + 1), NEW j \in 1..(n + 1), i < j
               PROVE  to[i] + Len(pieces[i]) <= to[j]
    OBVIOUS
  <2>1. i \in 1..n
    OBVIOUS
  <2> QED
    BY <1>4, <1>5, <1>7, <2>1
<1>10. \A i \in 1..(n + 1) : \A m \in 1..Len(pieces[i]) : more[to[i] + m] = pieces[i][m]
  <2> SUFFICES ASSUME NEW i \in 1..(n + 1), NEW m \in 1..Len(pieces[i])
               PROVE  more[to[i] + m] = pieces[i][m]
    OBVIOUS
  <2>1. CASE i = n + 1
    BY <1>3, <1>4, <1>6, <2>1
  <2>2. CASE i \in 1..n
    <3>1. at[i] + m \in 1..k
      <4>1. at[i] \in Nat /\ at[i] + Len(pieces[i]) <= k /\ Len(pieces[i]) \in Nat
        BY <1>2, <1>5, <2>2
      <4>2. \A a, x, b \in Nat : \A y \in 1..x : a + x <= b => a + y \in 1..b
        OBVIOUS
      <4> QED
        BY <1>2, <4>1, <4>2
    <3> QED
      BY <1>3, <1>4, <1>5, <2>2, <3>1
  <2> QED
    BY <1>7, <2>1, <2>2
<1>11. \A p \in 1..Len(more) : \E i \in 1..(n + 1) : p - to[i] \in 1..Len(pieces[i])
  <2> SUFFICES ASSUME NEW p \in 1..Len(more)
               PROVE  \E i \in 1..(n + 1) : p - to[i] \in 1..Len(pieces[i])
    OBVIOUS
  <2>1. CASE p \in 1..k
    <3>1. PICK i \in 1..n : p - at[i] \in 1..Len(pieces[i])
      BY <1>5, <2>1
    <3> QED
      BY <1>4, <3>1
  <2>2. CASE p \notin 1..k
    <3>1. p - k \in 1..l
      BY <1>2, <1>3, <2>2
    <3> QED
      BY <1>4, <1>6, <3>1
  <2> QED
    BY <2>1, <2>2
<1>12. Laid(more, pieces, n + 1, to)
  BY <1>8, <1>9, <1>10, <1>11 DEF Laid
<1> QED
  BY <1>12 DEF more

\* What FlattenSeq makes of pieces, and where it puts each.
LEMMA FlattenLays ==
  ASSUME NEW S, NEW pieces \in Seq(Seq(S))
  PROVE  /\ FlattenSeq(pieces) \in Seq(S)
         /\ \E at : Laid(FlattenSeq(pieces), pieces, Len(pieces), at)
<1> DEFINE N == Len(pieces)
           Good(n, f) ==
             /\ f = [i \in 1..n |-> IF i = 1 THEN pieces[i] ELSE f[i - 1] \o pieces[i]]
             /\ f[n] \in Seq(S)
             /\ \E at : Laid(f[n], pieces, n, at)
<1>1. CASE N = 0
  <2>1. FlattenSeq(pieces) = pieces /\ pieces = <<>>
    BY <1>1 DEF FlattenSeq
  <2> QED
    BY <1>1, <2>1 DEF Laid
<1>2. CASE N # 0
  <2>1. \A i \in 1..N : pieces[i] \in Seq(S)
    OBVIOUS
  <2>2. \E f : Good(1, f)
    <3> DEFINE f == [i \in 1..1 |-> pieces[1]]
    <3>1. f = [i \in 1..1 |-> IF i = 1 THEN pieces[i] ELSE f[i - 1] \o pieces[i]]
      OBVIOUS
    <3>2. f[1] = pieces[1] /\ pieces[1] \in Seq(S)
      BY <1>2, <2>1
    <3>3. Laid(pieces[1], pieces, 1, [i \in 1..1 |-> 0])
      BY <3>2 DEF Laid
    <3> QED
      BY <3>1, <3>2, <3>3
  <2>3. ASSUME NEW n \in Nat, n # 0, n + 1 <= N, NEW f, Good(n, f)
        PROVE  \E g : Good(n + 1, g)
    <3> DEFINE g == [i \in 1..(n + 1) |-> IF i = n + 1 THEN f[n] \o pieces[i] ELSE f[i]]
    <3>1. /\ f = [i \in 1..n |-> IF i = 1 THEN pieces[i] ELSE f[i - 1] \o pieces[i]]
          /\ f[n] \in Seq(S)
          /\ \E at : Laid(f[n], pieces, n, at)
      BY <2>3
    <3>2. g[n + 1] = f[n] \o pieces[n + 1] /\ \A i \in 1..n : g[i] = f[i]
      <4>1. n + 1 \in 1..(n + 1) /\ \A i \in 1..n : i \in 1..(n + 1) /\ i # n + 1
        OBVIOUS
      <4> QED
        BY <4>1, Zenon
    <3>3. \A i \in 1..n : f[i] = IF i = 1 THEN pieces[i] ELSE f[i - 1] \o pieces[i]
      BY <3>1
    <3>4. \A i \in 1..(n + 1) : g[i] = IF i = 1 THEN pieces[i] ELSE g[i - 1] \o pieces[i]
      <4> SUFFICES ASSUME NEW i \in 1..(n + 1)
                   PROVE  g[i] = IF i = 1 THEN pieces[i] ELSE g[i - 1] \o pieces[i]
        OBVIOUS
      <4>1. CASE i = n + 1
        <5>1. i # 1 /\ i - 1 = n /\ n \in 1..n
          BY <2>3, <4>1
        <5>2. g[n] = f[n]
          BY <3>2, <5>1, Zenon
        <5> QED
          BY <3>2, <4>1, <5>1, <5>2
      <4>2. CASE i \in 1..n
        <5>1. i # 1 => g[i - 1] = f[i - 1]
          BY <3>2, <4>2
        <5> QED
          BY <3>2, <3>3, <4>2, <5>1
      <4> QED
        BY <4>1, <4>2
    <3>5. g = [i \in 1..(n + 1) |-> g[i]]
      OBVIOUS
    <3>6. pieces[n + 1] \in Seq(S)
      BY <2>1, <2>3
    <3> HIDE DEF g
    <3>7. g = [i \in 1..(n + 1) |-> IF i = 1 THEN pieces[i] ELSE g[i - 1] \o pieces[i]]
      BY <3>4, <3>5
    <3>8. g[n + 1] \in Seq(S)
      BY <3>1, <3>2, <3>6
    <3>9. \E at : Laid(g[n + 1], pieces, n + 1, at)
      <4>1. PICK at : Laid(f[n], pieces, n, at)
        BY <3>1
      <4>2. n + 1 <= Len(pieces) /\ f[n] \in Seq(S)
        BY <2>3, <3>1
      <4>3. \E to : Laid(f[n] \o pieces[n + 1], pieces, n + 1, to)
        BY <4>1, <4>2, LaidNext
      <4> QED
        BY <3>2, <4>3
    <3> QED
      BY <3>7, <3>8, <3>9
  <2> HIDE DEF Good
  <2>4. \A n \in 1..N : \E f : Good(n, f)
    <3> DEFINE bad == {n \in 1..N : ~ \E f : Good(n, f)}
    <3> SUFFICES ASSUME bad # {}
                 PROVE  FALSE
      OBVIOUS
    <3>1. Min(bad) \in bad /\ \A y \in bad : Min(bad) <= y
      <4>1. bad \subseteq Nat
        OBVIOUS
      <4> HIDE DEF bad
      <4> QED
        BY <4>1, LeastNumber
    <3>2. PICK m \in 1..N : m = Min(bad) /\ ~ \E f : Good(m, f)
      BY <3>1
    <3>3. m # 1
      BY <2>2, <3>2
    <3>4. m - 1 \in Nat /\ m - 1 # 0 /\ m - 1 \in 1..N /\ (m - 1) + 1 = m
      BY <3>2, <3>3
    <3>5. \E f : Good(m - 1, f)
      <4>1. m - 1 \in 1..N => (m - 1 \in bad <=> ~ \E f : Good(m - 1, f))
        OBVIOUS
      <4> HIDE DEF bad
      <4>2. m - 1 \notin bad
        BY <3>1, <3>2, <3>4
      <4> QED
        BY <3>4, <4>1, <4>2
    <3>6. \E g : Good((m - 1) + 1, g)
      BY <2>3, <3>4, <3>5
    <3> QED
      BY <3>2, <3>4, <3>6
  <2>5. PICK f : Good(N, f)
    BY <1>2, <2>4
  <2>6. f = [i \in 1..N |-> IF i = 1 THEN pieces[i] ELSE f[i - 1] \o pieces[i]]
    BY <2>5 DEF Good
  <2> DEFINE h == CHOOSE g : g = [i \in 1..N |-> IF i = 1 THEN pieces[i]
                                                ELSE g[i - 1] \o pieces[i]]
  <2>7. h = [i \in 1..N |-> IF i = 1 THEN pieces[i] ELSE h[i - 1] \o pieces[i]]
    BY <2>6, Zenon
  <2>8. FlattenSeq(pieces) = h[N]
    BY <1>2, Zenon DEF FlattenSeq
  <2> HIDE DEF h
  <2>9. \A n \in 1..N : h[n] = f[n]
    <3> DEFINE bad == {n \in 1..N : h[n] # f[n]}
    <3> SUFFICES ASSUME bad # {}
                 PROVE  FALSE
      OBVIOUS
    <3>1. Min(bad) \in bad /\ \A y \in bad : Min(bad) <= y
      <4>1. bad \subseteq Nat
        OBVIOUS
      <4> HIDE DEF bad
      <4> QED
        BY <4>1, LeastNumber
    <3>2. PICK m \in 1..N : m = Min(bad) /\ h[m] # f[m]
      BY <3>1
    <3>3. m # 1 => h[m - 1] = f[m - 1]
      <4> SUFFICES ASSUME m # 1, h[m - 1] # f[m - 1]
                   PROVE  FALSE
        OBVIOUS
      <4>1. m - 1 \in 1..N
        BY <3>2
      <4>2. m - 1 \in bad
        BY <4>1
      <4> QED
        BY <3>1, <3>2, <4>2
    <3>4. /\ h[m] = IF m = 1 THEN pieces[m] ELSE h[m - 1] \o pieces[m]
          /\ f[m] = IF m = 1 THEN pieces[m] ELSE f[m - 1] \o pieces[m]
      BY <2>6, <2>7, <3>2
    <3> QED
      BY <3>2, <3>3, <3>4
  <2>10. FlattenSeq(pieces) = f[N]
    BY <1>2, <2>8, <2>9
  <2> QED
    BY <2>5, <2>10 DEF Good
<1> QED
  BY <1>1, <1>2

-----------------------------------------------------------------------------
(* Headings and hits.                                                      *)

Files(L) == [lines : Seq(L), open : BOOLEAN]

\* Headings that memory_store or memory_recall takes for a section's.
Headings(heads) == \A h \in heads : h.kind = "heading"

LEMMA SectionHeadings ==
  /\ \A s : Headings(Exact(s)) /\ Headings(Trimmed(s)) /\ Heading(s) \in Exact(s)
  /\ \A s, t : s # t => Exact(s) \cap Trimmed(t) = {}
BY DEF Headings, Exact, Trimmed, Heading, Padded, Line

\* A line stands under one heading.
LEMMA UnderOne ==
  ASSUME NEW lines, NEW i \in Nat, NEW heads, NEW others,
         Under(lines, i, heads), Under(lines, i, others), Headings(heads), Headings(others)
  PROVE  heads \cap others # {}
<1>1. PICK j \in 1..i : lines[j] \in heads /\ \A m \in (j + 1)..i : lines[m].kind # "heading"
  BY DEF Under
<1>2. PICK k \in 1..i : lines[k] \in others /\ \A m \in (k + 1)..i : lines[m].kind # "heading"
  BY DEF Under
<1>3. lines[j].kind = "heading" /\ lines[k].kind = "heading"
  BY <1>1, <1>2 DEF Headings
<1>4. ~(j < k)
  <2> SUFFICES ASSUME j < k PROVE FALSE
    OBVIOUS
  <2>1. k \in (j + 1)..i
    OBVIOUS
  <2> QED
    BY <1>1, <1>3, <2>1
<1>5. ~(k < j)
  <2> SUFFICES ASSUME k < j PROVE FALSE
    OBVIOUS
  <2>1. j \in (k + 1)..i
    OBVIOUS
  <2> QED
    BY <1>2, <1>3, <2>1
<1>6. j = k
  BY <1>4, <1>5
<1> QED
  BY <1>1, <1>2, <1>6

\* A section goes on up to the next heading.
LEMMA UnderOn ==
  ASSUME NEW lines, NEW i \in Nat, NEW p \in Nat, i <= p, NEW heads, Under(lines, i, heads),
         \A m \in (i + 1)..p : lines[m].kind # "heading"
  PROVE  Under(lines, p, heads)
<1>1. PICK j \in 1..i : lines[j] \in heads /\ \A m \in (j + 1)..i : lines[m].kind # "heading"
  BY DEF Under
<1>2. j \in 1..p /\ \A m \in (j + 1)..p : lines[m].kind # "heading"
  BY <1>1
<1> QED
  BY <1>1, <1>2 DEF Under

\* A line that is no heading stands where the line before it does.
LEMMA UnderBefore ==
  ASSUME NEW lines, NEW i \in Nat, NEW heads, Headings(heads), Under(lines, i, heads),
         lines[i].kind # "heading"
  PROVE  i - 1 \in Nat \ {0} /\ Under(lines, i - 1, heads)
<1>1. PICK j \in 1..i : lines[j] \in heads /\ \A m \in (j + 1)..i : lines[m].kind # "heading"
  BY DEF Under
<1>2. j # i
  BY <1>1 DEF Headings
<1>3. j \in 1..(i - 1) /\ i - 1 \in Nat \ {0}
  BY <1>2
<1>4. \A m \in (j + 1)..(i - 1) : lines[m].kind # "heading"
  BY <1>1, <1>3
<1> QED
  BY <1>1, <1>3, <1>4 DEF Under

\* Files that begin alike have their lines under the same headings as far as they do.
LEMMA UnderAlike ==
  ASSUME NEW lines, NEW more, NEW n \in Nat, \A i \in 1..n : more[i] = lines[i], NEW heads,
         NEW i \in 1..n
  PROVE  Under(more, i, heads) <=> Under(lines, i, heads)
<1>1. \A j \in 1..i : more[j] = lines[j]
  OBVIOUS
<1>2. \A j \in 1..i : \A m \in (j + 1)..i : more[m] = lines[m]
  BY <1>1
<1> QED
  BY <1>1, <1>2 DEF Under

\* The bullets with a key are lines of the file.
LEMMA HitsAreLines ==
  ASSUME NEW L, NEW lines \in Seq(L), NEW heads, NEW k
  PROVE  Hits(lines, heads, k) \subseteq 1..Len(lines)
BY DEF Hits

\* The bullets of the section with the key are the same in f and g, in the same order; at
\* gives their lines in g.
SameBullets(f, g, heads, k, at) ==
  /\ \A i \in Hits(f.lines, heads, k) : /\ at[i] \in Hits(g.lines, heads, k)
                                    /\ g.lines[at[i]].val = f.lines[i].val
  /\ \A p \in Hits(g.lines, heads, k) : \E i \in Hits(f.lines, heads, k) : p = at[i]
  /\ \A i, j \in Hits(f.lines, heads, k) : i < j => at[i] < at[j]

\* What is answered from the bullets under the headings.
RecallBy(f, heads, key) ==
  LET hits == Hits(f.lines, heads, key)
  IN  IF hits = {} THEN None ELSE Shown(f.lines[Min(hits)].val)

LEMMA RecallIsTrimmed ==
  \A f, s, k : Recall(f, s, k) = RecallBy(f, Trimmed(s), k)
BY DEF Recall, RecallBy

\* The answer follows the bullets that hold the key.
LEMMA RecallFollows ==
  ASSUME NEW L, NEW f \in Files(L), NEW g \in Files(L), NEW heads, NEW k, NEW at,
         SameBullets(f, g, heads, k, at)
  PROVE  RecallBy(g, heads, k) = RecallBy(f, heads, k)
<1> DEFINE F == Hits(f.lines, heads, k)
           G == Hits(g.lines, heads, k)
<1>1. F \subseteq Nat /\ G \subseteq Nat
  BY HitsAreLines DEF Files
<1>2. /\ RecallBy(f, heads, k) = IF F = {} THEN None ELSE Shown(f.lines[Min(F)].val)
      /\ RecallBy(g, heads, k) = IF G = {} THEN None ELSE Shown(g.lines[Min(G)].val)
  BY DEF RecallBy
<1>0. /\ \A i \in F : at[i] \in G /\ g.lines[at[i]].val = f.lines[i].val
      /\ \A p \in G : \E i \in F : p = at[i]
      /\ \A i, j \in F : i < j => at[i] < at[j]
  BY DEF SameBullets
<1> HIDE DEF F, G
<1>3. CASE F = {}
  <2>1. G = {}
    BY <1>3, <1>0
  <2> QED
    BY <1>2, <1>3, <2>1
<1>4. CASE F # {}
  <2>1. Min(F) \in F /\ \A i \in F : Min(F) <= i
    BY <1>1, <1>4, LeastNumber
  <2>2. at[Min(F)] \in G /\ g.lines[at[Min(F)]].val = f.lines[Min(F)].val
    BY <2>1, <1>0
  <2>3. G # {}
    BY <2>2
  <2>4. Min(G) \in G /\ \A p \in G : Min(G) <= p
    BY <1>1, <2>3, LeastNumber
  <2>5. PICK i \in F : Min(G) = at[i]
    BY <2>4, <1>0
  <2>6. ~(Min(F) < i)
    <3> SUFFICES ASSUME Min(F) < i
                 PROVE  FALSE
      OBVIOUS
    <3>1. at[Min(F)] < at[i]
      BY <2>1, <1>0
    <3>2. at[i] <= at[Min(F)]
      BY <2>2, <2>4, <2>5
    <3>3. at[i] \in Nat /\ at[Min(F)] \in Nat
      BY <1>1, <2>2, <2>4, <2>5
    <3> QED
      BY <3>1, <3>2, <3>3
  <2>7. Min(F) = i
    <3>1. Min(F) \in Nat /\ i \in Nat /\ Min(F) <= i
      BY <1>1, <2>1
    <3> QED
      BY <2>6, <3>1
  <2> QED
    BY <1>2, <1>4, <2>2, <2>3, <2>5, <2>7
<1> QED
  BY <1>3, <1>4

\* Where no heading of the section has blanks around it, memory_recall finds the bullets
\* that memory_store does.
LEMMA ReadAlike ==
  ASSUME NEW L, NEW f \in Files(L), NEW s,
         \A i \in DOMAIN f.lines : f.lines[i] # Padded(s)
  PROVE  \A k : /\ Hits(f.lines, Trimmed(s), k) = Hits(f.lines, Exact(s), k)
                /\ Recall(f, s, k) = RecallBy(f, Exact(s), k)
<1> DEFINE lines == f.lines
<1>1. DOMAIN lines = 1..Len(lines) /\ Len(lines) \in Nat
  BY DEF Files
<1>2. \A i \in DOMAIN lines : lines[i] \in Trimmed(s) <=> lines[i] \in Exact(s)
  BY DEF Trimmed, Exact
<1> HIDE DEF lines
<1>3. ASSUME NEW i \in DOMAIN lines
      PROVE  Under(lines, i, Trimmed(s)) <=> Under(lines, i, Exact(s))
  <2>1. \A j \in 1..i : j \in DOMAIN lines
    BY <1>1
  <2> QED
    BY <1>2, <2>1 DEF Under
<1>4. ASSUME NEW k
      PROVE  Hits(lines, Trimmed(s), k) = Hits(lines, Exact(s), k)
  BY <1>3 DEF Hits, Holds
<1> QED
  BY <1>4 DEF RecallBy, Recall, lines

\* A section that is there and has no end goes on to the end of the file.
LEMMA OpenSectionIsLast ==
  ASSUME NEW L, NEW lines \in Seq(L), NEW s, NEW k, Hits(lines, Exact(s), k) = {},
         Ends(lines, s, k) = {}, NEW j \in DOMAIN lines, lines[j] \in Exact(s)
  PROVE  Len(lines) \in Nat \ {0} /\ Under(lines, Len(lines), Exact(s))
<1> DEFINE n == Len(lines)
           later == {m \in (j + 1)..n : lines[m].kind = "heading"}
<1>1. n \in Nat /\ DOMAIN lines = 1..n /\ j \in 1..n
  OBVIOUS
<1> HIDE DEF n
<1>2. CASE later = {}
  <2>1. \A m \in (j + 1)..n : lines[m].kind # "heading"
    BY <1>2
  <2> QED
    BY <1>1, <2>1 DEF Under, n
<1>3. CASE later # {}
  <2>1. later \subseteq Nat
    BY <1>1
  <2>2. Min(later) \in later /\ \A m \in later : Min(later) <= m
    <3> HIDE DEF later
    <3> QED
      BY <1>3, <2>1, LeastNumber
  <2>3. PICK i \in (j + 1)..n : i = Min(later) /\ lines[i].kind = "heading"
    BY <2>2
  <2>4. \A m \in (j + 1)..(i - 1) : lines[m].kind # "heading"
    <3> SUFFICES ASSUME NEW m \in (j + 1)..(i - 1), lines[m].kind = "heading"
                 PROVE  FALSE
      OBVIOUS
    <3>1. m \in later /\ m < i
      BY <1>1
    <3> QED
      BY <2>2, <2>3, <3>1
  <2>5. Under(lines, i - 1, Exact(s))
    <3>1. j \in 1..(i - 1)
      BY <1>1
    <3> QED
      BY <2>4, <3>1 DEF Under
  <2>6. i \in DOMAIN lines /\ i > 1
    BY <1>1
  <2>7. \A m \in 1..(i - 1) : ~Holds(lines, m, Exact(s), k)
    <3>1. \A m \in 1..(i - 1) : m \in DOMAIN lines
      BY <1>1
    <3> QED
      BY <3>1 DEF Hits
  <2>8. i \in Ends(lines, s, k)
    BY <2>3, <2>5, <2>6, <2>7 DEF Ends
  <2> QED
    BY <2>8
<1> QED
  BY <1>2, <1>3

\* The section is recalled from g as from f.
SameIn(f, g, heads) == \A k : RecallBy(g, heads, k) = RecallBy(f, heads, k)

\* The first n lines of g are those of f, and so is all of f but perhaps a line of the
\* section s; the lines behind them are in s or begin a section, none of them t.
TailFrom(f, g, n, s, heads) ==
  /\ n \in Nat /\ n < Len(g) /\ Headings(heads) /\ Exact(s) \cap heads = {}
  /\ n = Len(f) \/ (n + 1 = Len(f) /\ Under(f, n + 1, Exact(s)))
  /\ \A i \in 1..n : g[i] = f[i]
  /\ \A p \in (n + 1)..Len(g) : g[p] \notin heads
  /\ Under(f, n, Exact(s)) \/ g[n + 1].kind = "heading"

\* Lines put at the end of a section that is the last of the file, or under a heading of
\* their own, change nothing for the other sections.
LEMMA TailKeeps ==
  ASSUME NEW L, NEW f \in Files(L), NEW g \in Files(L), NEW s, NEW heads, NEW n,
         TailFrom(f.lines, g.lines, n, s, heads)
  PROVE  SameIn(f, g, heads)
<1>n. n \in Nat /\ Headings(heads) /\ Exact(s) \cap heads = {}
  BY DEF TailFrom
<1> SUFFICES ASSUME NEW k
             PROVE  RecallBy(g, heads, k) = RecallBy(f, heads, k)
  BY DEF SameIn
<1> DEFINE old == f.lines
           new == g.lines
<1>1. Len(old) \in Nat /\ Len(new) \in Nat /\ DOMAIN old = 1..Len(old) /\ DOMAIN new = 1..Len(new)
  BY DEF Files
<1>a. n < Len(new) /\ n <= Len(old) /\ \A i \in 1..n : new[i] = old[i]
  BY <1>1, <1>n DEF TailFrom
<1>b. n = Len(old) \/ (n + 1 = Len(old) /\ Under(old, n + 1, Exact(s)))
  BY DEF TailFrom
<1>c. \A p \in (n + 1)..Len(new) : new[p] \notin heads
  BY DEF TailFrom
<1>d. Under(old, n, Exact(s)) \/ new[n + 1].kind = "heading"
  BY DEF TailFrom
<1>2. \A i \in 1..n : Under(new, i, heads) <=> Under(old, i, heads)
  BY <1>n, <1>a, UnderAlike
<1>3. ASSUME NEW i \in Hits(old, heads, k)
      PROVE  i \in 1..n /\ i \in Hits(new, heads, k)
  <2>1. i \in 1..Len(old) /\ Under(old, i, heads) /\ old[i].kind = "bullet" /\ Label[old[i].name] = k
    BY <1>1 DEF Hits, Holds
  <2>2. i \in 1..n
    <3> SUFFICES ASSUME i \notin 1..n
                 PROVE  FALSE
      OBVIOUS
    <3>1. i = n + 1 /\ Under(old, n + 1, Exact(s))
      BY <1>1, <1>n, <1>b, <2>1
    <3> QED
      BY <1>n, <2>1, <3>1, UnderOne, SectionHeadings
  <2>3. i \in DOMAIN new /\ new[i] = old[i] /\ Under(new, i, heads)
    BY <1>1, <1>2, <1>n, <1>a, <2>1, <2>2
  <2> QED
    BY <2>1, <2>2, <2>3 DEF Hits, Holds
<1>4. ASSUME NEW p \in Hits(new, heads, k)
      PROVE  p \in Hits(old, heads, k)
  <2>1. p \in 1..Len(new) /\ Under(new, p, heads) /\ new[p].kind = "bullet" /\ Label[new[p].name] = k
    BY <1>1 DEF Hits, Holds
  <2>2. p \in 1..n
    <3> SUFFICES ASSUME p \notin 1..n
                 PROVE  FALSE
      OBVIOUS
    <3>1. PICK j \in 1..p : /\ new[j] \in heads
                            /\ \A m \in (j + 1)..p : new[m].kind # "heading"
      BY <2>1 DEF Under
    <3>2. j \in 1..n /\ n + 1 \in (j + 1)..p
      <4>1. j \notin (n + 1)..Len(new)
        BY <1>c, <3>1
      <4> QED
        BY <1>1, <1>n, <2>1, <4>1
    <3>3. Under(old, n, Exact(s))
      BY <1>d, <3>1, <3>2
    <3>4. Under(old, n, heads)
      <4>1. Under(new, n, heads)
        <5>1. \A m \in (j + 1)..n : new[m].kind # "heading"
          BY <1>1, <1>n, <2>1, <3>1, <3>2
        <5> QED
          BY <1>n, <3>1, <3>2, <5>1 DEF Under
      <4> QED
        BY <1>n, <1>2, <3>2, <4>1
    <3> QED
      BY <1>n, <3>3, <3>4, UnderOne, SectionHeadings
  <2>3. p \in DOMAIN old /\ new[p] = old[p] /\ Under(old, p, heads)
    BY <1>1, <1>2, <1>n, <1>a, <2>1, <2>2
  <2> QED
    BY <2>1, <2>3 DEF Hits, Holds
<1>5. \A i \in Hits(old, heads, k) : new[i].val = old[i].val
  BY <1>3, <1>a
<1> DEFINE at == [i \in Hits(old, heads, k) |-> i]
<1>6. /\ \A i \in Hits(old, heads, k) : at[i] \in Hits(new, heads, k) /\ new[at[i]].val = old[i].val
      /\ \A p \in Hits(new, heads, k) : \E i \in Hits(old, heads, k) : p = at[i]
      /\ \A i, j \in Hits(old, heads, k) : i < j => at[i] < at[j]
  BY <1>3, <1>4, <1>5
<1> HIDE DEF at
<1>7. SameBullets(f, g, heads, k, at)
  BY <1>6 DEF SameBullets
<1> QED
  BY <1>7, RecallFollows

-----------------------------------------------------------------------------
(* memory_store's loop.                                                    *)

\* Position p of the output g holds a line of the new bullet, put out when the loop was
\* at line i of f: for a bullet replaced, or before the heading that ends the section.
Inserted(f, g, hits, ends, new, last, p, i) ==
  /\ i \in hits \cup ends
  /\ i \in ends => p < last[i]
  /\ p <= last[i]
  /\ \A j \in DOMAIN f : j < i => last[j] < p
  /\ \E m \in DOMAIN new : g[p] = new[m]

\* The first line that is put out at line i of f is that of the new bullet.
Foremost(f, g, new, last, i) ==
  \E p \in DOMAIN g :
    /\ g[p] = new[1]
    /\ p <= last[i]
    /\ \A j \in DOMAIN f : j < i => last[j] < p
    /\ \A q \in DOMAIN g : q < p => \E j \in DOMAIN f : j < i /\ q <= last[j]

\* g is f with the lines in hits replaced by new, and with new before the first of ends;
\* last gives the last line of g each line of f is put out as.
Woven(f, g, hits, ends, new, last) ==
  /\ \A i \in DOMAIN f : last[i] \in DOMAIN g
  /\ \A i, j \in DOMAIN f : i < j => last[i] < last[j]
  /\ \A i \in DOMAIN f \ hits : g[last[i]] = f[i]
  /\ \A i \in hits : g[last[i]] = new[Len(new)]
  /\ \A p \in DOMAIN g : \/ \E i \in DOMAIN f : p = last[i]
                         \/ \E i \in DOMAIN f : Inserted(f, g, hits, ends, new, last, p, i)
  /\ f # <<>> => last[Len(f)] = Len(g)
  /\ \A i \in hits : Foremost(f, g, new, last, i)
  /\ ends # {} => Foremost(f, g, new, last, Min(ends))

\* So it is with the output of the loop.
LEMMA RewrittenWeaves ==
  ASSUME NEW L, NEW f \in Seq(L), NEW s, NEW k, NEW new \in Seq(L), new # <<>>
  PROVE  /\ Rewritten(f, s, k, new) \in Seq(L)
         /\ \E last : Woven(f, Rewritten(f, s, k, new), Hits(f, Exact(s), k), Ends(f, s, k), new, last)
<1> DEFINE n == Len(f)
           hits == Hits(f, Exact(s), k)
           ends == Ends(f, s, k)
           before(i) == IF ends # {} /\ i = Min(ends) THEN new ELSE <<>>
           line(i) == IF Holds(f, i, Exact(s), k) THEN new ELSE <<f[i]>>
           pieces == [i \in DOMAIN f |-> before(i) \o line(i)]
           g == Rewritten(f, s, k, new)
           size == Len(new)
<1>1. n \in Nat /\ DOMAIN f = 1..n /\ \A i \in 1..n : f[i] \in L
  OBVIOUS
<1>2. size \in Nat \ {0} /\ DOMAIN new = 1..size
  OBVIOUS
<1>3. g = FlattenSeq(pieces)
  BY DEF Rewritten
<1>4. /\ hits \subseteq 1..n /\ ends \subseteq 1..n
      /\ \A i \in 1..n : i \in hits <=> Holds(f, i, Exact(s), k)
      /\ \A i \in ends : i \notin hits
  BY <1>1 DEF Hits, Ends, Holds
<1>5. \A i \in 1..n : /\ before(i) \in Seq(L)
                      /\ line(i) \in Seq(L)
                      /\ Len(before(i)) = IF ends # {} /\ i = Min(ends) THEN size ELSE 0
                      /\ Len(line(i)) = IF i \in hits THEN size ELSE 1
  BY <1>1, <1>4
<1>6. pieces \in Seq(Seq(L)) /\ Len(pieces) = n /\ \A i \in 1..n : pieces[i] = before(i) \o line(i)
  <2>1. \A i \in 1..n : before(i) \o line(i) \in Seq(L)
    BY <1>5
  <2>2. pieces = [i \in 1..n |-> before(i) \o line(i)]
    BY <1>1
  <2> HIDE DEF before, line
  <2>3. pieces \in [1..n -> Seq(L)]
    BY <2>1, <2>2
  <2>4. \A i \in 1..n : pieces[i] = before(i) \o line(i)
    BY <2>2
  <2> HIDE DEF pieces, n
  <2>5. pieces \in Seq(Seq(L)) /\ Len(pieces) = n
    BY <1>1, <2>3
  <2> QED
    BY <2>4, <2>5
<1>7. \A i \in hits : line(i) = new
  BY <1>4
<1>8. \A i \in (1..n) \ hits : line(i) = <<f[i]>>
  BY <1>4
<1>9. ends # {} => before(Min(ends)) = new
  OBVIOUS
<1> HIDE DEF before, line, pieces, g, hits, ends, n, size
<1>10. g \in Seq(L) /\ \E at : Laid(g, pieces, n, at)
  BY <1>3, <1>6, FlattenLays
<1>11. PICK at : Laid(g, pieces, n, at)
  BY <1>10
<1> DEFINE last == [i \in 1..n |-> at[i] + Len(pieces[i])]
           N == Len(g)
<1>12. N \in Nat /\ DOMAIN g = 1..N
  BY <1>10
<1>starts. \A i \in 1..n : at[i] \in Nat /\ at[i] + Len(pieces[i]) <= N
  BY <1>11 DEF Laid
<1>order. \A i, j \in 1..n : i < j => at[i] + Len(pieces[i]) <= at[j]
  BY <1>11 DEF Laid
<1>lines. \A i \in 1..n : \A m \in 1..Len(pieces[i]) : g[at[i] + m] = pieces[i][m]
  BY <1>11 DEF Laid
<1>cover. \A p \in 1..N : \E i \in 1..n : p - at[i] \in 1..Len(pieces[i])
  BY <1>11 DEF Laid
<1>14. \A i \in 1..n :
         /\ Len(before(i)) \in Nat /\ Len(line(i)) \in Nat \ {0}
         /\ Len(pieces[i]) = Len(before(i)) + Len(line(i))
         /\ \A m \in 1..Len(before(i)) : pieces[i][m] = before(i)[m]
         /\ \A m \in 1..Len(line(i)) : pieces[i][Len(before(i)) + m] = line(i)[m]
  <2> TAKE i \in 1..n
  <2>1. before(i) \in Seq(L) /\ line(i) \in Seq(L) /\ pieces[i] = before(i) \o line(i)
    BY <1>5, <1>6
  <2>2. Len(line(i)) \in Nat \ {0}
    <3>1. Len(line(i)) = IF i \in hits THEN size ELSE 1
      BY <1>5
    <3> QED
      BY <1>2, <3>1
  <2>3. Joined(pieces[i], before(i), line(i))
    BY <2>1, ConcatAt
  <2> QED
    BY <2>2, <2>3 DEF Joined
<1>15. \A i \in 1..n : last[i] = at[i] + Len(pieces[i])
  OBVIOUS
<1> HIDE DEF last, N
<1>16. \A i \in 1..n : last[i] \in 1..N /\ last[i] \in Nat
  <2> TAKE i \in 1..n
  <2>1. at[i] \in Nat /\ at[i] + Len(pieces[i]) <= N /\ Len(pieces[i]) \in Nat \ {0}
    BY <1>starts, <1>14
  <2> QED
    BY <1>12, <1>15, <2>1
<1>17. \A i, j \in 1..n : i < j => last[i] <= at[j] /\ last[i] < last[j]
  <2> SUFFICES ASSUME NEW i \in 1..n, NEW j \in 1..n, i < j
               PROVE  last[i] <= at[j] /\ last[i] < last[j]
    OBVIOUS
  <2>1. last[i] <= at[j]
    BY <1>order, <1>15
  <2>2. last[j] = at[j] + Len(pieces[j]) /\ at[j] \in Nat /\ Len(pieces[j]) \in Nat \ {0}
    BY <1>starts, <1>14, <1>15
  <2>3. last[i] \in Nat
    BY <1>16
  <2> QED
    BY <2>1, <2>2, <2>3
<1>18. \A i \in 1..n : g[last[i]] = line(i)[Len(line(i))]
  <2> TAKE i \in 1..n
  <2>1. /\ last[i] = at[i] + Len(pieces[i])
        /\ Len(pieces[i]) = Len(before(i)) + Len(line(i))
        /\ Len(before(i)) \in Nat /\ Len(line(i)) \in Nat \ {0}
    BY <1>14, <1>15
  <2>2. Len(pieces[i]) \in 1..Len(pieces[i])
    BY <2>1
  <2>3. g[at[i] + Len(pieces[i])] = pieces[i][Len(pieces[i])]
    BY <1>lines, <2>2
  <2>4. Len(line(i)) \in 1..Len(line(i))
    BY <2>1
  <2>5. pieces[i][Len(before(i)) + Len(line(i))] = line(i)[Len(line(i))]
    BY <1>14, <2>4
  <2> QED
    BY <2>1, <2>3, <2>5
<1>19. \A i \in (1..n) \ hits : g[last[i]] = f[i]
  <2> TAKE i \in (1..n) \ hits
  <2>1. line(i) = <<f[i]>> /\ g[last[i]] = line(i)[Len(line(i))]
    BY <1>8, <1>18
  <2> QED
    BY <2>1
<1>20. \A i \in hits : g[last[i]] = new[Len(new)]
  BY <1>4, <1>7, <1>18
<1>21. ASSUME NEW i \in 1..n, NEW m \in 1..Len(pieces[i]), NEW p \in 1..N, p = at[i] + m
       PROVE  /\ p <= last[i]
              /\ \A j \in 1..n : j < i => last[j] < p
  <2>1. /\ at[i] \in Nat /\ last[i] = at[i] + Len(pieces[i]) /\ Len(pieces[i]) \in Nat
        /\ \A j \in 1..n : j < i => last[j] <= at[i] /\ last[j] \in Nat
    BY <1>starts, <1>14, <1>15, <1>16, <1>17, SMTT(60)
  <2>2. m \in 1..Len(pieces[i]) /\ p = at[i] + m
    BY <1>21
  <2> QED
    BY <2>1, <2>2
<1>22. ASSUME ends # {}
       PROVE  LET i == Min(ends) IN
              /\ i \in ends /\ Len(before(i)) = size
              /\ \A m \in 1..size : g[at[i] + m] = new[m] /\ at[i] + m < last[i]
  <2>1. Min(ends) \in ends
    <3>1. ends \subseteq Nat
      BY <1>1, <1>4
    <3> QED
      BY <1>22, <3>1, LeastNumber
  <2> DEFINE i == Min(ends)
  <2>2. i \in 1..n /\ i \in ends /\ before(i) = new
    BY <1>4, <1>9, <1>22, <2>1
  <2>3. Len(before(i)) = size
    BY <2>2 DEF size
  <2> HIDE DEF i
  <2>4. \A m \in 1..size : pieces[i][m] = new[m] /\ m \in 1..Len(pieces[i])
                           /\ m < Len(pieces[i])
    <3>1. /\ Len(line(i)) \in Nat \ {0}
          /\ Len(pieces[i]) = size + Len(line(i))
          /\ \A m \in 1..size : pieces[i][m] = before(i)[m]
      BY <1>14, <2>2, <2>3
    <3> QED
      BY <1>2, <2>2, <3>1
  <2>5. /\ at[i] \in Nat /\ last[i] = at[i] + Len(pieces[i]) /\ Len(pieces[i]) \in Nat
        /\ \A m \in 1..Len(pieces[i]) : g[at[i] + m] = pieces[i][m]
    BY <1>starts, <1>lines, <1>14, <1>15, <2>2
  <2>6. \A m \in 1..size : g[at[i] + m] = new[m] /\ at[i] + m < last[i]
    <3> SUFFICES ASSUME NEW m \in 1..size
                 PROVE  g[at[i] + m] = new[m] /\ at[i] + m < last[i]
      OBVIOUS
    <3>1. g[at[i] + m] = new[m]
      BY <2>4, <2>5
    <3>2. m < Len(pieces[i]) /\ m \in Nat
      BY <2>4, <1>2
    <3>3. at[i] \in Nat /\ last[i] = at[i] + Len(pieces[i]) /\ Len(pieces[i]) \in Nat
      BY <2>5
    <3> QED
      BY <3>1, <3>2, <3>3
  <2> QED
    BY <2>2, <2>3, <2>6 DEF i
<1>23. ASSUME NEW p \in 1..N
       PROVE  \/ \E i \in 1..n : p = last[i]
              \/ \E i \in 1..n : Inserted(f, g, hits, ends, new, last, p, i)
  <2>1. PICK i \in 1..n : p - at[i] \in 1..Len(pieces[i])
    BY <1>cover
  <2> DEFINE m == p - at[i]
  <2>2. at[i] \in Nat /\ m \in 1..Len(pieces[i]) /\ p = at[i] + m
    <3>1. at[i] \in Nat
      BY <1>starts
    <3> QED
      BY <2>1, <3>1
  <2> HIDE DEF m
  <2>3. p <= last[i] /\ \A j \in 1..n : j < i => last[j] < p
    BY <1>21, <2>2
  <2>4. CASE i \in hits
    <3>1. i \notin ends
      BY <1>4, <2>4
    <3>2. line(i) = new /\ Len(line(i)) = size
      BY <1>5, <1>7, <2>4
    <3>3. Len(before(i)) = 0
      <4>1. ends # {} => Min(ends) \in ends
        BY <1>22
      <4> QED
        BY <1>5, <3>1, <4>1
    <3>4. Len(pieces[i]) = size /\ \A l \in 1..size : pieces[i][l] = new[l]
      <4>1. /\ Len(pieces[i]) = 0 + size
            /\ \A l \in 1..size : pieces[i][0 + l] = new[l]
        BY <1>14, <3>2, <3>3
      <4>2. 0 + size = size /\ \A l \in 1..size : 0 + l = l
        BY <1>2
      <4> QED
        BY <4>1, <4>2
    <3>5. m \in DOMAIN new /\ g[p] = new[m]
      <4>1. m \in 1..size
        BY <2>2, <3>4
      <4>2. g[at[i] + m] = pieces[i][m]
        BY <1>lines, <2>2
      <4> QED
        BY <1>2, <2>2, <3>4, <4>1, <4>2
    <3> QED
      BY <1>1, <2>3, <2>4, <3>1, <3>5 DEF Inserted
  <2>5. CASE i \notin hits /\ m = Len(pieces[i])
    <3>1. p = last[i]
      BY <1>15, <2>2, <2>5
    <3> QED
      BY <3>1
  <2>6. CASE i \notin hits /\ m # Len(pieces[i])
    <3>1. Len(line(i)) = 1
      BY <1>5, <2>6
    <3>2. Len(pieces[i]) = Len(before(i)) + 1 /\ Len(before(i)) \in Nat
      BY <1>14, <3>1
    <3>3. Len(before(i)) # 0
      BY <2>2, <2>6, <3>2
    <3>4. ends # {} /\ i = Min(ends)
      BY <1>5, <3>3
    <3>5. /\ i \in ends /\ Len(before(i)) = size
          /\ \A l \in 1..size : g[at[i] + l] = new[l] /\ at[i] + l < last[i]
      BY <1>22, <3>4
    <3>6. m \in 1..size
      BY <2>2, <2>6, <3>2, <3>5
    <3>7. g[p] = new[m] /\ p < last[i] /\ m \in DOMAIN new
      BY <1>2, <2>2, <3>5, <3>6
    <3> QED
      BY <1>1, <2>3, <3>5, <3>7 DEF Inserted
  <2> QED
    BY <2>4, <2>5, <2>6
<1>24. f # <<>> => last[Len(f)] = Len(g)
  <2> SUFFICES ASSUME f # <<>>
               PROVE  last[n] = N
    BY DEF n, N
  <2>1. n \in 1..n
    BY <1>1 DEF n
  <2>2. last[n] \in 1..N /\ N \in 1..N
    BY <1>12, <1>16, <2>1
  <2>3. PICK i \in 1..n : N - at[i] \in 1..Len(pieces[i])
    BY <1>cover, <2>2
  <2>4. N <= last[i]
    <3>1. at[i] \in Nat /\ last[i] = at[i] + Len(pieces[i]) /\ Len(pieces[i]) \in Nat
      BY <1>starts, <1>14, <1>15
    <3> QED
      BY <1>12, <2>3, <3>1
  <2>5. last[i] <= last[n]
    <3>1. i = n \/ i < n
      BY <1>1
    <3>2. last[i] \in Nat /\ last[n] \in Nat
      BY <1>16, <2>1
    <3> QED
      BY <1>17, <2>1, <3>1, <3>2
  <2> QED
    BY <1>12, <1>16, <2>1, <2>2, <2>4, <2>5
<1>25. ASSUME NEW i \in 1..n, g[at[i] + 1] = new[1]
       PROVE  Foremost(f, g, new, last, i)
  <2> DEFINE p == at[i] + 1
  <2>1. at[i] \in Nat /\ last[i] \in 1..N /\ 1 \in 1..Len(pieces[i])
    <3>1. Len(pieces[i]) \in Nat \ {0}
      BY <1>14
    <3> QED
      BY <1>starts, <1>16, <3>1
  <2>2. p \in 1..N
    <3>1. Len(pieces[i]) \in Nat /\ at[i] + Len(pieces[i]) <= N
      BY <1>starts, <1>14
    <3> QED
      BY <1>12, <2>1, <3>1
  <2>3. p <= last[i] /\ \A j \in 1..n : j < i => last[j] < p
    BY <1>21, <2>1, <2>2
  <2>4. ASSUME NEW q \in 1..N, q < p
        PROVE  \E j \in 1..n : j < i /\ q <= last[j]
    <3>1. PICK j \in 1..n : q - at[j] \in 1..Len(pieces[j])
      BY <1>cover
    <3>2. at[j] \in Nat /\ Len(pieces[j]) \in Nat /\ last[j] = at[j] + Len(pieces[j])
      BY <1>starts, <1>14, <1>15
    <3>3. at[j] < q /\ q <= last[j]
      BY <1>12, <3>1, <3>2
    <3>4. ~(i < j)
      <4> SUFFICES ASSUME i < j PROVE FALSE
        OBVIOUS
      <4>1. last[i] <= at[j] /\ p <= last[i]
        BY <1>17, <2>3
      <4> QED
        BY <1>12, <2>1, <2>4, <3>2, <3>3, <4>1
    <3>5. j # i
      BY <1>12, <2>1, <2>4, <3>3
    <3> QED
      BY <1>1, <3>3, <3>4, <3>5
  <2>5. g[p] = new[1]
    BY <1>25
  <2> HIDE DEF p
  <2> QED
    BY <1>1, <1>12, <2>2, <2>3, <2>4, <2>5 DEF Foremost
<1>27. ASSUME NEW i \in hits
       PROVE  Foremost(f, g, new, last, i)
  <2>1. i \in 1..n /\ line(i) = new /\ Len(line(i)) = size /\ i \notin ends
    BY <1>4, <1>5, <1>7
  <2>2. Len(before(i)) = 0
    <3>1. ends # {} => Min(ends) \in ends
      BY <1>22
    <3> QED
      BY <1>5, <2>1, <3>1
  <2>3. 1 \in 1..Len(pieces[i]) /\ pieces[i][1] = new[1]
    <3>1. Len(pieces[i]) = 0 + size /\ pieces[i][0 + 1] = new[1] /\ size \in Nat \ {0}
      <4>1. 1 \in 1..Len(line(i))
        BY <1>2, <2>1
      <4> QED
        BY <1>2, <1>14, <2>1, <2>2, <4>1
    <3> QED
      BY <3>1
  <2> QED
    BY <1>25, <1>lines, <2>1, <2>3
<1>28. ends # {} => Foremost(f, g, new, last, Min(ends))
  <2> SUFFICES ASSUME ends # {}
               PROVE  Foremost(f, g, new, last, Min(ends))
    OBVIOUS
  <2>1. /\ Min(ends) \in ends
        /\ \A m \in 1..size : g[at[Min(ends)] + m] = new[m]
    BY <1>22
  <2>2. Min(ends) \in 1..n
    BY <1>4, <2>1
  <2>3. 1 \in 1..size
    BY <1>2
  <2>4. g[at[Min(ends)] + 1] = new[1]
    BY <2>1, <2>3
  <2> QED
    BY <1>25, <2>2, <2>4
<1>26. Woven(f, g, hits, ends, new, last)
  <2>1. \A i \in DOMAIN f : last[i] \in DOMAIN g
    BY <1>1, <1>12, <1>16
  <2>2. \A i, j \in DOMAIN f : i < j => last[i] < last[j]
    BY <1>1, <1>17
  <2>3. \A i \in DOMAIN f \ hits : g[last[i]] = f[i]
    BY <1>1, <1>19
  <2>4. \A p \in DOMAIN g : \/ \E i \in DOMAIN f : p = last[i]
                            \/ \E i \in DOMAIN f : Inserted(f, g, hits, ends, new, last, p, i)
    BY <1>1, <1>12, <1>23
  <2> QED
    BY <2>1, <2>2, <2>3, <2>4, <1>20, <1>24, <1>27, <1>28 DEF Woven
<1> QED
  BY <1>10, <1>26 DEF g, hits, ends

\* Where the loop puts a line out, it stands in its section.
LEMMA InsertedInSection ==
  ASSUME NEW L, NEW f \in Seq(L), NEW s, NEW k, NEW i \in Hits(f, Exact(s), k) \cup Ends(f, s, k)
  PROVE  i \in DOMAIN f /\ i - 1 \in Nat \ {0} /\ Under(f, i - 1, Exact(s))
<1>1. CASE i \in Hits(f, Exact(s), k)
  <2>1. i \in DOMAIN f /\ i \in Nat /\ Under(f, i, Exact(s)) /\ f[i].kind # "heading"
    BY <1>1 DEF Hits, Holds
  <2> QED
    BY <2>1, UnderBefore, SectionHeadings
<1>2. CASE i \in Ends(f, s, k)
  <2>1. i \in DOMAIN f /\ i \in Nat /\ i > 1 /\ Under(f, i - 1, Exact(s))
    BY <1>2 DEF Ends
  <2> QED
    BY <2>1
<1> QED
  BY <1>1, <1>2

\* The lines under the headings in g are those of f, at their places in g.
Apart(f, g, hits, last, heads) ==
  /\ \A i \in DOMAIN f \ hits : Under(g, last[i], heads) <=> Under(f, i, heads)
  /\ \A p \in DOMAIN g : Under(g, p, heads) => \E i \in DOMAIN f \ hits : p = last[i]

\* What the loop leaves alone of the other sections: where their lines stand, and that
\* none comes in.
LEMMA OthersWoven ==
  ASSUME NEW L, NEW f \in Seq(L), NEW g \in Seq(L), NEW s, NEW k,
         NEW heads, Headings(heads), Exact(s) \cap heads = {},
         NEW new \in Seq(L), new # <<>>, \A m \in DOMAIN new : new[m] \notin heads,
         NEW last, Woven(f, g, Hits(f, Exact(s), k), Ends(f, s, k), new, last)
  PROVE  Apart(f, g, Hits(f, Exact(s), k), last, heads)
<1> DEFINE hits == Hits(f, Exact(s), k)
           ends == Ends(f, s, k)
<1>1. Len(f) \in Nat /\ DOMAIN f = 1..Len(f) /\ Len(g) \in Nat /\ DOMAIN g = 1..Len(g)
  OBVIOUS
<1>2. \A i \in hits : i \in DOMAIN f /\ f[i].kind = "bullet" /\ Under(f, i, Exact(s))
  BY DEF Hits, Holds
<1>3. \A i \in hits \cup ends : i \in DOMAIN f /\ i - 1 \in Nat \ {0} /\ Under(f, i - 1, Exact(s))
  BY InsertedInSection
<1>4. /\ \A h \in heads : h.kind = "heading"
      /\ Headings(heads) /\ Headings(Exact(s)) /\ Exact(s) \cap heads = {}
  BY SectionHeadings DEF Headings
<1> HIDE DEF hits, ends
<1>5. /\ \A i \in DOMAIN f : last[i] \in DOMAIN g
      /\ \A i, j \in DOMAIN f : i < j => last[i] < last[j]
  BY DEF Woven, hits, ends
<1>6. \A i \in DOMAIN f \ hits : g[last[i]] = f[i]
  BY DEF Woven, hits, ends
<1>7. \A p \in DOMAIN g : \/ \E i \in DOMAIN f \ hits : p = last[i]
                          \/ \E i \in DOMAIN f : Inserted(f, g, hits, ends, new, last, p, i)
  <2> TAKE p \in DOMAIN g
  <2>1. \/ \E i \in DOMAIN f : p = last[i]
        \/ \E i \in DOMAIN f : Inserted(f, g, hits, ends, new, last, p, i)
    BY DEF Woven, hits, ends
  <2>2. ASSUME NEW i \in hits, p = last[i]
        PROVE  Inserted(f, g, hits, ends, new, last, p, i)
    <3>1. i \in DOMAIN f /\ i \notin ends
      BY <1>2 DEF ends, Ends
    <3>2. g[p] = new[Len(new)] /\ Len(new) \in DOMAIN new
      BY <2>2 DEF Woven, hits, ends
    <3>3. p <= last[i] /\ \A j \in DOMAIN f : j < i => last[j] < p
      BY <1>1, <1>5, <2>2, <3>1
    <3> QED
      BY <3>1, <3>2, <3>3 DEF Inserted
  <2> QED
    BY <1>2, <2>1, <2>2
\* A heading of the section in g is one in f.
<1>8. ASSUME NEW p \in DOMAIN g, g[p] \in heads
      PROVE  \E i \in DOMAIN f \ hits : p = last[i] /\ f[i] \in heads
  <2>1. ~ \E i \in DOMAIN f : Inserted(f, g, hits, ends, new, last, p, i)
    BY <1>8 DEF Inserted
  <2>2. PICK i \in DOMAIN f \ hits : p = last[i]
    BY <1>7, <2>1
  <2> QED
    BY <1>6, <1>8, <2>2
<1>9. \A i, j \in DOMAIN f : last[i] <= last[j] => i <= j
  <2> SUFFICES ASSUME NEW i \in DOMAIN f, NEW j \in DOMAIN f, last[i] <= last[j], ~(i <= j)
               PROVE  FALSE
    OBVIOUS
  <2>1. last[j] < last[i]
    BY <1>1, <1>5
  <2>2. last[i] \in Nat /\ last[j] \in Nat
    BY <1>1, <1>5
  <2> QED
    BY <2>1, <2>2
<1>10. ASSUME NEW i \in DOMAIN f \ hits, Under(f, i, heads)
       PROVE  Under(g, last[i], heads)
  <2>1. PICK j \in 1..i : f[j] \in heads /\ \A m \in (j + 1)..i : f[m].kind # "heading"
    BY <1>10 DEF Under
  <2>2. j \in DOMAIN f /\ j \notin hits
    BY <1>1, <1>2, <1>4, <2>1
  <2>3. last[j] \in 1..last[i]
    <3>1. j = i \/ j < i
      BY <1>1, <2>1
    <3>2. last[j] <= last[i] /\ last[j] \in 1..Len(g)
      BY <1>1, <1>5, <2>2, <3>1
    <3> QED
      BY <1>1, <1>5, <3>2
  <2>4. g[last[j]] \in heads
    BY <1>6, <2>1, <2>2
  <2>5. \A p \in (last[j] + 1)..last[i] : g[p].kind # "heading"
    <3> SUFFICES ASSUME NEW p \in (last[j] + 1)..last[i], g[p].kind = "heading"
                 PROVE  FALSE
      OBVIOUS
    <3>1. p \in DOMAIN g /\ last[j] < p /\ p <= last[i] /\ p \in Nat
      <4>1. last[i] \in 1..Len(g) /\ last[j] \in 1..Len(g)
        BY <1>1, <1>5, <2>2
      <4> QED
        BY <1>1, <4>1
    <3>2. CASE \E m \in DOMAIN f \ hits : p = last[m]
      <4>1. PICK m \in DOMAIN f \ hits : p = last[m]
        BY <3>2
      <4>2. m <= i /\ j < m
        <5>1. m <= i
          BY <1>9, <3>1, <4>1
        <5>2. ~(m <= j)
          <6> SUFFICES ASSUME m <= j PROVE FALSE
            OBVIOUS
          <6>1. m = j \/ m < j
            BY <1>1, <2>2, <4>1
          <6>2. last[m] <= last[j]
            BY <1>1, <1>5, <2>2, <6>1
          <6> QED
            BY <1>1, <1>5, <2>2, <3>1, <4>1, <6>2, SMTT(60)
        <5> QED
          BY <1>1, <2>2, <5>1, <5>2
      <4>3. m \in (j + 1)..i
        BY <1>1, <2>2, <4>2
      <4> QED
        BY <1>6, <2>1, <4>1, <4>3
    <3>3. CASE \E m \in DOMAIN f : Inserted(f, g, hits, ends, new, last, p, m)
      <4>1. PICK m \in DOMAIN f : Inserted(f, g, hits, ends, new, last, p, m)
        BY <3>3
      <4>2. m \in hits \cup ends /\ p <= last[m] /\ \A l \in DOMAIN f : l < m => last[l] < p
        BY <4>1 DEF Inserted
      <4>3. m <= i
        <5> SUFFICES ASSUME i < m PROVE FALSE
          BY <1>1
        <5>1. last[i] < p
          BY <4>2
        <5> QED
          BY <1>1, <1>5, <3>1, <5>1
      <4>4. j < m
        <5>1. ~(m <= j)
          <6> SUFFICES ASSUME m <= j PROVE FALSE
            OBVIOUS
          <6>1. m = j \/ m < j
            BY <1>1, <2>2, <4>1
          <6>2. last[m] <= last[j]
            BY <1>1, <1>5, <2>2, <6>1
          <6>3. /\ last[m] \in Nat /\ last[j] \in Nat /\ p \in Nat
                /\ last[j] < p /\ p <= last[m]
            BY <1>1, <1>5, <2>2, <3>1, <4>2
          <6> QED
            BY <6>2, <6>3
        <5> QED
          BY <1>1, <2>2, <5>1
      <4>5. Under(f, m - 1, Exact(s)) /\ m - 1 \in Nat
        BY <1>3, <4>2
      <4>6. Under(f, m - 1, heads)
        <5>1. j \in 1..(m - 1) /\ \A l \in (j + 1)..(m - 1) : f[l].kind # "heading"
          BY <1>1, <2>1, <2>2, <4>3, <4>4
        <5> QED
          BY <2>1, <5>1 DEF Under
      <4> QED
        BY <4>5, <4>6, <1>4, UnderOne
    <3> QED
      BY <1>7, <3>1, <3>2, <3>3
  <2> QED
    BY <2>3, <2>4, <2>5 DEF Under
<1>11. ASSUME NEW i \in DOMAIN f \ hits, Under(g, last[i], heads)
       PROVE  Under(f, i, heads)
  <2>1. PICK q \in 1..last[i] : /\ g[q] \in heads
                                /\ \A m \in (q + 1)..last[i] : g[m].kind # "heading"
    BY <1>11 DEF Under
  <2>2. last[i] \in 1..Len(g) /\ q \in DOMAIN g
    BY <1>1, <1>5
  <2>3. PICK j \in DOMAIN f \ hits : q = last[j] /\ f[j] \in heads
    BY <1>8, <2>1, <2>2
  <2>4. j \in 1..i
    BY <1>1, <1>9, <2>1, <2>3
  <2>5. \A m \in (j + 1)..i : f[m].kind # "heading"
    <3> SUFFICES ASSUME NEW m \in (j + 1)..i, f[m].kind = "heading"
                 PROVE  FALSE
      OBVIOUS
    <3>1. m \in DOMAIN f /\ m \notin hits /\ j < m /\ m <= i
      BY <1>1, <1>2, <2>3
    <3>2. last[j] < last[m] /\ last[m] <= last[i]
      <4>1. m = i \/ m < i
        BY <1>1, <3>1
      <4> QED
        BY <1>1, <1>5, <2>2, <2>3, <3>1, <4>1
    <3>3. last[m] \in (q + 1)..last[i]
      BY <1>1, <1>5, <2>2, <2>3, <3>1, <3>2
    <3> QED
      BY <1>6, <2>1, <3>1, <3>3
  <2> QED
    BY <2>3, <2>4, <2>5 DEF Under
<1>12. ASSUME NEW p \in DOMAIN g, Under(g, p, heads), ~ \E i \in DOMAIN f \ hits : p = last[i]
       PROVE  FALSE
  <2>1. PICK m \in DOMAIN f : Inserted(f, g, hits, ends, new, last, p, m)
    BY <1>7, <1>12
  <2>2. /\ m \in hits \cup ends /\ p <= last[m]
        /\ \A l \in DOMAIN f : l < m => last[l] < p
    BY <2>1 DEF Inserted
  <2>3. PICK q \in 1..p : g[q] \in heads /\ \A l \in (q + 1)..p : g[l].kind # "heading"
    BY <1>12 DEF Under
  <2>4. q \in DOMAIN g /\ p \in Nat /\ q \in Nat
    BY <1>1
  <2>5. PICK j \in DOMAIN f \ hits : q = last[j] /\ f[j] \in heads
    BY <1>8, <2>3, <2>4
  <2>6. j < m
    <3>1. j <= m
      <4>1. last[j] <= last[m]
        BY <1>1, <1>5, <2>2, <2>3, <2>4, <2>5
      <4> QED
        BY <1>9, <2>5, <4>1
    <3>2. j # m
      <4> SUFFICES ASSUME j = m PROVE FALSE
        OBVIOUS
      <4>1. m \in ends
        BY <2>2, <2>5
      <4>2. p < last[m]
        BY <2>1, <4>1 DEF Inserted
      <4> QED
        BY <1>1, <1>5, <2>3, <2>4, <2>5, <4>2
    <3> QED
      BY <1>1, <2>5, <3>1, <3>2
  <2>7. Under(f, m - 1, Exact(s)) /\ m - 1 \in Nat
    BY <1>3, <2>2
  <2>8. Under(f, m - 1, heads)
    <3>1. j \in 1..(m - 1)
      BY <1>1, <2>5, <2>6
    <3>2. \A l \in (j + 1)..(m - 1) : f[l].kind # "heading"
      <4> SUFFICES ASSUME NEW l \in (j + 1)..(m - 1), f[l].kind = "heading"
                   PROVE  FALSE
        OBVIOUS
      <4>1. l \in DOMAIN f /\ l \notin hits /\ j < l /\ l < m
        BY <1>1, <1>2, <2>5
      <4>2. last[j] < last[l] /\ last[l] < p
        BY <1>5, <2>2, <2>5, <4>1
      <4>3. last[l] \in (q + 1)..p
        BY <1>1, <1>5, <2>4, <2>5, <4>1, <4>2, SMTT(60)
      <4> QED
        BY <1>6, <2>3, <4>1, <4>3
    <3> QED
      BY <2>5, <3>1, <3>2 DEF Under
  <2> QED
    BY <2>7, <2>8, <1>4, UnderOne
<1> QED
  BY <1>10, <1>11, <1>12 DEF Apart, hits

\* The headings of g are those of f, and each line stands under the same as before.
Follows(f, g, last, heads) ==
  /\ \A i \in DOMAIN f : Under(g, last[i], heads) <=> Under(f, i, heads)
  /\ \A p \in DOMAIN g : g[p].kind = "heading" =>
       \E i \in DOMAIN f : p = last[i] /\ f[i].kind = "heading" /\ g[p] = f[i]

\* A bullet of one line moves no line to another heading.
LEMMA UnderWoven ==
  ASSUME NEW L, NEW f \in Seq(L), NEW g \in Seq(L), NEW s, NEW k, NEW b, b.kind = "bullet",
         NEW last, Woven(f, g, Hits(f, Exact(s), k), Ends(f, s, k), <<b>>, last),
         NEW heads, Headings(heads)
  PROVE  Follows(f, g, last, heads)
<1> DEFINE hits == Hits(f, Exact(s), k)
           ends == Ends(f, s, k)
<1>1. Len(f) \in Nat /\ DOMAIN f = 1..Len(f) /\ Len(g) \in Nat /\ DOMAIN g = 1..Len(g)
  OBVIOUS
<1>2. \A i \in hits : i \in DOMAIN f /\ f[i].kind = "bullet"
  BY DEF Hits, Holds
<1>3. DOMAIN <<b>> = {1} /\ Len(<<b>>) = 1 /\ <<b>>[1] = b
  OBVIOUS
<1>4. \A h \in heads : h.kind = "heading"
  BY DEF Headings
<1> HIDE DEF hits, ends
<1>5. /\ \A i \in DOMAIN f : last[i] \in DOMAIN g
      /\ \A i, j \in DOMAIN f : i < j => last[i] < last[j]
  BY DEF Woven, hits, ends
<1>6. \A i \in DOMAIN f \ hits : g[last[i]] = f[i]
  BY DEF Woven, hits, ends
<1>7. \A i \in hits : g[last[i]] = b
  BY <1>3 DEF Woven, hits, ends
<1>8. ASSUME NEW p \in DOMAIN g, g[p].kind = "heading"
      PROVE  \E i \in DOMAIN f : p = last[i] /\ f[i].kind = "heading" /\ g[p] = f[i]
  <2>1. ~ \E i \in DOMAIN f : Inserted(f, g, hits, ends, <<b>>, last, p, i)
    BY <1>3, <1>8 DEF Inserted
  <2>2. PICK i \in DOMAIN f : p = last[i]
    BY <2>1 DEF Woven, hits, ends
  <2>3. i \notin hits
    BY <1>7, <1>8, <2>2
  <2> QED
    BY <1>6, <1>8, <2>2, <2>3
<1>9. \A i \in DOMAIN f : f[i].kind = "heading" => g[last[i]] = f[i]
  BY <1>2, <1>6
<1>10. \A i, j \in DOMAIN f : last[i] <= last[j] => i <= j
  <2> SUFFICES ASSUME NEW i \in DOMAIN f, NEW j \in DOMAIN f, last[i] <= last[j], ~(i <= j)
               PROVE  FALSE
    OBVIOUS
  <2>1. last[j] < last[i]
    BY <1>1, <1>5
  <2>2. last[i] \in Nat /\ last[j] \in Nat
    BY <1>1, <1>5
  <2> QED
    BY <2>1, <2>2
<1>11. \A i, j \in DOMAIN f : i <= j => last[i] <= last[j]
  <2> SUFFICES ASSUME NEW i \in DOMAIN f, NEW j \in DOMAIN f, i <= j
               PROVE  last[i] <= last[j]
    OBVIOUS
  <2>1. i = j \/ i < j
    BY <1>1
  <2>2. last[i] \in Nat /\ last[j] \in Nat
    BY <1>1, <1>5
  <2> QED
    BY <1>5, <2>1, <2>2
<1>12. ASSUME NEW i \in DOMAIN f, Under(f, i, heads)
       PROVE  Under(g, last[i], heads)
  <2>1. PICK j \in 1..i : f[j] \in heads /\ \A m \in (j + 1)..i : f[m].kind # "heading"
    BY <1>12 DEF Under
  <2>2. j \in DOMAIN f /\ i \in Nat
    BY <1>1
  <2>3. last[j] \in 1..last[i] /\ last[i] \in 1..Len(g)
    BY <1>1, <1>5, <1>11, <2>2
  <2>4. g[last[j]] \in heads
    BY <1>4, <1>9, <2>1, <2>2
  <2>5. ASSUME NEW p \in (last[j] + 1)..last[i], g[p].kind = "heading"
        PROVE  FALSE
    <3>1. p \in DOMAIN g /\ p \in Nat /\ ~(p <= last[j]) /\ p <= last[i]
      BY <1>1, <2>3
    <3>2. PICK m \in DOMAIN f : p = last[m] /\ f[m].kind = "heading"
      BY <1>8, <2>5, <3>1
    <3>3. m <= i /\ ~(m <= j)
      BY <1>10, <1>11, <2>2, <3>1, <3>2
    <3>4. m \in (j + 1)..i
      BY <1>1, <2>2, <3>3
    <3> QED
      BY <2>1, <3>2, <3>4
  <2> QED
    BY <2>3, <2>4, <2>5 DEF Under
<1>13. ASSUME NEW i \in DOMAIN f, Under(g, last[i], heads)
       PROVE  Under(f, i, heads)
  <2>1. PICK q \in 1..last[i] : /\ g[q] \in heads
                                /\ \A m \in (q + 1)..last[i] : g[m].kind # "heading"
    BY <1>13 DEF Under
  <2>2. last[i] \in 1..Len(g) /\ q \in DOMAIN g
    BY <1>1, <1>5
  <2>3. PICK j \in DOMAIN f : q = last[j] /\ f[j] \in heads
    BY <1>4, <1>8, <2>1, <2>2
  <2>4. j \in 1..i
    BY <1>1, <1>10, <2>1, <2>3
  <2>5. ASSUME NEW m \in (j + 1)..i, f[m].kind = "heading"
        PROVE  FALSE
    <3>1. m \in DOMAIN f /\ j < m /\ m <= i
      BY <1>1, <2>3
    <3>2. last[j] < last[m] /\ last[m] <= last[i]
      BY <1>5, <1>11, <2>3, <3>1
    <3>3. last[m] \in (q + 1)..last[i]
      BY <1>1, <1>5, <2>2, <2>3, <3>1, <3>2
    <3> QED
      BY <1>9, <2>1, <2>5, <3>1, <3>3
  <2> QED
    BY <2>3, <2>4, <2>5 DEF Under
<1> QED
  BY <1>8, <1>12, <1>13 DEF Follows

\* The bullets of the section s with keys other than k are those of f.
OthersKept(f, g, s, k, last) ==
  \A l : l # k =>
    /\ \A i \in Hits(f, Exact(s), l) : last[i] \in Hits(g, Exact(s), l) /\ g[last[i]] = f[i]
    /\ \A p \in Hits(g, Exact(s), l) : \E i \in Hits(f, Exact(s), l) : p = last[i]

\* A bullet of one line leaves the other bullets of its section as they were.
LEMMA HitsWoven ==
  ASSUME NEW L, NEW f \in Seq(L), NEW g \in Seq(L), NEW s, NEW k, NEW b, b.kind = "bullet",
         Label[b.name] = k, NEW last, Woven(f, g, Hits(f, Exact(s), k), Ends(f, s, k), <<b>>, last)
  PROVE  OthersKept(f, g, s, k, last)
<1> DEFINE hits == Hits(f, Exact(s), k)
           ends == Ends(f, s, k)
<1>1. Len(f) \in Nat /\ DOMAIN f = 1..Len(f) /\ Len(g) \in Nat /\ DOMAIN g = 1..Len(g)
  OBVIOUS
<1>2. \A l : \A i : i \in Hits(f, Exact(s), l) <=>
                      /\ i \in DOMAIN f /\ f[i].kind = "bullet"
                      /\ Under(f, i, Exact(s)) /\ Label[f[i].name] = l
  BY DEF Hits, Holds
<1>3. \A l : \A i : i \in Hits(g, Exact(s), l) <=>
                      /\ i \in DOMAIN g /\ g[i].kind = "bullet"
                      /\ Under(g, i, Exact(s)) /\ Label[g[i].name] = l
  BY DEF Hits, Holds
<1>4. DOMAIN <<b>> = {1} /\ Len(<<b>>) = 1 /\ <<b>>[1] = b
  OBVIOUS
<1>5. /\ \A i \in DOMAIN f : Under(g, last[i], Exact(s)) <=> Under(f, i, Exact(s))
      /\ \A p \in DOMAIN g : g[p].kind = "heading" =>
           \E i \in DOMAIN f : p = last[i] /\ f[i].kind = "heading" /\ g[p] = f[i]
  <2>1. Follows(f, g, last, Exact(s))
    BY UnderWoven, SectionHeadings
  <2> QED
    BY <2>1 DEF Follows
<1>8. \A i \in hits : i \in DOMAIN f /\ f[i].kind = "bullet" /\ Under(f, i, Exact(s))
                      /\ Label[f[i].name] = k
  BY <1>2
<1> HIDE DEF hits, ends
<1>9. /\ \A i \in DOMAIN f : last[i] \in DOMAIN g
      /\ \A i, j \in DOMAIN f : i < j => last[i] < last[j]
  BY DEF Woven, hits, ends
<1>10. \A i \in DOMAIN f \ hits : g[last[i]] = f[i]
  BY DEF Woven, hits, ends
<1>11. \A i \in hits : g[last[i]] = b
  BY <1>4 DEF Woven, hits, ends
<1>12. \A p \in DOMAIN g : \/ \E i \in DOMAIN f : p = last[i]
                           \/ g[p] = b
  <2> TAKE p \in DOMAIN g
  <2>1. \/ \E i \in DOMAIN f : p = last[i]
        \/ \E i \in DOMAIN f : Inserted(f, g, hits, ends, <<b>>, last, p, i)
    BY DEF Woven, hits, ends
  <2> QED
    BY <1>4, <2>1 DEF Inserted
<1>13. ASSUME NEW l, l # k
       PROVE  /\ \A i \in Hits(f, Exact(s), l) : last[i] \in Hits(g, Exact(s), l) /\ g[last[i]] = f[i]
              /\ \A p \in Hits(g, Exact(s), l) : \E i \in Hits(f, Exact(s), l) : p = last[i]
  <2>1. ASSUME NEW i \in Hits(f, Exact(s), l)
        PROVE  last[i] \in Hits(g, Exact(s), l) /\ g[last[i]] = f[i]
    <3>1. /\ i \in DOMAIN f /\ f[i].kind = "bullet"
          /\ Under(f, i, Exact(s)) /\ Label[f[i].name] = l
      BY <1>2
    <3>2. i \notin hits
      BY <1>8, <1>13, <3>1
    <3> QED
      BY <1>3, <1>5, <1>9, <1>10, <3>1, <3>2
  <2>2. ASSUME NEW p \in Hits(g, Exact(s), l)
        PROVE  \E i \in Hits(f, Exact(s), l) : p = last[i]
    <3>1. /\ p \in DOMAIN g /\ g[p].kind = "bullet"
          /\ Under(g, p, Exact(s)) /\ Label[g[p].name] = l
      BY <1>3
    <3>2. g[p] # b
      BY <1>13, <3>1
    <3>3. PICK i \in DOMAIN f : p = last[i]
      BY <1>12, <3>1, <3>2
    <3>4. i \notin hits /\ f[i] = g[p] /\ Under(f, i, Exact(s))
      BY <1>5, <1>10, <1>11, <3>1, <3>2, <3>3
    <3>5. i \in Hits(f, Exact(s), l)
      BY <1>2, <3>1, <3>4
    <3> QED
      BY <3>3, <3>5
  <2> QED
    BY <2>1, <2>2
<1> QED
  BY <1>13 DEF OthersKept

\* b is the first of the bullets that hold the key.
FirstIs(lines, heads, k, b) ==
  \E p \in DOMAIN lines : /\ lines[p] = b
                          /\ Holds(lines, p, heads, k)
                          /\ \A q \in DOMAIN lines : q < p => ~Holds(lines, q, heads, k)

LEMMA RecallFirst ==
  ASSUME NEW L, NEW f \in Files(L), NEW heads, NEW k, NEW b, FirstIs(f.lines, heads, k, b)
  PROVE  RecallBy(f, heads, k) = Shown(b.val)
<1> DEFINE hits == Hits(f.lines, heads, k)
<1>1. hits \subseteq Nat
  BY HitsAreLines DEF Files
<1>2. PICK p \in hits : f.lines[p] = b /\ \A q \in hits : ~(q < p)
  BY DEF FirstIs, Hits
<1> HIDE DEF hits
<1>3. Min(hits) \in hits /\ \A q \in hits : Min(hits) <= q
  BY <1>1, <1>2, LeastNumber
<1>4. Min(hits) = p
  <2>1. Min(hits) \in Nat /\ p \in Nat /\ Min(hits) <= p /\ ~(Min(hits) < p)
    BY <1>1, <1>2, <1>3
  <2> QED
    BY <2>1
<1> QED
  BY <1>2, <1>4 DEF RecallBy, hits

\* Where the loop meets the key or the end of the section, the new bullet is the first
\* that memory_recall will find, whatever the lines behind it are.
LEMMA FirstWoven ==
  ASSUME NEW L, NEW f \in Seq(L), NEW g \in Seq(L), NEW s, NEW k, NEW new, NEW last,
         new[1].kind = "bullet", Label[new[1].name] = k,
         Hits(f, Trimmed(s), k) = Hits(f, Exact(s), k),
         Hits(f, Exact(s), k) # {} \/ Ends(f, s, k) # {},
         Woven(f, g, Hits(f, Exact(s), k), Ends(f, s, k), new, last)
  PROVE  FirstIs(g, Trimmed(s), k, new[1])
<1> DEFINE hits == Hits(f, Exact(s), k)
           ends == Ends(f, s, k)
           heads == Trimmed(s)
<1>1. Len(f) \in Nat /\ DOMAIN f = 1..Len(f) /\ Len(g) \in Nat /\ DOMAIN g = 1..Len(g)
  OBVIOUS
<1>2. \A i \in hits \cup ends : i \in DOMAIN f /\ i - 1 \in Nat \ {0} /\ Under(f, i - 1, Exact(s))
  BY InsertedInSection
<1>3. \A i \in DOMAIN f : Holds(f, i, heads, k) => i \in hits
  BY DEF Hits
<1>4. Exact(s) \subseteq heads
  BY DEF Exact, Trimmed
<1> HIDE DEF hits, ends, heads
<1>5. /\ \A i \in DOMAIN f : last[i] \in DOMAIN g
      /\ \A i, j \in DOMAIN f : i < j => last[i] < last[j]
      /\ \A i \in DOMAIN f \ hits : g[last[i]] = f[i]
      /\ \A p \in DOMAIN g : \/ \E i \in DOMAIN f : p = last[i]
                             \/ \E i \in DOMAIN f : Inserted(f, g, hits, ends, new, last, p, i)
  BY DEF Woven, hits, ends
<1>6. PICK i \in hits \cup ends : /\ \A j \in hits \cup ends : i <= j
                                 /\ Foremost(f, g, new, last, i)
  <2> DEFINE all == hits \cup ends
             i == Min(all)
  <2>1. all \subseteq Nat /\ all # {}
    BY <1>1, <1>2 DEF hits, ends
  <2>2. i \in all /\ \A j \in all : i <= j
    <3> HIDE DEF all
    <3> QED
      BY <2>1, LeastNumber
  <2>3. CASE i \in hits
    BY <2>2, <2>3 DEF Woven, hits, ends
  <2>4. CASE i \in ends
    <3>1. Min(ends) \in ends /\ \A j \in ends : Min(ends) <= j
      BY <2>1, <2>4, LeastNumber
    <3>2. Min(ends) = i
      <4>1. Min(ends) <= i /\ i <= Min(ends) /\ Min(ends) \in Nat /\ i \in Nat
        BY <2>1, <2>2, <2>4, <3>1
      <4> QED
        BY <4>1
    <3>3. Foremost(f, g, new, last, Min(ends))
      BY <3>1 DEF Woven, hits, ends
    <3> QED
      BY <2>2, <3>2, <3>3
  <2> QED
    BY <2>2, <2>3, <2>4
<1>7. PICK p \in DOMAIN g :
        /\ g[p] = new[1]
        /\ p <= last[i]
        /\ \A j \in DOMAIN f : j < i => last[j] < p
        /\ \A q \in DOMAIN g : q < p => \E j \in DOMAIN f : j < i /\ q <= last[j]
  BY <1>6 DEF Foremost
<1>8. i \in DOMAIN f /\ i - 1 \in DOMAIN f /\ i - 1 \in Nat /\ Under(f, i - 1, Exact(s))
  BY <1>1, <1>2
<1>9. \A j, m \in DOMAIN f : j <= m => last[j] <= last[m]
  <2> SUFFICES ASSUME NEW j \in DOMAIN f, NEW m \in DOMAIN f, j <= m
               PROVE  last[j] <= last[m]
    OBVIOUS
  <2>1. j = m \/ j < m
    BY <1>1
  <2>2. last[j] \in Nat /\ last[m] \in Nat
    BY <1>1, <1>5
  <2> QED
    BY <1>5, <2>1, <2>2
<1>10. \A j, m \in DOMAIN f : last[j] <= last[m] => j <= m
  <2> SUFFICES ASSUME NEW j \in DOMAIN f, NEW m \in DOMAIN f, m < j
               PROVE  ~(last[j] <= last[m])
    BY <1>1
  <2>1. last[m] < last[j] /\ last[j] \in Nat /\ last[m] \in Nat
    BY <1>1, <1>5
  <2> QED
    BY <2>1
\* Up to the new bullet g is f.
<1>11. ASSUME NEW q \in DOMAIN g, q < p
       PROVE  \E m \in DOMAIN f : m < i /\ q = last[m] /\ g[q] = f[m]
  <2>1. PICK j \in DOMAIN f : j < i /\ q <= last[j]
    BY <1>7, <1>11
  <2>2. \E m \in DOMAIN f : q = last[m]
    <3> SUFFICES ASSUME NEW m \in DOMAIN f, Inserted(f, g, hits, ends, new, last, q, m)
                 PROVE  FALSE
      BY <1>5
    <3>1. i <= m /\ \A l \in DOMAIN f : l < m => last[l] < q
      BY <1>6 DEF Inserted
    <3>2. j < m
      BY <1>1, <1>8, <2>1, <3>1
    <3>3. last[j] < q /\ last[j] \in Nat /\ q \in Nat
      BY <1>1, <1>5, <3>1, <3>2
    <3> QED
      BY <2>1, <3>3
  <2>3. PICK m \in DOMAIN f : q = last[m]
    BY <2>2
  <2>4. m <= j
    BY <1>10, <2>1, <2>3
  <2>5. m < i
    BY <1>1, <1>8, <2>1, <2>4
  <2>6. m \notin hits
    BY <1>1, <1>6, <1>8, <2>5
  <2> QED
    BY <1>5, <2>3, <2>5, <2>6
<1>12. \A m \in DOMAIN f : m < i => g[last[m]] = f[m]
  <2> SUFFICES ASSUME NEW m \in DOMAIN f, m < i
               PROVE  m \notin hits
    BY <1>5
  <2> QED
    BY <1>1, <1>6, <1>8
<1>13. ASSUME NEW j \in DOMAIN f, j < i, Under(f, j, Exact(s))
       PROVE  Under(g, last[j], Exact(s))
  <2>1. PICK l \in 1..j : f[l] \in Exact(s) /\ \A m \in (l + 1)..j : f[m].kind # "heading"
    BY <1>13 DEF Under
  <2>2. l \in DOMAIN f /\ l < i /\ l <= j
    BY <1>1, <1>8, <1>13
  <2>3. last[l] \in 1..last[j] /\ g[last[l]] \in Exact(s)
    <3>1. last[l] <= last[j] /\ last[l] \in 1..Len(g) /\ last[j] \in Nat
      BY <1>1, <1>5, <1>9, <2>2
    <3> QED
      BY <1>12, <2>1, <2>2, <3>1
  <2>4. ASSUME NEW q \in (last[l] + 1)..last[j], g[q].kind = "heading"
        PROVE  FALSE
    <3>1. last[l] \in Nat /\ last[j] \in 1..Len(g) /\ last[j] < p /\ p \in Nat
      BY <1>1, <1>5, <1>7, <1>13, <2>2
    <3>2. q \in DOMAIN g /\ q < p /\ q \in Nat /\ ~(q <= last[l]) /\ q <= last[j]
      BY <1>1, <3>1
    <3>3. PICK m \in DOMAIN f : q = last[m] /\ g[q] = f[m]
      BY <1>11, <3>2
    <3>4. ~(m <= l) /\ m <= j
      BY <1>9, <1>10, <2>2, <3>2, <3>3
    <3>5. m \in (l + 1)..j
      BY <1>1, <2>2, <3>4
    <3> QED
      BY <2>1, <2>4, <3>3, <3>5
  <2> QED
    BY <2>3, <2>4 DEF Under
<1>14. ASSUME NEW j \in DOMAIN f, j < i, Under(g, last[j], heads)
       PROVE  Under(f, j, heads)
  <2>1. PICK r \in 1..last[j] : /\ g[r] \in heads
                                /\ \A q \in (r + 1)..last[j] : g[q].kind # "heading"
    BY <1>14 DEF Under
  <2>2. last[j] \in 1..Len(g) /\ last[j] < p /\ p \in Nat
    BY <1>1, <1>5, <1>7, <1>14
  <2>3. r \in DOMAIN g /\ r < p /\ r \in Nat
    BY <1>1, <2>2
  <2>4. PICK l \in DOMAIN f : r = last[l] /\ g[r] = f[l]
    BY <1>11, <2>3
  <2>5. l \in 1..j
    BY <1>1, <1>10, <2>1, <2>4
  <2>6. ASSUME NEW m \in (l + 1)..j, f[m].kind = "heading"
        PROVE  FALSE
    <3>1. m \in DOMAIN f /\ l < m /\ m <= j /\ m < i
      BY <1>1, <1>8, <1>14, <2>5
    <3>2. last[l] < last[m] /\ last[m] <= last[j] /\ last[m] \in Nat
      BY <1>1, <1>5, <1>9, <3>1
    <3>3. last[m] \in (r + 1)..last[j]
      BY <2>2, <2>3, <2>4, <3>2
    <3> QED
      BY <1>12, <2>1, <2>6, <3>1, <3>3
  <2> QED
    BY <2>1, <2>4, <2>5, <2>6 DEF Under
<1>15. ASSUME NEW q \in DOMAIN g, q < p, Holds(g, q, heads, k)
       PROVE  FALSE
  <2>1. PICK m \in DOMAIN f : m < i /\ q = last[m] /\ g[q] = f[m]
    BY <1>11, <1>15
  <2>2. Holds(f, m, heads, k)
    BY <1>14, <1>15, <2>1 DEF Holds
  <2> QED
    BY <1>1, <1>3, <1>6, <1>8, <2>1, <2>2
<1>16. Holds(g, p, heads, k)
  <2>1. Under(g, last[i - 1], Exact(s)) /\ last[i - 1] < p
    BY <1>7, <1>8, <1>13
  <2>2. last[i - 1] \in Nat /\ p \in Nat
    BY <1>1, <1>5, <1>8
  <2>3. ASSUME NEW q \in (last[i - 1] + 1)..p, g[q].kind = "heading"
        PROVE  FALSE
    <3>1. q \in Nat /\ last[i - 1] < q /\ q \in DOMAIN g /\ q # p /\ q <= p
      BY <1>1, <1>7, <2>2, <2>3
    <3>2. PICK m \in DOMAIN f : m < i /\ q = last[m]
      BY <1>11, <3>1
    <3>3. m <= i - 1
      BY <1>1, <1>8, <3>2
    <3>4. last[m] <= last[i - 1]
      BY <1>8, <1>9, <3>3
    <3> QED
      BY <2>2, <3>1, <3>2, <3>4
  <2>4. Under(g, p, Exact(s))
    BY <2>1, <2>2, <2>3, UnderOn
  <2>5. Under(g, p, heads)
    BY <1>4, <2>4 DEF Under
  <2> QED
    BY <1>7, <2>5 DEF Holds
<1> QED
  BY <1>7, <1>15, <1>16 DEF FirstIs, heads

-----------------------------------------------------------------------------
(* memory_store as a whole, in its three cases.                            *)

\* Every line leaves room for its newline.
Fits(f) == \A i \in DOMAIN f.lines : ~f.lines[i].full

\* What is stored then is put out by the loop, at the end of the file, or there under a
\* new heading.
ByLoop(f, s, k, new, g) ==
  /\ Hits(f.lines, Exact(s), k) # {} \/ Ends(f.lines, s, k) # {}
  /\ g = File(Rewritten(f.lines, s, k, new),
              f.open /\ Len(f.lines) \notin Hits(f.lines, Exact(s), k))

AtEnd(f, s, k, new, long, g) ==
  /\ Hits(f.lines, Exact(s), k) = {} /\ Ends(f.lines, s, k) = {}
  /\ \E i \in DOMAIN f.lines : f.lines[i] \in Exact(s)
  /\ g = File(Appended(f, new, long), FALSE)

UnderNew(f, s, k, new, g) ==
  /\ Hits(f.lines, Exact(s), k) = {} /\ Ends(f.lines, s, k) = {}
  /\ ~ \E i \in DOMAIN f.lines : f.lines[i] \in Exact(s)
  /\ g = File(f.lines \o <<Heading(s)>> \o new, FALSE)

LEMMA StoredCases ==
  ASSUME NEW f, Fits(f), NEW s, NEW k, NEW new, NEW long, NEW g, g = Stored(f, s, k, new, long)
  PROVE  ByLoop(f, s, k, new, g) \/ AtEnd(f, s, k, new, long, g) \/ UnderNew(f, s, k, new, g)
<1>1. {i \in DOMAIN f.lines \ Hits(f.lines, Exact(s), k) :
         f.lines[i].full /\ (i < Len(f.lines) \/ ~f.open \/ long)} = {}
  BY DEF Fits
<1> QED
  BY <1>1 DEF Stored, ByLoop, AtEnd, UnderNew

\* A line that something was appended to is no heading of a section.
Ungarbled(heads) == Headings(heads) /\ \A h \in heads : h.name # Garbled

LEMMA ContinuedLine ==
  ASSUME NEW line, NEW long, NEW heads, Ungarbled(heads)
  PROVE  /\ Continued(line, long).kind = "heading" <=> line.kind = "heading"
         /\ Continued(line, long) \notin heads
<1>1. CASE line.kind = "heading"
  <2>1. Continued(line, long) = Line("heading", Garbled, None, line.full \/ long)
    BY <1>1 DEF Continued
  <2> QED
    BY <1>1, <2>1 DEF Line, Ungarbled
<1>2. CASE line.kind = "bullet"
  <2>1. Continued(line, long) = Line("bullet", line.name, Garbled, line.full \/ long)
    BY <1>2 DEF Continued
  <2> QED
    BY <1>2, <2>1 DEF Line, Ungarbled, Headings
<1>3. CASE line.kind # "heading" /\ line.kind # "bullet"
  <2>1. Continued(line, long) = Line("text", None, None, line.full \/ long)
    BY <1>3 DEF Continued
  <2> QED
    BY <1>3, <2>1 DEF Line, Ungarbled, Headings
<1> QED
  BY <1>1, <1>2, <1>3

\* g is lines and new, with x for the last of lines and the first of new.
Overlaid(g, lines, x, new) ==
  /\ Len(g) = Len(lines) + Len(new) - 1
  /\ \A i \in 1..(Len(lines) - 1) : g[i] = lines[i]
  /\ g[Len(lines)] = x
  /\ \A i \in (Len(lines) + 1)..(Len(lines) + Len(new) - 1) :
       g[i] = new[i - Len(lines) + 1]

\* The lines of a file that was open when a bullet was appended to it.
LEMMA AppendedLines ==
  ASSUME NEW L, NEW lines \in Seq(L), lines # <<>>, NEW new \in Seq(L), new # <<>>,
         NEW x \in L
  PROVE  /\ Front(lines) \o <<x>> \o Tail(new) \in Seq(L)
         /\ Overlaid(Front(lines) \o <<x>> \o Tail(new), lines, x, new)
<1> DEFINE n == Len(lines)
           front == Front(lines)
           tail == Tail(new)
           all == front \o <<x>> \o tail
<1>1. n \in Nat \ {0} /\ Len(new) \in Nat \ {0} /\ \A i \in 1..n : lines[i] \in L
  OBVIOUS
<1>2. /\ front \in Seq(L) /\ Len(front) = n - 1
      /\ \A i \in 1..(n - 1) : front[i] = lines[i]
  <2> DEFINE m == n - 1
  <2>1. m \in 0..n
    BY <1>1
  <2> HIDE DEF m, n
  <2>2. SubSeq(lines, 1, m) \in Seq(L) /\ Len(SubSeq(lines, 1, m)) = m
    BY <1>1, <2>1 DEF n
  <2>3. \A i \in 1..m : SubSeq(lines, 1, m)[i] = lines[i]
    BY <1>1, <2>1 DEF n
  <2>4. front = SubSeq(lines, 1, m)
    BY DEF Front, m, n
  <2> HIDE DEF front
  <2> QED
    BY <2>2, <2>3, <2>4 DEF m
<1>3. /\ tail \in Seq(L) /\ Len(tail) = Len(new) - 1
      /\ \A i \in 1..(Len(new) - 1) : tail[i] = new[i + 1]
  BY <1>1
<1> HIDE DEF front, tail, n
<1>4. /\ front \o <<x>> \in Seq(L) /\ Len(front \o <<x>>) = n
      /\ \A i \in 1..(n - 1) : (front \o <<x>>)[i] = lines[i]
      /\ (front \o <<x>>)[n] = x
  BY <1>1, <1>2, SMTT(60)
<1> DEFINE head == front \o <<x>>
<1> HIDE DEF head
<1>5. /\ head \in Seq(L) /\ Len(head) = n
      /\ \A i \in 1..(n - 1) : head[i] = lines[i]
      /\ head[n] = x
  BY <1>4 DEF head
<1>6. /\ head \o tail \in Seq(L) /\ Len(head \o tail) = n + (Len(new) - 1)
      /\ \A i \in 1..n : (head \o tail)[i] = head[i]
      /\ \A i \in 1..(Len(new) - 1) : (head \o tail)[n + i] = tail[i]
  <2>1. head \o tail \in Seq(L) /\ Joined(head \o tail, head, tail)
    BY <1>3, <1>5, ConcatAt
  <2> QED
    BY <1>3, <1>5, <2>1 DEF Joined
<1>7. all = head \o tail
  BY DEF head
<1> HIDE DEF all
<1>8. \A i \in (n + 1)..(n + Len(new) - 1) : all[i] = new[i - n + 1]
  <2> TAKE i \in (n + 1)..(n + Len(new) - 1)
  <2> DEFINE j == i - n
  <2>1. j \in 1..(Len(new) - 1) /\ n + j = i
    BY <1>1
  <2> HIDE DEF j
  <2>2. all[i] = new[j + 1]
    BY <1>3, <1>6, <1>7, <2>1
  <2> QED
    BY <2>2 DEF j
<1>9. \A i \in 1..(n - 1) : all[i] = lines[i]
  <2> TAKE i \in 1..(n - 1)
  <2>1. i \in 1..n
    BY <1>1
  <2> QED
    BY <1>5, <1>6, <1>7, <2>1
<1>10. all[n] = x
  <2>1. n \in 1..n
    BY <1>1
  <2> QED
    BY <1>5, <1>6, <1>7, <2>1
<1>11. all \in Seq(L) /\ Len(all) = n + Len(new) - 1
  BY <1>1, <1>6, <1>7
<1> QED
  BY <1>8, <1>9, <1>10, <1>11 DEF all, front, tail, n, Overlaid

\* It is a file.
LEMMA StoredIsFile ==
  ASSUME NEW L, NEW f \in Files(L), NEW s, Heading(s) \in L, NEW long \in BOOLEAN,
         \A x \in L : Continued(x, long) \in L, NEW k, NEW new \in Seq(L), new # <<>>
  PROVE  Stored(f, s, k, new, long) \in Files(L)
<1>1. f.lines \in Seq(L) /\ f.open \in BOOLEAN
  BY DEF Files
<1> DEFINE lines == f.lines
<1>2. ASSUME NEW g \in Seq(L), NEW open \in BOOLEAN
      PROVE  File(g, open) \in Files(L)
  BY DEF File, Files
<1>3. CASE ByLoop(f, s, k, new, Stored(f, s, k, new, long))
  <2>0. /\ Hits(lines, Exact(s), k) # {} \/ Ends(lines, s, k) # {}
        /\ Stored(f, s, k, new, long) = File(Rewritten(lines, s, k, new),
                                       f.open /\ Len(lines) \notin Hits(lines, Exact(s), k))
    BY <1>3 DEF ByLoop
  <2>1. Rewritten(lines, s, k, new) \in Seq(L)
    BY <1>1, RewrittenWeaves
  <2>2. (f.open /\ Len(lines) \notin Hits(lines, Exact(s), k)) \in BOOLEAN
    OBVIOUS
  <2> QED
    BY <1>2, <2>0, <2>1, <2>2
<1>4. CASE AtEnd(f, s, k, new, long, Stored(f, s, k, new, long))
  <2>0. /\ Hits(lines, Exact(s), k) = {} /\ Ends(lines, s, k) = {}
        /\ \E i \in DOMAIN lines : lines[i] \in Exact(s)
        /\ Stored(f, s, k, new, long) = File(Appended(f, new, long), FALSE)
    BY <1>4 DEF AtEnd
  <2>1. lines # <<>>
    BY <2>0
  <2>2. Appended(f, new, long) \in Seq(L)
    <3>1. CASE f.open
      <4>1. Last(lines) \in L
        BY <1>1, <2>1 DEF Last
      <4>2. Continued(Last(lines), long) \in L
        BY <4>1
      <4> QED
        BY <1>1, <2>1, <3>1, <4>2, AppendedLines DEF Appended
    <3>2. CASE ~f.open
      BY <1>1, <3>2 DEF Appended
    <3> QED
      BY <3>1, <3>2
  <2> QED
    BY <1>2, <2>0, <2>2
<1>5. CASE UnderNew(f, s, k, new, Stored(f, s, k, new, long))
  <2>0. Stored(f, s, k, new, long) = File(lines \o <<Heading(s)>> \o new, FALSE)
    BY <1>5 DEF UnderNew
  <2>1. lines \o <<Heading(s)>> \o new \in Seq(L)
    BY <1>1
  <2> QED
    BY <1>2, <2>0, <2>1
<1>6. ASSUME NEW m \in 1..Len(lines)
      PROVE  File(Rewritten(SubSeq(lines, 1, m), s, k, new), TRUE) \in Files(L)
  <2>1. SubSeq(lines, 1, m) \in Seq(L)
    BY <1>1
  <2>2. Rewritten(SubSeq(lines, 1, m), s, k, new) \in Seq(L)
    BY <2>1, RewrittenWeaves
  <2> QED
    BY <1>2, <2>2
<1>7. LET stops == {i \in DOMAIN lines \ Hits(lines, Exact(s), k) :
                      lines[i].full /\ (i < Len(lines) \/ ~f.open \/ long)}
      IN  stops # {} => Min(stops) \in 1..Len(lines)
  <2> DEFINE stops == {i \in DOMAIN lines \ Hits(lines, Exact(s), k) :
                         lines[i].full /\ (i < Len(lines) \/ ~f.open \/ long)}
  <2>1. stops \subseteq 1..Len(lines) /\ stops \subseteq Nat
    BY <1>1
  <2> HIDE DEF stops
  <2>2. stops # {} => Min(stops) \in stops
    BY <2>1, LeastNumber
  <2>3. stops # {} => Min(stops) \in 1..Len(lines)
    BY <2>1, <2>2
  <2> QED
    BY <2>3 DEF stops
<1> QED
  BY <1>3, <1>4, <1>5, <1>6, <1>7 DEF Stored, ByLoop, AtEnd, UnderNew

\* Whatever is stored in a section, the others that it does not open answer as before.
LEMMA StoredElsewhere ==
  ASSUME NEW L, NEW f \in Files(L), Fits(f), NEW s, Heading(s) \in L, NEW long \in BOOLEAN,
         \A x \in L : Continued(x, long) \in L, NEW k, NEW new \in Seq(L), new # <<>>,
         NEW heads, Ungarbled(heads), Exact(s) \cap heads = {},
         \A m \in DOMAIN new : new[m] \notin heads
  PROVE  SameIn(f, Stored(f, s, k, new, long), heads)
<1> DEFINE lines == f.lines
           n == Len(lines)
           h == Stored(f, s, k, new, long)
           g == h.lines
<1>1. lines \in Seq(L) /\ n \in Nat /\ DOMAIN lines = 1..n /\ h \in Files(L) /\ g \in Seq(L)
  BY StoredIsFile DEF Files
<1>2. /\ Heading(s) \notin heads /\ Headings(heads) /\ Headings(Exact(s))
      /\ Exact(s) \cap heads = {} /\ \A x \in Exact(s) : x = Heading(s)
  BY SectionHeadings DEF Ungarbled, Exact
<1>3. Len(new) \in Nat \ {0} /\ DOMAIN new = 1..Len(new)
  OBVIOUS
<1>4. CASE ByLoop(f, s, k, new, Stored(f, s, k, new, long))
  <2>0. /\ Hits(lines, Exact(s), k) # {} \/ Ends(lines, s, k) # {}
        /\ Stored(f, s, k, new, long) = File(Rewritten(lines, s, k, new),
                                       f.open /\ Len(lines) \notin Hits(lines, Exact(s), k))
    BY <1>4 DEF ByLoop
  <2> DEFINE hits == Hits(lines, Exact(s), k)
             ends == Ends(lines, s, k)
  <2>1. g = Rewritten(lines, s, k, new) /\ h.open = (f.open /\ n \notin hits)
    BY <2>0 DEF File
  <2>2. \E last : Woven(lines, Rewritten(lines, s, k, new), hits, ends, new, last)
    BY <1>1, RewrittenWeaves
  <2>3. PICK last : Woven(lines, g, hits, ends, new, last)
    BY <2>1, <2>2
  <2>4. lines # <<>>
    BY <1>1, <2>0 DEF Hits, Ends
  <2> HIDE DEF h
  <2>5. Apart(lines, g, hits, last, heads)
    BY <1>1, <1>2, <2>3, OthersWoven
  <2>6. /\ \A i \in DOMAIN lines \ hits : Under(g, last[i], heads) <=> Under(lines, i, heads)
        /\ \A p \in DOMAIN g : Under(g, p, heads) => \E i \in DOMAIN lines \ hits : p = last[i]
    BY <2>5 DEF Apart
  <2>7. /\ \A i \in DOMAIN lines : last[i] \in DOMAIN g
        /\ \A i, j \in DOMAIN lines : i < j => last[i] < last[j]
        /\ \A i \in DOMAIN lines \ hits : g[last[i]] = lines[i]
        /\ last[n] = Len(g)
    BY <2>3, <2>4 DEF Woven
  <2>8. \A i \in hits : ~Under(lines, i, heads)
    <3> TAKE i \in hits
    <3>1. i \in Nat /\ Under(lines, i, Exact(s))
      BY <1>1 DEF Hits, Holds
    <3> QED
      BY <1>2, <3>1, UnderOne
  <2>9. ASSUME NEW l
        PROVE  RecallBy(h, heads, l) = RecallBy(f, heads, l)
    <3>1. \A i : i \in Hits(lines, heads, l) <=>
                   /\ i \in DOMAIN lines /\ lines[i].kind = "bullet"
                   /\ Under(lines, i, heads) /\ Label[lines[i].name] = l
      BY DEF Hits, Holds
    <3>2. \A i : i \in Hits(g, heads, l) <=>
                   /\ i \in DOMAIN g /\ g[i].kind = "bullet"
                   /\ Under(g, i, heads) /\ Label[g[i].name] = l
      BY DEF Hits, Holds
    <3> HIDE DEF hits, ends
    <3>3. \A i \in Hits(lines, heads, l) : /\ last[i] \in Hits(g, heads, l)
                                       /\ g[last[i]].val = lines[i].val
      BY <2>6, <2>7, <2>8, <3>1, <3>2
    <3>4. \A p \in Hits(g, heads, l) : \E i \in Hits(lines, heads, l) : p = last[i]
      BY <2>6, <2>7, <3>1, <3>2
    <3>5. \A i, j \in Hits(lines, heads, l) : i < j => last[i] < last[j]
      BY <2>7, <3>1
    <3>6. SameBullets(f, h, heads, l, last)
      BY <3>3, <3>4, <3>5 DEF SameBullets
    <3> QED
      BY <1>1, <3>6, RecallFollows
  <2> QED
    BY <2>9 DEF h, SameIn
<1>5. CASE AtEnd(f, s, k, new, long, Stored(f, s, k, new, long))
  <2>0. /\ Hits(lines, Exact(s), k) = {} /\ Ends(lines, s, k) = {}
        /\ \E i \in DOMAIN lines : lines[i] \in Exact(s)
        /\ Stored(f, s, k, new, long) = File(Appended(f, new, long), FALSE)
    BY <1>5 DEF AtEnd
  <2>1. g = Appended(f, new, long) /\ h.open = FALSE
    BY <2>0 DEF File
  <2>2. n \in Nat \ {0} /\ Under(lines, n, Exact(s))
    BY <1>1, <2>0, OpenSectionIsLast
  <2>3. CASE f.open
    <3> DEFINE x == Continued(Last(lines), long)
    <3>1. lines # <<>> /\ lines[n] \in L /\ x = Continued(lines[n], long) /\ x \in L
      BY <1>1, <2>2 DEF Last
    <3>2. g = Front(lines) \o <<x>> \o Tail(new)
      BY <2>1, <2>3 DEF Appended
    <3>3. (x.kind = "heading" <=> lines[n].kind = "heading") /\ x \notin heads
      BY <3>1, ContinuedLine, ZenonT(60)
    <3> HIDE DEF x, h
    <3>4. /\ Len(g) = n + Len(new) - 1
          /\ \A i \in 1..(n - 1) : g[i] = lines[i]
          /\ g[n] = x
          /\ \A i \in (n + 1)..(n + Len(new) - 1) : g[i] = new[i - n + 1]
      <4>1. Overlaid(g, lines, x, new)
        BY <1>1, <3>1, <3>2, AppendedLines
      <4> QED
        BY <4>1 DEF Overlaid
    <3>5. \A p \in n..Len(g) : g[p] \notin heads
      <4> TAKE p \in n..Len(g)
      <4>1. CASE p = n
        BY <3>3, <3>4, <4>1
      <4>2. CASE p # n
        <5>1. /\ p \in (n + 1)..(n + Len(new) - 1)
              /\ p - n + 1 \in DOMAIN new
          BY <1>1, <1>3, <3>4, <4>2
        <5> QED
          BY <3>4, <5>1
      <4> QED
        BY <4>1, <4>2
    <3>6. Under(lines, n - 1, Exact(s)) \/ g[n].kind = "heading"
      BY <2>2, <3>3, <3>4, <1>2, UnderBefore
    <3> DEFINE m == n - 1
    <3>7. m \in Nat /\ m + 1 = n /\ m < Len(g)
      BY <1>3, <2>2, <3>4
    <3> HIDE DEF m, n
    <3>8. \A i \in 1..m : g[i] = lines[i]
      BY <3>4 DEF m
    <3>9. Under(lines, m, Exact(s)) \/ g[m + 1].kind = "heading"
      BY <3>6, <3>7 DEF m
    <3>10. /\ \A p \in (m + 1)..Len(g) : g[p] \notin heads
           /\ m + 1 = Len(lines) /\ Under(lines, m + 1, Exact(s))
      BY <2>2, <3>5, <3>7 DEF n
    <3>11. TailFrom(lines, g, m, s, heads)
      BY <3>7, <3>8, <3>9, <3>10, <1>2 DEF TailFrom
    <3>12. SameIn(f, h, heads)
      BY <1>1, <3>7, <3>11, TailKeeps
    <3> QED
      BY <2>1, <3>12 DEF h
  <2>4. CASE ~f.open
    <3>1. g = lines \o new
      BY <2>1, <2>4 DEF Appended
    <3> HIDE DEF h
    <3>2. /\ Len(g) = n + Len(new)
          /\ \A i \in 1..n : g[i] = lines[i]
          /\ \A i \in 1..Len(new) : g[n + i] = new[i]
      <4>1. Joined(g, lines, new)
        BY <1>1, <3>1, ConcatAt
      <4> QED
        BY <4>1 DEF Joined
    <3>3. \A p \in (n + 1)..Len(g) : g[p] \notin heads
      <4> TAKE p \in (n + 1)..Len(g)
      <4> DEFINE i == p - n
      <4>1. i \in 1..Len(new) /\ p = n + i
        BY <1>1, <1>3, <3>2
      <4> HIDE DEF i
      <4>2. g[p] = new[i] /\ i \in DOMAIN new
        BY <1>3, <3>2, <4>1
      <4> QED
        BY <4>2
    <3>4. n < Len(g)
      BY <1>1, <1>3, <3>2
    <3>5. TailFrom(lines, g, n, s, heads)
      BY <2>2, <3>2, <3>3, <3>4, <1>2 DEF TailFrom
    <3>6. SameIn(f, h, heads)
      BY <1>1, <3>5, TailKeeps
    <3> QED
      BY <2>1, <3>6 DEF h
  <2> QED
    BY <2>3, <2>4
<1>6. CASE UnderNew(f, s, k, new, Stored(f, s, k, new, long))
  <2>0. Stored(f, s, k, new, long) = File(lines \o <<Heading(s)>> \o new, FALSE)
    BY <1>6 DEF UnderNew
  <2>1. g = (lines \o <<Heading(s)>>) \o new /\ h.open = FALSE
    BY <2>0 DEF File
  <2> DEFINE head == lines \o <<Heading(s)>>
  <2>2. /\ head \in Seq(L) /\ Len(head) = n + 1
        /\ \A i \in 1..n : head[i] = lines[i]
        /\ head[n + 1] = Heading(s)
    BY <1>1
  <2> HIDE DEF head, h
  <2>3. /\ Len(g) = n + 1 + Len(new)
        /\ \A i \in 1..(n + 1) : g[i] = head[i]
        /\ \A i \in 1..Len(new) : g[n + 1 + i] = new[i]
    <3>1. g = head \o new
      BY <2>1 DEF head
    <3>2. Joined(g, head, new)
      BY <1>1, <2>2, <3>1, ConcatAt
    <3> QED
      BY <2>2, <3>2 DEF Joined
  <2>4. \A i \in 1..n : g[i] = lines[i]
    BY <1>1, <2>2, <2>3
  <2>5. g[n + 1] = Heading(s)
    BY <1>1, <2>2, <2>3, SMTT(60)
  <2>6. \A p \in (n + 1)..Len(g) : g[p] \notin heads
    <3> TAKE p \in (n + 1)..Len(g)
    <3>1. CASE p = n + 1
      BY <1>2, <2>5, <3>1
    <3>2. CASE p # n + 1
      <4>a. \A a, c, q \in Nat : q \in (a + 1)..(a + 1 + c) /\ q # a + 1 =>
              q - (a + 1) \in 1..c /\ q = a + 1 + (q - (a + 1))
        OBVIOUS
      <4>b. n \in Nat /\ Len(new) \in Nat /\ p \in (n + 1)..(n + 1 + Len(new)) /\ p \in Nat
        BY <1>1, <1>3, <2>3
      <4> DEFINE i == p - (n + 1)
      <4> HIDE DEF n
      <4>1. i \in 1..Len(new) /\ p = n + 1 + i
        BY <4>a, <4>b, <3>2
      <4> HIDE DEF i
      <4>2. g[p] = new[i] /\ i \in DOMAIN new
        BY <1>3, <2>3, <4>1
      <4> QED
        BY <4>2
    <3> QED
      BY <3>1, <3>2
  <2>7. n < Len(g) /\ g[n + 1].kind = "heading"
    BY <1>1, <1>3, <2>3, <2>5 DEF Heading, Line
  <2>8. TailFrom(lines, g, n, s, heads)
    BY <2>4, <2>6, <2>7, <1>2 DEF TailFrom
  <2>9. SameIn(f, h, heads)
    BY <1>1, <2>8, TailKeeps
  <2> QED
    BY <2>1, <2>9 DEF h
<1>7. ByLoop(f, s, k, new, h) \/ AtEnd(f, s, k, new, long, h) \/ UnderNew(f, s, k, new, h)
  BY StoredCases
<1> QED
  BY <1>4, <1>5, <1>6, <1>7

-----------------------------------------------------------------------------
(* What memory_store does to the section it stores in.                     *)

\* The bullets that hold the key are the same lines in f and g, and the answer is the same.
Unmoved(f, g, heads, l) ==
  /\ Hits(g.lines, heads, l) = Hits(f.lines, heads, l)
  /\ RecallBy(g, heads, l) = RecallBy(f, heads, l)

\* A line more that is no bullet of the key changes nothing.
LEMMA LineAdded ==
  ASSUME NEW L, NEW f, f \in Files(L), NEW g, g \in Files(L), NEW x, x \in L,
         NEW heads, NEW l, x.kind # "bullet" \/ Label[x.name] # l,
         g.lines = f.lines \o <<x>>
  PROVE  Unmoved(f, g, heads, l)
<1> DEFINE old == f.lines
           new == g.lines
           n == Len(old)
<1>1. /\ n \in Nat /\ DOMAIN old = 1..n /\ DOMAIN new = 1..(n + 1)
      /\ \A i \in 1..n : new[i] = old[i]
      /\ new[n + 1] = x
  BY DEF Files
<1>2. \A i \in 1..n : Under(new, i, heads) <=> Under(old, i, heads)
  BY <1>1, UnderAlike
<1> HIDE DEF old, new, n
<1>3. \A i \in 1..(n + 1) : i \in 1..n \/ i = n + 1
  BY <1>1
<1>4. \A i : i \in Hits(new, heads, l) <=> i \in Hits(old, heads, l)
  <2> TAKE i
  <2>1. CASE i \in 1..n
    <3>1. i \in 1..(n + 1)
      BY <1>1, <2>1
    <3> QED
      BY <1>1, <1>2, <2>1, <3>1 DEF Hits, Holds
  <2>2. CASE i \notin 1..n
    BY <1>1, <1>3, <2>2 DEF Hits, Holds
  <2> QED
    BY <2>1, <2>2
<1>5. Hits(new, heads, l) = Hits(old, heads, l)
  BY <1>4
<1> DEFINE at == [i \in Hits(old, heads, l) |-> i]
<1>6. /\ \A i \in Hits(old, heads, l) : at[i] \in Hits(new, heads, l)
                                        /\ new[at[i]].val = old[i].val
      /\ \A p \in Hits(new, heads, l) : \E i \in Hits(old, heads, l) : p = at[i]
      /\ \A i, j \in Hits(old, heads, l) : i < j => at[i] < at[j]
  <2>1. Hits(old, heads, l) \subseteq 1..n
    BY <1>1 DEF Hits
  <2> QED
    BY <1>1, <1>5, <2>1
<1> HIDE DEF at
<1>7. SameBullets(f, g, heads, l, at)
  BY <1>6 DEF SameBullets, old, new
<1> QED
  BY <1>5, <1>7, RecallFollows DEF old, new, Unmoved

\* A bullet of one line leaves the answers for the other keys of its section as they
\* were, unless it is appended to an open line of the section.
LEMMA StoredThere ==
  ASSUME NEW L, NEW f \in Files(L), Fits(f), NEW s, Heading(s) \in L, NEW long \in BOOLEAN,
         \A x \in L : Continued(x, long) \in L, NEW k,
         NEW b \in L, b.kind = "bullet", Label[b.name] = k,
         ~f.open \/ ~Under(f.lines, Len(f.lines), Exact(s)), NEW l, l # k
  PROVE  RecallBy(Stored(f, s, k, <<b>>, long), Exact(s), l) = RecallBy(f, Exact(s), l)
<1> DEFINE lines == f.lines
           n == Len(lines)
           h == Stored(f, s, k, <<b>>, long)
           g == h.lines
<1>1. /\ lines \in Seq(L) /\ n \in Nat /\ DOMAIN lines = 1..n
      /\ <<b>> \in Seq(L) /\ <<b>> # <<>>
  BY DEF Files
<1>2. h \in Files(L) /\ g \in Seq(L)
  <2>1. h \in Files(L)
    BY <1>1, StoredIsFile
  <2> QED
    BY <2>1 DEF Files
<1>3. CASE ByLoop(f, s, k, <<b>>, h)
  <2>0. /\ Hits(lines, Exact(s), k) # {} \/ Ends(lines, s, k) # {}
        /\ h = File(Rewritten(lines, s, k, <<b>>),
                    f.open /\ Len(lines) \notin Hits(lines, Exact(s), k))
    BY <1>3 DEF ByLoop
  <2>1. g = Rewritten(lines, s, k, <<b>>)
    BY <2>0 DEF File
  <2>2. \E last : Woven(lines, Rewritten(lines, s, k, <<b>>), Hits(lines, Exact(s), k),
                        Ends(lines, s, k), <<b>>, last)
    BY <1>1, RewrittenWeaves
  <2>3. PICK last : Woven(lines, g, Hits(lines, Exact(s), k), Ends(lines, s, k), <<b>>, last)
    BY <2>1, <2>2
  <2> HIDE DEF h
  <2>4. OthersKept(lines, g, s, k, last)
    BY <1>1, <1>2, <2>3, HitsWoven
  <2>5. /\ \A i \in Hits(lines, Exact(s), l) :
             last[i] \in Hits(g, Exact(s), l) /\ g[last[i]] = lines[i]
        /\ \A p \in Hits(g, Exact(s), l) : \E i \in Hits(lines, Exact(s), l) : p = last[i]
    BY <2>4 DEF OthersKept
  <2>6. \A i, j \in Hits(lines, Exact(s), l) : i < j => last[i] < last[j]
    <3>1. \A i, j \in DOMAIN lines : i < j => last[i] < last[j]
      BY <2>3 DEF Woven
    <3>2. Hits(lines, Exact(s), l) \subseteq DOMAIN lines
      BY DEF Hits
    <3> QED
      BY <3>1, <3>2
  <2>7. SameBullets(f, h, Exact(s), l, last)
    BY <2>5, <2>6 DEF SameBullets
  <2>8. RecallBy(h, Exact(s), l) = RecallBy(f, Exact(s), l)
    BY <1>2, <2>7, RecallFollows
  <2> QED
    BY <2>8 DEF h
<1>4. CASE AtEnd(f, s, k, <<b>>, long, h)
  <2>0. /\ Hits(lines, Exact(s), k) = {} /\ Ends(lines, s, k) = {}
        /\ \E i \in DOMAIN lines : lines[i] \in Exact(s)
        /\ h = File(Appended(f, <<b>>, long), FALSE)
    BY <1>4 DEF AtEnd
  <2>1. n \in Nat \ {0} /\ Under(lines, n, Exact(s))
    BY <1>1, <2>0, OpenSectionIsLast
  <2>2. g = lines \o <<b>>
    BY <2>0, <2>1 DEF File, Appended
  <2> HIDE DEF h
  <2>3. Unmoved(f, h, Exact(s), l)
    BY <1>2, <2>2, LineAdded
  <2> QED
    BY <2>3 DEF h, Unmoved
<1>5. CASE UnderNew(f, s, k, <<b>>, h)
  <2>0. h = File(lines \o <<Heading(s)>> \o <<b>>, FALSE)
    BY <1>5 DEF UnderNew
  <2> DEFINE mid == File(lines \o <<Heading(s)>>, FALSE)
  <2>1. mid \in Files(L) /\ mid.lines = lines \o <<Heading(s)>>
    BY <1>1 DEF Files, File
  <2>2. g = mid.lines \o <<b>>
    BY <2>0, <2>1, SMTT(60) DEF File
  <2>3. Heading(s).kind # "bullet"
    BY DEF Heading, Line
  <2> HIDE DEF mid, h
  <2>4. Unmoved(f, mid, Exact(s), l)
    BY <2>1, <2>3, LineAdded
  <2>5. Unmoved(mid, h, Exact(s), l)
    <3>1. b \in L /\ (b.kind # "bullet" \/ Label[b.name] # l)
      OBVIOUS
    <3>2. h \in Files(L) /\ mid \in Files(L) /\ h.lines = mid.lines \o <<b>>
      BY <1>2, <2>1, <2>2
    <3> HIDE DEF g
    <3> QED
      BY <3>1, <3>2, LineAdded
  <2> QED
    BY <2>4, <2>5 DEF h, Unmoved
<1>6. ByLoop(f, s, k, <<b>>, h) \/ AtEnd(f, s, k, <<b>>, long, h) \/ UnderNew(f, s, k, <<b>>, h)
  BY StoredCases
<1> QED
  BY <1>3, <1>4, <1>5, <1>6

\* A bullet put at the end of a section that is the last of the file and has none of its
\* key is the first, whatever the lines behind it are.
LEMMA FirstAtEnd ==
  ASSUME NEW L, NEW lines \in Seq(L), NEW new \in Seq(L), new # <<>>, NEW s, NEW k,
         new[1].kind = "bullet", Label[new[1].name] = k,
         Len(lines) # 0, Under(lines, Len(lines), Exact(s)), Hits(lines, Trimmed(s), k) = {}
  PROVE  FirstIs(lines \o new, Trimmed(s), k, new[1])
<1> DEFINE n == Len(lines)
           g == lines \o new
           heads == Trimmed(s)
<1>1. /\ n \in Nat \ {0} /\ DOMAIN lines = 1..n /\ n + 1 \in DOMAIN g
      /\ \A i \in 1..n : g[i] = lines[i]
      /\ g[n + 1] = new[1]
  <2>1. g \in Seq(L) /\ Joined(g, lines, new)
    BY ConcatAt
  <2>2. Len(new) \in Nat \ {0} /\ 1 \in 1..Len(new)
    OBVIOUS
  <2> HIDE DEF g
  <2> QED
    BY <2>1, <2>2, SMTT(60) DEF Joined
<1> HIDE DEF g, n
<1>2. \A h : \A i \in 1..n : Under(g, i, h) <=> Under(lines, i, h)
  BY <1>1, UnderAlike
<1>3. Under(g, n + 1, Exact(s))
  <2>1. Under(g, n, Exact(s)) /\ n \in 1..n
    BY <1>1, <1>2 DEF n
  <2>2. \A m \in (n + 1)..(n + 1) : g[m].kind # "heading"
    BY <1>1
  <2>3. n \in Nat /\ n + 1 \in Nat /\ n <= n + 1
    BY <1>1
  <2> QED
    BY <2>1, <2>2, <2>3, UnderOn
<1>4. Under(g, n + 1, heads)
  <2>1. Exact(s) \subseteq heads
    BY DEF Exact, Trimmed
  <2> QED
    BY <1>3, <2>1 DEF Under
<1>5. Holds(g, n + 1, heads, k)
  BY <1>1, <1>4 DEF Holds
<1>6. ASSUME NEW q \in DOMAIN g, q < n + 1
      PROVE  ~Holds(g, q, heads, k)
  <2>1. q \in 1..n
    <3>1. g \in Seq(L)
      BY ConcatAt DEF g
    <3>2. q \in 1..Len(g)
      BY <3>1
    <3> QED
      BY <1>1, <1>6, <3>2
  <2>2. ~Holds(lines, q, heads, k)
    BY <1>1, <2>1 DEF Hits
  <2> QED
    BY <1>1, <1>2, <2>1, <2>2 DEF Holds
<1> QED
  BY <1>1, <1>5, <1>6 DEF FirstIs, g

\* Whatever its lines are, what is stored is the first of the bullets of its key, unless
\* it is appended to an open line of the section.
LEMMA StoredFirst ==
  ASSUME NEW L, NEW f \in Files(L), Fits(f), NEW s, Heading(s) \in L, NEW long \in BOOLEAN,
         NEW k, NEW new \in Seq(L), new # <<>>,
         new[1].kind = "bullet", Label[new[1].name] = k,
         Hits(f.lines, Trimmed(s), k) = Hits(f.lines, Exact(s), k),
         ~f.open \/ ~Under(f.lines, Len(f.lines), Exact(s))
  PROVE  FirstIs(Stored(f, s, k, new, long).lines, Trimmed(s), k, new[1])
<1> DEFINE lines == f.lines
           n == Len(lines)
           h == Stored(f, s, k, new, long)
           g == h.lines
<1>1. lines \in Seq(L) /\ n \in Nat /\ DOMAIN lines = 1..n
  BY DEF Files
<1>2. CASE ByLoop(f, s, k, new, h)
  <2>0. /\ Hits(lines, Exact(s), k) # {} \/ Ends(lines, s, k) # {}
        /\ h = File(Rewritten(lines, s, k, new),
                    f.open /\ Len(lines) \notin Hits(lines, Exact(s), k))
    BY <1>2 DEF ByLoop
  <2>1. g = Rewritten(lines, s, k, new)
    BY <2>0 DEF File
  <2>2. /\ Rewritten(lines, s, k, new) \in Seq(L)
        /\ \E last : Woven(lines, Rewritten(lines, s, k, new), Hits(lines, Exact(s), k),
                           Ends(lines, s, k), new, last)
    BY <1>1, RewrittenWeaves
  <2> HIDE DEF h
  <2>3. PICK last : Woven(lines, g, Hits(lines, Exact(s), k), Ends(lines, s, k), new, last)
    BY <2>1, <2>2
  <2>4. FirstIs(g, Trimmed(s), k, new[1])
    BY <1>1, <2>0, <2>1, <2>2, <2>3, FirstWoven
  <2> QED
    BY <2>4 DEF h
<1>3. CASE AtEnd(f, s, k, new, long, h)
  <2>0. /\ Hits(lines, Exact(s), k) = {} /\ Ends(lines, s, k) = {}
        /\ \E i \in DOMAIN lines : lines[i] \in Exact(s)
        /\ h = File(Appended(f, new, long), FALSE)
    BY <1>3 DEF AtEnd
  <2>1. n \in Nat \ {0} /\ Under(lines, n, Exact(s))
    BY <1>1, <2>0, OpenSectionIsLast
  <2>2. g = lines \o new
    <3>1. ~f.open
      BY <2>1
    <3> QED
      BY <2>0, <3>1 DEF File, Appended
  <2> HIDE DEF h
  <2>3. FirstIs(lines \o new, Trimmed(s), k, new[1])
    BY <1>1, <2>0, <2>1, FirstAtEnd
  <2> QED
    BY <2>2, <2>3 DEF h
<1>4. CASE UnderNew(f, s, k, new, h)
  <2>0. /\ Hits(lines, Exact(s), k) = {} /\ Ends(lines, s, k) = {}
        /\ ~ \E i \in DOMAIN lines : lines[i] \in Exact(s)
        /\ h = File(lines \o <<Heading(s)>> \o new, FALSE)
    BY <1>4 DEF UnderNew
  <2> DEFINE mid == File(lines \o <<Heading(s)>>, FALSE)
             head == mid.lines
  <2>1. mid \in Files(L) /\ head = lines \o <<Heading(s)>>
    BY <1>1 DEF Files, File
  <2>2. /\ head \in Seq(L) /\ Len(head) = n + 1
        /\ head[n + 1] = Heading(s)
    <3> DEFINE x == lines \o <<Heading(s)>>
    <3>1. x \in Seq(L) /\ Len(x) = n + 1 /\ x[n + 1] = Heading(s)
      BY <1>1
    <3>2. head = x
      BY <2>1
    <3> HIDE DEF head, x
    <3> QED
      BY <3>1, <3>2
  <2>3. g = head \o new
    BY <2>0, <2>1 DEF File
  <2>4. Heading(s).kind # "bullet" /\ Heading(s) \in Exact(s)
    BY DEF Heading, Line, Exact
  <2> HIDE DEF mid, h
  <2>5. Hits(head, Trimmed(s), k) = {}
    <3>1. Hits(head, Trimmed(s), k) = Hits(lines, Trimmed(s), k)
      <4>1. /\ f \in Files(L) /\ mid \in Files(L) /\ Heading(s) \in L
            /\ mid.lines = f.lines \o <<Heading(s)>>
        BY <2>1
      <4>2. Unmoved(f, mid, Trimmed(s), k)
        BY <2>4, <4>1, LineAdded
      <4> QED
        BY <4>2 DEF Unmoved
    <3> QED
      BY <2>0, <3>1
  <2>6. Under(head, Len(head), Exact(s)) /\ Len(head) # 0
    <3>1. n + 1 \in 1..(n + 1) /\ \A m \in (n + 1 + 1)..(n + 1) : FALSE
      BY <1>1
    <3> QED
      BY <1>1, <2>2, <2>4, <3>1 DEF Under
  <2>7. FirstIs(head \o new, Trimmed(s), k, new[1])
    <3> HIDE DEF head
    <3> QED
      BY <2>2, <2>5, <2>6, FirstAtEnd
  <2> QED
    BY <2>3, <2>7 DEF h
<1>5. ByLoop(f, s, k, new, h) \/ AtEnd(f, s, k, new, long, h) \/ UnderNew(f, s, k, new, h)
  BY StoredCases
<1> QED
  BY <1>2, <1>3, <1>4, <1>5

-----------------------------------------------------------------------------
(* Writes that come out short.                                             *)

\* The files that hold the first bytes of one are made of the same lines and of lines
\* that are cut off.
LEMMA ShorterFiles ==
  ASSUME NEW L, \A x \in L : Torn(x) \subseteq L, NEW f \in Files(L), NEW g \in Shorter(f)
  PROVE  g \in Files(L)
<1> DEFINE lines == f.lines
<1>1. lines \in Seq(L) /\ Len(lines) \in Nat /\ DOMAIN lines = 1..Len(lines)
  BY DEF Files
<1>2. CASE \E n \in 0..(Len(lines) - 1) : g = File(SubSeq(lines, 1, n), FALSE)
  <2>1. PICK n \in 0..(Len(lines) - 1) : g = File(SubSeq(lines, 1, n), FALSE)
    BY <1>2
  <2>2. SubSeq(lines, 1, n) \in Seq(L)
    BY <1>1
  <2> QED
    BY <2>1, <2>2 DEF File, Files
<1>3. CASE \E n \in DOMAIN lines : \E x \in Torn(lines[n]) :
             g = File(SubSeq(lines, 1, n - 1) \o <<x>>, TRUE)
  <2>0. PICK n \in DOMAIN lines :
          \E x \in Torn(lines[n]) : g = File(SubSeq(lines, 1, n - 1) \o <<x>>, TRUE)
    BY <1>3
  <2>1. PICK x \in Torn(lines[n]) : g = File(SubSeq(lines, 1, n - 1) \o <<x>>, TRUE)
    BY <2>0
  <2>2. x \in L
    BY <1>1, <2>1
  <2>3. SubSeq(lines, 1, n - 1) \in Seq(L)
    BY <1>1, <2>1
  <2>4. SubSeq(lines, 1, n - 1) \o <<x>> \in Seq(L)
    BY <2>2, <2>3
  <2> QED
    BY <2>1, <2>4 DEF File, Files
<1> QED
  BY <1>2, <1>3 DEF Shorter

\* The first bullet with the key among the first n lines is the first of the file.
LEMMA FirstOfPart ==
  ASSUME NEW L, NEW f \in Files(L), NEW g \in Files(L), NEW heads, NEW k, NEW n \in Nat,
         n <= Len(f.lines), n <= Len(g.lines), \A i \in 1..n : g.lines[i] = f.lines[i],
         NEW i \in Hits(g.lines, heads, k), i <= n
  PROVE  RecallBy(g, heads, k) = RecallBy(f, heads, k)
<1> DEFINE F == Hits(f.lines, heads, k)
           G == Hits(g.lines, heads, k)
<1>1. F \subseteq Nat /\ G \subseteq Nat
  BY HitsAreLines DEF Files
<1>2. \A j \in 1..n : /\ j \in F <=> j \in G
                      /\ g.lines[j] = f.lines[j]
  <2> TAKE j \in 1..n
  <2>1. Under(g.lines, j, heads) <=> Under(f.lines, j, heads)
    BY UnderAlike
  <2>2. j \in DOMAIN f.lines /\ j \in DOMAIN g.lines /\ g.lines[j] = f.lines[j]
    BY DEF Files
  <2> QED
    BY <2>1, <2>2 DEF Hits, Holds
<1>3. /\ RecallBy(f, heads, k) = IF F = {} THEN None ELSE Shown(f.lines[Min(F)].val)
      /\ RecallBy(g, heads, k) = IF G = {} THEN None ELSE Shown(g.lines[Min(G)].val)
  BY DEF RecallBy
<1>4. i \in G /\ i \in 1..n
  <2>1. i \in DOMAIN g.lines
    BY DEF Hits
  <2> QED
    BY <2>1 DEF Files
<1> HIDE DEF F, G
<1>5. i \in F /\ F # {} /\ G # {}
  BY <1>2, <1>4
<1>6. /\ Min(F) \in F /\ \A j \in F : Min(F) <= j
      /\ Min(G) \in G /\ \A j \in G : Min(G) <= j
  BY <1>1, <1>5, LeastNumber
<1>7. Min(F) \in 1..n /\ Min(G) \in 1..n
  <2>1. \A j \in F \cup G : j <= n => j \in 1..n
    <3>1. \A j \in F : j \in DOMAIN f.lines
      BY DEF F, Hits
    <3>2. \A j \in G : j \in DOMAIN g.lines
      BY DEF G, Hits
    <3> QED
      BY <1>1, <3>1, <3>2 DEF Files
  <2>2. Min(F) <= i /\ Min(G) <= i /\ Min(F) \in Nat /\ Min(G) \in Nat
    BY <1>1, <1>4, <1>5, <1>6
  <2>3. Min(F) <= n /\ Min(G) <= n
    BY <1>4, <2>2
  <2> QED
    BY <1>6, <2>1, <2>3
<1>8. Min(F) = Min(G)
  <2>1. Min(F) \in G /\ Min(G) \in F
    BY <1>2, <1>6, <1>7
  <2>2. Min(G) <= Min(F) /\ Min(F) <= Min(G)
    BY <1>6, <2>1
  <2> QED
    BY <1>7, <2>2
<1> QED
  BY <1>2, <1>3, <1>5, <1>7, <1>8

\* A file that came out short answers as the whole one, or not at all, or with the part
\* of a value.
LEMMA ShorterRecall ==
  ASSUME NEW L, L \subseteq MemoryLine, \A x \in L : Torn(x) \subseteq L,
         NEW f \in Files(L), NEW g \in Shorter(f),
         NEW heads, Headings(heads), NEW k
  PROVE  RecallBy(g, heads, k) \in {RecallBy(f, heads, k), None, Shown(Garbled)}
<1> DEFINE lines == f.lines
           F == Hits(lines, heads, k)
           G == Hits(g.lines, heads, k)
<1>1. /\ lines \in Seq(L) /\ Len(lines) \in Nat /\ DOMAIN lines = 1..Len(lines)
      /\ g \in Files(L) /\ g.lines \in Seq(L)
  <2>1. g \in Files(L)
    BY ShorterFiles
  <2> QED
    BY <2>1 DEF Files
<1>2. F \subseteq Nat /\ G \subseteq 1..Len(g.lines) /\ G \subseteq Nat
  BY <1>1, HitsAreLines
<1>3. G = {} => RecallBy(g, heads, k) = None
  BY DEF RecallBy
<1>4. CASE \E n \in 0..(Len(lines) - 1) : g = File(SubSeq(lines, 1, n), FALSE)
  <2>1. PICK n \in 0..(Len(lines) - 1) : g = File(SubSeq(lines, 1, n), FALSE)
    BY <1>4
  <2>2. g.lines = SubSeq(lines, 1, n)
    BY <2>1 DEF File
  <2>3. n \in Nat /\ n <= Len(lines)
    BY <1>1
  <2>4. Len(g.lines) = n /\ \A i \in 1..n : g.lines[i] = lines[i]
    BY <1>1, <2>2
  <2>5. ASSUME NEW i \in G
        PROVE  RecallBy(g, heads, k) = RecallBy(f, heads, k)
    <3>1. i <= n
      BY <1>2, <2>4
    <3> QED
      BY <1>1, <2>3, <2>4, <3>1, FirstOfPart
  <2> QED
    BY <1>3, <2>5
<1>5. CASE \E n \in DOMAIN lines : \E x \in Torn(lines[n]) :
             g = File(SubSeq(lines, 1, n - 1) \o <<x>>, TRUE)
  <2>0. PICK n \in DOMAIN lines :
          \E x \in Torn(lines[n]) : g = File(SubSeq(lines, 1, n - 1) \o <<x>>, TRUE)
    BY <1>5
  <2>1. PICK x \in Torn(lines[n]) : g = File(SubSeq(lines, 1, n - 1) \o <<x>>, TRUE)
    BY <2>0
  <2> DEFINE m == n - 1
  <2>2. m \in Nat /\ n = m + 1 /\ n \in Nat /\ n <= Len(lines) /\ m <= Len(lines)
    BY <1>1
  <2>3. g.lines = SubSeq(lines, 1, m) \o <<x>>
    BY <2>1 DEF File
  <2> HIDE DEF m
  <2>4. /\ Len(g.lines) = n /\ \A i \in 1..m : g.lines[i] = lines[i]
        /\ g.lines[n] = x
    <3> DEFINE part == SubSeq(lines, 1, m)
    <3>1. part \in Seq(L) /\ Len(part) = m /\ \A i \in 1..m : part[i] = lines[i]
      BY <1>1, <2>2
    <3>2. g.lines = part \o <<x>>
      BY <2>3
    <3>3. x \in L
      BY <1>1, <2>1
    <3> HIDE DEF part
    <3>4. \A p \in Seq(L) : /\ Len(p \o <<x>>) = Len(p) + 1
                           /\ \A i \in 1..Len(p) : (p \o <<x>>)[i] = p[i]
                           /\ (p \o <<x>>)[Len(p) + 1] = x
      BY <3>3
    <3> QED
      BY <2>2, <3>1, <3>2, <3>4
  <2>5. ASSUME NEW i \in G, i <= m
        PROVE  RecallBy(g, heads, k) = RecallBy(f, heads, k)
    <3>1. m <= Len(g.lines)
      BY <2>2, <2>4
    <3> QED
      BY <1>1, <2>2, <2>4, <2>5, <3>1, FirstOfPart
  <2>6. CASE G # {} /\ \A i \in G : ~(i <= m)
    <3>1. G = {n}
      BY <1>2, <2>2, <2>4, <2>6
    <3>2. /\ x.kind = "bullet" /\ Label[x.name] = k /\ Under(g.lines, n, heads)
      BY <2>4, <3>1 DEF Hits, Holds
    <3>3. /\ lines[n].kind = "bullet" /\ x.name = lines[n].name
          /\ x.val \in {lines[n].val, Garbled}
      <4> DEFINE y == lines[n]
                 z == [y EXCEPT !.full = FALSE]
      <4>1. \/ x \in {Text, y, z}
            \/ y.kind = "heading" /\ x \in {Heading(Garbled), Heading(y.name)}
            \/ y.kind = "bullet" /\ x = Bullet(y.name, Garbled)
        BY <2>1 DEF Torn
      <4>2. y \in MemoryLine
        BY <1>1, <2>1
      <4>3. z.kind = y.kind /\ z.name = y.name /\ z.val = y.val
        BY <4>2 DEF MemoryLine
      <4>4. Text.kind # "bullet" /\ \A name : Heading(name).kind # "bullet"
        BY DEF Text, Heading, Line
      <4>5. LET b == Bullet(y.name, Garbled) IN b.name = y.name /\ b.val = Garbled
        BY DEF Bullet, Line
      <4> HIDE DEF y, z
      <4>6. CASE x \in {y, z}
        BY <3>2, <4>3, <4>6 DEF y
      <4>7. CASE y.kind = "bullet" /\ x = Bullet(y.name, Garbled)
        BY <4>5, <4>7 DEF y
      <4> QED
        BY <3>2, <4>1, <4>4, <4>6, <4>7
    <3>4. n \in F
      <4>1. m \in Nat \ {0} /\ Under(g.lines, m, heads)
        <5>1. g.lines[n].kind # "heading"
          BY <2>4, <3>2
        <5>2. n - 1 = m
          BY <2>2
        <5> QED
          BY <2>2, <3>2, <5>1, <5>2, UnderBefore
      <4>2. Under(lines, m, heads)
        <5>1. m \in 1..m
          BY <4>1
        <5> QED
          BY <2>2, <2>4, <4>1, <5>1, UnderAlike
      <4>3. \A p \in (m + 1)..n : lines[p].kind # "heading"
        BY <2>2, <3>3
      <4>4. Under(lines, n, heads)
        BY <2>2, <4>2, <4>3, UnderOn
      <4> QED
        BY <3>2, <3>3, <4>4 DEF Hits, Holds
    <3>5. \A i \in F : ~(i < n)
      <4> SUFFICES ASSUME NEW i \in F, i < n
                   PROVE  FALSE
        OBVIOUS
      <4>1. i \in 1..m
        <5>1. i \in DOMAIN lines
          BY DEF Hits
        <5> QED
          BY <1>1, <2>2, <5>1
      <4>2. Under(g.lines, i, heads)
        <5>1. Under(lines, i, heads)
          BY DEF Hits, Holds
        <5> QED
          BY <2>2, <2>4, <4>1, <5>1, UnderAlike
      <4>3. i \in DOMAIN g.lines
        BY <1>1, <2>2, <2>4, <4>1
      <4>4. i \in G
        BY <2>4, <4>1, <4>2, <4>3 DEF Hits, Holds
      <4> QED
        BY <2>2, <2>6, <4>1, <4>4
    <3> HIDE DEF F, G
    <3>6. Min(F) = n /\ Min(G) = n
      <4>1. Min(F) \in F /\ \A i \in F : Min(F) <= i
        BY <1>2, <3>4, LeastNumber
      <4>2. Min(G) \in G
        BY <1>2, <3>1, LeastNumber
      <4>3. Min(F) \in Nat /\ Min(F) <= n /\ ~(Min(F) < n)
        BY <1>2, <3>4, <3>5, <4>1
      <4> QED
        BY <2>2, <3>1, <4>2, <4>3
    <3>7. /\ RecallBy(f, heads, k) = IF F = {} THEN None ELSE Shown(lines[Min(F)].val)
          /\ RecallBy(g, heads, k) = IF G = {} THEN None ELSE Shown(g.lines[Min(G)].val)
      BY DEF RecallBy, F, G
    <3>8. F # {} /\ G # {}
      BY <3>1, <3>4
    <3>9. /\ RecallBy(f, heads, k) = Shown(lines[n].val)
          /\ RecallBy(g, heads, k) = Shown(x.val)
      BY <2>4, <3>6, <3>7, <3>8
    <3> QED
      BY <3>3, <3>9
  <2> QED
    BY <1>3, <2>5, <2>6
<1> QED
  BY <1>4, <1>5 DEF Shorter
-----------------------------------------------------------------------------
(* MEMORY.md and HISTORY.md, whatever calls fail.                          *)

\* A key is read back as it was written: no key has a colon in it.
KeysReadBack == \A k \in Keys : Label[k] = k

\* No heading of HISTORY.md is a section of MEMORY.md, which it may be copied to.
LogLine == {x \in MemoryLine : x.kind = "heading" => x.name \notin Sections}

\* The lines the program writes, and what becomes of a line.
LEMMA WrittenLines ==
  /\ \A s \in Sections : Heading(s) \in MemoryLine
  /\ \A k \in Keys, v \in Values : Bullet(k, v) \in MemoryLine
  /\ Bullet(HistoryKey, None) \in LogLine
  /\ \A i \in DOMAIN Days : Heading(Days[i]) \in LogLine /\ Bullet(Time, Days[i]) \in LogLine
  /\ \A x \in MemoryLine, long \in BOOLEAN : Continued(x, long) \in MemoryLine
  /\ \A x \in MemoryLine : Torn(x) \subseteq MemoryLine
  /\ \A x \in LogLine : Torn(x) \subseteq LogLine
<1>1. \A s \in Sections : Heading(s) \in MemoryLine
  BY DEF Heading, Line, MemoryLine
<1>2. \A k \in Keys, v \in Values : Bullet(k, v) \in MemoryLine
  BY DEF Bullet, Line, MemoryLine
<1>3. Bullet(HistoryKey, None) \in LogLine
  BY DEF Bullet, Line, LogLine, MemoryLine, HistoryKey
<1>4. ASSUME NEW i \in DOMAIN Days
      PROVE  Heading(Days[i]) \in LogLine /\ Bullet(Time, Days[i]) \in LogLine
  <2>1. Days[i] \in STRING /\ Days[i] \notin Sections
    BY DaysAreDates, SectionsAreApart
  <2> QED
    BY <2>1 DEF Heading, Bullet, Line, LogLine, MemoryLine
<1>5. ASSUME NEW x \in MemoryLine, NEW long \in BOOLEAN
      PROVE  Continued(x, long) \in MemoryLine
  <2>1. x.full \in BOOLEAN /\ (x.full \/ long) \in BOOLEAN
    BY DEF MemoryLine
  <2>2. \A full \in BOOLEAN :
          /\ Line("heading", Garbled, None, full) \in MemoryLine
          /\ Line("bullet", x.name, Garbled, full) \in MemoryLine
          /\ Line("text", None, None, full) \in MemoryLine
    BY DEF MemoryLine, Line
  <2> QED
    BY <2>1, <2>2 DEF Continued
<1>6. ASSUME NEW x \in MemoryLine, NEW y \in Torn(x)
      PROVE  y \in MemoryLine /\ (x \in LogLine => y \in LogLine)
  <2>1. \/ y = Text \/ y = x \/ y = [x EXCEPT !.full = FALSE]
        \/ x.kind = "heading" /\ (y = Heading(Garbled) \/ y = Heading(x.name))
        \/ x.kind = "bullet" /\ y = Bullet(x.name, Garbled)
    BY DEF Torn
  <2>2. Text \in LogLine
    BY DEF Text, Line, LogLine, MemoryLine
  <2>3. LET z == [x EXCEPT !.full = FALSE]
        IN  z \in MemoryLine /\ z.kind = x.kind /\ z.name = x.name
    BY DEF MemoryLine
  <2>4. Heading(Garbled) \in LogLine
    BY SectionsAreApart DEF Heading, Line, LogLine, MemoryLine
  <2>5. Heading(x.name) \in MemoryLine /\ Heading(x.name).name = x.name
    BY DEF Heading, Line, MemoryLine
  <2>6. Bullet(x.name, Garbled) \in LogLine
    BY DEF Bullet, Line, LogLine, MemoryLine
  <2> QED
    BY <2>1, <2>2, <2>3, <2>4, <2>5, <2>6 DEF LogLine
<1> QED
  BY <1>1, <1>2, <1>3, <1>4, <1>5, <1>6 DEF LogLine

\* What waits to be renamed is a file memory_store made of MEMORY.md as it still is.
Waiting ==
  /\ pc = "stored" =>
       \E s \in Sections, k \in Keys, v \in Values, long \in BOOLEAN :
         pending = Stored(Read(memory), s, k, Fact(k, v), long)
  /\ pc = "rename" =>
       \E long \in BOOLEAN : pending = Stored(Read(memory), Notes, HistoryKey, Copied, long)

MemoryInv ==
  /\ memory \in Files(MemoryLine)
  /\ pending \in Files(MemoryLine)
  /\ history \in Files(LogLine)
  /\ "MEMORY.md" \in sound => Fit(memory)
  /\ Waiting

\* The files that are there without having been written.
LEMMA GivenFiles ==
  /\ NoFile \in Files(MemoryLine) /\ Empty \in Files(MemoryLine)
  /\ NoFile \in Files(LogLine) /\ Empty \in Files(LogLine)
  /\ Edited \cup {Template, Initial} \subseteq Files(MemoryLine)
  /\ \A f \in Files(MemoryLine) : Read(f) \in Files(MemoryLine)
<1>1. ASSUME NEW L
      PROVE  NoFile \in Files(L) /\ Empty \in Files(L)
  <2>1. <<>> \in Seq(L)
    OBVIOUS
  <2> QED
    BY <2>1 DEF NoFile, Empty, File, Files
<1>2. Initial \in Files(MemoryLine)
  <2>1. Heading(Notes) \in MemoryLine /\ Heading("Preferences") \in MemoryLine
    BY WrittenLines, SectionsAreApart
  <2> QED
    BY <2>1 DEF Initial, File, Files
<1> QED
  BY <1>1, <1>2, FilesAreLines DEF Files, Read

\* The lines of a fact: the bullet, and what the value brings with it.
LEMMA FactLines ==
  ASSUME NEW k \in Keys, NEW v \in Values
  PROVE  /\ Fact(k, v) \in Seq(MemoryLine) /\ Fact(k, v) # <<>>
         /\ Fact(k, v)[1] = Bullet(k, v)
         /\ \A t \in Sections \ Opened(v) :
              \A m \in DOMAIN Fact(k, v) : Fact(k, v)[m] \notin Trimmed(t)
         /\ More[v] = <<>> => Fact(k, v) = <<Bullet(k, v)>> /\ Opened(v) = {}
<1> DEFINE b == Bullet(k, v)
           more == More[v]
<1>1. b \in MemoryLine /\ more \in Seq(MemoryLine) /\ b.kind = "bullet"
  BY WrittenLines, ValuesAreLines DEF Bullet, Line
<1>2. Fact(k, v) = <<b>> \o more
  BY DEF Fact
<1> HIDE DEF b, more
<1>3. /\ Fact(k, v) \in Seq(MemoryLine) /\ Fact(k, v) # <<>> /\ Fact(k, v)[1] = b
      /\ DOMAIN Fact(k, v) = 1..(Len(more) + 1) /\ Len(more) \in Nat
      /\ \A m \in 1..Len(more) : Fact(k, v)[m + 1] = more[m]
  BY <1>1, <1>2
<1>4. ASSUME NEW t \in Sections \ Opened(v), NEW m \in DOMAIN Fact(k, v)
      PROVE  Fact(k, v)[m] \notin Trimmed(t)
  <2>1. CASE m = 1
    BY <1>1, <1>3, <2>1 DEF Trimmed, Heading, Padded, Line
  <2>2. CASE m # 1
    <3> DEFINE i == m - 1
    <3>1. i \in 1..Len(more) /\ m = i + 1
      BY <1>3, <2>2
    <3> HIDE DEF i
    <3>2. i \in DOMAIN more /\ Fact(k, v)[m] = more[i]
      BY <1>1, <1>3, <3>1
    <3> QED
      BY <3>2 DEF Opened, more
  <2> QED
    BY <2>1, <2>2
<1>5. more = <<>> => Fact(k, v) = <<b>> /\ Opened(v) = {}
  <2>1. more = <<>> => DOMAIN more = {}
    OBVIOUS
  <2>2. more = <<>> => <<b>> \o more = <<b>>
    BY <1>1
  <2> QED
    BY <1>2, <2>1, <2>2 DEF Opened, more
<1> QED
  BY <1>3, <1>4, <1>5 DEF b, more

\* The migrated lines begin no section of MEMORY.md.
LEMMA CopiedLines ==
  ASSUME history \in Files(LogLine)
  PROVE  /\ Copied \in Seq(MemoryLine) /\ Copied # <<>>
         /\ \A t \in Sections : \A m \in DOMAIN Copied : Copied[m] \notin Trimmed(t)
<1> DEFINE lines == history.lines
           n == IF Len(lines) < Migrated THEN Len(lines) ELSE Migrated
           part == SubSeq(lines, 1, n)
           first == Bullet(HistoryKey, None)
<1>1. lines \in Seq(LogLine)
  BY DEF Files
<1>2. n \in 0..Len(lines)
  BY <1>1, FilesAreLines
<1> HIDE DEF n
<1>3. part \in Seq(LogLine)
  BY <1>1, <1>2
<1>4. Copied = <<first>> \o part
  BY DEF Copied, n
<1>5. first \in LogLine
  BY WrittenLines
<1> HIDE DEF part, first
<1>6. Copied \in Seq(LogLine) /\ Copied # <<>>
  BY <1>3, <1>4, <1>5
<1> HIDE DEF lines
<1>7. Copied \in Seq(MemoryLine)
  BY <1>6 DEF LogLine
<1>8. ASSUME NEW t \in Sections, NEW m \in DOMAIN Copied
      PROVE  Copied[m] \notin Trimmed(t)
  <2>1. Copied[m] \in LogLine
    BY <1>6
  <2> QED
    BY <2>1 DEF LogLine, Trimmed, Heading, Padded, Line
<1> QED
  BY <1>6, <1>7, <1>8

\* An entry of the log, or the part of it that was written, leaves HISTORY.md a log.
LEMMA LogIsLog ==
  ASSUME HistoryInv, history \in Files(LogLine), Log
  PROVE  history' \in Files(LogLine)
<1> DEFINE old == IF history = NoFile THEN <<>> ELSE history.lines
<1>1. File(Entry, FALSE) \in Files(LogLine)
  <2>1. Heading(Today) \in LogLine /\ Bullet(Time, Today) \in LogLine
    BY WrittenLines DEF Today, HistoryInv
  <2>2. Entry \in Seq(LogLine)
    BY <2>1 DEF Entry
  <2> QED
    BY <2>2 DEF File, Files
<1>2. ASSUME NEW part \in Files(LogLine)
      PROVE  Logged(part.lines) \in Files(LogLine)
  <2>1. old \in Seq(LogLine) /\ part.lines \in Seq(LogLine)
    BY DEF Files
  <2>2. old \o part.lines \in Seq(LogLine)
    BY <2>1
  <2> QED
    BY <2>2 DEF Logged, File, Files
<1>3. Shorter(File(Entry, FALSE)) \subseteq Files(LogLine)
  BY <1>1, ShorterFiles, WrittenLines
<1>4. File(Entry, FALSE).lines = Entry
  BY DEF File
<1> QED
  BY <1>1, <1>2, <1>3, <1>4 DEF Log
-----------------------------------------------------------------------------
(* The invariant.                                                          *)

LEMMA InitMemory == Init => MemoryInv
<1> SUFFICES ASSUME Init
             PROVE  MemoryInv
  OBVIOUS
<1>1. memory \in Files(MemoryLine) /\ pending = NoFile /\ history = NoFile /\ pc = "down"
  BY GivenFiles DEF Init
<1>2. "MEMORY.md" \in sound => Fit(memory)
  BY DEF Init
<1> QED
  BY <1>1, <1>2, GivenFiles DEF MemoryInv, Waiting

\* What a step may do to MEMORY.md: leave it alone, make it where it is missing, replace
\* it by what waits, or write a part of that.
Making(content) == memory = NoFile /\ (memory' \in {content, Empty} \/ memory' \in Shorter(content))

LEMMA MemorySteps ==
  ASSUME [Next]_vars
  PROVE  \/ UNCHANGED memory
         \/ /\ pc' \notin {"stored", "rename"}
            /\ UNCHANGED <<pending, history>>
            /\ Making(Template) \/ Making(Initial)
            /\ "MEMORY.md" \in sound' => Fit(memory') /\ memory' \in {Template, Initial, Empty}
         \/ Rename /\ ("MEMORY.md" \in sound' => Fit(memory'))
         \/ RenameShort /\ "MEMORY.md" \notin sound'
<1>1. ComesWhole /\ "MEMORY.md" \in sound' => Fit(memory')
  <2>1. ComesWhole => sound' = IF Fit(memory') THEN sound ELSE sound \ {"MEMORY.md"}
    BY DEF ComesWhole
  <2> HIDE DEF ComesWhole
  <2> QED
    BY <2>1
<1>2. ComesShort("MEMORY.md") => "MEMORY.md" \notin sound'
  BY DEF ComesShort
<1>3. ASSUME NEW content, Made(content)
      PROVE  \/ UNCHANGED memory
             \/ /\ Making(content)
                /\ "MEMORY.md" \in sound' => Fit(memory') /\ memory' = content
  BY <1>1, <1>2, <1>3 DEF Made, Making
<1>4. CASE Boot
  <2>1. CASE Seed
    BY <1>3, <2>1 DEF Seed
  <2>2. CASE OpenMemory
    BY <1>3, <2>2 DEF OpenMemory
  <2>3. CASE TornSeed
    BY <1>1, <2>3 DEF TornSeed, Making
  <2>4. CASE ~Seed /\ ~OpenMemory /\ ~TornSeed
    BY <1>4, <2>4
       DEF Boot, PowerOn, OpenHistory, LogStarting, LogInitialized, Migrate, Unlink, Inject,
           LogDaemon, files
  <2> QED
    BY <2>1, <2>2, <2>3, <2>4
<1>5. CASE Turn
  BY <1>5 DEF Turn, BeginTurn, StoreFact, EndTurn, files
<1>6. CASE Rename
  BY <1>1, <1>6 DEF Rename
<1>7. CASE RenameShort
  BY <1>2, <1>7 DEF RenameShort
<1> QED
  BY <1>4, <1>5, <1>6, <1>7 DEF Next, RenameFails, Stop, Crash, Midnight, vars, files

\* What a step may do to HISTORY.md.
LEMMA HistoryKept ==
  ASSUME [Next]_vars
  PROVE  \/ UNCHANGED history
         \/ Log
         \/ history' \in {history, NoFile, Empty}
<1>1. CASE Boot
  BY <1>1 DEF Boot, PowerOn, Seed, TornSeed, OpenHistory, LogStarting, LogInitialized,
              OpenMemory, Migrate, Unlink, Inject, LogDaemon, files
<1>2. CASE Turn
  BY <1>2 DEF Turn, BeginTurn, StoreFact, EndTurn, files
<1> QED
  BY <1>1, <1>2 DEF Next, Rename, RenameShort, RenameFails, Replacing, Stop, Crash, Midnight,
                    vars, files

\* What a step may leave waiting.
LEMMA PendingSteps ==
  ASSUME [Next]_vars
  PROVE  \/ UNCHANGED pending /\ pc' \notin {"stored", "rename"}
         \/ pending' = NoFile /\ pc' \notin {"stored", "rename"}
         \/ UNCHANGED <<pending, pc, memory, history>>
         \/ Migrate /\ pc' = "rename"
         \/ \E s \in Sections, k \in Keys, v \in Values : StoreFact(s, k, v)
<1>1. CASE Boot
  BY <1>1 DEF Boot, PowerOn, Seed, TornSeed, OpenHistory, LogStarting, LogInitialized,
              OpenMemory, Migrate, Unlink, Inject, LogDaemon, files
<1>2. CASE Turn
  BY <1>2 DEF Turn, BeginTurn, EndTurn, files
<1>3. CASE Rename \/ RenameShort \/ RenameFails
  BY <1>3 DEF Rename, RenameShort, RenameFails, Replacing
<1>4. CASE Stop \/ Crash
  BY <1>4 DEF Stop, Crash
<1>5. CASE Midnight \/ UNCHANGED vars
  BY <1>5 DEF Midnight, vars, files
<1> QED
  BY <1>1, <1>2, <1>3, <1>4, <1>5 DEF Next

\* No step breaks it.
LEMMA NextMemory == HistoryInv /\ MemoryInv /\ [Next]_vars => MemoryInv'
<1> SUFFICES ASSUME HistoryInv, MemoryInv, [Next]_vars
             PROVE  MemoryInv'
  OBVIOUS
<1>1. /\ memory \in Files(MemoryLine) /\ pending \in Files(MemoryLine)
      /\ history \in Files(LogLine)
      /\ "MEMORY.md" \in sound => Fit(memory)
      /\ Waiting /\ Read(memory) \in Files(MemoryLine)
  BY GivenFiles DEF MemoryInv
<1>2. \A f \in Files(MemoryLine) : Shorter(f) \subseteq Files(MemoryLine)
  BY ShorterFiles, WrittenLines
<1>3. memory' \in Files(MemoryLine)
  <2>1. \A f \in {Template, Initial} : Making(f) => memory' \in Files(MemoryLine)
    BY <1>2, GivenFiles DEF Making
  <2>2. Rename \/ RenameShort => memory' \in Files(MemoryLine)
    BY <1>1, <1>2 DEF Rename, RenameShort
  <2> QED
    BY <1>1, <2>1, <2>2, MemorySteps
<1>4. history' \in Files(LogLine)
  BY <1>1, HistoryKept, LogIsLog, GivenFiles
<1>5. "MEMORY.md" \in sound' => Fit(memory')
  <2>1. sound' \subseteq sound
    BY HistorySteps
  <2>2. UNCHANGED memory => Fit(memory') = Fit(memory)
    BY DEF Fit
  <2> QED
    BY <1>1, <2>1, <2>2, MemorySteps
<1>6. pending' \in Files(MemoryLine) /\ Waiting'
  <2>1. CASE UNCHANGED pending /\ pc' \notin {"stored", "rename"}
    BY <1>1, <2>1 DEF Waiting
  <2>2. CASE pending' = NoFile /\ pc' \notin {"stored", "rename"}
    BY <2>2, GivenFiles DEF Waiting
  <2>3. CASE UNCHANGED <<pending, pc, memory, history>>
    BY <1>1, <2>3 DEF Waiting, Copied, Read
  <2>4. CASE Migrate /\ pc' = "rename"
    <3>1. PICK long \in BOOLEAN :
            pending' = Stored(Read(memory), Notes, HistoryKey, Copied, long)
      BY <2>4 DEF Migrate
    <3>2. UNCHANGED <<memory, history>>
      BY <2>4 DEF Migrate
    <3>3. pending' \in Files(MemoryLine)
      <4>1. Copied \in Seq(MemoryLine) /\ Copied # <<>>
        BY <1>1, CopiedLines
      <4>2. /\ Heading(Notes) \in MemoryLine
            /\ \A x \in MemoryLine : Continued(x, long) \in MemoryLine
        BY WrittenLines, SectionsAreApart
      <4> QED
        BY <1>1, <3>1, <4>1, <4>2, StoredIsFile
    <3>4. Waiting'
      BY <2>4, <3>1, <3>2 DEF Waiting, Copied, Read
    <3> QED
      BY <3>3, <3>4
  <2>5. CASE \E s \in Sections, k \in Keys, v \in Values : StoreFact(s, k, v)
    <3>1. PICK s \in Sections, k \in Keys, v \in Values : StoreFact(s, k, v)
      BY <2>5
    <3>2. PICK long \in BOOLEAN : pending' = Stored(Read(memory), s, k, Fact(k, v), long)
      BY <3>1 DEF StoreFact
    <3>3. UNCHANGED memory /\ pc' = "stored"
      BY <3>1 DEF StoreFact
    <3>4. pending' \in Files(MemoryLine)
      <4>1. Fact(k, v) \in Seq(MemoryLine) /\ Fact(k, v) # <<>>
        BY FactLines
      <4>2. /\ Heading(s) \in MemoryLine
            /\ \A x \in MemoryLine : Continued(x, long) \in MemoryLine
        BY WrittenLines
      <4> QED
        BY <1>1, <3>2, <4>1, <4>2, StoredIsFile
    <3>5. Waiting'
      BY <3>2, <3>3 DEF Waiting, Read
    <3> QED
      BY <3>4, <3>5
  <2> QED
    BY <2>1, <2>2, <2>3, <2>4, <2>5, PendingSteps
<1> QED
  BY <1>3, <1>4, <1>5, <1>6 DEF MemoryInv

LEMMA Invariants == Spec => [](HistoryInv /\ MemoryInv)
<1>1. HistoryInv /\ MemoryInv /\ [Next]_vars => (HistoryInv /\ MemoryInv)'
  BY NextHistory, NextMemory
<1> QED
  BY <1>1, InitHistory, InitMemory, PTL DEF Spec

-----------------------------------------------------------------------------
(* The theorems on MEMORY.md.                                              *)

\* Whatever part of the temporary file was written, no fact is answered that was not to
\* be stored, or was to be no longer; only a value may come back cut.
THEOREM ShortWritesOnlyLose == Spec => ShortWriteOnlyLoses
<1>1. ASSUME MemoryInv, RenameShort, NEW s \in Sections, NEW l \in Keys
      PROVE  Recall(Read(memory'), s, l) \in {Recall(pending, s, l), None, Shown(Garbled)}
  <2>1. pending \in Files(MemoryLine) /\ memory' \in Shorter(pending)
    BY <1>1 DEF MemoryInv, RenameShort
  <2>2. Recall(Empty, s, l) = None
    <3>1. DOMAIN Empty.lines = {}
      BY DEF Empty, File
    <3> QED
      BY <3>1 DEF Recall, Hits
  <2>3. Recall(memory', s, l) \in {Recall(pending, s, l), None, Shown(Garbled)}
    <3>1. RecallBy(memory', Trimmed(s), l) \in
            {RecallBy(pending, Trimmed(s), l), None, Shown(Garbled)}
      BY <2>1, ShorterRecall, WrittenLines, SectionHeadings
    <3> QED
      BY <3>1, RecallIsTrimmed
  <2>4. Read(memory') \in {Empty, memory'}
    BY DEF Read
  <2> QED
    BY <2>2, <2>3, <2>4
<1>2. MemoryInv =>
        (RenameShort =>
           \A s \in Sections, l \in Keys :
             Recall(Read(memory'), s, l) \in {Recall(pending, s, l), None, Shown(Garbled)})
  BY <1>1
<1> QED
  BY <1>2, Invariants, PTL DEF Spec, ShortWriteOnlyLoses

\* What a stored fact does to a file whose lines fit, whatever headings and bullets the
\* file holds.
LEMMA FactStored ==
  ASSUME KeysReadBack, NEW f \in Files(MemoryLine), Fits(f),
         NEW s \in Sections, NEW k \in Keys, NEW v \in Values, NEW long \in BOOLEAN,
         NEW h, h = Stored(f, s, k, Fact(k, v), long)
  PROVE  /\ \A t \in Sections : \A l : t # s /\ t \notin Opened(v) =>
              Recall(h, t, l) = Recall(f, t, l)
         /\ /\ ~f.open \/ ~Under(f.lines, Len(f.lines), Exact(s))
            /\ \A i \in DOMAIN f.lines : f.lines[i] # Padded(s)
            => /\ Recall(h, s, k) = Shown(v)
               /\ More[v] = <<>> => \A l : l # k => Recall(h, s, l) = Recall(f, s, l)
<1> DEFINE new == Fact(k, v)
           b == Bullet(k, v)
<1>1. /\ new \in Seq(MemoryLine) /\ new # <<>> /\ new[1] = b
      /\ \A t \in Sections \ Opened(v) : \A m \in DOMAIN new : new[m] \notin Trimmed(t)
      /\ More[v] = <<>> => new = <<b>>
  BY FactLines
<1>2. /\ Heading(s) \in MemoryLine /\ b \in MemoryLine
      /\ \A x \in MemoryLine : Continued(x, long) \in MemoryLine
  BY WrittenLines
<1>3. b.kind = "bullet" /\ b.val = v /\ Label[b.name] = k
  BY DEF Bullet, Line, KeysReadBack
<1> HIDE DEF new, b
<1>4. h = Stored(f, s, k, new, long)
  BY DEF new
<1>5. h \in Files(MemoryLine)
  BY <1>1, <1>2, <1>4, StoredIsFile
<1>6. ASSUME NEW t \in Sections, t # s, t \notin Opened(v), NEW l
      PROVE  Recall(h, t, l) = Recall(f, t, l)
  <2>1. Ungarbled(Trimmed(t))
    <3>1. t # Garbled
      BY SectionsAreApart
    <3>2. Headings(Trimmed(t))
      BY SectionHeadings
    <3>3. \A x \in Trimmed(t) : x.name = t
      BY DEF Trimmed, Heading, Padded, Line
    <3> QED
      BY <3>1, <3>2, <3>3 DEF Ungarbled
  <2>2. Exact(s) \cap Trimmed(t) = {}
    BY <1>6, SectionHeadings
  <2>3. \A m \in DOMAIN new : new[m] \notin Trimmed(t)
    BY <1>1, <1>6
  <2>4. SameIn(f, Stored(f, s, k, new, long), Trimmed(t))
    BY <1>1, <1>2, <2>1, <2>2, <2>3, StoredElsewhere
  <2> QED
    BY <1>4, <2>4, RecallIsTrimmed DEF SameIn
<1>7. ASSUME ~f.open \/ ~Under(f.lines, Len(f.lines), Exact(s)),
             \A i \in DOMAIN f.lines : f.lines[i] # Padded(s)
      PROVE  /\ Recall(h, s, k) = Shown(v)
             /\ More[v] = <<>> => \A l : l # k => Recall(h, s, l) = Recall(f, s, l)
  <2>1. \A l : /\ Hits(f.lines, Trimmed(s), l) = Hits(f.lines, Exact(s), l)
               /\ Recall(f, s, l) = RecallBy(f, Exact(s), l)
    BY <1>7, ReadAlike
  <2>2. Recall(h, s, k) = Shown(v)
    <3>1. Hits(f.lines, Trimmed(s), k) = Hits(f.lines, Exact(s), k)
      BY <2>1
    <3>2. FirstIs(Stored(f, s, k, new, long).lines, Trimmed(s), k, new[1])
      BY <1>1, <1>2, <1>3, <1>7, <3>1, StoredFirst
    <3>3. FirstIs(h.lines, Trimmed(s), k, b)
      BY <1>1, <1>4, <3>2
    <3>4. RecallBy(h, Trimmed(s), k) = Shown(b.val)
      BY <1>5, <3>3, RecallFirst
    <3> QED
      BY <1>3, <3>4, RecallIsTrimmed
  <2>3. ASSUME More[v] = <<>>, NEW l, l # k
        PROVE  Recall(h, s, l) = Recall(f, s, l)
    <3>1. new = <<b>>
      BY <1>1, <2>3
    <3>2. RecallBy(Stored(f, s, k, <<b>>, long), Exact(s), l) = RecallBy(f, Exact(s), l)
      BY <1>2, <1>3, <1>7, <2>3, StoredThere
    <3>3. \A i \in DOMAIN h.lines : h.lines[i] # Padded(s)
      <4> DEFINE L == MemoryLine \ {Padded(s)}
      <4>1. f \in Files(L)
        <5>1. f.lines \in Seq(MemoryLine) /\ DOMAIN f.lines = 1..Len(f.lines)
          BY DEF Files
        <5>2. \A i \in 1..Len(f.lines) : f.lines[i] \in L
          BY <1>7, <5>1
        <5>3. f.lines \in Seq(L)
          BY <5>1, <5>2
        <5> HIDE DEF L
        <5> QED
          BY <5>3 DEF Files
      <4>2. b # Padded(s) /\ Heading(s) # Padded(s)
        BY <1>3 DEF Padded, Heading, Line, None
      <4>3. \A x \in MemoryLine : Continued(x, long) # Padded(s)
        BY DEF Continued, Padded, Line, None
      <4>4. Heading(s) \in L /\ <<b>> \in Seq(L) /\ <<b>> # <<>>
        BY <1>2, <4>2
      <4>5. \A x \in L : Continued(x, long) \in L
        BY <1>2, <4>3
      <4> HIDE DEF L
      <4>6. Stored(f, s, k, <<b>>, long) \in Files(L)
        BY <4>1, <4>4, <4>5, StoredIsFile
      <4>7. h.lines \in Seq(L)
        BY <1>4, <3>1, <4>6 DEF Files
      <4>8. \A i \in DOMAIN h.lines : h.lines[i] \in L
        BY <4>7
      <4> QED
        BY <4>8 DEF L
    <3>4. Recall(h, s, l) = RecallBy(h, Exact(s), l)
      BY <1>5, <3>3, ReadAlike
    <3> QED
      BY <1>4, <2>1, <3>1, <3>2, <3>4
  <2> QED
    BY <2>2, <2>3
<1> QED
  BY <1>6, <1>7

\* A store is exact: for every file with a newline at its end whose lines fit, every
\* section and every key that is read back as it was written.
THEOREM StoringIsExact == KeysReadBack => (Spec => StoreIsExact)
<1> SUFFICES ASSUME KeysReadBack
             PROVE  Spec => StoreIsExact
  OBVIOUS
<1>1. ASSUME MemoryInv,
             NEW s \in Sections, NEW k \in Keys, NEW v \in Values,
             StoreFact(s, k, v), ~Read(memory).open,
             \A i \in DOMAIN Read(memory).lines : ~Read(memory).lines[i].full,
             NEW t \in Sections, NEW l \in Keys
      PROVE  /\ t # s /\ t \notin Opened(v) =>
                  Recall(pending', t, l) = Recall(Read(memory), t, l)
             /\ /\ l = k \/ More[v] = <<>>
                /\ \A i \in DOMAIN Read(memory).lines : Read(memory).lines[i] # Padded(s)
                => Recall(pending', s, l)
                     = IF l = k THEN Shown(v) ELSE Recall(Read(memory), s, l)
  <2> DEFINE f == Read(memory)
  <2>1. PICK long \in BOOLEAN : pending' = Stored(f, s, k, Fact(k, v), long)
    BY <1>1 DEF StoreFact
  <2>2. f \in Files(MemoryLine) /\ Fits(f) /\ ~f.open
    BY <1>1, GivenFiles DEF MemoryInv, Fits
  <2> HIDE DEF f
  <2>3. /\ \A u \in Sections : \A m : u # s /\ u \notin Opened(v) =>
             Recall(pending', u, m) = Recall(f, u, m)
        /\ /\ ~f.open \/ ~Under(f.lines, Len(f.lines), Exact(s))
           /\ \A i \in DOMAIN f.lines : f.lines[i] # Padded(s)
           => /\ Recall(pending', s, k) = Shown(v)
              /\ More[v] = <<>> => \A m : m # k => Recall(pending', s, m) = Recall(f, s, m)
    BY <2>1, <2>2, FactStored
  <2> QED
    BY <2>2, <2>3 DEF f
<1>2. MemoryInv =>
        \A s \in Sections, k \in Keys, v \in Values :
          LET lines == Read(memory).lines IN
          (/\ StoreFact(s, k, v)
           /\ ~Read(memory).open
           /\ \A i \in DOMAIN lines : ~lines[i].full)
          => \A t \in Sections, l \in Keys :
               /\ t # s /\ t \notin Opened(v) =>
                    Recall(pending', t, l) = Recall(Read(memory), t, l)
               /\ (l = k \/ More[v] = <<>>) /\ (\A i \in DOMAIN lines : lines[i] # Padded(s)) =>
                    Recall(pending', s, l)
                      = IF l = k THEN Shown(v) ELSE Recall(Read(memory), s, l)
  BY <1>1
<1> QED
  BY <1>2, Invariants, PTL DEF Spec, StoreIsExact

-----------------------------------------------------------------------------
(* The map.  While MEMORY.md is fit, what memory_store makes of it is what *)
(* the lemmas say; the hypotheses on the template are what the checked     *)
(* ones satisfy.                                                           *)

\* The template holds no facts.
TemplateIsBare ==
  \A s \in Sections \ {Notes}, k \in Keys : Recall(Template, s, k) = None

\* The sections the map has.
Mapped == Sections \ {Notes}

\* A fit file is read as it is, and what is stored finds it so.
LEMMA FitRead ==
  ASSUME NEW f \in Files(MemoryLine), Fit(f)
  PROVE  /\ \A s, k : Recall(Read(f), s, k) = Recall(f, s, k)
         /\ Fits(Read(f)) /\ Read(f) \in Files(MemoryLine)
         /\ \A s \in Sections : \A i \in DOMAIN Read(f).lines : Read(f).lines[i] # Padded(s)
         /\ \A s \in Mapped : LET g == Read(f)
                              IN  ~g.open \/ ~Under(g.lines, Len(g.lines), Exact(s))
<1> DEFINE g == Read(f)
<1>1. /\ f.lines \in Seq(MemoryLine) /\ Len(f.lines) \in Nat
      /\ Len(f.lines) <= MaxLines /\ MaxLines \in Nat
      /\ \A i \in DOMAIN f.lines : ~f.lines[i].full
      /\ \A i \in DOMAIN f.lines, s \in Sections : f.lines[i] # Padded(s)
      /\ f.open /\ f # NoFile => f.lines # <<>> /\ Under(f.lines, Len(f.lines), Exact(Notes))
  BY FilesAreLines DEF Fit, Files
<1>2. g = IF f = NoFile THEN Empty ELSE f
  BY <1>1 DEF Read
<1>3. NoFile.lines = <<>> /\ Empty.lines = <<>> /\ Empty.open = FALSE
  BY DEF NoFile, Empty, File
<1>4. g.lines = f.lines /\ (g.open => f.open /\ f # NoFile)
  BY <1>2, <1>3
<1>5. ASSUME NEW s \in Mapped, g.open, Under(g.lines, Len(g.lines), Exact(s))
      PROVE  FALSE
  <2>1. Under(f.lines, Len(f.lines), Exact(s)) /\ Under(f.lines, Len(f.lines), Exact(Notes))
    BY <1>1, <1>4, <1>5
  <2>2. Exact(s) \cap Exact(Notes) # {}
    BY <1>1, <2>1, SectionHeadings, UnderOne
  <2>3. Heading(s) = Heading(Notes)
    BY <2>2 DEF Exact
  <2> QED
    BY <2>3 DEF Heading, Line, Mapped
<1>6. g \in Files(MemoryLine)
  BY GivenFiles
<1> HIDE DEF g
<1>7. \A s, k : Recall(g, s, k) = Recall(f, s, k)
  BY <1>4 DEF Recall
<1>8. Fits(g) /\ \A s \in Sections : \A i \in DOMAIN g.lines : g.lines[i] # Padded(s)
  BY <1>1, <1>4 DEF Fits
<1> QED
  BY <1>5, <1>6, <1>7, <1>8 DEF g

\* No fact is found where there is no bullet.
LEMMA BareRecall ==
  ASSUME NEW s, NEW k
  PROVE  Recall(Empty, s, k) = None /\ Recall(Initial, s, k) = None
<1>1. Hits(Empty.lines, Trimmed(s), k) = {}
  <2>1. DOMAIN Empty.lines = {}
    BY DEF Empty, File
  <2> QED
    BY <2>1 DEF Hits
<1>2. Hits(Initial.lines, Trimmed(s), k) = {}
  <2>1. \A i \in DOMAIN Initial.lines : Initial.lines[i].kind = "heading"
    BY DEF Initial, File, Heading, Line
  <2> QED
    BY <2>1 DEF Hits, Holds
<1> QED
  BY <1>1, <1>2 DEF Recall

\* The answers of the map, before a step and after it.
Answers(f) == [sk \in Mapped \X Keys |-> Recall(Read(f), sk[1], sk[2])]

LEMMA FactsAreAnswers ==
  Facts(Sections \ {Notes}) = Answers(memory) /\ Facts(Sections \ {Notes})' = Answers(memory')
BY DEF Facts, Answers, Mapped, Recall, Read

\* The steps of the map that a step of the program may be.
MapStep(old, new) ==
  \/ new = old
  \/ \E s \in Mapped, k \in Keys, v \in Values :
       /\ new[<<s, k>>] = Shown(v)
       /\ \A sk \in Mapped \X Keys :
            sk # <<s, k>> /\ (More[v] = <<>> \/ sk[1] \notin {s} \cup Opened(v))
            => new[sk] = old[sk]
  \/ \E v \in Values :
       /\ More[v] # <<>>
       /\ \A sk \in Mapped \X Keys : sk[1] \notin Opened(v) => new[sk] = old[sk]

\* While MEMORY.md stays fit, every step stores one fact or leaves the map alone.
LEMMA StepOfStore ==
  ASSUME KeysReadBack, TemplateIsBare, HistoryInv, MemoryInv, [Next]_vars,
         "MEMORY.md" \in sound'
  PROVE  MapStep(Answers(memory), Answers(memory'))
<1>1. /\ memory \in Files(MemoryLine) /\ memory' \in Files(MemoryLine)
      /\ history \in Files(LogLine) /\ Waiting
      /\ Fit(memory) /\ Fit(memory')
  <2>1. "MEMORY.md" \in sound
    BY HistorySteps
  <2>2. MemoryInv'
    BY NextMemory
  <2>3. memory' \in Files(MemoryLine) /\ Fit(memory')
    BY <2>2 DEF MemoryInv, Fit
  <2> QED
    BY <2>1, <2>3 DEF MemoryInv
<1> DEFINE f == Read(memory)
<1>2. /\ \A s, k : Recall(Read(memory'), s, k) = Recall(memory', s, k)
      /\ f \in Files(MemoryLine) /\ Fits(f)
      /\ \A s \in Sections : \A i \in DOMAIN f.lines : f.lines[i] # Padded(s)
      /\ \A s \in Mapped : ~f.open \/ ~Under(f.lines, Len(f.lines), Exact(s))
  BY <1>1, FitRead
<1>3. ASSUME \A s \in Mapped, k \in Keys : Recall(Read(memory'), s, k) = Recall(f, s, k)
      PROVE  Answers(memory') = Answers(memory)
  <2>1. \A sk \in Mapped \X Keys : Recall(Read(memory'), sk[1], sk[2]) = Recall(f, sk[1], sk[2])
    BY <1>3
  <2> QED
    BY <2>1 DEF Answers
<1>4. ASSUME NEW s \in Mapped, NEW k \in Keys
      PROVE  /\ Answers(memory)[<<s, k>>] = Recall(f, s, k)
             /\ Answers(memory')[<<s, k>>] = Recall(Read(memory'), s, k)
  BY DEF Answers
<1>5. CASE UNCHANGED memory
  BY <1>5 DEF MapStep, Answers
<1> HIDE DEF f
<1>6. CASE /\ Making(Template) \/ Making(Initial)
           /\ memory' \in {Template, Initial, Empty}
  <2>1. f = Empty
    BY <1>6 DEF Making, Read, f
  <2>2. ASSUME NEW s \in Mapped, NEW k \in Keys
        PROVE  Recall(Read(memory'), s, k) = Recall(f, s, k)
    <3>1. Recall(f, s, k) = None
      BY <2>1, BareRecall
    <3>2. Recall(memory', s, k) = None
      BY <1>6, BareRecall DEF TemplateIsBare, Mapped
    <3> QED
      BY <1>2, <3>1, <3>2
  <2> QED
    BY <1>3, <2>2 DEF MapStep
<1>7. CASE Rename /\ pc = "rename"
  <2>1. PICK long \in BOOLEAN : memory' = Stored(f, Notes, HistoryKey, Copied, long)
    BY <1>1, <1>7 DEF Rename, Waiting, f
  <2>2. /\ Copied \in Seq(MemoryLine) /\ Copied # <<>>
        /\ \A t \in Sections : \A m \in DOMAIN Copied : Copied[m] \notin Trimmed(t)
    BY <1>1, CopiedLines
  <2>3. Heading(Notes) \in MemoryLine /\ \A x \in MemoryLine : Continued(x, long) \in MemoryLine
    BY WrittenLines, SectionsAreApart
  <2>4. ASSUME NEW t \in Mapped, NEW l \in Keys
        PROVE  Recall(Read(memory'), t, l) = Recall(f, t, l)
    <3>1. Ungarbled(Trimmed(t)) /\ Exact(Notes) \cap Trimmed(t) = {}
      <4>1. t # Garbled /\ t # Notes
        BY SectionsAreApart DEF Mapped
      <4>2. Headings(Trimmed(t)) /\ Exact(Notes) \cap Trimmed(t) = {}
        BY <4>1, SectionHeadings
      <4>3. \A x \in Trimmed(t) : x.name = t
        BY DEF Trimmed, Heading, Padded, Line
      <4> QED
        BY <4>1, <4>2, <4>3 DEF Ungarbled
    <3>2. \A m \in DOMAIN Copied : Copied[m] \notin Trimmed(t)
      BY <2>2 DEF Mapped
    <3>3. SameIn(f, Stored(f, Notes, HistoryKey, Copied, long), Trimmed(t))
      BY <1>2, <2>2, <2>3, <3>1, <3>2, StoredElsewhere
    <3> QED
      BY <1>2, <2>1, <3>3, RecallIsTrimmed DEF SameIn
  <2> QED
    BY <1>3, <2>4 DEF MapStep
<1>8. CASE Rename /\ pc = "stored"
  <2>1. PICK s \in Sections, k \in Keys, v \in Values, long \in BOOLEAN :
          memory' = Stored(f, s, k, Fact(k, v), long)
    BY <1>1, <1>8 DEF Rename, Waiting, f
  <2>2. /\ \A t \in Sections : \A l : t # s /\ t \notin Opened(v) =>
             Recall(memory', t, l) = Recall(f, t, l)
        /\ s \in Mapped =>
             /\ Recall(memory', s, k) = Shown(v)
             /\ More[v] = <<>> => \A l : l # k => Recall(memory', s, l) = Recall(f, s, l)
    BY <1>2, <2>1, FactStored
  <2>3. More[v] = <<>> => Opened(v) = {}
    BY FactLines
  <2>4. ASSUME NEW t \in Mapped, NEW l \in Keys,
               t # s \/ (l # k /\ More[v] = <<>>), t \notin Opened(v)
        PROVE  Answers(memory')[<<t, l>>] = Answers(memory)[<<t, l>>]
    <3>1. Recall(Read(memory'), t, l) = Recall(f, t, l)
      <4>1. CASE t # s
        BY <1>2, <2>2, <2>4, <4>1 DEF Mapped
      <4>2. CASE t = s
        BY <1>2, <2>2, <2>4, <4>2
      <4> QED
        BY <4>1, <4>2
    <3> QED
      BY <1>4, <3>1
  <2>5. CASE s # Notes
    <3>1. s \in Mapped
      BY <2>5 DEF Mapped
    <3>2. Answers(memory')[<<s, k>>] = Shown(v)
      BY <1>2, <1>4, <2>2, <3>1
    <3>3. ASSUME NEW sk \in Mapped \X Keys,
                 sk # <<s, k>>, More[v] = <<>> \/ sk[1] \notin {s} \cup Opened(v)
          PROVE  Answers(memory')[sk] = Answers(memory)[sk]
      <4>1. PICK t \in Mapped, l \in Keys : sk = <<t, l>>
        OBVIOUS
      <4>2. sk[1] = t /\ (t # s \/ l # k)
        BY <3>3, <4>1
      <4>3. (t # s \/ (l # k /\ More[v] = <<>>)) /\ t \notin Opened(v)
        BY <2>3, <3>3, <4>2
      <4> QED
        BY <2>4, <4>1, <4>3
    <3> QED
      BY <3>1, <3>2, <3>3 DEF MapStep
  <2>6. CASE s = Notes
    <3>1. ASSUME NEW sk \in Mapped \X Keys, sk[1] \notin Opened(v)
          PROVE  Answers(memory')[sk] = Answers(memory)[sk]
      <4>1. PICK t \in Mapped, l \in Keys : sk = <<t, l>>
        OBVIOUS
      <4>2. t # s /\ t \notin Opened(v)
        BY <2>6, <3>1, <4>1 DEF Mapped
      <4> QED
        BY <2>4, <4>1, <4>2
    <3>2. CASE More[v] # <<>>
      BY <3>1, <3>2 DEF MapStep
    <3>3. CASE More[v] = <<>>
      <4>1. \A sk \in Mapped \X Keys : Answers(memory')[sk] = Answers(memory)[sk]
        BY <2>3, <3>1, <3>3
      <4>2. Answers(memory') = Answers(memory)
        <5>1. \A g : Answers(g) = [sk \in Mapped \X Keys |-> Answers(g)[sk]]
          BY DEF Answers
        <5> QED
          BY <4>1, <5>1
      <4> QED
        BY <4>2 DEF MapStep
    <3> QED
      BY <3>2, <3>3
  <2> QED
    BY <2>5, <2>6
<1>9. Rename => pc \in {"rename", "stored"}
  BY DEF Rename, Replacing
<1> QED
  BY <1>5, <1>6, <1>7, <1>8, <1>9, MemorySteps

\* The sections other than "Important Notes" are a map that changes by storing one fact at
\* a time, through boots, crashes, migrations, failing calls and the log, as long as every
\* write of MEMORY.md came out whole and left it fit: for keys that are read back as
\* written and a template that holds no facts.
THEOREM MemoryIsMap == KeysReadBack /\ TemplateIsBare => (Spec => ImplementsFactStore)
<1> SUFFICES ASSUME KeysReadBack, TemplateIsBare
             PROVE  Spec => ImplementsFactStore
  OBVIOUS
<1> DEFINE facts == Facts(Sections \ {Notes})
           fit == "MEMORY.md" \in sound
<1>1. Store!Init
  BY DEF Store!Init, Store!Pairs, Facts
<1>2. ASSUME HistoryInv, MemoryInv, [Next]_vars
      PROVE  Store!Next \/ UNCHANGED <<facts, fit>>
  <2>1. DOMAIN facts' = Store!Pairs
    BY FactsAreAnswers DEF Answers, Store!Pairs, Mapped
  <2>2. CASE ~fit'
    BY <2>1, <2>2 DEF Store!Next, Store!Changes
  <2>3. CASE fit'
    <3>1. fit
      BY <1>2, <2>3, HistorySteps
    <3>2. MapStep(facts, facts')
      BY <1>2, <2>3, StepOfStore, FactsAreAnswers
    <3> HIDE DEF facts
    <3>3. CASE facts' = facts
      BY <2>3, <3>1, <3>3
    <3>4. CASE \E s \in Mapped, k \in Keys, v \in Values :
                 /\ facts'[<<s, k>>] = Shown(v)
                 /\ \A sk \in Mapped \X Keys :
                      sk # <<s, k>> /\ (More[v] = <<>> \/ sk[1] \notin {s} \cup Opened(v))
                      => facts'[sk] = facts[sk]
      <4>1. PICK s \in Mapped, k \in Keys, v \in Values :
                 /\ facts'[<<s, k>>] = Shown(v)
                 /\ \A sk \in Mapped \X Keys :
                      sk # <<s, k>> /\ (More[v] = <<>> \/ sk[1] \notin {s} \cup Opened(v))
                      => facts'[sk] = facts[sk]
        BY <3>4
      <4>2. CASE More[v] = <<>>
        <5>1. Store!Store(s, k, Shown(v))
          BY <2>1, <4>1, <4>2 DEF Store!Store, Store!Changes, Store!Pairs, Mapped, facts
        <5> QED
          BY <2>3, <3>1, <4>2, <5>1 DEF Store!Next, Mapped
      <4>3. CASE More[v] # <<>>
        <5> DEFINE list == [first |-> Shown(v), opens |-> Opened(v)]
        <5>1. list.first = Shown(v) /\ list.opens = Opened(v)
          OBVIOUS
        <5>2. \A sk \in (Mapped \X Keys) \ (({s} \cup Opened(v)) \X Keys) :
                sk # <<s, k>> /\ sk[1] \notin {s} \cup Opened(v)
          <6> TAKE sk \in (Mapped \X Keys) \ (({s} \cup Opened(v)) \X Keys)
          <6>1. PICK t \in Mapped, l \in Keys : sk = <<t, l>>
            OBVIOUS
          <6> QED
            BY <6>1
        <5>3. \A sk \in (Mapped \X Keys) \ (({s} \cup Opened(v)) \X Keys) :
                facts'[sk] = facts[sk]
          BY <4>1, <4>3, <5>2
        <5> HIDE DEF list
        <5>4. Store!StoreList(s, k, list)
          BY <2>1, <4>1, <5>1, <5>3 DEF Store!StoreList, Store!Changes, Store!Pairs, Mapped, facts
        <5> QED
          BY <2>3, <3>1, <4>3, <5>4 DEF Store!Next, Mapped, list
      <4> QED
        BY <4>2, <4>3
    <3>5. CASE \E v \in Values :
                 /\ More[v] # <<>>
                 /\ \A sk \in Mapped \X Keys : sk[1] \notin Opened(v) => facts'[sk] = facts[sk]
      <4>1. PICK v \in Values :
                 /\ More[v] # <<>>
                 /\ \A sk \in Mapped \X Keys : sk[1] \notin Opened(v) => facts'[sk] = facts[sk]
        BY <3>5
      <4> DEFINE list == [first |-> Shown(v), opens |-> Opened(v)]
      <4>2. Store!StoreElsewhere(list)
        BY <2>1, <4>1 DEF Store!StoreElsewhere, Store!Changes, Store!Pairs, Mapped, facts
      <4> QED
        BY <2>3, <3>1, <4>1, <4>2 DEF Store!Next
    <3> QED
      BY <3>2, <3>3, <3>4, <3>5 DEF MapStep
  <2> QED
    BY <2>2, <2>3
<1>3. HistoryInv /\ MemoryInv /\ [Next]_vars => [Store!Next]_<<facts, fit>>
  BY <1>2
<1> QED
  BY <1>1, <1>3, Invariants, PTL DEF Spec, ImplementsFactStore, Store!Spec
=============================================================================
