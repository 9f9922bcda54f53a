--------------------------------- MODULE Files ---------------------------------
(***************************************************************************)
(* One call of a file tool (tools/file_ops/file_tool.c), while other       *)
(* processes create, rewrite and remove what it looks at: file_read with   *)
(* its stat, open and reads, file_write with its open, writes and close,   *)
(* file_delete, and the walks of file_list and file_search.                *)
(*                                                                         *)
(* The names are the nodes of a tree.  A file holds a sequence of bytes;   *)
(* whoever has it open goes on seeing it after it is removed.  readdir     *)
(* and the stat of the entry are one step: a change between them is one    *)
(* before them, since readdir may return what is no longer there.          *)
(*                                                                         *)
(* Operators named Wrong... are faulty variants that the specification     *)
(* never uses; see module Agent.                                           *)
(***************************************************************************)
EXTENDS Integers, Sequences, SequencesExt, Ordering

CONSTANTS
  Nodes,      (* the names there may be                                     *)
  Cwd,        (* "."                                                        *)
  Up,         (* the directory each other node is in                        *)
  Hidden,     (* those whose name begins with a dot                         *)
  Matching,   (* those whose name holds the pattern of file_search          *)
  Pseudo,     (* files whose size is not known, as under /proc              *)
  Permitted,  (* paths that allowlist_check permits                         *)
  Data,       (* the content to write                                       *)
  Contents,   (* what others write                                          *)
  Disks,      (* what there is at first                                     *)
  Chunk,      (* what one read or write moves                               *)
  MaxFile,    (* MAX_FILE_SIZE                                              *)
  MaxDepth,   (* 5                                                          *)
  MaxMoves    (* bound: what others do during a call                        *)

VARIABLES
  args,       (* the tool that is called and its path                       *)
  at,         (* where the call stands                                      *)
  size,       (* st.st_size                                                 *)
  got,        (* what has been read or written                              *)
  stack,      (* the directories that are open, one in the other            *)
  found,      (* entries, matches                                           *)
  answer,     (* what is answered                                           *)
  disk,       (* what each name is                                          *)
  file,       (* what the open file holds                                   *)
  linked,     (* the open file is still the one at the path                 *)
  moves,      (* what others have done                                      *)
  seen        (* history: what the path has held during the call, the names *)
              (* that have not changed and those there have been, whether a *)
              (* write has failed                                           *)

call  == <<args, at, size, got, stack, found, answer>>
world == <<disk, file, linked, moves, seen>>
files == <<call, world>>

-----------------------------------------------------------------------------

\* What a name stands for.
Entry(kind, data) == [kind |-> kind, data |-> data]

None    == Entry("none", <<>>)
Dir     == Entry("directory", <<>>)
File(c) == Entry("file", c)

IsFile(e) == e.kind = "file"

Tools  == {"read", "write", "delete", "list", "search"}
NoPath == "no path"

\* The path, "." where list and search are given none.
Path == IF args.path = NoPath /\ args.tool \in {"list", "search"} THEN Cwd ELSE args.path

Children(d) == {n \in Nodes \ {Cwd} : Up[n] = d}
There(d)    == {n \in Children(d) : disk[n] # None}

\* st_size.  That of a directory is of no account: reading one fails, which counts as
\* its end.
SizeOf(n) == IF n \in Pseudo THEN 0 ELSE Len(disk[n].data)

Init ==
  /\ args \in [tool : Tools, path : Nodes \cup {NoPath}]
  /\ at = "start" /\ answer = "none"
  /\ size = 0 /\ got = <<>> /\ stack = <<>> /\ found = {}
  /\ disk \in Disks
  /\ file = <<>> /\ linked = FALSE /\ moves = 0
  /\ seen = [held |-> IF args.path \in Nodes THEN {disk[args.path].data} ELSE {},
             same |-> Nodes, ever |-> {n \in Nodes : disk[n] # None}, failed |-> FALSE]

Calls(tool) == at = "start" /\ args.tool = tool /\ Path \in Permitted

Answer(a) == at' = "done" /\ answer' = a

\* No path, or one that is not permitted.
Refuse ==
  /\ at = "start" /\ Path \notin Permitted
  /\ Answer("error")
  /\ UNCHANGED <<args, size, got, stack, found, world>>

-----------------------------------------------------------------------------
(* file_read.                                                              *)

Stat ==
  /\ Calls("read")
  /\ IF disk[Path] = None \/ SizeOf(Path) > MaxFile
     THEN Answer("error") /\ UNCHANGED size
     ELSE at' = "open" /\ size' = SizeOf(Path) /\ UNCHANGED answer
  /\ UNCHANGED <<args, got, stack, found, world>>

\* fopen fails, as where the file has gone since, or opens what is there now.
OpenRead ==
  /\ at = "open"
  /\ \/ Answer("error") /\ UNCHANGED <<file, linked>>
     \/ /\ disk[Path] # None
        /\ at' = "read" /\ UNCHANGED answer
        /\ file' = disk[Path].data /\ linked' = TRUE
  /\ UNCHANGED <<args, size, got, stack, found, disk, moves, seen>>

Control == "control"    \* a byte or an escape sequence that is no printable text
Nul     == "nul"        \* a byte 0

\* What is kept of some bytes: what can be printed, up to the first byte 0.
sanitize_output(bytes) ==
  Those(bytes, {i \in DOMAIN bytes : bytes[i] # Control /\ \A j \in 1..i : bytes[j] # Nul})

\* The "content" that is answered.
Content == sanitize_output(got)

\* fread: as much as stat said, or up to the end of the file.
Read ==
  LET more == SubSeq(file, Len(got) + 1, Min({size, Len(file), Len(got) + Chunk}))
  IN  /\ at = "read"
      /\ IF more = <<>> THEN Answer("content") /\ UNCHANGED got
                        ELSE got' = got \o more /\ UNCHANGED <<at, answer>>
      /\ UNCHANGED <<args, size, stack, found, world>>

-----------------------------------------------------------------------------
(* file_write and file_delete.                                             *)

\* Content over the limit, or fopen("w"), which creates the file or empties it.
OpenWrite ==
  /\ Calls("write")
  /\ \/ Answer("error") /\ UNCHANGED <<disk, file, linked>>
     \/ /\ Len(Data) <= MaxFile
        /\ Path # Cwd /\ disk[Path] # Dir /\ disk[Up[Path]] = Dir
        /\ at' = "write" /\ UNCHANGED answer
        /\ disk' = [disk EXCEPT ![Path] = File(<<>>)]
        /\ file' = <<>> /\ linked' = TRUE
  /\ UNCHANGED <<args, size, got, stack, found, moves, seen>>

\* A piece put at an offset of what the file holds by now.
Overlaid(old, offset, piece) ==
  [i \in 1..Max({Len(old), offset + Len(piece)}) |->
     CASE i \in offset + 1..offset + Len(piece) -> piece[i - offset]
       [] i \in DOMAIN old -> old[i]
       [] OTHER -> "hole"]

\* fwrite and the flush of fclose.
Write ==
  LET piece == SubSeq(Data, Len(got) + 1, Min({Len(Data), Len(got) + Chunk}))
  IN  /\ at = "write" /\ piece # <<>>
      /\ got' = got \o piece
      /\ file' = Overlaid(file, Len(got), piece)
      /\ disk' = IF linked THEN [disk EXCEPT ![Path] = File(file')] ELSE disk
      /\ UNCHANGED <<args, at, size, stack, found, answer, linked, moves, seen>>

\* fclose; whether all of it has been written is not asked.
CloseWrite ==
  /\ at = "write"
  /\ Answer("written")
  /\ seen' = [seen EXCEPT !.failed = got # Data]
  /\ UNCHANGED <<args, size, got, stack, found, disk, file, linked, moves>>

Delete ==
  /\ Calls("delete")
  /\ \/ Answer("error") /\ UNCHANGED disk
     \/ IsFile(disk[Path]) /\ Answer("deleted") /\ disk' = [disk EXCEPT ![Path] = None]
  /\ UNCHANGED <<args, size, got, stack, found, file, linked, moves, seen>>

-----------------------------------------------------------------------------
(* file_list and file_search.                                              *)

\* A directory that is open: what was in it then, and what readdir has not returned.
Opened(d) == [was |-> There(d), due |-> Children(d)]

\* file_list fails where the directory cannot be opened, file_search finds nothing.
OpenDir ==
  /\ Calls("list") \/ Calls("search")
  /\ IF disk[Path] = Dir
     THEN at' = "walk" /\ stack' = <<Opened(Path)>> /\ UNCHANGED answer
     ELSE Answer(IF args.tool = "list" THEN "error" ELSE "matches") /\ UNCHANGED stack
  /\ UNCHANGED <<args, size, got, found, world>>

Top == stack[Len(stack)]

\* readdir: an entry that is there or was there when the directory was opened.
Returned(n) ==
  /\ at = "walk" /\ stack # <<>>
  /\ n \in Top.due /\ (disk[n] # None \/ n \in Top.was)

Passed(n) == [stack EXCEPT ![Len(stack)].due = @ \ {n}]

\* An entry of file_list, without a type if it has gone.
ListEntry(n) ==
  /\ args.tool = "list" /\ Returned(n)
  /\ found' = found \cup {n}
  /\ stack' = Passed(n)
  /\ UNCHANGED <<args, at, size, got, answer, world>>

\* The rest of a directory given up where an entry has gone.
WrongSearchEntry(n) ==
  /\ args.tool = "search" /\ Returned(n)
  /\ found' = IF n \notin Hidden /\ IsFile(disk[n]) /\ n \in Matching THEN found \cup {n} ELSE found
  /\ stack' = CASE n \notin Hidden /\ disk[n] = Dir /\ Len(stack) <= MaxDepth ->
                     Append(Passed(n), Opened(n))
                [] disk[n] = None -> [stack EXCEPT ![Len(stack)] = [was |-> {}, due |-> {}]]
                [] OTHER -> Passed(n)
  /\ UNCHANGED <<args, at, size, got, answer, world>>

\* An entry of search_recursive: a directory is searched at once, if not too deep.
SearchEntry(n) ==
  /\ args.tool = "search" /\ Returned(n)
  /\ found' = IF n \notin Hidden /\ IsFile(disk[n]) /\ n \in Matching THEN found \cup {n} ELSE found
  /\ stack' = IF n \notin Hidden /\ disk[n] = Dir /\ Len(stack) <= MaxDepth
              THEN Append(Passed(n), Opened(n)) ELSE Passed(n)
  /\ UNCHANGED <<args, at, size, got, answer, world>>

\* The end of a directory: nothing is left that has been there all the time.
CloseDir ==
  /\ at = "walk" /\ \A n \in Top.due \cap Top.was : disk[n] = None
  /\ stack' = SubSeq(stack, 1, Len(stack) - 1)
  /\ IF Len(stack) > 1 THEN UNCHANGED <<at, answer>>
     ELSE Answer(IF args.tool = "list" THEN "entries" ELSE "matches")
  /\ UNCHANGED <<args, size, got, found, world>>

Tool ==
  \/ Refuse \/ Stat \/ OpenRead \/ Read \/ OpenWrite \/ Write \/ CloseWrite \/ Delete
  \/ OpenDir \/ CloseDir \/ \E n \in Nodes : ListEntry(n) \/ SearchEntry(n)

-----------------------------------------------------------------------------
(* Other processes.                                                        *)

\* A name becomes e: a file that is there is rewritten in place.
Becomes(n, e) ==
  /\ at # "done" /\ moves < MaxMoves
  /\ disk[Up[n]] = Dir /\ e # disk[n]
  /\ disk' = [disk EXCEPT ![n] = e]
  /\ moves' = moves + 1
  /\ linked' = (linked /\ (n = args.path => IsFile(e) /\ IsFile(disk[n])))
  /\ file' = IF n = args.path /\ linked' THEN e.data ELSE file
  /\ seen' = [seen EXCEPT !.held = IF n = args.path THEN @ \cup {e.data} ELSE @,
                          !.same = @ \ {n},
                          !.ever = IF e # None THEN @ \cup {n} ELSE @]
  /\ UNCHANGED call

Others ==
  \E n \in Nodes \ {Cwd} :
    \/ disk[n] # Dir /\ \E c \in Contents : Becomes(n, File(c))
    \/ There(n) = {} /\ Becomes(n, None)
    \/ disk[n] = None /\ Becomes(n, Dir)

Next == Tool \/ Others

\* The tool is scheduled.
Spec == Init /\ [][Next]_files /\ WF_files(Tool)

-----------------------------------------------------------------------------

\* The names one passes from n up, as far as the path of the call or ".".
Way(n) ==
  LET up[k \in 0..Cardinality(Nodes)] ==
        IF k = 0 THEN n ELSE IF up[k - 1] \in {Cwd, Path} THEN up[k - 1] ELSE Up[up[k - 1]]
  IN  up

Above(n) == {Way(n)[k] : k \in 0..Cardinality(Nodes)}

\* What is answered is what there was, whatever others do meanwhile.  Each byte of a
\* content was at its place at some time during the call; a file nobody touches is
\* answered whole, but for what sanitize_output drops, and written whole; a walk returns
\* every name that was there all the time, no deeper than it goes, and none that was never
\* there.
FileAnswers ==
  /\ answer = "content" =>
       /\ Len(got) <= size /\ size <= MaxFile
       /\ \A i \in DOMAIN got : \E c \in seen.held : i \in DOMAIN c /\ got[i] = c[i]
       /\ Path \in seen.same \ Pseudo => Content = sanitize_output(file)
  /\ answer = "written" /\ Path \in seen.same /\ ~seen.failed => disk[Path] = File(Data)
  /\ answer \in {"entries", "matches"} => found \subseteq seen.ever
  /\ answer = "entries" =>
       \A n \in Children(Path) \cap seen.same : n \in found <=> disk[n] # None
  /\ answer = "matches" =>
       \A n \in Matching \ (Hidden \cup {Path}) :
         (/\ Path \in Above(n) /\ Above(n) \subseteq seen.same
          /\ IsFile(disk[n]) /\ Cardinality(Above(n)) - 2 <= MaxDepth
          /\ Above(n) \cap Hidden \subseteq {Path})
           => n \in found

\* The call returns.
Returns == at = "start" ~> at = "done"
=============================================================================
