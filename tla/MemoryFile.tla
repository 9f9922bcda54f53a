------------------------------ MODULE MemoryFile ------------------------------
(***************************************************************************)
(* MEMORY.md as memory/md_memory.c reads and writes it: the functions      *)
(* behind memory_store and memory_recall, on a file of lines.              *)
(*                                                                         *)
(* A line is a heading of level two, a bullet with a name and a value, or  *)
(* other text; blank lines and the text of a line are left out.  A line is *)
(* full if it leaves no room for its newline in the 2048 bytes it is       *)
(* copied to.  A file may end without a newline, and what is appended then *)
(* continues the last line.                                                *)
(*                                                                         *)
(* Operators named Wrong... are faulty variants that the specification     *)
(* never uses; see module Agent.                                           *)
(***************************************************************************)
EXTENDS Integers, Sequences, SequencesExt

CONSTANTS
  Label,      (* the key read back from a bullet written for a name: the    *)
              (* text up to the first colon, as a function on the names     *)
  MaxLines,   (* MAX_FILE_SIZE, in lines                                    *)
  Garbled,    (* a heading or a value that something was appended to, or    *)
              (* that was written in part                                   *)
  Full,       (* the values whose bullets fill the 2048 bytes of bullet     *)
  More,       (* the lines that follow the first of a value, as a function  *)
  Cut         (* what memory_recall answers for the values that it does not *)
              (* give whole: the first line, trimmed and cut at 511 bytes   *)

None == "none"

Line(kind, name, v, full) == [kind |-> kind, name |-> name, val |-> v, full |-> full]

Heading(name)    == Line("heading", name, None, FALSE)
Padded(name)     == Line("heading", name, "padded", FALSE)  \* with blanks around it
Bullet(name, v)  == Line("bullet", name, v, v \in Full)
Text             == Line("text", None, None, FALSE)

File(lines, open) == [lines |-> lines, open |-> open]

Empty  == File(<<>>, FALSE)
NoFile == File(<<>>, TRUE)     \* never a file: an empty one ends no line

\* read_memory_file: a missing file and one over the limit both read as empty.
Read(f) == IF f = NoFile \/ Len(f.lines) > MaxLines THEN Empty ELSE f

\* The headings that memory_store takes for the section's, and those that
\* memory_recall, which trims them, does.
Exact(section)   == {Heading(section)}
Trimmed(section) == {Heading(section), Padded(section)}

\* The heading that line i stands under is one of heads.
Under(lines, i, heads) ==
  \E j \in 1..i : /\ lines[j] \in heads
                  /\ \A m \in (j + 1)..i : lines[m].kind # "heading"

\* Line i is a bullet with that key under one of heads.
Holds(lines, i, heads, key) ==
  /\ lines[i].kind = "bullet"
  /\ Label[lines[i].name] = key
  /\ Under(lines, i, heads)

Hits(lines, heads, key) == {i \in DOMAIN lines : Holds(lines, i, heads, key)}

\* What is answered of a value.
Shown(v) == IF v \in DOMAIN Cut THEN Cut[v] ELSE v

\* memory_recall: the value of the first bullet of the section with that key.
Recall(f, section, key) ==
  LET hits == Hits(f.lines, Trimmed(section), key)
  IN  IF hits = {} THEN None ELSE Shown(f.lines[Min(hits)].val)

-----------------------------------------------------------------------------
(* memory_store.                                                           *)

\* The headings at which the loop leaves the section without having met the key; at
\* the first of them it writes the bullet.
Ends(lines, section, key) ==
  {i \in DOMAIN lines : /\ i > 1 /\ lines[i].kind = "heading"
                        /\ Under(lines, i - 1, Exact(section))
                        /\ \A j \in 1..(i - 1) : ~Holds(lines, j, Exact(section), key)}

\* The replaced bullet looked for in the whole file and not in the section alone.
WrongRewritten(lines, section, key, new) ==
  LET ends == Ends(lines, section, key)
  IN  FlattenSeq([i \in DOMAIN lines |->
        (IF ends # {} /\ i = Min(ends) THEN new ELSE <<>>)
          \o (IF lines[i].kind = "bullet" /\ Label[lines[i].name] = key
              THEN new ELSE <<lines[i]>>)])

\* The lines the loop puts out: every bullet that holds the key is replaced, and the
\* bullet is put at the end of the section if none came before.
Rewritten(lines, section, key, new) ==
  LET ends == Ends(lines, section, key)
  IN  FlattenSeq([i \in DOMAIN lines |->
        (IF ends # {} /\ i = Min(ends) THEN new ELSE <<>>)
          \o (IF Holds(lines, i, Exact(section), key) THEN new ELSE <<lines[i]>>)])

\* What the last line becomes when a bullet is appended to it; long: it is longer
\* than 2047 bytes then.
Continued(line, long) ==
  CASE line.kind = "heading" -> Line("heading", Garbled, None, line.full \/ long)
    [] line.kind = "bullet"  -> Line("bullet", line.name, Garbled, line.full \/ long)
    [] OTHER                 -> Line("text", None, None, line.full \/ long)

\* The bullet at the end of the file, on the last line if that has no newline.
Appended(f, new, long) ==
  IF f.open THEN Front(f.lines) \o <<Continued(Last(f.lines), long)>> \o Tail(new)
            ELSE f.lines \o new

\* The file memory_store makes of f for a bullet of the lines new.  A line that does
\* not fit into linebuf is put out with the NUL that ends it there, at which fputs
\* stops: the file ends with it, and without a newline.
Stored(f, section, key, new, long) ==
  LET lines == f.lines
      hits  == Hits(lines, Exact(section), key)
      stops == {i \in DOMAIN lines \ hits :
                  lines[i].full /\ (i < Len(lines) \/ ~f.open \/ long)}
  IN  IF stops # {}
      THEN File(Rewritten(SubSeq(lines, 1, Min(stops)), section, key, new), TRUE)
      ELSE IF hits # {} \/ Ends(lines, section, key) # {}
      THEN File(Rewritten(lines, section, key, new), f.open /\ Len(lines) \notin hits)
      ELSE IF \E i \in DOMAIN lines : lines[i] \in Exact(section)
      THEN File(Appended(f, new, long), FALSE)
      ELSE File(lines \o <<Heading(section)>> \o new, FALSE)

-----------------------------------------------------------------------------
(* Writes that do not reach the file whole.                                *)

\* What a line may read as when the file ends within it.
Torn(line) ==
  {Text, line, [line EXCEPT !.full = FALSE]}
    \cup CASE line.kind = "heading" -> {Heading(Garbled), Heading(line.name)}
           [] line.kind = "bullet"  -> {Bullet(line.name, Garbled)}
           [] OTHER                 -> {}

\* The files that hold the first bytes of f and not the rest: they end with a line
\* of f or within one.
Shorter(f) ==
  {File(SubSeq(f.lines, 1, n), FALSE) : n \in 0..(Len(f.lines) - 1)}
    \cup UNION {{File(SubSeq(f.lines, 1, n - 1) \o <<line>>, TRUE) : line \in Torn(f.lines[n])} :
                  n \in DOMAIN f.lines}
=============================================================================
