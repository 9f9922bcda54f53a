----------------------------- MODULE MCWorkspace -----------------------------
(***************************************************************************)
(* Model checking of Workspace: two sections and two keys, a second day, a *)
(* value of one line, one that fills its bullet and one of several lines   *)
(* that opens the other section, and files that a user has left with a     *)
(* section twice, a key twice, blanks around a heading or a section        *)
(* missing.                                                                *)
(***************************************************************************)
EXTENDS Workspace

\* A name with a colon in it is read back up to the colon.
MCLabel ==
  [n \in Keys \cup {"k1:x", Time, HistoryKey} |-> IF n = "k1:x" THEN "k1" ELSE n]

MCDays == <<"day1", "day2">>

MCMore ==
  [v \in Values |-> IF v = "list" THEN <<Heading(Notes), Bullet("k1", "v2")>> ELSE <<>>]

MCCut == [v \in {"long", "list"} |-> IF v = "long" THEN "long511" ELSE "first"]

\* The template ends with a line of text that has no newline.
MCTemplate == File(<<Heading("Preferences"), Text, Heading(Notes), Text>>, TRUE)

MCEdited ==
  {File(<<Heading("Preferences"), Bullet("k1", "v2"), Heading(Notes),
          Heading("Preferences"), Bullet("k1:x", "v1")>>, FALSE),
   File(<<Padded("Preferences"), Bullet("k1", "long"), Heading(Notes)>>, FALSE)}
=============================================================================
