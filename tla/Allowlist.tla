------------------------------- MODULE Allowlist -------------------------------
(***************************************************************************)
(* The lists of commands, paths and endpoints in security/allowlist.c:     *)
(* what allowlist_load makes of allowlist.conf, and what allowlist_check   *)
(* answers for it.                                                         *)
(*                                                                         *)
(* A file is its lines: a section, an "allow" with the patterns behind it, *)
(* or something else.  Patterns and values are sequences of characters.    *)
(***************************************************************************)
EXTENDS Integers, Sequences, SequencesExt

CONSTANT MaxRules     (* MAX_RULES                                          *)

Lists == {"command", "path", "endpoint"}

Section(list)   == [kind |-> "section", list |-> list, patterns |-> <<>>]
Allow(patterns) == [kind |-> "allow", list |-> "none", patterns |-> patterns]
OtherLine       == [kind |-> "other", list |-> "none", patterns |-> <<>>]

-----------------------------------------------------------------------------

allowlist_create == [list \in Lists |-> <<>>]

\* Of a list that is full the rest of the patterns is dropped; nobody looks at the error.
allowlist_add(al, list, pattern) ==
  IF Len(al[list]) >= MaxRules THEN al ELSE [al EXCEPT ![list] = Append(@, pattern)]

\* The list that is being read, [commands] at first, and the lists so far.
LoadLine(state, line) ==
  CASE line.kind = "section" -> [state EXCEPT !.list = line.list]
    [] line.kind = "allow" ->
         [state EXCEPT !.al = FoldLeft(LAMBDA al, p : IF p = <<>> THEN al
                                                      ELSE allowlist_add(al, state.list, p),
                                       @, line.patterns)]
    [] OTHER -> state

allowlist_load(lines) ==
  FoldLeft(LoadLine, [list |-> "command", al |-> allowlist_create], lines).al

\* A list is enabled by its first rule.
allowlist_is_enabled(al, list) == al[list] # <<>>

\* fnmatch, for patterns of characters and "*".
fnmatch(pattern, value) ==
  LET m[i \in 1..Len(pattern) + 1, j \in 1..Len(value) + 1] ==
        IF i > Len(pattern) THEN j > Len(value)
        ELSE IF pattern[i] = "*" THEN m[i + 1, j] \/ (j <= Len(value) /\ m[i, j + 1])
        ELSE j <= Len(value) /\ pattern[i] = value[j] /\ m[i + 1, j + 1]
  IN  m[1, 1]

\* The command's name: what stands before the first blank.
FirstWord(value) ==
  LET blank == SelectInSeq(value, LAMBDA c : c = " ")
  IN  IF blank = 0 THEN value ELSE SubSeq(value, 1, blank - 1)

\* A command is matched as a whole or by its name, a path or an endpoint by its beginning.
Permits(list, pattern, value) ==
  IF list = "command" THEN fnmatch(pattern, value) \/ fnmatch(pattern, FirstWord(value))
                      ELSE IsPrefix(pattern, value)

allowlist_check(al, list, value) ==
  \/ ~allowlist_is_enabled(al, list)
  \/ \E i \in DOMAIN al[list] : Permits(list, al[list][i], value)

-----------------------------------------------------------------------------

\* The patterns a file has for a list.
PatternsFor(lines, list) ==
  {p \in (UNION {ToSet(lines[i].patterns) : i \in DOMAIN lines}) \ {<<>>} :
     \E i \in DOMAIN lines :
       /\ p \in ToSet(lines[i].patterns)
       /\ LET sections == {k \in 1..i : lines[k].kind = "section"}
          IN  list = IF sections = {} THEN "command" ELSE lines[Max(sections)].list}

\* A file that names nothing for a list permits everything there, and one that names
\* something permits what a pattern of its own matches, in whatever order its sections
\* and lines stand and however often a section comes, as long as no list is full.
ByItsPatterns(lines, list, value) ==
  LET own == PatternsFor(lines, list)
  IN  FoldLeft(LAMBDA n, line : n + Len(line.patterns), 0, lines) <= MaxRules =>
        (allowlist_check(allowlist_load(lines), list, value)
           <=> (own = {} \/ \E p \in own : Permits(list, p, value)))
=============================================================================
