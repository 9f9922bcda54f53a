-------------------------------- MODULE Skills --------------------------------
(***************************************************************************)
(* The skills loader (tools/skills/skills.c): what is read from the        *)
(* directories under workspace/skills, and what of it the system prompt    *)
(* and /skills show.                                                       *)
(*                                                                         *)
(* A SKILL.md is its lines: a rule "---", a field of the front matter, or  *)
(* text.  Descriptions and XML are formatting.                             *)
(*                                                                         *)
(* Operators named Wrong... are faulty variants that the specification     *)
(* never uses; see module Agent.                                           *)
(***************************************************************************)
EXTENDS Integers, Sequences, SequencesExt, Ordering

CONSTANTS
  Present,      (* binaries on PATH and variables that are set              *)
  MaxSkills,    (* MAX_SKILLS                                               *)
  MaxRequires   (* MAX_REQUIRES                                             *)

Rule            == [key |-> "---", val |-> "none"]
Field(key, val) == [key |-> key, val |-> val]
Text(t)         == [key |-> "text", val |-> t]

Rules(lines) == {i \in DOMAIN lines : lines[i] = Rule}

\* Lines of the front matter: behind the first rule and not behind the second.
InFrontMatter(lines, i) ==
  lines[i] # Rule /\ Cardinality({r \in Rules(lines) : r < i}) = 1

\* The value of the last line for a key.
Value(lines, key, default) ==
  LET at == {i \in DOMAIN lines : InFrontMatter(lines, i) /\ lines[i].key = key}
  IN  IF at = {} THEN default ELSE lines[Max(at)].val

\* split_words
split_words(words) == SubSeq(words, 1, Min({Len(words), MaxRequires}))

\* Only what lies between two rules is skipped.
WrongBody(lines) == SelectSeq(lines, LAMBDA l : l.key \in {"text", "---"})

\* With fewer than two rules the whole file, whatever was taken for a field in it.
Body(lines) ==
  LET rules  == Rules(lines)
      second == Min(rules \ {Min(rules)})
  IN  IF Cardinality(rules) < 2 THEN lines ELSE SubSeq(lines, second + 1, Len(lines))

Available(bins, envs) == ToSet(bins \o envs) \subseteq Present

parse_skill_file(slug, lines) ==
  LET bins == split_words(Value(lines, "requires_bins", <<>>))
      envs == split_words(Value(lines, "requires_env", <<>>))
  IN  [slug      |-> slug,
       name      |-> Value(lines, "name", slug),
       always    |-> Value(lines, "always", "false") \in {"true", "yes", "1"},
       needs     |-> bins \o envs,
       available |-> Available(bins, envs),
       content   |-> Body(lines)]

-----------------------------------------------------------------------------

\* An entry of the directory; hidden ones, files, and directories without a SKILL.md
\* that can be read are passed over.
Entry(slug, kind, lines) == [slug |-> slug, kind |-> kind, lines |-> lines]

Loadable(dir) == {e \in dir : e.kind = "skill"}

\* skills_scan: readdir gives the entries in any order.
Scans(dir) ==
  {[i \in 1..Min({Len(order), MaxSkills}) |-> parse_skill_file(order[i].slug, order[i].lines)] :
     order \in SetToSeqs(Loadable(dir))}

Lacking(needs) == {i \in DOMAIN needs : needs[i] \notin Present}

Listing(skill) ==
  [slug |-> skill.slug, name |-> skill.name, available |-> skill.available,
   requires |-> IF skill.available THEN <<>> ELSE Those(skill.needs, Lacking(skill.needs))]

\* skills_get_prompt: what is always active is quoted, the others are listed with what
\* they are missing, and one that should be active and is missing something is in
\* neither part.
skills_get_prompt(skills) ==
  LET quoted == Those(skills, {i \in DOMAIN skills : skills[i].always /\ skills[i].available})
      others == Those(skills, {i \in DOMAIN skills : ~skills[i].always})
  IN  [active |-> quoted, summary |-> [i \in DOMAIN others |-> Listing(others[i])]]
=============================================================================
