------------------------------- MODULE MCConsole -------------------------------
(***************************************************************************)
(* Model checking of Console: two lines, two signals, and directories of   *)
(* two skills each that hold every kind of SKILL.md.                       *)
(***************************************************************************)
EXTENDS Console

CONSTANT Sets   (* which skills lie together                                *)

Wanted(slug, front, always, bins, envs, body) ==
  [slug |-> slug, front |-> front, always |-> always, bins |-> bins, envs |-> envs,
   needs |-> bins \o envs, body |-> body]

\* What an author wants the agent to know.
Authored ==
  [quoted |-> Wanted("quoted", TRUE, TRUE, <<"have">>, <<>>, <<Text("a"), Rule, Text("b"), Rule>>),
   listed |-> Wanted("listed", TRUE, FALSE, <<"have">>, <<"var">>, <<Text("a")>>),
   lacks  |-> Wanted("lacks", TRUE, FALSE, <<"have", "miss">>, <<>>, <<Field("always", "true")>>),
   silent |-> Wanted("silent", TRUE, TRUE, <<"miss">>, <<>>, <<Text("a")>>),
   long   |-> Wanted("long", TRUE, FALSE, <<"have", "have", "miss">>, <<"var">>, <<>>),
   plain  |-> Wanted("plain", FALSE, FALSE, <<>>, <<>>, <<Text("a"), Rule, Field("name", "b")>>)]

\* skills.h: what its SKILL.md looks like.
FrontMatter(w) ==
  IF w.always
  THEN <<Rule, Field("always", "true"), Field("requires_bins", w.bins),
         Field("requires_env", w.envs), Rule>>
  ELSE <<Rule, Field("requires_bins", w.bins), Field("requires_env", w.envs), Rule>>

SkillFile(w) == IF w.front THEN FrontMatter(w) \o w.body ELSE w.body

Skill(slug) == Entry(slug, "skill", SkillFile(Authored[slug]))

Other == {Entry(".git", "hidden", <<>>), Entry("README.md", "file", <<>>)}

MCSets == {{"quoted", "listed"}, {"lacks", "silent"}, {"plain", "long"}}

MCDirectories == {{Skill(s) : s \in set} \cup Other : set \in Sets}

\* The prompt quotes each skill that is always active and has what it needs and no other,
\* and lists each one that is not always active once, with whether it has and what it
\* lacks; /skills shows each one found by the last scan once.  An edit or a reload does
\* not change the prompt.  Not said is that a skill that should be active and lacks
\* something still appears in the summary, as skills.h has it: the code drops it.  (Needs
\* of a kind beyond MaxRequires are not seen.)
SkillsKnown ==
  "skills" \in created =>
    /\ \A s \in {e.slug : e \in Loadable(seen.boot)} :
         LET w      == Authored[s]
             has    == ToSet(w.needs) \subseteq Present
             quotes == {i \in DOMAIN prompt.active : prompt.active[i].slug = s}
             lists  == {i \in DOMAIN prompt.summary : prompt.summary[i].slug = s}
         IN  /\ Cardinality(quotes) = IF w.always /\ has THEN 1 ELSE 0
             /\ Cardinality(lists) = 1 \/ w.always
             /\ \A i \in quotes : prompt.active[i].content = w.body
             /\ \A i \in lists : Len(w.bins) <= MaxRequires /\ Len(w.envs) <= MaxRequires =>
                  /\ prompt.summary[i].available <=> has
                  /\ prompt.summary[i].requires = Those(w.needs, Lacking(w.needs))
    /\ {skills[i].slug : i \in DOMAIN skills} = {e.slug : e \in Loadable(seen.scan)}
    /\ Len(skills) = Cardinality(Loadable(seen.scan))
=============================================================================
