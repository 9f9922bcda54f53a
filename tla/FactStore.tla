------------------------------ MODULE FactStore ------------------------------
(***************************************************************************)
(* What the memory promises the model (md_memory.c: "If the key already    *)
(* exists, its line is replaced"; the template of MEMORY.md: "should       *)
(* persist across sessions"): a map from sections and keys to values that  *)
(* changes by storing one fact at a time and by nothing else, while its    *)
(* file is sound.  A value of several lines may open sections again, and   *)
(* change facts there and behind it in its own.                            *)
(***************************************************************************)
CONSTANTS
  Sections, Keys,
  Values,     (* the values of one line                                     *)
  Lists       (* those of several lines: the first line, and the sections   *)
              (* that the others open                                       *)

VARIABLES
  facts,      (* the value of each key of each section, or none             *)
  sound       (* whether the file is sound                                  *)

Pairs == Sections \X Keys

\* Whatever the file held before.
Init == DOMAIN facts = Pairs /\ sound \in BOOLEAN

\* Only facts of the pairs change.
Changes(pairs) ==
  /\ DOMAIN facts' = Pairs
  /\ \A sk \in Pairs \ pairs : facts'[sk] = facts[sk]

Store(s, k, v) ==
  /\ facts'[<<s, k>>] = v
  /\ Changes({<<s, k>>})

StoreList(s, k, list) ==
  /\ facts'[<<s, k>>] = list.first
  /\ Changes(({s} \cup list.opens) \X Keys)

\* A list stored in a section that is none of Sections.
StoreElsewhere(list) == Changes(list.opens \X Keys)

Next ==
  \/ /\ sound /\ sound'
     /\ \/ \E s \in Sections, k \in Keys :
             \/ \E v \in Values : Store(s, k, v)
             \/ \E list \in Lists : StoreList(s, k, list)
        \/ \E list \in Lists : StoreElsewhere(list)
  \/ ~sound' /\ Changes(Pairs)

Spec == Init /\ [][Next]_<<facts, sound>>
=============================================================================
