------------------------------- MODULE Ordering --------------------------------
(***************************************************************************)
(* Loops that take some elements of an array and pass over the others: the *)
(* positions taken, and what stands there, in the order of the array.      *)
(***************************************************************************)
EXTENDS Integers, FiniteSets

\* A set of positions in their order: the k-th is the one up to which there are k.
InOrder(positions) ==
  [k \in 1..Cardinality(positions) |->
    CHOOSE i \in positions : Cardinality({j \in positions : j <= i}) = k]

\* What a sequence has at some positions.
Those(seq, positions) ==
  LET at == InOrder(positions)
  IN  [k \in DOMAIN at |-> seq[at[k]]]
=============================================================================
