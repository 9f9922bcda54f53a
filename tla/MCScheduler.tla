----------------------------- MODULE MCScheduler -----------------------------
(***************************************************************************)
(* Model checking of Scheduler: two tasks of different intervals, so that  *)
(* one falls due in a pass in which the other does not, and a thread that  *)
(* may be late.  The intervals are asked for in both forms, and one is     *)
(* refused.                                                                *)
(***************************************************************************)
EXTENDS Scheduler

MCAsked ==
  {[form |-> "every", n |-> 1, unit |-> "sec"], [form |-> "number", n |-> 2],
   [form |-> "words"]}
=============================================================================
