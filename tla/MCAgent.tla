------------------------------- MODULE MCAgent -------------------------------
(***************************************************************************)
(* Model checking of Agent.  The constants are small enough to explore all *)
(* windows and large enough that a turn outgrows the window: an array of 8 *)
(* messages, with a configured limit of 9 that it overrules,               *)
(* is compacted two messages at a time, three iterations of up to three    *)
(* tool calls add up to thirteen messages.                                 *)
(***************************************************************************)
EXTENDS Agent
=============================================================================
