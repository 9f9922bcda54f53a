------------------------------ MODULE MCGateway ------------------------------
(***************************************************************************)
(* Model checking of Gateway: more connections than slots, so that the     *)
(* listener waits for a slot, the backlog fills and shutdown meets workers *)
(* at every stage.                                                         *)
(***************************************************************************)
EXTENDS Gateway
=============================================================================
