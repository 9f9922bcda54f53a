------------------------------- MODULE MCShell -------------------------------
(***************************************************************************)
(* Model checking of Shell: output of up to five bytes read two at a time  *)
(* into a buffer of three.                                                 *)
(***************************************************************************)
EXTENDS Shell

MCTimeouts == {-1, 1, 2, 3}
=============================================================================
