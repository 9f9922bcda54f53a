------------------------------ MODULE SerialChat ------------------------------
(***************************************************************************)
(* What the gateway promises about the agent (gateway.h: "Agent calls      *)
(* serialised with a mutex"): turns are run one at a time, each to its end *)
(* before the next begins, and no request gets more than one.              *)
(***************************************************************************)
CONSTANTS Requests, Nobody

VARIABLES
  current,    (* the request whose turn the agent is running, or Nobody     *)
  finished    (* the requests whose turn is over                            *)

vars == <<current, finished>>

Init == current = Nobody /\ finished = {}

BeginTurn(r) ==
  /\ current = Nobody
  /\ r \notin finished
  /\ current' = r
  /\ UNCHANGED finished

EndTurn(r) ==
  /\ current = r
  /\ current' = Nobody
  /\ finished' = finished \cup {r}

Next == \E r \in Requests : BeginTurn(r) \/ EndTurn(r)

Spec == Init /\ [][Next]_vars

\* A turn that has begun also ends.
FairSpec == Spec /\ \A r \in Requests : WF_vars(EndTurn(r))
=============================================================================
