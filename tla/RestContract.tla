---------------------------- MODULE RestContract ----------------------------
(***************************************************************************)
(* What a resource handler may assume of one REST request, whatever the    *)
(* network does to it: the server may act on it late, even after the       *)
(* request returned, and more than once, but never more than Limit times   *)
(* and only once if it is not repeatable; and it is told of a success only *)
(* when the server has acted.                                              *)
(***************************************************************************)
EXTENDS Integers

CONSTANTS
  Limit,     \* how often the server can come to act on one request
  Successes, \* the answers that report a success
  Failures   \* the errors a request can return

VARIABLES
  repeatable, \* the request may be sent again
  open,       \* the handler is still waiting
  acts,       \* how often the server has acted on the request
  result      \* what the request returned

vars == <<repeatable, open, acts, result>>

Init ==
  /\ repeatable \in BOOLEAN
  /\ open = TRUE
  /\ acts = 0
  /\ result = "none"

Act ==
  /\ acts < IF repeatable THEN Limit ELSE 1
  /\ acts' = acts + 1
  /\ UNCHANGED <<repeatable, open, result>>

Return ==
  /\ open
  /\ open' = FALSE
  /\ result' \in Failures \cup (IF acts > 0 THEN Successes ELSE {})
  /\ UNCHANGED <<repeatable, acts>>

Next == Act \/ Return

Spec == Init /\ [][Next]_vars
=============================================================================
