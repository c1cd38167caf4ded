----------------------------- MODULE AdminUser -----------------------------
(***************************************************************************)
(* What an access token and a Duckling configuration have in common: both  *)
(* belong to a user, both are reached over the REST API with the admin     *)
(* token, and a handler of either is one step for each answer it gets.     *)
(***************************************************************************)
EXTENDS Integers, FiniteSets

CONSTANTS
  None,        \* null, or absent
  MaxFaults,   \* bound on requests that fail for a passing reason
  MaxEdits,    \* bound on changes of the configuration and on imports
  MaxOutside   \* bound on what happens outside Terraform

ASSUME AdminUserAssumption ==
  MaxFaults \in Nat /\ MaxEdits \in Nat /\ MaxOutside \in Nat

VARIABLES
  managed,  \* the resource in the configuration: "token" or "duckling"
  user,     \* the user exists
  pc,       \* where the handler that runs stands, or "idle"
  said,     \* the worst diagnostic of the handler: "ok", "warning", "error"
  faults, edits, outside

adminVars == <<managed, user, pc, said, faults, edits, outside>>

\* isNotFound: the API answers NOT_FOUND, which no other failure looks like.
UserNotFound == ~user

End(v) == pc' = "idle" /\ said' = v
Begin(at) == pc = "idle" /\ pc' = at /\ said' = "ok"
Fault == faults < MaxFaults /\ faults' = faults + 1
NoFault == UNCHANGED faults
EditOnce == pc = "idle" /\ edits < MaxEdits /\ edits' = edits + 1
OutsideOnce == outside < MaxOutside /\ outside' = outside + 1

AdminInit ==
  /\ managed \in {"token", "duckling"}
  /\ user = TRUE
  /\ pc = "idle"
  /\ said = "ok"
  /\ faults = 0 /\ edits = 0 /\ outside = 0
=============================================================================
