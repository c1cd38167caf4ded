--------------------------- MODULE UserResources ---------------------------
(* An access token or the Duckling configuration of one user, with the     *)
(* user coming and going.                                                  *)
EXTENDS AccessToken, DucklingConfig

vars == <<adminVars, tokenVars, ducklingVars>>

Init == AdminInit /\ TokenInit /\ DucklingInit

\* The handlers and the surroundings of the resource that is configured.
Either(tokenAction, ducklingAction) ==
  \/ managed = "token" /\ tokenAction /\ UNCHANGED ducklingVars
  \/ managed = "duckling" /\ ducklingAction /\ UNCHANGED tokenVars

Next == Either(TokenNext, DucklingNext)

Spec == Init /\ [][Next]_vars

\* Requests return; a plan and an apply that are run again refresh the state
\* and do what the plan says.
Fairness ==
  /\ WF_vars(Either(TokenHandler, DucklingHandler))
  /\ SF_vars(Either(StartList, ReadDuckling))
  /\ SF_vars(Either(StartMint \/ RecordSpelling \/ StartRevoke, StartPut \/ DeleteDuckling))

FairSpec == Spec /\ Fairness

TypeOK == TokenTypeOK /\ DucklingTypeOK

\* What was minted is accounted for, and so is its secret.
TokensAccounted == OrphanTold /\ SecretMatches

\* An apply that reports no error did what was configured and what was planned,
\* and the state says so.
AppliedAsAsked == TokenAsAsked /\ DucklingAsAsked /\ PlanKept

\* Every walk ends and repeated applies settle, whichever resource is
\* configured.
Converges == WalkEnds /\ TokenConverges /\ DucklingConverges

-----------------------------------------------------------------------------
(* The inductive invariant behind the safety properties.                   *)

\* Where a handler stands, that Create works for an empty state, and that the
\* state has a token that was made.
HandlerInv ==
  /\ pc \in {"idle", "mint", "list", "revoke", "put"}
  /\ pc = "mint" => asked # None /\ held = None
  /\ held # None => held.id \in Made

\* A user who is not there has no tokens, and none that expired is live.
ApiInv ==
  /\ ~user \/ managed = "duckling" => live = {}
  /\ past \cap live = {}

\* The plan is the one for the configuration and the state, which still is
\* what MotherDuck has if it was and nothing has happened since.
PlanInv ==
  pc = "put" =>
    /\ dwant # None
    /\ dplan = [dwant EXCEPT !.cool = PlannedCooldown(dwant, dheld)]
    /\ fresh => dheld = Shown(stored)

IInv == TypeOK /\ HandlerInv /\ ApiInv /\ PlanInv /\ OrphanTold /\ SecretMatches

=============================================================================
