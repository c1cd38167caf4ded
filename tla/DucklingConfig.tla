--------------------------- MODULE DucklingConfig ---------------------------
(***************************************************************************)
(* The motherduck_duckling_config resource of one user                     *)
(* (internal/resources/rest_resources.go).                                 *)
(*                                                                         *)
(* One PUT replaces the whole configuration; there is no request for a     *)
(* part of it and none to take it away.  A cooldown that is not configured *)
(* is not managed, yet the PUT has to carry one if it is to stay: the plan *)
(* takes it from the state.  GET fills in a default where none is stored,  *)
(* and the answer to the PUT may leave it out.                             *)
(*                                                                         *)
(* The read-write and the read-scaling half have the same code; one half   *)
(* stands for both, and the flock size for every other attribute.          *)
(***************************************************************************)
EXTENDS AdminUser

CONSTANTS
  Pulse,          \* the instance size that has no cooldown
  BigSizes,       \* the others
  Default,        \* the cooldown that MotherDuck applies when none is stored
  Chosen,         \* another cooldown
  Unknown         \* a planned value that is not known until apply

Sizes == BigSizes \cup {Pulse}
Cooldowns == {Default, Chosen}
Flocks == {0, 1}
Settings == [size : Sizes, cool : Cooldowns \cup {None}, flock : Flocks]
Plans == [size : Sizes, cool : Cooldowns \cup {None, Unknown}, flock : Flocks]

ASSUME DucklingAssumption ==
  /\ Pulse \notin BigSizes
  /\ {None, Unknown} \cap Cooldowns = {} /\ None # Unknown
  /\ None \notin Plans

VARIABLES
  stored,   \* the configuration that MotherDuck stores for the user
  limited,  \* the organization's plan allows only Pulse
  dwant,    \* the configuration in the Terraform configuration, or None
  dheld,    \* the one in Terraform's state, or None
  dplan,    \* the plan that is applied, or None
  fresh,    \* the state was what GET returns when the plan was made, and
            \* nothing has happened outside since
  respelled,  \* the configuration has the username in another letter case
              \* than the state has it
  dlate     \* a PUT without an answer that may still be carried out, when its
            \* handler has repeated it or given up, or None

ducklingVars == <<stored, limited, dwant, dheld, dplan, fresh, respelled, dlate>>

\* GET /v1/users/{username}/instances.
Shown(s) == IF s.size # Pulse /\ s.cool = None THEN [s EXCEPT !.cool = Default] ELSE s

-----------------------------------------------------------------------------
(* Decisions; Slip marks a plausible mistake no action uses.               *)

\* validateDucklingCooldowns.
DucklingRequests == {s \in Settings : s.size = Pulse => s.cool = None}

\* Slip: a cooldown that is not configured is always left to MotherDuck.
SlipPlannedCooldown(c, s) ==
  IF c.cool # None THEN c.cool ELSE IF c.size = Pulse THEN None ELSE Unknown
\* ducklingCooldownPlanModifier; s is None on create.
PlannedCooldown(c, s) ==
  IF c.cool # None THEN c.cool
  ELSE IF c.size = Pulse THEN None
  ELSE IF s = None THEN Unknown
  ELSE IF c.size # s.size \/ s.cool = None THEN Unknown
  ELSE s.cool

\* Slip: no cooldown is configured for Pulse, so none is compared.
SlipClearsPulse(c, s) == FALSE
\* The modifier plans null for Pulse, which differs from a cooldown that
\* MotherDuck still reports after a plan limit lowered the size.
ClearsPulse(c, s) == c.cool = None /\ c.size = Pulse /\ s.cool # None

\* Terraform plans a change.
DucklingDiffers(c, s) ==
  \/ c.size # s.size \/ c.flock # s.flock
  \/ c.cool # None /\ c.cool # s.cool
  \/ ClearsPulse(c, s)

\* Slip: a cooldown is sent only if it is the configured one.
SlipBody(p) == [size |-> p.size, cool |-> None, flock |-> p.flock]
\* putDucklingConfig: the body; a cooldown that is not known is not sent.
Body(p) == [size |-> p.size, cool |-> IF p.cool = Unknown \/ p.size = Pulse THEN None ELSE p.cool,
            flock |-> p.flock]

\* Slip: what the answer has is recorded.
SlipAfterPut(p, answer) == answer
\* plannedCooldownOrLive: an answer without a cooldown does not undo the plan,
\* and Pulse has none.
AfterPut(p, answer) ==
  [answer EXCEPT !.cool = IF p.size = Pulse THEN None
                          ELSE IF answer.cool = None /\ p.cool # Unknown THEN p.cool
                          ELSE answer.cool]

-----------------------------------------------------------------------------
(* Handlers.                                                               *)

\* Create, and Update of a plan that differs; a username in another letter
\* case is updated in place.
StartPut ==
  /\ dwant # None
  /\ Begin("put")
  /\ IF dheld = None THEN TRUE ELSE respelled \/ DucklingDiffers(dwant, dheld)
  /\ dplan' = [dwant EXCEPT !.cool = PlannedCooldown(dwant, dheld)]
  /\ fresh' = (dheld = Shown(stored))
  /\ UNCHANGED <<managed, user, faults, edits, outside, stored, limited,
                 dwant, dheld, respelled, dlate>>

\* The answer to a PUT has what is stored, or lacks the cooldown.
Answers == {Shown(Body(dplan)), [Body(dplan) EXCEPT !.cool = None]}

\* The PUT is refused, has no answer, or is answered. One without an answer
\* may have been carried out or may be still; so may the attempts before the
\* one that is answered.
PutDuckling ==
  /\ pc = "put"
  /\ dplan' = None
  /\ \/ /\ UserNotFound \/ (limited /\ dplan.size # Pulse)
        /\ NoFault /\ End("error")
        /\ UNCHANGED <<stored, dheld, respelled, dlate>>
     \/ /\ Fault /\ End("error")
        /\ dlate' \in {dlate, Body(dplan)}
        /\ UNCHANGED <<stored, dheld, respelled>>
     \/ /\ ~UserNotFound /\ ~(limited /\ dplan.size # Pulse)
        /\ stored' = Body(dplan)
        /\ \/ Fault /\ End("error") /\ UNCHANGED <<dheld, respelled, dlate>>
           \/ /\ End("ok")
              /\ \E answer \in Answers : dheld' = AfterPut(dplan, answer)
              /\ respelled' = FALSE
              /\ (NoFault /\ UNCHANGED dlate) \/ (Fault /\ dlate' = Body(dplan))
  /\ UNCHANGED <<managed, user, edits, outside, limited, dwant, fresh>>

\* Read: setDucklingModelFromREST records what is live.
ReadDuckling ==
  /\ pc = "idle" /\ dheld # None
  /\ \/ UserNotFound /\ NoFault /\ End("ok") /\ dheld' = None /\ respelled' = FALSE
     \/ Fault /\ End("error") /\ UNCHANGED <<dheld, respelled>>
     \/ /\ ~UserNotFound /\ NoFault /\ End("ok")
        /\ dheld' = Shown(stored) /\ UNCHANGED respelled
  /\ UNCHANGED <<managed, user, edits, outside, stored, limited, dwant, dplan,
                 fresh, dlate>>

\* Delete: there is no request to make; the warning says so.
DeleteDuckling ==
  /\ pc = "idle" /\ dwant = None /\ dheld # None
  /\ dheld' = None
  /\ End("warning")
  /\ UNCHANGED <<managed, user, faults, edits, outside, stored, limited,
                 dwant, dplan, fresh, respelled, dlate>>

\* Letter cases in which the username may be configured next to a state that
\* has one.
Spellings == IF dwant' = None \/ dheld' = None THEN {FALSE} ELSE BOOLEAN

\* ImportState, by the username in any letter case, and the Read that follows.
ImportDuckling ==
  /\ EditOnce /\ dheld = None /\ user
  /\ dheld' = Shown(stored)
  /\ UNCHANGED dwant
  /\ respelled' \in Spellings
  /\ End("ok")
  /\ UNCHANGED <<managed, user, faults, outside, stored, limited, dplan,
                 fresh, dlate>>

-----------------------------------------------------------------------------
(* The practitioner, the API and everybody else.                           *)

EditDuckling ==
  /\ EditOnce
  /\ dwant' \in DucklingRequests \cup {None}
  /\ UNCHANGED dheld
  /\ respelled' \in Spellings
  /\ <<dwant, respelled>>' # <<dwant, respelled>>
  /\ UNCHANGED <<managed, user, pc, said, faults, outside, stored, limited,
                 dplan, fresh, dlate>>

\* The API carries out a PUT that its handler repeated or gave up.
LatePut ==
  /\ dlate # None
  /\ dlate' = None
  /\ fresh' = FALSE
  /\ stored' = IF user THEN dlate ELSE stored
  /\ UNCHANGED <<adminVars, limited, dwant, dheld, dplan, respelled>>

\* Somebody sets the configuration, the organization's plan lowers the size,
\* or the user is deleted or comes back.
OutsideDuckling ==
  /\ OutsideOnce
  /\ fresh' = FALSE
  /\ \/ /\ user
        /\ stored' \in {s \in DucklingRequests : limited => s.size = Pulse}
        /\ stored' # stored
        /\ UNCHANGED <<user, limited>>
     \/ /\ ~limited /\ limited' = TRUE
        /\ stored' = [stored EXCEPT !.size = Pulse]
        /\ UNCHANGED user
     \/ user' = ~user /\ UNCHANGED <<stored, limited>>
  /\ UNCHANGED <<managed, pc, said, faults, edits, dwant, dheld, dplan,
                 respelled, dlate>>

DucklingInit ==
  /\ stored \in {s \in DucklingRequests : s.flock = 0 /\ (managed = "token" => s.size = Pulse)}
  /\ limited = FALSE
  /\ dwant \in IF managed = "token" THEN {None} ELSE {s \in DucklingRequests : s.flock = 0}
  /\ dheld = None /\ dplan = None /\ dlate = None
  /\ fresh = FALSE /\ respelled = FALSE

DucklingHandler == PutDuckling

DucklingNext ==
  \/ StartPut \/ PutDuckling \/ ReadDuckling \/ DeleteDuckling
  \/ ImportDuckling \/ EditDuckling \/ LatePut \/ OutsideDuckling

-----------------------------------------------------------------------------
(* Properties.                                                             *)

DucklingTypeOK ==
  /\ stored \in Settings
  /\ dwant \in DucklingRequests \cup {None}
  /\ dheld \in Settings \cup {None}
  /\ dplan \in Plans \cup {None}
  /\ dlate \in DucklingRequests \cup {None}
  /\ respelled \in BOOLEAN
  /\ dplan # None <=> pc = "put"

\* One step's share of UnsetKeepsLive.
UnsetKeepsLiveStep ==
  /\ pc = "put" /\ pc' = "idle" /\ stored' # stored /\ fresh
  /\ dheld # None /\ dwant # None
  /\ dwant.cool = None /\ dwant.size = dheld.size /\ dwant.size # Pulse
  => Shown(stored').cool = Shown(stored).cool

\* A PUT planned from a state that is still true leaves a cooldown that is not
\* configured as it is, as long as the size stays: changing another attribute
\* neither resets it nor brings an old one back.
UnsetKeepsLive == [][UnsetKeepsLiveStep]_<<pc, ducklingVars>>

\* One step's share of PlanKept.
PlanKeptStep ==
  pc = "put" /\ pc' = "idle" /\ said' = "ok" =>
    /\ dheld'.size = dplan.size /\ dheld'.flock = dplan.flock
    /\ dplan.cool # Unknown => dheld'.cool = dplan.cool

\* What the plan promised is in the state after the apply, whether or not the
\* answer repeats it; Terraform aborts an apply that breaks this.
PlanKept == [][PlanKeptStep]_<<pc, ducklingVars>>

\* One step's share of DucklingAsAsked.
DucklingAsAskedStep ==
  pc = "put" /\ pc' = "idle" /\ said' = "ok" /\ dwant # None =>
    /\ stored'.size = dwant.size /\ stored'.flock = dwant.flock
    /\ dwant.cool # None => stored'.cool = dwant.cool
    /\ dwant.size = Pulse => stored'.cool = None

\* An apply without an error stores what is configured, and no cooldown for
\* Pulse.
DucklingAsAsked == [][DucklingAsAskedStep]_<<pc, ducklingVars>>

\* The configuration is as configured and as the state says.
DucklingSettled ==
  IF dwant = None THEN dheld = None
  ELSE /\ dheld # None
       /\ stored.size = dwant.size /\ stored.flock = dwant.flock
       /\ dwant.cool # None \/ dwant.size = Pulse => Shown(stored).cool = dwant.cool
       /\ dheld = Shown(stored) /\ ~respelled

DucklingFeasible == dwant # None => user /\ (limited => dwant.size = Pulse)

\* Repeated applies settle, also after a plan limit left a cooldown behind.
DucklingConverges ==
  <>[](managed = "duckling" /\ DucklingFeasible) => <>[]DucklingSettled
=============================================================================
