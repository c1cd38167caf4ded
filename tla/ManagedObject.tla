---------------------------- MODULE ManagedObject ----------------------------
(***************************************************************************)
(* What the handlers of a resource promise of the objects at MotherDuck,   *)
(* whatever the type: an object is made only for a configuration that      *)
(* wants it and while the state names none; it is then named in the state  *)
(* until it is gone, unless its create had no answer or a delete gave it   *)
(* up; Terraform destroys it only if it is not wanted or doubted, and only *)
(* a create leaves doubts, which are never raised again once they are      *)
(* cleared.                                                                *)
(***************************************************************************)
EXTENDS Integers

CONSTANTS
  Objects,  \* the objects there may be
  Nobody    \* what the state names when the resource is not in it

VARIABLES
  wanted,   \* the configuration asks for the object that the state names, or,
            \* when it names none, for one
  present,  \* the objects that exist
  strays,   \* those of them that no state needs to name
  held,     \* the object that the state names
  doubted,  \* a create has failed after it made that object
  meddled   \* how often somebody else has been at work

vars == <<wanted, present, strays, held, doubted, meddled>>

Init ==
  /\ wanted \in BOOLEAN
  /\ present = {}
  /\ strays = {}
  /\ held = Nobody
  /\ doubted = FALSE
  /\ meddled = 0

\* A create statement made an object.  Its answer is the only thing that can
\* be lost: from then on the state has it.
Make(o) ==
  /\ wanted /\ held = Nobody
  /\ o \notin present
  /\ present' = present \cup {o}
  /\ \/ held' = o /\ doubted' \in BOOLEAN /\ strays' \in {strays, strays \cup {o}}
     \/ UNCHANGED <<held, doubted>> /\ strays' = strays \cup {o}
  /\ UNCHANGED meddled

\* The practitioner imports an object, or a grant that exists is granted.
Adopt(o) ==
  /\ held = Nobody
  /\ held' = o
  /\ doubted' \in BOOLEAN
  /\ UNCHANGED <<present, strays, meddled>>

\* An update makes again what the state names and somebody has dropped.
Restore ==
  /\ wanted /\ ~doubted
  /\ held \notin present \cup {Nobody}
  /\ present' = present \cup {held}
  /\ strays' \in {strays, strays \cup {held}}
  /\ UNCHANGED <<held, doubted, meddled>>

\* The object was read back.
Trust ==
  /\ doubted
  /\ doubted' = FALSE
  /\ UNCHANGED <<present, strays, held, meddled>>

LeavesState == held' = Nobody /\ doubted' = FALSE

\* A delete that works, or works without an answer.
Destroy ==
  /\ ~wanted \/ doubted
  /\ held \in present
  /\ present' = present \ {held}
  /\ strays' = strays \ {held}
  /\ LeavesState \/ UNCHANGED <<held, doubted>>
  /\ UNCHANGED meddled

\* A delete is misled about an object that exists.
GiveUp ==
  /\ ~wanted \/ doubted
  /\ held \in present
  /\ strays' = strays \cup {held}
  /\ LeavesState
  /\ UNCHANGED <<present, meddled>>

\* A refresh or a delete sees that the object is gone.
Forget ==
  /\ held \notin present
  /\ LeavesState
  /\ UNCHANGED <<present, strays, meddled>>

\* Somebody else drops objects and makes objects of their own.
Meddle ==
  /\ meddled' = meddled + 1
  /\ present' \subseteq Objects
  /\ strays' \subseteq present'
  /\ present' \ strays' \subseteq present \ strays
  /\ UNCHANGED <<held, doubted>>

Step ==
  \/ \E o \in Objects : Make(o) \/ Adopt(o)
  \/ Restore \/ Trust \/ Destroy \/ GiveUp \/ Forget \/ Meddle
  \/ UNCHANGED <<present, strays, held, doubted, meddled>>

\* Configurations change, and what is recorded of the object changes what
\* they ask for.
Next == Step /\ wanted' \in BOOLEAN

Spec == Init /\ [][Next]_vars
=============================================================================
