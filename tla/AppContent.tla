----------------------------- MODULE AppContent -----------------------------
(***************************************************************************)
(* The resources whose object is content under version control: a Dive, a  *)
(* Guide and a Flight (dive_resource.go, guide_resource.go and             *)
(* flight_resource.go).                                                    *)
(*                                                                         *)
(* MotherDuck has no transaction around them.  One apply is a sequence of  *)
(* statements, each of them perhaps refused, or executed with its answer   *)
(* lost, and a read-back that may fail as well; what Terraform's state     *)
(* says afterwards decides what the next apply repeats.  A statement that  *)
(* writes content appends a version, so repeating it is visible; an error  *)
(* in a create taints the object, so the next apply destroys it.           *)
(*                                                                         *)
(* An object is abstracted to five fields: desc, a text that only the      *)
(* Guide can clear (description; a Flight's access token name), text and   *)
(* note, what a version carries (content; version description or change    *)
(* comment), api, the API version MotherDuck gives a version of a Dive     *)
(* when the statement names none, and aud, what removing it from the       *)
(* configuration keeps (status; access and its roles; instance type).      *)
(***************************************************************************)
EXTENDS Integers, Sequences

CONSTANTS
  MaxIds,      \* bound on the objects ever created
  Kinds,       \* resource types of the instance
  None,        \* an optional value that is null
  Unborn, Gone, \* an object not yet made, and one that was deleted
  Descs, Texts, Notes,
  First,       \* the content of the first configuration
  Plain, Wide, \* the audience a new object has, and one a session may not
               \* support or the user may not grant
  MaxFaults,   \* bound on statements that fail for a passing reason
  MaxEdits,    \* bound on changes of the configuration
  MaxOutside   \* bound on what happens outside Terraform

ASSUME AppContentAssumption ==
  /\ MaxIds \in Nat /\ MaxFaults \in Nat /\ MaxEdits \in Nat /\ MaxOutside \in Nat
  /\ Kinds \subseteq {"dive", "guide", "flight"}
  /\ None \notin Descs \cup Texts \cup Notes \cup {Plain, Wide}
  /\ Plain # Wide
  /\ First \in Texts

VARIABLES
  kind,     \* the resource type
  offers,   \* statements the SQL session has: "append", "access"
  admin,    \* the user may give an object the audience Wide
  default,  \* the API version MotherDuck gives a Dive at present
  live,     \* the objects: Unborn, Gone or the fields of each
  config,   \* the resource in the configuration, or None
  tf,       \* the resource in Terraform's state
  pc,       \* where the handler that runs stands, or "idle"
  todo,     \* statements Update has still to send
  sent,     \* statements it has sent with success
  plan,     \* its model
  said,     \* the worst diagnostic of the handler: "ok", "warning", "error"
  stale,    \* the state was out of date when the handler began, or something
            \* outside Terraform happened since
  excuse,   \* the state may be blind to the last version: an answer was
            \* lost, a read-back failed or somebody else wrote
  read,     \* objects that were read back into the state
  lost,     \* objects whose create statement had no answer
  faults, edits, outside

Ids == 1..MaxIds
Fields == [desc : Descs \cup {None}, text : Texts, note : Notes \cup {None},
           api : 0..MaxOutside + 1, aud : {Plain, Wide}]
\* The fields as they are read into the state: a Dive's status may be unknown.
Records == [desc : Descs \cup {None}, text : Texts, note : Notes \cup {None},
            api : 0..MaxOutside + 1, aud : {Plain, Wide, None}]
Absent == [id |-> 0, tainted |-> FALSE, rec |-> None]

Configs ==
  [desc : Descs \cup {None}, text : Texts, note : Notes \cup {None},
   aud : {Plain, Wide, None}]
ASSUME NoneIsNoContent == /\ Unborn # Gone /\ {Unborn, Gone} \cap Fields = {}
                          /\ None \notin Configs \cup Records

ConfigsOf(k) == IF k = "flight" THEN {c \in Configs : c.note = None} ELSE Configs

worldVars == <<kind, offers, admin, default, live>>
opVars == <<pc, todo, sent, plan, said>>
ghostVars == <<stale, excuse, read, lost>>
budgets == <<faults, edits, outside>>
vars == <<worldVars, config, tf, opVars, ghostVars, budgets>>

PCs == {"idle", "create", "audience", "readNew", "note", "readNote", "status",
        "readStatus", "write", "keep", "readBack", "delete"}

Init ==
  /\ kind \in Kinds
  /\ offers \in SUBSET {"append", "access"}
  /\ admin \in BOOLEAN
  /\ kind = "flight" \/ ~admin => offers = {"append", "access"}
  /\ default = IF kind = "dive" THEN 1 ELSE 0
  /\ live = [i \in Ids |-> Unborn]
  /\ config \in {c \in ConfigsOf(kind) : c.text = First}
  /\ tf = Absent
  /\ pc = "idle"
  /\ todo = <<>>
  /\ sent = {}
  /\ plan = None
  /\ said = "ok"
  /\ stale = FALSE
  /\ excuse = FALSE
  /\ read = {}
  /\ lost = {}
  /\ faults = 0 /\ edits = 0 /\ outside = 0

Alive(i) == i # 0 /\ live[i] \notin {Unborn, Gone}

-----------------------------------------------------------------------------
(* Decisions of the code.  A definition whose name starts with Slip is the *)
(* one after it as a plausible mistake would have it; no action uses it.   *)

\* Create probes what it will call after the create statement before it.
Needs(k, c) ==
  {s \in {"append", "access"} :
     \/ k = "dive" /\ s = "append" /\ c.note # None
     \/ k = "dive" /\ s = "access" /\ c.aud # None
     \/ k = "guide" /\ s = "access" /\ c.aud = Wide}

\* Slip: the create statement's ID is set with the rest of the state.
SlipIdKept(i) == Absent
\* Create: the ID is in the state before anything else can fail.
IdKept(i) == [Absent EXCEPT !.id = i, !.tainted = TRUE]

\* Slip: Update of a Guide returns whatever it has written.
SlipKeeps(k, s, done) == k = "dive" /\ done # {}
\* keepAppliedDiveUpdate, keepAppliedGuideUpdate: when statement s fails after
\* the statements done, the object is read back into the state.
Keeps(k, s, done) ==
  \/ k = "dive" /\ done # {}
  \/ k = "guide" /\ s = "access" /\ "append" \in done

\* Slip: an unset API version is never sent.
SlipPlannedApi(c, r) == 0
\* diveAPIVersionPlanModifier: kept from the state, and sent, unless the
\* content changes; 0 leaves it to MotherDuck.
PlannedApi(c, r) == IF c.text = r.text THEN r.api ELSE 0

\* The description of a version that the configuration leaves unset is kept
\* for a Dive unless its content changes.
PlannedNote(k, c, r) ==
  IF k = "dive" /\ c.note = None /\ c.text = r.text THEN r.note ELSE c.note

\* What Terraform plans for configuration c and recorded fields r.
Planned(k, c, r) ==
  [desc |-> c.desc, text |-> c.text, note |-> PlannedNote(k, c, r),
   api |-> PlannedApi(c, r), aud |-> IF c.aud = None THEN r.aud ELSE c.aud]

\* Slip: a version is needed for new content only.
SlipVersionChanged(k, p, r) == p.text # r.text
\* A new version is needed; a Dive's description that is not planned is not.
VersionChanged(k, p, r) ==
  p.text # r.text \/ (p.note # r.note /\ (k = "dive" => p.note # None))

AccessChanged(p, r) == p.aud # None /\ p.aud # r.aud

If(s, b) == IF b THEN <<s>> ELSE <<>>

\* The statements Update sends, in its order, for the plan p and recorded r.
DiveStatements(p, r) ==
  If("meta", p.desc # r.desc) \o If("append", VersionChanged("dive", p, r))
                              \o If("access", AccessChanged(p, r))
GuideStatements(p, r) ==
  If("meta", p.desc # r.desc) \o If("append", VersionChanged("guide", p, r))
                              \o If("access", AccessChanged(p, r))
FlightStatements(p, r) ==
  If("call", p.desc # r.desc \/ p.text # r.text \/ AccessChanged(p, r))

Statements(k, p, r) ==
  CASE k = "dive"   -> DiveStatements(p, r)
    [] k = "guide"  -> GuideStatements(p, r)
    [] k = "flight" -> FlightStatements(p, r)

\* MotherDuck cannot clear a Dive's description or a Flight's token name.
CannotClear(k, p, r) == k # "guide" /\ p.desc = None /\ r.desc # None

\* The fields of a Flight that differ, in its only statement.
UpdatedFlight(p, r, o) ==
  [o EXCEPT !.desc = IF p.desc # r.desc THEN p.desc ELSE @,
            !.text = IF p.text # r.text THEN p.text ELSE @,
            !.aud = IF AccessChanged(p, r) THEN p.aud ELSE @]

\* What statement s of an update from the recorded r to the plan p makes of
\* the object o.
Written(s, p, r, o) ==
  CASE s = "meta"   -> [o EXCEPT !.desc = p.desc]
    [] s = "append" -> [o EXCEPT !.text = p.text, !.note = p.note,
                                 !.api = IF p.api = 0 THEN default ELSE p.api]
    [] s = "access" -> [o EXCEPT !.aud = p.aud]
    [] s = "call"   -> UpdatedFlight(p, r, o)

\* What the read functions make of the live object i: the status of a Dive is
\* read only in a session that can set it, the token name of a Flight only if
\* the prior state has one.
ReadDive(i) == IF "access" \in offers THEN live[i] ELSE [live[i] EXCEPT !.aud = None]
ReadGuide(i) == live[i]
ReadFlight(i, prior) ==
  IF prior = None THEN [live[i] EXCEPT !.desc = None] ELSE live[i]

Reading(i, prior) == CASE kind = "dive"   -> ReadDive(i)
                       [] kind = "guide"  -> ReadGuide(i)
                       [] kind = "flight" -> ReadFlight(i, prior)

\* The server or the session refuses statement s, whatever it is repeated.
Refuses(s, p) ==
  Alive(tf.id) =>
    \/ kind # "flight" /\ s \in {"append", "access"} \ offers
                       /\ (kind = "guide" /\ s = "access" => p.aud = Wide)
    \/ s \in {"access", "call"} /\ p.aud = Wide /\ live[tf.id].aud # Wide /\ ~admin

-----------------------------------------------------------------------------
(* How a handler ends.                                                     *)

\* It returns with diagnostic v and the state t.  Terraform marks what a
\* create leaves behind an error as tainted.
End(v, t) ==
  /\ pc' = "idle"
  /\ todo' = <<>>
  /\ sent' = {}
  /\ plan' = None
  /\ said' = v
  /\ tf' = t

Fault == faults < MaxFaults /\ faults' = faults + 1
NoFault == UNCHANGED faults

\* A statement fails: for a reason that lasts, or once.
Fails(s, p) == \/ Refuses(s, p) /\ NoFault
               \/ Fault
\* A query, which is retried, fails for a passing reason.
ReadFails == Alive(tf.id) /\ Fault
ReadWorks == Alive(tf.id) /\ NoFault
ReadMisses == ~Alive(tf.id) /\ NoFault

\* Slip: the model is saved before the object is read into it.
SlipRecorded(r) == [id |-> tf.id, tainted |-> FALSE, rec |-> None]
\* The state takes the object as it was read.
Recorded(r) == [id |-> tf.id, tainted |-> FALSE, rec |-> r]
Seen == excuse' = FALSE /\ read' = read \cup {tf.id}

-----------------------------------------------------------------------------
(* Create.                                                                 *)

StartCreate ==
  /\ pc = "idle"
  /\ config # None
  /\ tf = Absent
  /\ stale' = FALSE
  /\ IF Needs(kind, config) \subseteq offers
     THEN /\ pc' = "create"
          /\ plan' = config
          /\ said' = "ok"
          /\ UNCHANGED <<tf, todo, sent>>
     ELSE End("error", Absent)
  /\ UNCHANGED <<worldVars, config, excuse, read, lost, budgets>>

\* The objects that MD_CREATE_DIVE, MD_CREATE_GUIDE and MD_CREATE_FLIGHT make:
\* the first has no version description and no status, the second no roles.
CreatedDive(c) ==
  [desc |-> c.desc, text |-> c.text, note |-> None, api |-> default, aud |-> Plain]
CreatedGuide(c) == [CreatedDive(c) EXCEPT !.note = c.note]
CreatedFlight(c) ==
  [CreatedDive(c) EXCEPT !.aud = IF c.aud # None THEN c.aud ELSE Plain]
Created == CASE kind = "dive"   -> CreatedDive(plan)
             [] kind = "guide"  -> CreatedGuide(plan)
             [] kind = "flight" -> CreatedFlight(plan)

CreateRefused == kind = "flight" /\ plan.aud = Wide /\ ~admin

CreateStatement ==
  /\ pc = "create"
  /\ \/ /\ (CreateRefused /\ NoFault) \/ Fault
        /\ End("error", Absent)
        /\ UNCHANGED <<live, lost>>
     \/ /\ ~CreateRefused
        /\ \E i \in Ids :
             /\ live[i] = Unborn
             /\ \A j \in 1..i - 1 : live[j] # Unborn
             /\ live' = [live EXCEPT ![i] = Created]
             /\ \/ /\ Fault
                   /\ lost' = lost \cup {i}
                   /\ End("error", Absent)
                \/ /\ NoFault
                   /\ UNCHANGED <<lost, todo, sent, plan, said>>
                   /\ tf' = IdKept(i)
                   /\ pc' = IF kind = "guide" /\ plan.aud = Wide THEN "audience"
                                                                 ELSE "readNew"
  /\ UNCHANGED <<kind, offers, admin, default, config, stale, excuse, read,
                 edits, outside>>

\* A Guide for roles gets them by a second statement.
Audience ==
  /\ pc = "audience"
  /\ \/ /\ Fails("access", plan)
        /\ End("error", tf)
        /\ UNCHANGED live
     \/ /\ ~Refuses("access", plan)
        /\ live' = [live EXCEPT ![tf.id].aud = plan.aud]
        /\ \/ Fault /\ End("error", tf)
           \/ NoFault /\ pc' = "readNew" /\ UNCHANGED <<tf, todo, sent, plan, said>>
  /\ UNCHANGED <<kind, offers, admin, default, config, ghostVars, edits, outside>>

\* What Create does after the object was read as r: a Dive may need its
\* description and its status.
NoteNext(r) == kind = "dive" /\ config.note # None /\ config.note # r.note
StatusNext(r) == kind = "dive" /\ config.aud # None /\ config.aud # r.aud
AfterNote(r, v) ==
  IF StatusNext(r)
  THEN pc' = "status" /\ plan' = r /\ said' = v /\ tf' = Recorded(r)
                      /\ UNCHANGED <<todo, sent>>
  ELSE End(v, Recorded(r))

ReadNew ==
  /\ pc = "readNew"
  /\ \/ /\ ReadFails \/ ReadMisses
        /\ End("error", tf)
        /\ UNCHANGED <<excuse, read>>
     \/ /\ ReadWorks
        /\ Seen
        /\ LET r == Reading(tf.id, plan.desc) IN
             IF NoteNext(r)
             THEN /\ pc' = "note" /\ plan' = r /\ tf' = Recorded(r)
                  /\ UNCHANGED <<todo, sent, said>>
             ELSE AfterNote(r, "ok")
  /\ UNCHANGED <<worldVars, config, stale, lost, edits, outside>>

\* The state that records the configured value v of field f although the
\* statement, or the reading after it, failed.
Requested(f, v) == [plan EXCEPT ![f] = v]

\* Slip: an error, and Terraform taints what is in the state.
SlipNoteFailed(r) == End("error", [Recorded(r) EXCEPT !.tainted = TRUE])
\* setCreatedDiveVersionDescription: the write failed or could not be read
\* back, which is a warning.
NoteFailed(r) == AfterNote(r, "warning")

\* The follow-up write of the version description.
WriteNote ==
  /\ pc = "note"
  /\ LET p == Requested("note", config.note) IN
       \/ /\ Fails("append", p)
          /\ NoteFailed(p)
          /\ UNCHANGED <<live, excuse>>
       \/ /\ ~Refuses("append", p)
          /\ live' = [live EXCEPT ![tf.id] = Written("append", p, plan, @)]
          /\ \/ Fault /\ excuse' = TRUE /\ NoteFailed(p)
             \/ /\ NoFault
                /\ pc' = "readNote"
                /\ UNCHANGED <<tf, todo, sent, plan, said, excuse>>
  /\ UNCHANGED <<kind, offers, admin, default, config, stale, read, lost,
                 edits, outside>>

ReadNote ==
  /\ pc = "readNote"
  /\ \/ /\ ReadFails \/ ReadMisses
        /\ excuse' = TRUE
        /\ NoteFailed(Requested("note", config.note))
        /\ UNCHANGED read
     \/ ReadWorks /\ Seen /\ AfterNote(Reading(tf.id, plan.desc), "ok")
  /\ UNCHANGED <<worldVars, config, stale, lost, edits, outside>>

\* Create keeps the configured description whether or not its write worked.
WithNote(r) == IF config.note # None THEN [r EXCEPT !.note = config.note] ELSE r

\* Slip: nothing says that the status was not set.
SlipStatusFailed(r) == End(said, Recorded(WithNote(r)))
\* setCreatedDiveStatus: the write failed or could not be read back.
StatusFailed(r) == End("warning", Recorded(WithNote(r)))

\* The follow-up write of the status.
WriteStatus ==
  /\ pc = "status"
  /\ LET p == Requested("aud", config.aud) IN
       \/ Fails("access", p) /\ StatusFailed(p) /\ UNCHANGED live
       \/ /\ ~Refuses("access", p)
          /\ live' = [live EXCEPT ![tf.id] = Written("access", p, plan, @)]
          /\ \/ Fault /\ StatusFailed(p)
             \/ /\ NoFault
                /\ pc' = "readStatus"
                /\ UNCHANGED <<tf, todo, sent, plan, said>>
  /\ UNCHANGED <<kind, offers, admin, default, config, ghostVars, edits, outside>>

ReadStatus ==
  /\ pc = "readStatus"
  /\ \/ /\ ReadFails \/ ReadMisses
        /\ StatusFailed(Requested("aud", config.aud))
        /\ UNCHANGED <<excuse, read>>
     \/ ReadWorks /\ Seen /\ End(said, Recorded(WithNote(Reading(tf.id, plan.desc))))
  /\ UNCHANGED <<worldVars, config, stale, lost, edits, outside>>

-----------------------------------------------------------------------------
(* Read, Update, Delete, ImportState.                                      *)

Refresh ==
  /\ pc = "idle"
  /\ tf # Absent
  /\ tf' = IF Alive(tf.id)
           THEN [tf EXCEPT !.rec = Reading(tf.id, IF @ = None THEN None ELSE @.desc)]
           ELSE Absent
  /\ tf' # tf
  /\ excuse' = FALSE
  /\ said' = "ok"
  /\ UNCHANGED <<worldVars, config, pc, todo, sent, plan, stale, read, lost, budgets>>

\* A Dive's functions are all probed before the first statement.
ProbesFail(k, ss) ==
  k = "dive" /\ \E i \in 1..Len(ss) : ss[i] # "meta" /\ ss[i] \notin offers

StartUpdate ==
  /\ pc = "idle"
  /\ config # None
  /\ tf # Absent
  /\ ~tf.tainted
  /\ LET p == Planned(kind, config, tf.rec)
         ss == Statements(kind, p, tf.rec)
     IN  /\ ss # <<>>
         /\ stale' = (~Alive(tf.id) \/ tf.rec # Reading(tf.id, tf.rec.desc))
         /\ IF CannotClear(kind, p, tf.rec) \/ ProbesFail(kind, ss)
            THEN End("error", tf)
            ELSE /\ pc' = "write"
                 /\ todo' = ss
                 /\ plan' = p
                 /\ said' = "ok"
                 /\ UNCHANGED <<sent, tf>>
  /\ UNCHANGED <<worldVars, config, excuse, read, lost, budgets>>

\* After a failed statement: read back what the ones before it did, or return.
Abandon(s) ==
  IF Keeps(kind, s, sent)
  THEN pc' = "keep" /\ said' = "error" /\ UNCHANGED <<todo, sent, plan, tf>>
  ELSE End("error", tf)

Write ==
  /\ pc = "write"
  /\ LET s == Head(todo) IN
       \/ Fails(s, plan) /\ Abandon(s) /\ UNCHANGED <<live, excuse>>
       \/ /\ ~Refuses(s, plan)
          /\ live' = [live EXCEPT ![tf.id] = Written(s, plan, tf.rec, @)]
          /\ \/ Fault /\ excuse' = TRUE /\ Abandon(s)
             \/ /\ NoFault
                /\ todo' = Tail(todo)
                /\ sent' = sent \cup {s}
                /\ pc' = IF Tail(todo) = <<>> THEN "readBack" ELSE "write"
                /\ UNCHANGED <<plan, said, tf, excuse>>
  /\ UNCHANGED <<kind, offers, admin, default, config, stale, read, lost,
                 edits, outside>>

\* The read-back at the end of Update ("readBack") or after an error ("keep").
ReadBack ==
  /\ pc \in {"readBack", "keep"}
  /\ \/ /\ ReadFails \/ ReadMisses
        /\ excuse' = TRUE
        /\ End("error", tf)
        /\ UNCHANGED read
     \/ ReadWorks /\ Seen /\ End(said, Recorded(Reading(tf.id, plan.desc)))
  /\ UNCHANGED <<worldVars, config, stale, lost, edits, outside>>

\* The resource is no longer configured, or is replaced because it is tainted.
StartDelete ==
  /\ pc = "idle"
  /\ tf # Absent
  /\ config = None \/ tf.tainted
  /\ pc' = "delete"
  /\ said' = "ok"
  /\ stale' = FALSE
  /\ UNCHANGED <<worldVars, config, tf, todo, sent, plan, excuse, read, lost, budgets>>

\* Delete is retried, and an object that is not found is deleted.
Delete ==
  /\ pc = "delete"
  /\ \/ Fault /\ End("error", tf) /\ UNCHANGED live
     \/ /\ live' = IF Alive(tf.id) THEN [live EXCEPT ![tf.id] = Gone] ELSE live
        /\ \/ NoFault /\ End("ok", Absent)
           \/ Fault /\ End("error", tf)
  /\ UNCHANGED <<kind, offers, admin, default, config, ghostVars, edits, outside>>

\* The practitioner imports an object that is not in the state.
Import ==
  /\ pc = "idle"
  /\ tf = Absent
  /\ \E i \in Ids :
       /\ Alive(i)
       /\ tf' = [id |-> i, tainted |-> FALSE, rec |-> Reading(i, None)]
       /\ read' = read \cup {i}
  /\ excuse' = FALSE
  /\ said' = "ok"
  /\ UNCHANGED <<worldVars, config, pc, todo, sent, plan, stale, lost, budgets>>

-----------------------------------------------------------------------------
(* The practitioner and everybody else.                                    *)

Edit ==
  /\ pc = "idle"
  /\ edits < MaxEdits
  /\ edits' = edits + 1
  /\ config' \in ConfigsOf(kind) \cup {None}
  /\ config' # config
  /\ UNCHANGED <<worldVars, tf, opVars, ghostVars, faults, outside>>

\* MotherDuck raises its API version, or somebody changes or drops an object.
Outside ==
  /\ outside < MaxOutside
  /\ outside' = outside + 1
  /\ stale' = TRUE
  /\ excuse' = TRUE
  /\ \/ kind = "dive" /\ default' = default + 1 /\ UNCHANGED live
     \/ /\ UNCHANGED default
        /\ \E i \in Ids :
             /\ Alive(i)
             /\ \E o \in {Gone} \cup {[live[i] EXCEPT !.aud = a] : a \in {Plain, Wide}}
                         \cup {[live[i] EXCEPT !.text = t, !.note = None] : t \in Texts} :
                  o # live[i] /\ live' = [live EXCEPT ![i] = o]
  /\ UNCHANGED <<kind, offers, admin, config, tf, opVars, read, lost, faults, edits>>

Next ==
  \/ StartCreate \/ CreateStatement \/ Audience \/ ReadNew \/ WriteNote \/ ReadNote
  \/ WriteStatus \/ ReadStatus \/ Refresh \/ StartUpdate \/ Write \/ ReadBack
  \/ StartDelete \/ Delete \/ Import \/ Edit \/ Outside

Spec == Init /\ [][Next]_vars

Handler == CreateStatement \/ Audience \/ ReadNew \/ WriteNote \/ ReadNote
           \/ WriteStatus
           \/ ReadStatus \/ Write \/ ReadBack \/ Delete

\* A handler runs to its end; the practitioner applies again and again, and of
\* those applies infinitely many refresh first, as terraform does by default.
Fairness ==
  /\ WF_vars(Handler)
  /\ SF_vars(Refresh)
  /\ SF_vars(StartCreate) /\ SF_vars(StartUpdate) /\ SF_vars(StartDelete)

FairSpec == Spec /\ Fairness

-----------------------------------------------------------------------------
(* Properties.                                                             *)

\* The API versions there are: only a Dive has one.
Apis == IF kind = "dive" THEN 1..outside + 1 ELSE {0}

TypeOK ==
  /\ kind \in Kinds
  /\ outside \in 0..MaxOutside
  /\ default \in Apis
  /\ live \in [Ids -> Fields \cup {Unborn, Gone}]
  /\ \A i \in Ids : live[i] \notin {Unborn, Gone} => live[i].api \in Apis
  /\ config \in Configs \cup {None}
  /\ tf \in [id : 0..MaxIds, tainted : BOOLEAN, rec : Records \cup {None}]
  /\ tf.rec # None => tf.rec.api \in Apis
  /\ tf.rec = None => tf = Absent \/ tf.tainted
  /\ tf.id = 0 => tf = Absent
  /\ tf.id # 0 => live[tf.id] # Unborn
  /\ pc \in PCs
  /\ said \in {"ok", "warning", "error"}
  /\ read \subseteq {i \in Ids : live[i] # Unborn} /\ lost \subseteq Ids

\* An object that exists and is not the one in the state was made by a create
\* statement whose answer was lost: every other failure of a create leaves
\* the object in the state.
OrphansUnanswered ==
  \A i \in Ids : Alive(i) /\ i # tf.id => i \in lost

\* What any resource promises, with the objects that exist and, of those, the
\* ones whose create statement had no answer.
Present == {i \in Ids : Alive(i)}
Managed == INSTANCE ManagedObject
  WITH Objects <- Ids, Nobody <- 0, wanted <- config # None, present <- Present,
       strays <- Present \cap lost, held <- tf.id, doubted <- tf.tainted,
       meddled <- outside

\* Whatever fails, the handlers of a Dive, a Guide and a Flight keep to
\* ManagedObject: no object that was answered for is lost sight of, and none is
\* destroyed without a reason or doubted once it was read.
ImplementsManaged == Managed!Spec

\* The handler that ends has neither failed nor warned.
EndsWell == pc # "idle" /\ pc' = "idle" /\ said' = "ok"

\* What configuration c asks of the object o of kind k, and what the state
\* records of it.
Meets(k, c, o) ==
  /\ o.text = c.text
  /\ o.desc = c.desc \/ (k = "flight" /\ c.desc = None)
  /\ o.note = c.note \/ (k = "dive" /\ c.note = None)
  /\ o.aud = c.aud \/ c.aud = None

\* The object of the state is as configured and as the state says.
Settled ==
  IF config = None THEN tf = Absent
  ELSE /\ Alive(tf.id)
       /\ ~tf.tainted
       /\ Meets(kind, config, live[tf.id])
       /\ tf.rec = Reading(tf.id, tf.rec.desc)

\* An apply that reports neither an error nor a warning, from a state that
\* was up to date, leaves it as configured and as recorded.
AppliedOrTold ==
  [][EndsWell /\ ~stale' /\ tf'.id # 0 => Settled']_vars

\* A version that repeats the current one is about to be appended only if the state
\* may be blind to it: an answer was lost, a read-back failed, or somebody else
\* wrote.  A failure of a later statement alone is no reason.
RepeatsExcused ==
  /\ pc = "write" /\ Head(todo) = "append"
  /\ Alive(tf.id)
  /\ plan.text = live[tf.id].text
  /\ plan.note = live[tf.id].note
  => excuse

\* An object that was once read back into the state is destroyed only when it
\* is no longer configured: no failed apply replaces it under a new ID.
ReadNeverReplaced ==
  [][\A i \in read : pc = "delete" /\ Alive(i) /\ ~Alive(i)' /\ outside' = outside
                   => config = None]_vars

\* A statement of Terraform moves a Dive to another API version only with
\* new content, unless the state was blind to the version it replaces.
NoSilentMigration ==
  [][\A i \in Ids : Alive(i) /\ Alive(i)' /\ live'[i].api # live[i].api /\ ~excuse
                      => live'[i].text # live[i].text]_vars

\* What the configuration asks can be had.
Feasible ==
  config # None =>
    /\ Needs(kind, config) \subseteq offers
    /\ kind = "dive" => {"append", "access"} \subseteq offers
    /\ "append" \in offers
    /\ config.aud = Wide => admin
    /\ tf.rec # None => ~CannotClear(kind, config, tf.rec)

\* The bound on the objects is not used up.
Room == \E i \in Ids : live[i] = Unborn

\* Repeated applies settle: once nothing fails and nobody edits any more, the
\* object becomes and stays what is configured, or its removal is complete.
Converges == <>[](Feasible /\ Room) => <>[]Settled

-----------------------------------------------------------------------------
(* The inductive invariant behind the safety properties.                   *)

Creating == {"create", "audience", "readNew"}
Following == {"note", "readNote", "status", "readStatus"}
Updating == {"write", "keep", "readBack"}

\* What a handler knows of its model and of the configuration.
HandlerInv ==
  /\ pc \in Creating \cup Following => config # None
  /\ pc \in Creating => plan = config
  /\ pc = "create" => tf = Absent
  /\ pc \notin {"idle", "create"} => tf.id # 0
  /\ pc \in {"audience", "readNew"} => tf.tainted /\ tf.rec = None
  /\ pc = "audience" => plan.aud = Wide
  /\ pc \in Following => kind = "dive" /\ plan = tf.rec
  /\ pc = "note" => config.note # None
  /\ pc \in {"status", "readStatus"} => config.aud # None
  /\ pc \in Following \cup Updating => ~tf.tainted
  /\ pc \in Updating => plan \in Records /\ plan.api \in Apis \cup {0}
  /\ pc = "delete" => config = None \/ tf.tainted
  /\ pc \notin Updating => sent = {}
  /\ tf.tainted => tf.id \notin read

\* The statements still to be sent: in their order, each with its reason.
TodoInv ==
  pc = "write" =>
    /\ IF kind = "flight" THEN todo = <<"call">>
       ELSE todo \in {<<"meta">>, <<"append">>, <<"access">>, <<"meta", "append">>,
                      <<"meta", "access">>, <<"append", "access">>,
                      <<"meta", "append", "access">>}
    /\ "append" \in sent => todo = <<"access">>
    /\ \A i \in 1..Len(todo) :
         /\ todo[i] = "append" => VersionChanged(kind, plan, tf.rec)
         /\ todo[i] = "access" => plan.aud # None
    /\ plan.text = tf.rec.text => plan.api = tf.rec.api

\* The state knows the last version, up to a note of a Dive that could not be
\* written and is recorded all the same.
KnowsVersion(o) ==
  /\ tf.rec.text = o.text /\ tf.rec.api = o.api
  /\ tf.rec.note = o.note \/ (kind = "dive" /\ o.note = None)
SightInv ==
  Alive(tf.id) =>
    /\ ~excuse /\ tf.rec # None
       /\ pc \in {"idle", "note", "status", "readStatus", "write", "delete"}
       /\ "append" \notin sent
         => KnowsVersion(live[tf.id])
    /\ kind = "dive" /\ pc \in Creating \cup {"note"} => live[tf.id].note = None
    /\ pc \in Following => live[tf.id].note \in {None, config.note}

IInv == TypeOK /\ HandlerInv /\ TodoInv /\ SightInv /\ OrphansUnanswered

\* What the object o has of the configuration while its create goes on.
CreatedSoFar(o) ==
  /\ o.text = config.text /\ o.desc = config.desc
  /\ kind # "dive" => o.note = config.note
  /\ kind # "dive" /\ pc = "readNew" => config.aud \in {None, o.aud}
  /\ pc \in Following => plan.text = config.text
  /\ pc = "readNote" => o.note = config.note
  /\ pc \in {"status", "readStatus"} /\ said = "ok" => config.note \in {None, o.note}
  /\ pc = "readStatus" => o.aud = config.aud

\* What it has of the configuration while its update goes on: whatever no
\* statement has still to write.
Pending(s) == \E i \in 1..Len(todo) : todo[i] = s
UpdatedSoFar(o) ==
  /\ pc = "write" /\ kind = "flight" => tf.rec = Reading(tf.id, tf.rec.desc)
  /\ pc = "write" /\ kind # "flight" =>
       /\ ~Pending("meta") => o.desc = config.desc
       /\ ~Pending("append") =>
            /\ o.text = config.text
            /\ o.note = config.note \/ (kind = "dive" /\ config.note = None)
       /\ ~Pending("access") => config.aud \in {None, o.aud}
  /\ pc = "readBack" => Meets(kind, config, o)

\* A Flight has no version description.
NotesInv ==
  /\ config # None => config \in ConfigsOf(kind)
  /\ kind = "flight" => \A i \in Ids : Alive(i) => live[i].note = None

\* What a write relies on: unless somebody interfered its object is there, and
\* has what the statements so far had to give it.
ApplyInv ==
  /\ NotesInv
  /\ pc \in {"write", "readBack"}
       => config # None /\ plan = Planned(kind, config, tf.rec)
  /\ pc = "keep" => said = "error"
  /\ pc \in {"audience", "readNew"} \cup Following /\ ~stale
       => Alive(tf.id) /\ CreatedSoFar(live[tf.id])
  /\ pc \in {"write", "readBack"} /\ ~stale
       => Alive(tf.id) /\ UpdatedSoFar(live[tf.id])

=============================================================================
