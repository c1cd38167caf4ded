---------------------------- MODULE CatalogObject ----------------------------
(***************************************************************************)
(* The resources whose object has a name in the SQL catalog and no version:*)
(* schema, table, view, secret, share, share grant, secure view of a       *)
(* share, role, role assignment, database and Iceberg database.            *)
(*                                                                         *)
(* Terraform knows such an object by its name alone.  Three notions of the *)
(* same name meet: the configuration's text, MotherDuck's collation, which *)
(* ignores all letter case, and DuckDB's, which folds ASCII letters only,  *)
(* so that `Apfel` and `apfel` are one table and, with an umlaut, two.  A  *)
(* create is sent once and is never a replacement, its read-back may fail  *)
(* when the object is there, a delete may be repeated, and a not-found     *)
(* error may be about the object or about something else.                  *)
(*                                                                         *)
(* A name is a triple: a word, the case of its non-ASCII letter and the    *)
(* case of its ASCII letters.  The definition of an object (columns, body, *)
(* scope, include pattern, retention, options) is one of the Bodies.       *)
(***************************************************************************)
EXTENDS Integers

CONSTANTS
  Kinds,         \* resource types of the instance
  Words,         \* names that differ in more than letter case
  None,          \* null, absent or not known
  First, Alias, Second, \* bodies; Alias is a spelling that MotherDuck reports as
                 \* First (of an Iceberg database: other options of the same
                 \* catalog), Second is another body
  MaxFaults,     \* bound on calls that fail for a passing reason
  MaxEdits,      \* bound on changes of the configuration and on imports
  MaxOutside     \* bound on what happens outside Terraform

AllKinds == {"schema", "table", "view", "secret", "share", "share_grant",
             "secure_view", "role", "role_grant", "database", "iceberg"}

ASSUME CatalogObjectAssumption ==
  /\ Kinds \subseteq AllKinds
  /\ MaxFaults \in Nat /\ MaxEdits \in Nat /\ MaxOutside \in Nat
  /\ First # Alias /\ First # Second /\ Alias # Second
  /\ None \notin {First, Alias, Second}

VARIABLES
  kind,     \* the resource type
  parent,   \* the database, share or grantee that the object belongs to exists
  live,     \* the catalog: None or the object under each key
  config,   \* the resource in the configuration, or None
  tf,       \* the resource in Terraform's state, or None
  pc,       \* where the handler that runs stands, or "idle"
  plan,     \* its model
  said,     \* the worst diagnostic of the handler: "ok", "warning", "error"
  stale,    \* the state was out of date when the handler began, or something
            \* outside Terraform happened since
  misled,   \* the keys that a Delete gave up for a not-found error about
            \* something else
  faults, edits, outside

Names == {n \in Words \X {0, 1} \X {0, 1} : n[2] + n[3] <= 1}
Keys == Words \X {0, 1}
Bodies == {First, Alias, Second}
Objects == [by : {"terraform", "unanswered", "other"}, name : Names, body : Bodies]
Records == [name : Names, body : Bodies \cup {None}, seen : Bodies \cup {None},
            tainted : BOOLEAN]
Models == [name : Names, body : Bodies \cup {None}]
ASSUME NoneIsNoObject == None \notin Objects \cup Records \cup Models

worldVars == <<kind, parent, live>>
opVars == <<pc, plan, said>>
budgets == <<faults, edits, outside>>
vars == <<worldVars, config, tf, opVars, stale, misled, budgets>>

-----------------------------------------------------------------------------
(* Names.                                                                  *)

\* catalogNamesEqual: DuckDB folds the ASCII letters only.
CatalogNamesEqual(x, y) == x[1] = y[1] /\ x[2] = y[2]
\* strings.EqualFold, and MotherDuck's collation.
EqualFold(x, y) == x[1] = y[1]

\* Objects that DuckDB names, and those that MotherDuck names.
DuckDBNames(k) == k \in {"schema", "table", "view", "secret", "secure_view"}
\* What a statement on name n acts on.
Key(n) == <<n[1], IF DuckDBNames(kind) THEN n[2] ELSE 0>>

\* The rows a catalog query finds for n: it compares with lower().
Rows(n) == {live[key] : key \in {q \in Keys : q[1] = n[1]}} \ {None}

\* Slip: every row that lower() finds is taken.
SlipMatchCatalogRow(rows, n) == rows
\* matchCatalogRow keeps the row that DDL on n would resolve.
MatchCatalogRow(rows, n) == {o \in rows : CatalogNamesEqual(o.name, n)}
\* A secret that only lower() finds is still found when there is no other.
SecretByName(rows, n) ==
  IF \E o \in rows : CatalogNamesEqual(o.name, n)
  THEN {o \in rows : CatalogNamesEqual(o.name, n)} ELSE rows

\* The object that the queries of a read find under the name n, if any.
Found(n) == CASE kind = "secret"                    -> SecretByName(Rows(n), n)
              [] DuckDBNames(kind) /\ kind # "secret" -> MatchCatalogRow(Rows(n), n)
              [] ~DuckDBNames(kind)                 -> Rows(n)

\* identifierRequiresReplace, for shares, secure views' shares and principals.
IdentifierReplaces(n, r) == ~EqualFold(n, r)
\* Slip: a database name compares as a schema's does.
SlipDatabaseRejects(n, r) == FALSE
\* databaseIdentifierRequiresReplace: the client cannot attach this spelling.
DatabaseRejects(n, r) == EqualFold(n, r) /\ ~CatalogNamesEqual(n, r)
DatabaseReplaces(n, r) == ~EqualFold(n, r)
\* Slip: any other text is another name.
SlipCatalogReplaces(n, r) == n # r
\* catalogIdentifierRequiresReplace.
CatalogReplaces(n, r) == ~CatalogNamesEqual(n, r)
\* stringRequiresReplace, for roles.
TextReplaces(n, r) == n # r

NameRejected(n, r) == kind \in {"database", "iceberg"} /\ DatabaseRejects(n, r)
NameReplaces(n, r) ==
  CASE DuckDBNames(kind)                             -> CatalogReplaces(n, r)
    [] kind \in {"share", "share_grant", "role_grant"} -> IdentifierReplaces(n, r)
    [] kind = "role"                                 -> TextReplaces(n, r)
    [] kind \in {"database", "iceberg"}              -> DatabaseReplaces(n, r)

-----------------------------------------------------------------------------
(* Bodies.                                                                 *)

HasBody(k) == k \notin {"schema", "share_grant", "role", "role_grant"}

\* What MotherDuck reports of the body b: canonical column types, the rendered
\* definition or scope, the trimmed query.
Canonical(b) == IF b = Alias /\ kind # "iceberg" THEN First ELSE b

\* Options that identify the catalog of an Iceberg database cannot be altered.
SameCatalog(b, c) == (b = Second) = (c = Second)
\* Slip: options are compared with themselves and never altered.
SlipIcebergAltered(p, o) == o
\* databaseIcebergAlterAssignments: the other options become those of the plan;
\* those of another catalog are not told apart.
IcebergAltered(p, o) ==
  IF SameCatalog(p, o) THEN p ELSE IF o = Second THEN Second ELSE First
\* icebergOptionsManaged: only options in both state and plan identify it.
IcebergReplaces(p, r) == p # None /\ r # None /\ ~SameCatalog(p, r)

\* Slip: column types that are spelled differently differ.
SlipColumnsEquivalent(p, r) == p = r
\* tableColumnMapsEquivalent: same spelling, or same canonical types.
ColumnsEquivalent(p, r) == r # None /\ Canonical(p) = Canonical(r)
\* The ModifyPlan of a table replaces it unless its columns are equivalent.
TableReplaces(p, r) == ~ColumnsEquivalent(p, r)

Replaces(c, r) ==
  \/ NameReplaces(c.name, r.name)
  \/ kind = "table" /\ TableReplaces(c.body, r.body)
  \/ kind = "iceberg" /\ IcebergReplaces(c.body, r.body)

\* Slip: the scope that was read back is not compared.
SlipScopeDiffers(c, r) == FALSE
\* The ModifyPlan of a secret compares the rendered scope with the live one.
ScopeDiffers(c, r) == r.seen # None /\ Canonical(c.body) # r.seen

\* Terraform plans a change.
Differs(c, r) == \/ c.name # r.name \/ c.body # r.body
                 \/ kind = "secret" /\ ScopeDiffers(c, r)

\* Configurations that the validators let through.
ShareConfigs == [name : Names, body : {First, Second}]
DatabaseConfigs == [name : Names, body : {First, Second}]
IcebergConfigs == [name : Names, body : Bodies \cup {None}]
RoleConfigs == [name : {n \in Names : n[2] = 0 /\ n[3] = 0}, body : {First}]
ConfigsOf(k) ==
  CASE k = "share"    -> ShareConfigs
    [] k = "database" -> DatabaseConfigs
    [] k = "iceberg"  -> IcebergConfigs
    [] k = "role"     -> RoleConfigs
    [] k \in {"schema", "share_grant", "role_grant"} -> [name : Names, body : {First}]
    [] k \in {"table", "view", "secret", "secure_view"} -> [name : Names, body : Bodies]

-----------------------------------------------------------------------------
(* What the handlers of each type do.                                      *)

\* Create and the write of Update.  needs: the statement works in the parent;
\* reads: the object is read back; missed: the diagnostic when that fails.
Write(needs, reads, missed) == [needs |-> needs, reads |-> reads, missed |-> missed]
SchemaCreate == Write(TRUE, FALSE, "ok")
TableCreate == Write(TRUE, FALSE, "ok")
ViewWrite == Write(TRUE, TRUE, "error")
SecretWrite == Write(FALSE, TRUE, "error")
ShareCreate == Write(FALSE, TRUE, "error")
ShareGrantCreate == Write(TRUE, FALSE, "ok")
\* Slip: a secure view that cannot be read back is an error.
SlipSecureViewWrite == Write(TRUE, TRUE, "error")
\* An error would taint the secure view, and replacing it exposes its table.
SecureViewWrite == Write(TRUE, TRUE, "warning")
RoleCreate == Write(FALSE, TRUE, "error")
RoleGrantCreate == Write(TRUE, TRUE, "error")
DatabaseCreate == Write(FALSE, TRUE, "error")

WriteOf == CASE kind = "schema"      -> SchemaCreate
             [] kind = "table"       -> TableCreate
             [] kind = "view"        -> ViewWrite
             [] kind = "secret"      -> SecretWrite
             [] kind = "share"       -> ShareCreate
             [] kind = "share_grant" -> ShareGrantCreate
             [] kind = "secure_view" -> SecureViewWrite
             [] kind = "role"        -> RoleCreate
             [] kind = "role_grant"  -> RoleGrantCreate
             [] kind \in {"database", "iceberg"} -> DatabaseCreate

Reachable == WriteOf.needs => parent

\* Update sends a statement; otherwise the change is one of letter case or of
\* spelling.
ViewUpdates(c, r) == c.body # r.body
SecureViewUpdates(c, r) == c.body # r.body
SecretUpdates(c, r) == TRUE
ShareUpdates(c, r) == c.body # r.body
DatabaseUpdates(c, r) == c.body # r.body /\ c.body # None
Updates(c, r) ==
  CASE kind = "view"        -> ViewUpdates(c, r)
    [] kind = "secure_view" -> SecureViewUpdates(c, r)
    [] kind = "secret"      -> SecretUpdates(c, r)
    [] kind = "share"       -> ShareUpdates(c, r)
    [] kind \in {"database", "iceberg"} -> DatabaseUpdates(c, r)
    [] kind \in {"schema", "table", "share_grant", "role", "role_grant"} -> FALSE

\* Update reads the object although it sent nothing.
ReadsAnyway == kind \in {"share", "database", "iceberg"}

\* CREATE OR REPLACE and ADD OR REPLACE make an object that is not there;
\* ALTER needs one.
OrReplace == kind \in {"view", "secret", "secure_view"}

\* Delete: it repeats a statement that failed, and takes a not-found error for
\* the absence of the object whatever it is about.
Drop(repeats, anyNotFound) == [repeats |-> repeats, anyNotFound |-> anyNotFound]
SchemaDelete == Drop(TRUE, TRUE)
DropRelation == Drop(FALSE, TRUE)
SecretDelete == Drop(TRUE, TRUE)
ShareDelete == Drop(TRUE, FALSE)
ShareGrantDelete == Drop(TRUE, TRUE)
SecureViewDelete == Drop(TRUE, FALSE)
RoleDelete == Drop(TRUE, FALSE)
RoleGrantDelete == Drop(TRUE, TRUE)
DatabaseDelete == Drop(TRUE, FALSE)

DeleteOf == CASE kind = "schema"      -> SchemaDelete
              [] kind \in {"table", "view"} -> DropRelation
              [] kind = "secret"      -> SecretDelete
              [] kind = "share"       -> ShareDelete
              [] kind = "share_grant" -> ShareGrantDelete
              [] kind = "secure_view" -> SecureViewDelete
              [] kind = "role"        -> RoleDelete
              [] kind = "role_grant"  -> RoleGrantDelete
              [] kind \in {"database", "iceberg"} -> DatabaseDelete

\* What Read makes of the prior state r and the object o.
ReadTable(r, o) == IF ColumnsEquivalent(r.body, o.body) THEN r ELSE [r EXCEPT !.body = o.body]
ReadView(r, o) == IF r.seen = None THEN [r EXCEPT !.body = o.body, !.seen = o.body]
                  ELSE IF r.seen # o.body THEN [r EXCEPT !.body = o.body] ELSE r
ReadSecret(r, o) == [r EXCEPT !.seen = o.body]
ReadShare(r, o) == [r EXCEPT !.body = o.body]
ReadSecureView(r, o) ==
  IF r.body # None /\ Canonical(r.body) = o.body THEN r ELSE [r EXCEPT !.body = o.body]
ReadDatabase(r, o) == [r EXCEPT !.body = o.body]
Reading(r, o) ==
  CASE kind = "table"       -> ReadTable(r, o)
    [] kind = "view"        -> ReadView(r, o)
    [] kind = "secret"      -> ReadSecret(r, o)
    [] kind = "share"       -> ReadShare(r, o)
    [] kind = "secure_view" -> ReadSecureView(r, o)
    [] kind = "database"    -> ReadDatabase(r, o)
    [] kind \in {"schema", "share_grant", "role", "role_grant", "iceberg"} -> r

\* Slip: any not-found error in a read is about the object.
SlipForgets(cause) == cause # "passing"
\* isNotFoundFor, shareGrantReadDecision, isShareMissingOrNotOwned: a not-found
\* error that names the object or what it belongs to.
Forgets(cause) == cause = "own"

-----------------------------------------------------------------------------
(* How a handler ends.                                                     *)

End(v, t) == pc' = "idle" /\ plan' = None /\ said' = v /\ tf' = t
Fault == faults < MaxFaults /\ faults' = faults + 1
NoFault == UNCHANGED faults

\* The model p in the state, with what was seen of the object.
Recorded(p, seen) == [name |-> p.name, body |-> p.body, seen |-> seen, tainted |-> FALSE]
\* After an error in Create Terraform taints what is in the state.
Tainted(p) == [Recorded(p, None) EXCEPT !.tainted = TRUE]

\* What a read-back under the name n finds.
Sees(n) == IF WriteOf.needs /\ ~parent THEN {} ELSE Found(n)
\* The record of the model p after the object o was read back into it.
ReadInto(p, o) == IF kind = "view" THEN Recorded(p, o.body) ELSE Reading(Recorded(p, None), o)

-----------------------------------------------------------------------------
(* Create.                                                                 *)

StartCreate ==
  /\ pc = "idle" /\ config # None /\ tf = None
  /\ kind = "iceberg" => config.body # None
  /\ pc' = "create"
  /\ plan' = config
  /\ said' = "ok"
  /\ stale' = FALSE
  /\ UNCHANGED <<worldVars, config, tf, misled, budgets>>

\* The object that the create statement makes.
CreatedBy(who) ==
  [by |-> who, name |-> plan.name,
   body |-> IF plan.body = None THEN First ELSE Canonical(plan.body)]

\* A grant that exists is granted again or refused.
Grant == kind \in {"share_grant", "role_grant"}

\* Slip: the state is set after the read-back only.
SlipKept(p) == None
\* The state is set, or, for a share, made ready, before the read-back: an
\* error that follows leaves the object tainted there.
Kept(p) == Tainted(p)

\* No create is OR REPLACE and none is repeated.
Create ==
  /\ pc = "create"
  /\ LET taken == live[Key(plan.name)] # None
     IN \/ /\ \/ ~Reachable \/ taken
              \/ faults < MaxFaults
           /\ IF ~Reachable \/ taken THEN NoFault ELSE Fault
           /\ End("error", None)
           /\ UNCHANGED live
        \/ /\ Reachable
           /\ taken => Grant
           /\ \/ /\ Fault
                 /\ live' = IF taken THEN live
                            ELSE [live EXCEPT ![Key(plan.name)] = CreatedBy("unanswered")]
                 /\ End("error", None)
              \/ /\ NoFault
                 /\ live' = IF taken THEN live
                            ELSE [live EXCEPT ![Key(plan.name)] = CreatedBy("terraform")]
                 /\ IF WriteOf.reads
                    THEN pc' = "readNew" /\ tf' = Kept(plan) /\ UNCHANGED <<plan, said>>
                    ELSE End("ok", Recorded(plan, None))
  /\ UNCHANGED <<kind, parent, config, stale, misled, edits, outside>>

\* A read-back that fails, or finds nothing, is reported as WriteOf.missed says.
Missed == IF WriteOf.missed = "error" THEN End("error", tf)
                                      ELSE End("warning", Recorded(plan, None))

ReadNew ==
  /\ pc = "readNew"
  /\ \/ Fault /\ Missed
     \/ NoFault /\ Sees(plan.name) = {} /\ Missed
     \/ NoFault /\ \E o \in Sees(plan.name) : End("ok", ReadInto(plan, o))
  /\ UNCHANGED <<worldVars, config, stale, misled, edits, outside>>

-----------------------------------------------------------------------------
(* Read.                                                                   *)

\* The first query fails, says that the object or its parent is gone, or finds
\* the object; the body of a relation takes a second one.
Refresh ==
  /\ pc = "idle" /\ tf # None
  /\ stale' = FALSE
  /\ \/ \E cause \in {"passing", "unrelated"} :
          Fault /\ End("error", IF Forgets(cause) THEN None ELSE tf)
     \/ NoFault /\ Sees(tf.name) = {} /\ Forgets("own") /\ End("ok", None)
     \/ /\ NoFault
        /\ kind \in {"table", "view"} /\ Sees(tf.name) # {}
        /\ pc' = "readMore" /\ said' = "ok" /\ UNCHANGED <<plan, tf>>
     \/ /\ NoFault
        /\ kind \notin {"table", "view"}
        /\ \E o \in Sees(tf.name) : End("ok", Reading(tf, o))
  /\ UNCHANGED <<worldVars, config, misled, edits, outside>>

\* The columns of a table that went away meanwhile are none.
ReadMore ==
  /\ pc = "readMore"
  /\ \/ Fault /\ End("error", tf)
     \/ /\ NoFault
        /\ Sees(tf.name) = {}
        /\ End("ok", IF kind = "table" THEN [tf EXCEPT !.body = None] ELSE tf)
     \/ NoFault /\ \E o \in Sees(tf.name) : End("ok", Reading(tf, o))
  /\ UNCHANGED <<worldVars, config, stale, misled, edits, outside>>

-----------------------------------------------------------------------------
(* ModifyPlan and Update.                                                  *)

\* What the state r says of the object o is so, as far as it says anything.
Knows(r, o) ==
  CASE kind = "secret"  -> r.seen = o.body
    [] kind = "iceberg" -> r.body # None /\ SameCatalog(r.body, o.body) => r.body = o.body
    [] kind \notin {"secret", "iceberg"} /\ HasBody(kind) -> Canonical(r.body) = o.body
    [] ~HasBody(kind)   -> TRUE

\* The object that the statements on tf.name act on.
Own == live[Key(tf.name)]
UpToDate == Reachable /\ Own # None /\ Knows(tf, Own)

\* A plan that neither replaces the object nor is rejected.  Comparing the
\* columns of a table takes a query; when it fails, so does the plan.
StartUpdate ==
  /\ pc = "idle" /\ config # None /\ tf # None
  /\ ~tf.tainted
  /\ Differs(config, tf)
  /\ stale' = ~UpToDate
  /\ \/ /\ NameRejected(config.name, tf.name)
        /\ NoFault /\ End("error", tf)
     \/ /\ kind = "table" /\ config.body # tf.body
        /\ Fault /\ End("error", tf)
     \/ /\ ~NameRejected(config.name, tf.name) /\ ~Replaces(config, tf)
        /\ NoFault
        /\ pc' = "update" /\ plan' = config /\ said' = "ok" /\ UNCHANGED tf
  /\ UNCHANGED <<worldVars, config, misled, edits, outside>>

\* The body that the write of Update leaves under the key.
Written(o) == IF kind = "iceberg" THEN IcebergAltered(plan.body, o.body)
                                  ELSE Canonical(plan.body)

\* The scope of a secret is computed: every update plans it as unknown, which
\* is saved as null.
SavedSeen == IF kind = "secret" THEN None ELSE tf.seen

\* The state before the read-back of Update: that of a view and of a secret has
\* the plan, the others have the prior one until the end.
Saved == IF kind \in {"view", "secret"} THEN Recorded(plan, SavedSeen) ELSE tf

\* Update without a statement.  That of a table compares again.
UpdateName ==
  /\ pc = "update"
  /\ ~Updates(plan, tf)
  /\ \/ kind = "table" /\ plan.body # tf.body /\ Fault /\ End("error", tf)
     \/ /\ NoFault
        /\ IF ReadsAnyway THEN pc' = "readBack" /\ UNCHANGED <<plan, said, tf>>
                          ELSE End("ok", Recorded(plan, tf.seen))
  /\ UNCHANGED <<worldVars, config, stale, misled, edits, outside>>

Update ==
  /\ pc = "update"
  /\ Updates(plan, tf)
  /\ LET key == Key(plan.name)
         missing == ~Reachable \/ (live[key] = None /\ ~OrReplace)
     IN \/ /\ IF missing THEN NoFault ELSE Fault
           /\ End("error", tf)
           /\ UNCHANGED live
        \/ /\ ~missing
           /\ live' = [live EXCEPT ![key] =
                IF @ = None THEN CreatedBy("terraform") ELSE [@ EXCEPT !.body = Written(live[key])]]
           /\ \/ Fault /\ End("error", tf)
              \/ NoFault /\ pc' = "readBack" /\ tf' = Saved /\ UNCHANGED <<plan, said>>
  /\ UNCHANGED <<kind, parent, config, stale, misled, edits, outside>>

\* The read-back of Update: an error leaves the plan in the state, an object
\* that is not listed leaves that of a share or a database as it was.
ReadBack ==
  /\ pc = "readBack"
  /\ LET lost == Recorded(plan, tf.seen)
     IN \/ Fault /\ End(WriteOf.missed, lost)
        \/ /\ NoFault /\ Sees(plan.name) = {}
           /\ End(WriteOf.missed, IF ReadsAnyway THEN tf ELSE lost)
        \/ NoFault /\ \E o \in Sees(plan.name) : End("ok", ReadInto(plan, o))
  /\ UNCHANGED <<worldVars, config, stale, misled, edits, outside>>

-----------------------------------------------------------------------------
(* Delete and ImportState.                                                 *)

\* The resource is no longer configured, or is replaced.
StartDelete ==
  /\ pc = "idle" /\ tf # None
  /\ IF config = None THEN TRUE
     ELSE tf.tainted \/ (Replaces(config, tf) /\ ~NameRejected(config.name, tf.name))
  /\ pc' = "delete"
  /\ said' = "ok"
  /\ stale' = ~UpToDate
  /\ UNCHANGED <<worldVars, config, tf, plan, misled, budgets>>

Delete ==
  /\ pc = "delete"
  /\ \/ Fault /\ End("error", tf) /\ UNCHANGED <<live, misled>>
     \/ /\ Fault /\ DeleteOf.anyNotFound
        /\ End("ok", None)
        /\ misled' = misled \cup {Key(tf.name)}
        /\ UNCHANGED live
     \/ /\ ~Reachable
        /\ NoFault /\ End("ok", None) /\ UNCHANGED <<live, misled>>
     \/ /\ Reachable
        /\ live' = [live EXCEPT ![Key(tf.name)] = None]
        /\ UNCHANGED misled
        /\ \/ NoFault /\ End("ok", None)
           \/ Fault /\ End("error", tf)
           \/ Fault /\ DeleteOf.repeats /\ UNCHANGED <<opVars, tf>>
  /\ UNCHANGED <<kind, parent, config, stale, edits, outside>>

\* The practitioner imports an object by a spelling that its statements accept.
Import ==
  /\ pc = "idle" /\ tf = None
  /\ edits < MaxEdits
  /\ edits' = edits + 1
  /\ \E n \in Names :
       /\ kind = "role" => n[2] = 0 /\ n[3] = 0
       /\ \E o \in Sees(n) :
            /\ kind \in {"database", "iceberg"} => CatalogNamesEqual(n, o.name)
            /\ tf' = Reading(Recorded([name |-> n, body |-> IF HasBody(kind) THEN None
                                                            ELSE First], None), o)
  /\ said' = "ok"
  /\ stale' = FALSE
  /\ UNCHANGED <<worldVars, config, pc, plan, misled, faults, outside>>

-----------------------------------------------------------------------------
(* The practitioner and everybody else.                                    *)

Edit ==
  /\ pc = "idle"
  /\ edits < MaxEdits
  /\ edits' = edits + 1
  /\ config' \in ConfigsOf(kind) \cup {None}
  /\ config' # config
  /\ UNCHANGED <<worldVars, tf, opVars, stale, misled, faults, outside>>

\* What somebody else may make under a key.
Foreign(key) == {o \in Objects : /\ o.by = "other"
                                 /\ o.name[3] = 0
                                 /\ Key(o.name) = key
                                 /\ o.body # Alias
                                 /\ ~HasBody(kind) => o.body = First}

\* Somebody drops, changes or makes an object, or drops or makes the parent.
Outside ==
  /\ outside < MaxOutside
  /\ outside' = outside + 1
  /\ stale' = TRUE
  /\ \/ /\ parent
        /\ UNCHANGED parent
        /\ \E key \in Keys :
             /\ \E n \in Names : Key(n) = key
             /\ \/ live[key] = None /\ \E o \in Foreign(key) : live' = [live EXCEPT ![key] = o]
                \/ live[key] # None /\ live' = [live EXCEPT ![key] = None]
                \/ /\ live[key] # None /\ HasBody(kind)
                   /\ \E b \in {First, Second} \ {live[key].body} :
                        live' = [live EXCEPT ![key].body = b]
     \/ /\ WriteOf.needs
        /\ parent' = ~parent
        /\ live' = [key \in Keys |-> None]
  /\ UNCHANGED <<kind, config, tf, opVars, misled, faults, edits>>

Init ==
  /\ kind \in Kinds
  /\ parent = TRUE
  /\ live = [key \in Keys |-> None]
  /\ config \in {c \in ConfigsOf(kind) : c.body = First}
  /\ tf = None
  /\ pc = "idle"
  /\ plan = None
  /\ said = "ok"
  /\ stale = FALSE
  /\ misled = {}
  /\ faults = 0 /\ edits = 0 /\ outside = 0

Handler == Create \/ ReadNew \/ ReadMore \/ UpdateName \/ Update \/ ReadBack \/ Delete

Next ==
  \/ StartCreate \/ Create \/ ReadNew \/ Refresh \/ ReadMore \/ StartUpdate
  \/ UpdateName \/ Update \/ ReadBack \/ StartDelete \/ Delete \/ Import \/ Edit
  \/ Outside

Spec == Init /\ [][Next]_vars

Fairness ==
  /\ WF_vars(Handler)
  /\ SF_vars(Refresh)
  /\ SF_vars(StartCreate) /\ SF_vars(StartUpdate) /\ SF_vars(StartDelete)

FairSpec == Spec /\ Fairness

-----------------------------------------------------------------------------
(* Properties.                                                             *)

TypeOK ==
  /\ kind \in Kinds
  /\ parent \in BOOLEAN
  /\ outside \in 0..MaxOutside
  /\ live \in [Keys -> Objects \cup {None}]
  /\ config \in ConfigsOf(kind) \cup {None}
  /\ plan \in ConfigsOf(kind) \cup {None}
  /\ tf \in Records \cup {None}
  /\ pc \in {"idle", "create", "readNew", "readMore", "update", "readBack", "delete"}
  /\ plan = None <=> pc \in {"idle", "readMore", "delete"}
  /\ pc \in {"readNew", "readMore", "update", "readBack", "delete"} => tf # None
  /\ said \in {"ok", "warning", "error"}

\* An object that Terraform made and that is not the one in the state was made
\* by a create whose answer was lost, or given up by a Delete that took
\* another not-found error for its own: no failed read-back orphans it.
OrphansUnanswered ==
  \A key \in Keys :
    live[key] # None /\ live[key].by = "terraform" /\ key \notin misled
      => tf # None /\ key = Key(tf.name)

\* What any resource promises, with the keys as objects.  Nobody has to name an
\* object that others made, whose create had no answer or that was given up.
Present == {key \in Keys : live[key] # None}
Strays == {key \in Present : live[key].by # "terraform" \/ key \in misled}
Wanted == config # None /\ (tf # None => ~Replaces(config, tf))
Held == IF tf = None THEN <<>> ELSE Key(tf.name)
Doubted == tf # None /\ tf.tainted
Managed == INSTANCE ManagedObject
  WITH Objects <- Keys, Nobody <- <<>>, wanted <- Wanted, present <- Present,
       strays <- Strays, held <- Held, doubted <- Doubted, meddled <- outside

\* The handlers of every type of catalog object keep to ManagedObject: a failed
\* or empty read-back, an adoption, a change of spelling and a refresh in vain
\* neither orphan the object nor let it be destroyed without a reason.
ImplementsManaged == Managed!Spec

\* What is asked for under the name n is not what is under the name m.
NamesAnother(n, m) == Key(n) # Key(m)

\* Terraform drops an object only if it is no longer configured, its create
\* failed, it is named differently or, of a table, has other columns: no
\* change of letter case or of the spelling of a type costs data.  A failed
\* create is no reason for a secure view, whose table would be uncovered until
\* it is back on the share.
DropsJustified ==
  [][\A key \in Keys :
       live[key] # None /\ live'[key] = None /\ outside' = outside =>
         \/ config = None
         \/ tf.tainted /\ kind # "secure_view"
         \/ NamesAnother(config.name, tf.name)
         \/ kind = "table" /\ (stale \/ live[key].body # Canonical(config.body))
         \/ kind = "iceberg" /\ ~SameCatalog(config.body, tf.body)]_vars

\* A refresh keeps the resource only for the object its statements act on,
\* never for one whose name DuckDB tells apart.  (A secret is excepted:
\* secret.go falls back to any spelling on purpose.)
RefreshSeesOwn ==
  [][Refresh /\ said' = "ok" /\ tf' # None /\ kind # "secret" => Own # None]_vars

\* The spelling of a database in the state stays one that the client can attach.
SpellingAttaches ==
  [][/\ kind \in {"database", "iceberg"} /\ tf # None /\ tf' # None
     /\ Own # None /\ Own' # None /\ outside' = outside
     /\ CatalogNamesEqual(Own.name, tf.name)
     => CatalogNamesEqual(Own.name, tf.name)']_vars

\* A name means the same to the provider, to a catalog query and to the
\* statement that uses it.
NamesAgree == RefreshSeesOwn /\ SpellingAttaches

\* The object is as configured and as the state says.
Settled ==
  IF config = None THEN tf = None
  ELSE /\ tf # None
       /\ UpToDate
       /\ ~tf.tainted
       /\ tf.name = config.name
       /\ tf.body = config.body
       /\ kind = "secret" => Own.body = Canonical(config.body)

\* A write that reports neither an error nor a warning, from a state that was
\* up to date, leaves the object as configured and as recorded.
AppliedOrTold ==
  [][/\ pc \in {"create", "readNew", "update", "readBack"} /\ pc' = "idle"
     /\ said' = "ok" /\ ~stale'
     => Settled']_vars

\* A change of the object shows at the next refresh.  It does not for the
\* options of an Iceberg database, which cannot be read, for a view whose
\* new definition was adopted by the configuration and then undone, because
\* the stored definition is not renewed, and for a secret that is gone while
\* another has a name that differs in the case of a non-ASCII letter.
DriftShows == tf # None /\ Own # None => Knows(tf, Own) \/ tf # Reading(tf, Own)

\* What the configuration asks can be had, and its drift is seen.
Feasible ==
  config # None =>
    /\ Reachable
    /\ tf = None => live[Key(config.name)] = None
    /\ tf # None => tf.tainted \/ ~NameRejected(config.name, tf.name)
    /\ kind = "secret" /\ tf # None => Own # None
    /\ kind = "iceberg" => config.body # None
    /\ DriftShows

\* Repeated applies settle: once nothing fails and nobody interferes any more,
\* the object becomes and stays as configured, or its removal is complete.
Converges == <>[]Feasible => <>[]Settled

-----------------------------------------------------------------------------
(* The inductive invariant behind the safety properties.                   *)

\* An object is under the key of its name, and none is without its parent.
CatalogInv ==
  /\ \A key \in Keys : live[key] # None => Key(live[key].name) = key
  /\ WriteOf.needs /\ ~parent => \A key \in Keys : live[key] = None

\* Two texts that name one object, for a database as its client needs it.
SameName(n, m) ==
  Key(n) = Key(m) /\ (kind \in {"database", "iceberg"} => CatalogNamesEqual(n, m))

PlainName(n) == n[2] = 0 /\ n[3] = 0

\* What a handler knows of its model, the state and the configuration.
HandlerInv ==
  /\ pc = "create" => tf = None
  /\ pc = "readNew" => tf.name = plan.name
  /\ pc \in {"update", "readBack"} => SameName(plan.name, tf.name)
  /\ kind = "secure_view" /\ tf # None /\ tf.tainted => pc = "readNew"
  /\ kind = "role" => /\ tf # None => PlainName(tf.name)
                      /\ plan # None => PlainName(plan.name)
  /\ pc = "delete" /\ config # None => tf.tainted \/ Replaces(config, tf)
  /\ pc = "delete" /\ kind = "table" /\ ~stale /\ Own # None
       => Canonical(tf.body) = Own.body

IInv == TypeOK /\ CatalogInv /\ HandlerInv /\ OrphansUnanswered

\* The object o is what the model p asks for.
Fulfils(p, o) ==
  CASE kind = "iceberg" -> p.body # None /\ SameCatalog(p.body, o.body) => p.body = o.body
    [] kind # "iceberg" /\ HasBody(kind) -> Canonical(p.body) = o.body
    [] ~HasBody(kind)   -> TRUE

\* What a write relies on: its model is the configuration, and unless somebody
\* interfered the object is what the state says before the statement and what
\* the model asks for after it.
ApplyInv ==
  /\ plan # None => plan = config
  /\ pc \in {"create", "readNew"} /\ kind = "iceberg" => plan.body # None
  /\ pc = "readNew" => WriteOf.reads
  /\ pc = "readBack" => WriteOf.missed # "ok"
  /\ pc = "update" => ~Replaces(plan, tf) /\ ~tf.tainted
  /\ pc = "update" /\ ~stale => UpToDate
  /\ pc \in {"readNew", "readBack"} /\ ~stale
       => Reachable /\ Own # None /\ Fulfils(plan, Own)

=============================================================================
