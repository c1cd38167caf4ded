------------------------------ MODULE Snapshot ------------------------------
(***************************************************************************)
(* The motherduck_snapshot resource (snapshot_resource.go): a named        *)
(* snapshot of one database.                                               *)
(*                                                                         *)
(* MotherDuck has no statement that deletes a snapshot; it keeps one, and  *)
(* bills it, until its name is cleared, even after its database is gone.   *)
(* The hazard is a named snapshot that nobody knows of.  The resource      *)
(* finds its snapshot by ID if it has one and by name otherwise, in a      *)
(* catalog that shows a new snapshot late and that of a dropped database   *)
(* perhaps no longer.                                                      *)
(***************************************************************************)
EXTENDS Integers

CONSTANTS
  MaxSnaps,     \* bound on the snapshots of databases of that name
  Names,        \* names the resource's configuration may have
  Foreign,      \* a name it never has
  NoName,       \* the name of a snapshot whose name was cleared
  Natives,      \* native databases of the account
  Own,          \* the database of the resource
  None          \* no database

ASSUME SnapshotAssumption ==
  /\ MaxSnaps \in Nat
  /\ Foreign \notin Names
  /\ NoName \notin Names \cup {Foreign}
  /\ Own \in Natives
  /\ None \notin Natives

VARIABLES
  last,     \* the latest snapshot
  title,    \* the name of each
  dbs,      \* native databases that exist
  current,  \* snapshots whose database exists
  listed,   \* snapshots in MD_INFORMATION_SCHEMA.DATABASE_SNAPSHOTS
  calm,     \* nobody else has used the names of the resource or its database
            \* again, and no database was dropped under a destroy
  mine,     \* snapshots the resource made or imported
  told,     \* those an error or a warning said it no longer manages
  tf,       \* "none", "ok" or "tainted": the resource in Terraform's state
  id,       \* its ID, or 0
  name,     \* its name
  said,     \* how the last handler ended: "ok", "warning" or "error"
  op,       \* the handler that runs
  pc,       \* where it stands
  mid,      \* the ID in its model, or 0
  mname,    \* the name in its model
  chosen    \* the database it selects to clear the name

mdVars == <<last, title, dbs, current, listed, calm>>
tfVars == <<tf, id, name, said>>
opVars == <<op, pc, mid, mname, chosen>>
vars == <<mdVars, mine, told, tfVars, opVars>>

Ops == {"create", "read", "update", "delete", "import"}
PCs == {"idle", "create", "byId", "byName", "rename", "recover", "attach",
        "native", "unname"}

Snaps == 1..last

Init ==
  /\ last = 0
  /\ title = [i \in 1..MaxSnaps |-> NoName]
  /\ dbs = Natives
  /\ current = {}
  /\ listed = {}
  /\ calm = TRUE
  /\ mine = {}
  /\ told = {}
  /\ tf = "none"
  /\ id = 0
  /\ name = NoName
  /\ said = "ok"
  /\ op = "none"
  /\ pc = "idle"
  /\ mid = 0
  /\ mname = NoName
  /\ chosen = None

\* The catalog's rows with the name of the model.
Matches == {i \in listed : title[i] = mname}

\* No snapshot of the existing database has name n.
Free(n) == \A i \in current : title[i] # n

\* In a calm account nobody else gives the name n to a snapshot: it is or may
\* become that of the resource, or it is that of a snapshot already.
Reserved(n) == n \in Names \cup {name, mname} \/ \E i \in Snaps : title[i] = n

-----------------------------------------------------------------------------
(* Decisions of the code.  A definition whose name starts with Slip is the *)
(* one after it as a plausible mistake would have it; no action uses it.   *)

\* Slip: the name is looked up although the ID is known.
SlipFirstLookup(i) == "byName"
\* readSnapshotStatus: by ID, if there is one.
FirstLookup(i) == IF i # 0 THEN "byId" ELSE "byName"

\* Slip: destroy does not recover the ID.
SlipFirstOfDelete(i) == "attach"
\* Delete: an ID that creation could not see is recovered by name.
FirstOfDelete(i) == IF i # 0 THEN "attach" ELSE "recover"

\* Slip: Create returns when it cannot read the snapshot back.
SlipKeptAfterCreate == "none"
\* Create: the state is set although the read-back failed, which taints it.
KeptAfterCreate == "tainted"

\* Slip: a snapshot that is not listed is taken for one that was cleared.
SlipUnlistedEnds == "ok"
\* Read: a snapshot that is no longer listed is removed with a warning.
UnlistedEnds == "warning"

-----------------------------------------------------------------------------
(* Handlers.                                                               *)

\* The handler returns; v is the worst of its diagnostics.
End(v) ==
  /\ op' = "none"
  /\ pc' = "idle"
  /\ mid' = 0
  /\ mname' = NoName
  /\ chosen' = None
  /\ said' = v

\* It returns and leaves the state alone.
Keep(v) == End(v) /\ UNCHANGED <<tf, id, name>>

\* It returns and has set the state to i and n, or to nothing.
Set(v, t, i, n) == End(v) /\ tf' = t /\ id' = i /\ name' = n
Remove(v) == Set(v, "none", 0, NoName)

\* Terraform calls handler o; the configuration's name is n.
Begin(o, n) ==
  /\ op = "none"
  /\ op' = o
  /\ \/ /\ o \in {"create", "import"}
        /\ tf = "none"
        /\ pc' = IF o = "create" THEN "create" ELSE "byName"
        /\ mname' = n
     \/ /\ o = "read" /\ tf # "none"
        /\ pc' = FirstLookup(id)
        /\ mname' = name
     \/ /\ o = "update" /\ tf = "ok"
        /\ pc' = IF n # name THEN "rename" ELSE FirstLookup(id)
        /\ mname' = n
     \/ /\ o = "delete" /\ tf # "none"
        /\ pc' = FirstOfDelete(id)
        /\ mname' = name
  /\ mid' = id
  /\ UNCHANGED <<mdVars, mine, told, tfVars, chosen>>

\* Nothing is read back: Create and Update set the state all the same.
NotRead ==
  \/ op = "create" /\ Set("error", KeptAfterCreate, mid, mname)
  \/ op = "update" /\ Set("error", "ok", mid, mname)
  \/ op \in {"read", "import"} /\ Keep("error")

\* A statement fails and nothing has happened, or nothing is known of it.
Fails ==
  /\ pc # "idle"
  /\ IF pc \in {"byId", "byName"} THEN NotRead ELSE Keep("error")
  /\ UNCHANGED <<mdVars, mine, told>>

\* A snapshot of the existing database appears under name n, in the catalog
\* now or later.
Appear(n) ==
  /\ Own \in dbs
  /\ last < MaxSnaps
  /\ Free(n)
  /\ last' = last + 1
  /\ title' = [title EXCEPT ![last + 1] = n]
  /\ current' = current \cup {last + 1}
  /\ listed' \in {listed, listed \cup {last + 1}}
  /\ UNCHANGED dbs

\* CREATE SNAPSHOT succeeds.
Create ==
  /\ pc = "create"
  /\ Appear(mname)
  /\ mine' = mine \cup {last + 1}
  /\ pc' = "byName"
  /\ UNCHANGED <<calm, told, tfVars, op, mid, mname, chosen>>

\* CREATE SNAPSHOT succeeds but its answer is lost; it is not repeated.
CreateLost ==
  /\ pc = "create"
  /\ Appear(mname)
  /\ mine' = mine \cup {last + 1}
  /\ told' = told \cup {last + 1}
  /\ Keep("error")
  /\ UNCHANGED calm

\* The snapshot was found as i, with name n.
Found(i, n) ==
  /\ Set(IF op \in {"read", "import"} /\ Own \notin dbs THEN "warning" ELSE "ok",
         IF op = "read" THEN tf ELSE "ok", i, n)
  /\ mine' = IF op = "import" THEN mine \cup {i} ELSE mine
  /\ UNCHANGED <<mdVars, told>>

\* readSnapshotByID finds the snapshot under any name.
FoundById ==
  /\ pc = "byId"
  /\ mid \in listed
  /\ title[mid] # NoName
  /\ Found(mid, title[mid])

\* readSnapshotByID finds that its name was cleared.
Cleared ==
  /\ pc = "byId"
  /\ mid \in listed
  /\ title[mid] = NoName
  /\ IF op = "read" THEN Remove("ok") ELSE NotRead
  /\ UNCHANGED <<mdVars, mine, told>>

\* readSnapshotByID finds nothing, and the name is looked up.
NotListed ==
  /\ pc = "byId"
  /\ mid \notin listed
  /\ pc' = "byName"
  /\ UNCHANGED <<mdVars, mine, told, tfVars, op, mid, mname, chosen>>

\* readSnapshotByName finds one snapshot; more than one is an error.
FoundByName ==
  /\ pc = "byName"
  /\ \E i \in Matches : Matches = {i} /\ Found(i, mname)

\* readSnapshotByName finds none.
Unlisted ==
  /\ pc = "byName"
  /\ Matches = {}
  /\ IF op = "read" /\ mid # 0
       THEN Remove(UnlistedEnds) /\ told' = told \cup {mid}
       ELSE NotRead /\ UNCHANGED told
  /\ UNCHANGED <<mdVars, mine>>

\* Update: ALTER SNAPSHOT renames what has the name in the state.
Renamed ==
  /\ Own \in dbs
  /\ Free(mname)
  /\ \E i \in current : title[i] = name /\ title' = [title EXCEPT ![i] = mname]
  /\ UNCHANGED <<last, dbs, current, listed, calm, mine, told>>

Rename ==
  /\ pc = "rename"
  /\ Renamed
  /\ pc' = FirstLookup(mid)
  /\ UNCHANGED <<tfVars, op, mid, mname, chosen>>

\* The answer is lost; the rename is not repeated.
RenameLost == pc = "rename" /\ Renamed /\ Keep("error")

\* Delete recovers the ID; none or several matches are an error.
Recover ==
  /\ pc = "recover"
  /\ \E i \in Matches : Matches = {i} /\ mid' = i
  /\ pc' = "attach"
  /\ UNCHANGED <<mdVars, mine, told, tfVars, op, mname, chosen>>

\* Delete attaches the resource's database, or sees that it is gone.
Attach ==
  /\ pc = "attach"
  /\ IF Own \in dbs THEN pc' = "unname" /\ chosen' = Own
                    ELSE pc' = "native" /\ UNCHANGED chosen
  /\ UNCHANGED <<mdVars, mine, told, tfVars, op, mid, mname>>

\* nativeSnapshotDatabase
ChooseNative ==
  /\ pc = "native"
  /\ chosen' \in dbs
  /\ pc' = "unname"
  /\ UNCHANGED <<mdVars, mine, told, tfVars, op, mid, mname>>

ClearName == chosen \in dbs /\ title' = [title EXCEPT ![mid] = NoName]

\* The name is cleared by ID, also when it has been or the snapshot is gone.
Unname ==
  /\ pc = "unname"
  /\ ClearName
  /\ Remove("ok")
  /\ UNCHANGED <<last, dbs, current, listed, calm, mine, told>>

\* The answer is lost; retry.SQL repeats the statement, or the error stays.
UnnameLost ==
  /\ pc = "unname"
  /\ ClearName
  /\ UNCHANGED <<last, dbs, current, listed, calm, mine, told, tfVars, opVars>>

\* The database to select is gone: an error that isNotFound accepts.
UnnameMissing ==
  /\ pc = "unname"
  /\ chosen \notin dbs
  /\ Remove("ok")
  /\ UNCHANGED <<mdVars, mine, told>>

-----------------------------------------------------------------------------
(* MotherDuck and its other users.                                         *)

Apart == UNCHANGED <<mine, told, tfVars, opVars>>

DropDatabase(d) ==
  /\ d \in dbs
  /\ dbs' = dbs \ {d}
  /\ current' = IF d = Own THEN {} ELSE current
  /\ calm' = (calm /\ op # "delete")
  /\ UNCHANGED <<last, title, listed>>
  /\ Apart

Recreate ==
  /\ Own \notin dbs
  /\ dbs' = dbs \cup {Own}
  /\ calm' = FALSE
  /\ UNCHANGED <<last, title, current, listed>>
  /\ Apart

\* Someone else renames a snapshot, or clears its name.
RenameElsewhere(i, n) ==
  /\ title[i] # NoName
  /\ n = NoName \/ Free(n)
  /\ calm' = (calm /\ (n = NoName \/ ~Reserved(n)))
  /\ title' = [title EXCEPT ![i] = n]
  /\ UNCHANGED <<last, dbs, current, listed>>
  /\ Apart

\* Someone else makes a snapshot of the resource's database.
Rival(n) ==
  /\ Appear(n)
  /\ calm' = (calm /\ ~Reserved(n))
  /\ Apart

\* The catalog catches up.
List(i) ==
  /\ i \in current \ listed
  /\ listed' = listed \cup {i}
  /\ UNCHANGED <<last, title, dbs, current, calm>>
  /\ Apart

\* A snapshot without a name or without a database may leave the catalog.
Unlist(i) ==
  /\ i \in listed
  /\ i \notin current \/ title[i] = NoName
  /\ listed' = listed \ {i}
  /\ UNCHANGED <<last, title, dbs, current, calm>>
  /\ Apart

-----------------------------------------------------------------------------

Handler ==
  \/ Fails \/ Create \/ CreateLost \/ FoundById \/ Cleared \/ NotListed
  \/ FoundByName \/ Unlisted \/ Rename \/ RenameLost \/ Recover \/ Attach
  \/ ChooseNative \/ Unname \/ UnnameLost \/ UnnameMissing

Elsewhere ==
  \/ \E d \in Natives : DropDatabase(d)
  \/ Recreate
  \/ \E i \in Snaps, n \in Names \cup {Foreign, NoName} : RenameElsewhere(i, n)
  \/ \E n \in Names \cup {Foreign} : Rival(n)
  \/ \E i \in Snaps : List(i) \/ Unlist(i)

Next ==
  \/ \E o \in Ops, n \in Names : Begin(o, n)
  \/ Handler
  \/ Elsewhere

Spec == Init /\ [][Next]_vars

-----------------------------------------------------------------------------
(* Properties.                                                             *)

\* Every variable has its type, and a destroy that clears a name has an ID.
TypeOK ==
  /\ last \in 0..MaxSnaps
  /\ title \in [1..MaxSnaps -> Names \cup {Foreign, NoName}]
  /\ dbs \in SUBSET Natives
  /\ current \in SUBSET Snaps
  /\ listed \in SUBSET Snaps
  /\ calm \in BOOLEAN
  /\ mine \in SUBSET Snaps
  /\ told \in SUBSET Snaps
  /\ tf \in {"none", "ok", "tainted"}
  /\ id \in 0..last
  /\ name \in Names \cup {Foreign, NoName}
  /\ said \in {"ok", "warning", "error"}
  /\ op \in Ops \cup {"none"}
  /\ pc \in PCs
  /\ mid \in 0..last
  /\ mname \in Names \cup {Foreign, NoName}
  /\ chosen \in Natives \cup {None}
  /\ pc \in {"attach", "native", "unname"} => mid # 0

\* Snapshots of the resource that still have a name and that no diagnostic
\* has given up.
Untold == {i \in mine \ told : title[i] # NoName}

\* Between two handlers, each of them is the one in the state, whose ID may
\* still be missing: no failed read-back, lost answer, lagging catalog or
\* dropped database leaves a named snapshot behind that nobody was told of.
\* This is what the documentation of the resource says of every account.
OrphansAreTold ==
  op = "none" => \A i \in Untold : tf # "none" /\ id \in {0, i}

\* And this is what holds: the same in a calm account.
NoSilentOrphan == calm => OrphansAreTold

\* The step of a refresh that ends while the catalog does not list the snapshot
\* of the state, which may still have its name.
EndsUnlisted ==
  /\ op = "read" /\ op' = "none" /\ said' # "error"
  /\ id # 0 /\ id \notin listed /\ title[id] # NoName

\* Such a refresh removes the snapshot with a warning.
UnlistedStep == EndsUnlisted => tf' = "none" /\ said' = "warning"

\* One step's share of UnlistedIsAnnounced.
CalmUnlistedStep == calm => UnlistedStep

\* In a calm account a refresh that does not find a named snapshot listed
\* removes it with a warning, as docs/resources/snapshot.md has it.
UnlistedIsAnnounced == [][CalmUnlistedStep]_vars

\* One step's share of KeepsListed.
KeepsListedStep ==
  (op \in {"read", "update"} /\ id # 0 /\ id' # id)
    => id \notin listed \/ title[id] = NoName

\* Refresh and update neither forget the snapshot of the state nor exchange it
\* for another of the same name while the catalog lists it under any name.
KeepsListed == [][KeepsListedStep]_vars

-----------------------------------------------------------------------------
(* The inductive invariants behind the safety properties.                  *)

\* Where each handler can stand, and what its model has from the state.
HandlerInv ==
  /\ op = "none" <=> pc = "idle"
  /\ pc = "create" => op = "create"
  /\ op = "create" => pc \in {"create", "byName"}
  /\ op = "import" => pc = "byName"
  /\ op = "read" => pc \in {"byId", "byName"} /\ tf # "none" /\ mname = name
  /\ op = "update" => pc \in {"rename", "byId", "byName"} /\ tf = "ok"
  /\ op = "delete" <=> pc \in {"recover", "attach", "native", "unname"}
  /\ op = "delete" => tf # "none" /\ mname = name
  /\ op \in {"create", "import"} => tf = "none"
  /\ op \notin {"none", "delete"} => mid = id
  /\ op = "delete" => IF pc = "recover" THEN id = 0 ELSE id \in {0, mid}
  /\ pc = "byId" => mid # 0
  /\ tf = "none" => id = 0
  /\ tf # "none" => name # NoName
  /\ op # "none" => mname # NoName

\* The snapshot of the state is listed for as long as it has a database and a
\* name, and a refresh or update that did not find it by ID was right.
ListedInv ==
  /\ id # 0 => id \in listed \/ id \notin current \/ title[id] = NoName
  /\ (op \in {"read", "update"} /\ pc = "byName" /\ id # 0)
       => id \notin listed \/ title[id] = NoName

IInv == TypeOK /\ HandlerInv /\ ListedInv

\* The name n is at most that of the resource's snapshot.
Ours(n) == \A j \in Snaps : title[j] = n => j = id \/ (id = 0 /\ j \in Untold)

\* In a calm account: names are unique, one snapshot at most is untold, the state or the handler that runs
\* has it, and the names by which it is looked up are its own.
OwnInv ==
  /\ Own \in dbs => current = Snaps
  /\ \A i, j \in Snaps : title[i] = title[j] /\ title[i] # NoName => i = j
  /\ \A i, j \in Untold : i = j
  /\ \A i \in Untold : \/ tf # "none" /\ id \in {0, i}
                       \/ op = "create" /\ pc = "byName"
  /\ tf # "none" => Ours(name)
  /\ op \in {"create", "update"} /\ pc \in {"byId", "byName"} => Ours(mname)
  /\ pc \in {"attach", "native", "unname"} => Untold \subseteq {mid}
  /\ pc = "unname" => chosen \in dbs

CalmInv == calm => OwnInv
=============================================================================
