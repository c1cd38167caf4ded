-------------------------- MODULE Snapshot_proofs --------------------------
(* Proofs about Snapshot, for any number of snapshots, names and databases. *)
EXTENDS Snapshot, TLAPS

USE DEF mdVars, tfVars, opVars

\* Bounds the steps below use.
LEMMA Bounds ==
  ASSUME TypeOK
  PROVE  /\ last \in Nat /\ 0 \in 0..last /\ 0 \in 0..MaxSnaps
         /\ Snaps \subseteq 1..MaxSnaps
         /\ \A i \in Snaps : i \in 0..last /\ i # 0
         /\ \A i \in 0..last : i # 0 => i \in Snaps
  BY SnapshotAssumption DEF TypeOK, Snaps

\* There is no snapshot yet.
LEMMA InvInit == Init => IInv
<1> SUFFICES ASSUME Init PROVE IInv
  OBVIOUS
<1>1. 0 \in 0..MaxSnaps /\ 0 \in 0..0 /\ last = 0
  BY SnapshotAssumption DEF Init
<1>2. TypeOK
  BY <1>1 DEF Init, TypeOK, PCs, Snaps
<1>3. HandlerInv /\ ListedInv
  BY DEF Init, HandlerInv, ListedInv
<1>4. QED
  BY <1>2, <1>3 DEF IInv

\* A handler begins.
LEMMA BeginKeeps ==
  ASSUME IInv, NEW o \in Ops, NEW n \in Names, Begin(o, n)
  PROVE  IInv'
<1>1. TypeOK'
  BY Bounds, SnapshotAssumption DEF IInv, TypeOK, HandlerInv, ListedInv, Snaps, PCs, Ops, Begin, FirstLookup, FirstOfDelete
<1>2. HandlerInv'
  BY Bounds, SnapshotAssumption DEF IInv, TypeOK, HandlerInv, ListedInv, Snaps, PCs, Ops, Begin, FirstLookup, FirstOfDelete
<1>3. ListedInv'
  BY Bounds, SnapshotAssumption DEF IInv, TypeOK, HandlerInv, ListedInv, Snaps, PCs, Ops, Begin, FirstLookup, FirstOfDelete
<1>4. QED
  BY <1>1, <1>2, <1>3 DEF IInv

\* The step Fails.
LEMMA FailsKeeps ==
  ASSUME IInv, Fails
  PROVE  IInv'
<1>1. TypeOK'
  BY Bounds, SnapshotAssumption DEF IInv, TypeOK, HandlerInv, ListedInv, Snaps, PCs, Ops, Fails, End, Keep, Set, Remove, NotRead, KeptAfterCreate, UnlistedEnds, Found
<1>2. HandlerInv'
  BY Bounds, SnapshotAssumption DEF IInv, TypeOK, HandlerInv, ListedInv, Snaps, PCs, Ops, Fails, End, Keep, Set, Remove, NotRead, KeptAfterCreate, UnlistedEnds, Found
<1>3. ListedInv'
  BY Bounds, SnapshotAssumption DEF IInv, TypeOK, HandlerInv, ListedInv, Snaps, PCs, Ops, Fails, End, Keep, Set, Remove, NotRead, KeptAfterCreate, UnlistedEnds, Found
<1>4. QED
  BY <1>1, <1>2, <1>3 DEF IInv

\* The step Create.
LEMMA CreateKeeps ==
  ASSUME IInv, Create
  PROVE  IInv'
<1>1. TypeOK'
  BY Bounds, SnapshotAssumption DEF IInv, TypeOK, HandlerInv, ListedInv, Snaps, PCs, Ops, Create, Appear
<1>2. HandlerInv'
  BY Bounds, SnapshotAssumption DEF IInv, TypeOK, HandlerInv, ListedInv, Snaps, PCs, Ops, Create, Appear
<1>3. ListedInv'
  BY Bounds, SnapshotAssumption DEF IInv, TypeOK, HandlerInv, ListedInv, Snaps, PCs, Ops, Create, Appear
<1>4. QED
  BY <1>1, <1>2, <1>3 DEF IInv

\* The step CreateLost.
LEMMA CreateLostKeeps ==
  ASSUME IInv, CreateLost
  PROVE  IInv'
<1>1. TypeOK'
  BY Bounds, SnapshotAssumption DEF IInv, TypeOK, HandlerInv, ListedInv, Snaps, PCs, Ops, CreateLost, Appear, Keep, End
<1>2. HandlerInv'
  BY Bounds, SnapshotAssumption DEF IInv, TypeOK, HandlerInv, ListedInv, Snaps, PCs, Ops, CreateLost, Appear, Keep, End
<1>3. ListedInv'
  BY Bounds, SnapshotAssumption DEF IInv, TypeOK, HandlerInv, ListedInv, Snaps, PCs, Ops, CreateLost, Appear, Keep, End
<1>4. QED
  BY <1>1, <1>2, <1>3 DEF IInv

\* The step FoundById.
LEMMA FoundByIdKeeps ==
  ASSUME IInv, FoundById
  PROVE  IInv'
<1>1. TypeOK'
  BY Bounds, SnapshotAssumption DEF IInv, TypeOK, HandlerInv, ListedInv, Snaps, PCs, Ops, FoundById, End, Keep, Set, Remove, NotRead, KeptAfterCreate, UnlistedEnds, Found
<1>2. HandlerInv'
  BY Bounds, SnapshotAssumption DEF IInv, TypeOK, HandlerInv, ListedInv, Snaps, PCs, Ops, FoundById, End, Keep, Set, Remove, NotRead, KeptAfterCreate, UnlistedEnds, Found
<1>3. ListedInv'
  BY Bounds, SnapshotAssumption DEF IInv, TypeOK, HandlerInv, ListedInv, Snaps, PCs, Ops, FoundById, End, Keep, Set, Remove, NotRead, KeptAfterCreate, UnlistedEnds, Found
<1>4. QED
  BY <1>1, <1>2, <1>3 DEF IInv

\* The step Cleared.
LEMMA ClearedKeeps ==
  ASSUME IInv, Cleared
  PROVE  IInv'
<1>1. TypeOK'
  BY Bounds, SnapshotAssumption DEF IInv, TypeOK, HandlerInv, ListedInv, Snaps, PCs, Ops, Cleared, End, Keep, Set, Remove, NotRead, KeptAfterCreate, UnlistedEnds, Found
<1>2. HandlerInv'
  BY Bounds, SnapshotAssumption DEF IInv, TypeOK, HandlerInv, ListedInv, Snaps, PCs, Ops, Cleared, End, Keep, Set, Remove, NotRead, KeptAfterCreate, UnlistedEnds, Found
<1>3. ListedInv'
  BY Bounds, SnapshotAssumption DEF IInv, TypeOK, HandlerInv, ListedInv, Snaps, PCs, Ops, Cleared, End, Keep, Set, Remove, NotRead, KeptAfterCreate, UnlistedEnds, Found
<1>4. QED
  BY <1>1, <1>2, <1>3 DEF IInv

\* The step NotListed.
LEMMA NotListedKeeps ==
  ASSUME IInv, NotListed
  PROVE  IInv'
<1>1. TypeOK'
  BY Bounds, SnapshotAssumption DEF IInv, TypeOK, HandlerInv, ListedInv, Snaps, PCs, Ops, NotListed
<1>2. HandlerInv'
  BY Bounds, SnapshotAssumption DEF IInv, TypeOK, HandlerInv, ListedInv, Snaps, PCs, Ops, NotListed
<1>3. ListedInv'
  BY Bounds, SnapshotAssumption DEF IInv, TypeOK, HandlerInv, ListedInv, Snaps, PCs, Ops, NotListed
<1>4. QED
  BY <1>1, <1>2, <1>3 DEF IInv

\* The step FoundByName.
LEMMA FoundByNameKeeps ==
  ASSUME IInv, FoundByName
  PROVE  IInv'
<1>1. TypeOK'
  BY Bounds, SnapshotAssumption DEF IInv, TypeOK, HandlerInv, ListedInv, Snaps, PCs, Ops, FoundByName, Matches, End, Keep, Set, Remove, NotRead, KeptAfterCreate, UnlistedEnds, Found
<1>2. HandlerInv'
  BY Bounds, SnapshotAssumption DEF IInv, TypeOK, HandlerInv, ListedInv, Snaps, PCs, Ops, FoundByName, Matches, End, Keep, Set, Remove, NotRead, KeptAfterCreate, UnlistedEnds, Found
<1>3. ListedInv'
  BY Bounds, SnapshotAssumption DEF IInv, TypeOK, HandlerInv, ListedInv, Snaps, PCs, Ops, FoundByName, Matches, End, Keep, Set, Remove, NotRead, KeptAfterCreate, UnlistedEnds, Found
<1>4. QED
  BY <1>1, <1>2, <1>3 DEF IInv

\* The step Unlisted.
LEMMA UnlistedKeeps ==
  ASSUME IInv, Unlisted
  PROVE  IInv'
<1>1. TypeOK'
  BY Bounds, SnapshotAssumption DEF IInv, TypeOK, HandlerInv, ListedInv, Snaps, PCs, Ops, Unlisted, End, Keep, Set, Remove, NotRead, KeptAfterCreate, UnlistedEnds, Found
<1>2. HandlerInv'
  BY Bounds, SnapshotAssumption DEF IInv, TypeOK, HandlerInv, ListedInv, Snaps, PCs, Ops, Unlisted, End, Keep, Set, Remove, NotRead, KeptAfterCreate, UnlistedEnds, Found
<1>3. ListedInv'
  BY Bounds, SnapshotAssumption DEF IInv, TypeOK, HandlerInv, ListedInv, Snaps, PCs, Ops, Unlisted, End, Keep, Set, Remove, NotRead, KeptAfterCreate, UnlistedEnds, Found
<1>4. QED
  BY <1>1, <1>2, <1>3 DEF IInv

\* The step Rename.
LEMMA RenameKeeps ==
  ASSUME IInv, Rename
  PROVE  IInv'
<1>1. TypeOK'
  BY Bounds, SnapshotAssumption DEF IInv, TypeOK, HandlerInv, ListedInv, Snaps, PCs, Ops, Rename, Renamed, FirstLookup
<1>2. HandlerInv'
  BY Bounds, SnapshotAssumption DEF IInv, TypeOK, HandlerInv, ListedInv, Snaps, PCs, Ops, Rename, Renamed, FirstLookup
<1>3. ListedInv'
  BY Bounds, SnapshotAssumption DEF IInv, TypeOK, HandlerInv, ListedInv, Snaps, PCs, Ops, Rename, Renamed, FirstLookup
<1>4. QED
  BY <1>1, <1>2, <1>3 DEF IInv

\* The step RenameLost.
LEMMA RenameLostKeeps ==
  ASSUME IInv, RenameLost
  PROVE  IInv'
<1>1. TypeOK'
  BY Bounds, SnapshotAssumption DEF IInv, TypeOK, HandlerInv, ListedInv, Snaps, PCs, Ops, RenameLost, Renamed, Keep, End
<1>2. HandlerInv'
  BY Bounds, SnapshotAssumption DEF IInv, TypeOK, HandlerInv, ListedInv, Snaps, PCs, Ops, RenameLost, Renamed, Keep, End
<1>3. ListedInv'
  BY Bounds, SnapshotAssumption DEF IInv, TypeOK, HandlerInv, ListedInv, Snaps, PCs, Ops, RenameLost, Renamed, Keep, End
<1>4. QED
  BY <1>1, <1>2, <1>3 DEF IInv

\* The step Recover.
LEMMA RecoverKeeps ==
  ASSUME IInv, Recover
  PROVE  IInv'
<1>1. TypeOK'
  BY Bounds, SnapshotAssumption DEF IInv, TypeOK, HandlerInv, ListedInv, Snaps, PCs, Ops, Recover, Matches
<1>2. HandlerInv'
  BY Bounds, SnapshotAssumption DEF IInv, TypeOK, HandlerInv, ListedInv, Snaps, PCs, Ops, Recover, Matches
<1>3. ListedInv'
  BY Bounds, SnapshotAssumption DEF IInv, TypeOK, HandlerInv, ListedInv, Snaps, PCs, Ops, Recover, Matches
<1>4. QED
  BY <1>1, <1>2, <1>3 DEF IInv

\* The step Attach.
LEMMA AttachKeeps ==
  ASSUME IInv, Attach
  PROVE  IInv'
<1>1. TypeOK'
  BY Bounds, SnapshotAssumption DEF IInv, TypeOK, HandlerInv, ListedInv, Snaps, PCs, Ops, Attach
<1>2. HandlerInv'
  BY Bounds, SnapshotAssumption DEF IInv, TypeOK, HandlerInv, ListedInv, Snaps, PCs, Ops, Attach
<1>3. ListedInv'
  BY Bounds, SnapshotAssumption DEF IInv, TypeOK, HandlerInv, ListedInv, Snaps, PCs, Ops, Attach
<1>4. QED
  BY <1>1, <1>2, <1>3 DEF IInv

\* The step ChooseNative.
LEMMA ChooseNativeKeeps ==
  ASSUME IInv, ChooseNative
  PROVE  IInv'
<1>1. TypeOK'
  BY Bounds, SnapshotAssumption DEF IInv, TypeOK, HandlerInv, ListedInv, Snaps, PCs, Ops, ChooseNative
<1>2. HandlerInv'
  BY Bounds, SnapshotAssumption DEF IInv, TypeOK, HandlerInv, ListedInv, Snaps, PCs, Ops, ChooseNative
<1>3. ListedInv'
  BY Bounds, SnapshotAssumption DEF IInv, TypeOK, HandlerInv, ListedInv, Snaps, PCs, Ops, ChooseNative
<1>4. QED
  BY <1>1, <1>2, <1>3 DEF IInv

\* The step Unname.
LEMMA UnnameKeeps ==
  ASSUME IInv, Unname
  PROVE  IInv'
<1>1. TypeOK'
  BY Bounds, SnapshotAssumption DEF IInv, TypeOK, HandlerInv, ListedInv, Snaps, PCs, Ops, Unname, ClearName, Remove, Set, End
<1>2. HandlerInv'
  BY Bounds, SnapshotAssumption DEF IInv, TypeOK, HandlerInv, ListedInv, Snaps, PCs, Ops, Unname, ClearName, Remove, Set, End
<1>3. ListedInv'
  BY Bounds, SnapshotAssumption DEF IInv, TypeOK, HandlerInv, ListedInv, Snaps, PCs, Ops, Unname, ClearName, Remove, Set, End
<1>4. QED
  BY <1>1, <1>2, <1>3 DEF IInv

\* The step UnnameLost.
LEMMA UnnameLostKeeps ==
  ASSUME IInv, UnnameLost
  PROVE  IInv'
<1>1. TypeOK'
  BY Bounds, SnapshotAssumption DEF IInv, TypeOK, HandlerInv, ListedInv, Snaps, PCs, Ops, UnnameLost, ClearName
<1>2. HandlerInv'
  BY Bounds, SnapshotAssumption DEF IInv, TypeOK, HandlerInv, ListedInv, Snaps, PCs, Ops, UnnameLost, ClearName
<1>3. ListedInv'
  BY Bounds, SnapshotAssumption DEF IInv, TypeOK, HandlerInv, ListedInv, Snaps, PCs, Ops, UnnameLost, ClearName
<1>4. QED
  BY <1>1, <1>2, <1>3 DEF IInv

\* The step UnnameMissing.
LEMMA UnnameMissingKeeps ==
  ASSUME IInv, UnnameMissing
  PROVE  IInv'
<1>1. TypeOK'
  BY Bounds, SnapshotAssumption DEF IInv, TypeOK, HandlerInv, ListedInv, Snaps, PCs, Ops, UnnameMissing, Remove, Set, End
<1>2. HandlerInv'
  BY Bounds, SnapshotAssumption DEF IInv, TypeOK, HandlerInv, ListedInv, Snaps, PCs, Ops, UnnameMissing, Remove, Set, End
<1>3. ListedInv'
  BY Bounds, SnapshotAssumption DEF IInv, TypeOK, HandlerInv, ListedInv, Snaps, PCs, Ops, UnnameMissing, Remove, Set, End
<1>4. QED
  BY <1>1, <1>2, <1>3 DEF IInv

\* The environment's step DropDatabase.
LEMMA DropDatabaseKeeps ==
  ASSUME IInv, NEW d \in Natives, DropDatabase(d)
  PROVE  IInv'
<1>1. TypeOK'
  BY Bounds, SnapshotAssumption DEF IInv, TypeOK, HandlerInv, ListedInv, Snaps, PCs, Ops, DropDatabase, Apart
<1>2. HandlerInv'
  BY Bounds, SnapshotAssumption DEF IInv, TypeOK, HandlerInv, ListedInv, Snaps, PCs, Ops, DropDatabase, Apart
<1>3. ListedInv'
  BY Bounds, SnapshotAssumption DEF IInv, TypeOK, HandlerInv, ListedInv, Snaps, PCs, Ops, DropDatabase, Apart
<1>4. QED
  BY <1>1, <1>2, <1>3 DEF IInv

\* The environment's step Recreate.
LEMMA RecreateKeeps ==
  ASSUME IInv, Recreate
  PROVE  IInv'
<1>1. TypeOK'
  BY Bounds, SnapshotAssumption DEF IInv, TypeOK, HandlerInv, ListedInv, Snaps, PCs, Ops, Recreate, Apart
<1>2. HandlerInv'
  BY Bounds, SnapshotAssumption DEF IInv, TypeOK, HandlerInv, ListedInv, Snaps, PCs, Ops, Recreate, Apart
<1>3. ListedInv'
  BY Bounds, SnapshotAssumption DEF IInv, TypeOK, HandlerInv, ListedInv, Snaps, PCs, Ops, Recreate, Apart
<1>4. QED
  BY <1>1, <1>2, <1>3 DEF IInv

\* The environment's step RenameElsewhere.
LEMMA RenameElsewhereKeeps ==
  ASSUME IInv, NEW i \in Snaps, NEW n \in Names \cup {Foreign, NoName}, RenameElsewhere(i, n)
  PROVE  IInv'
<1>1. TypeOK'
  BY Bounds, SnapshotAssumption DEF IInv, TypeOK, HandlerInv, ListedInv, Snaps, PCs, Ops, RenameElsewhere, Apart
<1>2. HandlerInv'
  BY Bounds, SnapshotAssumption DEF IInv, TypeOK, HandlerInv, ListedInv, Snaps, PCs, Ops, RenameElsewhere, Apart
<1>3. ListedInv'
  BY Bounds, SnapshotAssumption DEF IInv, TypeOK, HandlerInv, ListedInv, Snaps, PCs, Ops, RenameElsewhere, Apart
<1>4. QED
  BY <1>1, <1>2, <1>3 DEF IInv

\* The environment's step Rival.
LEMMA RivalKeeps ==
  ASSUME IInv, NEW n \in Names \cup {Foreign}, Rival(n)
  PROVE  IInv'
<1>1. TypeOK'
  BY Bounds, SnapshotAssumption DEF IInv, TypeOK, HandlerInv, ListedInv, Snaps, PCs, Ops, Rival, Appear, Apart
<1>2. HandlerInv'
  BY Bounds, SnapshotAssumption DEF IInv, TypeOK, HandlerInv, ListedInv, Snaps, PCs, Ops, Rival, Appear, Apart
<1>3. ListedInv'
  BY Bounds, SnapshotAssumption DEF IInv, TypeOK, HandlerInv, ListedInv, Snaps, PCs, Ops, Rival, Appear, Apart
<1>4. QED
  BY <1>1, <1>2, <1>3 DEF IInv

\* The environment's step List.
LEMMA ListKeeps ==
  ASSUME IInv, NEW i \in Snaps, List(i)
  PROVE  IInv'
<1>1. TypeOK'
  BY Bounds, SnapshotAssumption DEF IInv, TypeOK, HandlerInv, ListedInv, Snaps, PCs, Ops, List, Apart
<1>2. HandlerInv'
  BY Bounds, SnapshotAssumption DEF IInv, TypeOK, HandlerInv, ListedInv, Snaps, PCs, Ops, List, Apart
<1>3. ListedInv'
  BY Bounds, SnapshotAssumption DEF IInv, TypeOK, HandlerInv, ListedInv, Snaps, PCs, Ops, List, Apart
<1>4. QED
  BY <1>1, <1>2, <1>3 DEF IInv

\* The environment's step Unlist.
LEMMA UnlistKeeps ==
  ASSUME IInv, NEW i \in Snaps, Unlist(i)
  PROVE  IInv'
<1>1. TypeOK'
  BY Bounds, SnapshotAssumption DEF IInv, TypeOK, HandlerInv, ListedInv, Snaps, PCs, Ops, Unlist, Apart
<1>2. HandlerInv'
  BY Bounds, SnapshotAssumption DEF IInv, TypeOK, HandlerInv, ListedInv, Snaps, PCs, Ops, Unlist, Apart
<1>3. ListedInv'
  BY Bounds, SnapshotAssumption DEF IInv, TypeOK, HandlerInv, ListedInv, Snaps, PCs, Ops, Unlist, Apart
<1>4. QED
  BY <1>1, <1>2, <1>3 DEF IInv

\* Every step keeps the invariant.
LEMMA InvNext == IInv /\ [Next]_vars => IInv'
<1> SUFFICES ASSUME IInv, [Next]_vars PROVE IInv'
  OBVIOUS
<1>1. CASE UNCHANGED vars
  BY <1>1 DEF IInv, TypeOK, HandlerInv, ListedInv, Snaps, vars
<1>2. CASE \E o \in Ops, n \in Names : Begin(o, n)
  BY <1>2, BeginKeeps
<1>3. CASE Handler
  BY <1>3, FailsKeeps, CreateKeeps, CreateLostKeeps, FoundByIdKeeps, ClearedKeeps, NotListedKeeps, FoundByNameKeeps, UnlistedKeeps, RenameKeeps, RenameLostKeeps, RecoverKeeps, AttachKeeps, ChooseNativeKeeps, UnnameKeeps, UnnameLostKeeps, UnnameMissingKeeps DEF Handler
<1>4. CASE Elsewhere
  BY <1>4, DropDatabaseKeeps, RecreateKeeps, RenameElsewhereKeeps, RivalKeeps, ListKeeps, UnlistKeeps DEF Elsewhere
<1>5. QED
  BY <1>1, <1>2, <1>3, <1>4 DEF Next

\* The inductive invariant holds.
THEOREM Invariant == Spec => []IInv
  BY InvInit, InvNext, PTL DEF Spec

\* Every variable keeps its type, and a destroy that clears a name has an ID.
THEOREM TypeCorrect == Spec => []TypeOK
<1>1. IInv => TypeOK
  BY DEF IInv
<1>2. QED
  BY <1>1, Invariant, PTL

\* Refresh and update stay with the snapshot of the state while it is listed.
THEOREM ListedKept == Spec => KeepsListed
<1>1. IInv /\ [Next]_vars => [KeepsListedStep]_vars
  <2> SUFFICES ASSUME IInv, [Next]_vars, op \in {"read", "update"}, id # 0, id' # id
               PROVE  id \notin listed \/ title[id] = NoName
    BY DEF KeepsListedStep
  <2>1. Handler
    BY DEF Next, vars, Begin, Elsewhere, DropDatabase, Recreate, RenameElsewhere, Rival, List, Unlist, Apart
  <2>2. pc \in {"byId", "byName"}
    BY <2>1 DEF Handler, IInv, HandlerInv, Rename, RenameLost, Keep, Create, CreateLost, Recover, Attach, ChooseNative, Unname, UnnameLost, UnnameMissing, Fails, FoundById, Cleared, NotListed, FoundByName, Unlisted
  <2>3. CASE pc = "byName"
    BY <2>3 DEF IInv, ListedInv
  <2>4. CASE pc = "byId"
    BY <2>1, <2>4 DEF IInv, HandlerInv, Handler, Rename, RenameLost, Keep, Create, CreateLost, Recover, Attach, ChooseNative, Unname, UnnameLost, UnnameMissing, Fails, FoundById, Cleared, NotListed, FoundByName, Unlisted, Found, Set, NotRead, Remove
  <2>5. QED
    BY <2>2, <2>3, <2>4
<1>2. QED
  BY <1>1, Invariant, PTL DEF Spec, KeepsListed

\* Initially there is nothing to own.
LEMMA OwnInit == Init => OwnInv
  BY DEF Init, OwnInv, Ours, Untold, Snaps

\* A handler begins.
LEMMA BeginOwns ==
  ASSUME IInv, OwnInv, NEW o \in Ops, NEW n \in Names, Begin(o, n)
  PROVE  OwnInv'
  BY Bounds, SnapshotAssumption DEF IInv, TypeOK, HandlerInv, Snaps, OwnInv, Ours, Untold, Begin, FirstLookup, FirstOfDelete, Ops

\* A snapshot found by name is the untold one, if there is one.
LEMMA FoundByNameOwns ==
  ASSUME IInv, OwnInv, FoundByName
  PROVE  OwnInv'
<1>1. PICK i \in Matches : Matches = {i} /\ Found(i, mname)
  BY DEF FoundByName
<1>2. i \in Snaps /\ i # 0 /\ title[i] = mname /\ mname # NoName /\ pc = "byName"
  BY Bounds DEF Matches, IInv, TypeOK, HandlerInv, FoundByName
<1>3. /\ op \in {"create", "read", "update", "import"}
      /\ op = "read" => mname = name
      /\ op \in {"read", "update"} => tf # "none"
      /\ op \in {"create", "import"} => tf = "none"
  BY <1>2 DEF IInv, TypeOK, HandlerInv, Ops
<1>4. /\ id' = i /\ name' = mname /\ tf' # "none" /\ op' = "none" /\ pc' = "idle"
      /\ UNCHANGED <<title, dbs, current, last, told>>
      /\ mine' = IF op = "import" THEN mine \cup {i} ELSE mine
  BY <1>1, <1>3 DEF Found, Set, End
<1>5. \A j \in Snaps : title[j] = mname => j = i
  BY <1>2 DEF OwnInv
<1>6. op = "import" \/ Ours(mname)
  BY <1>2, <1>3 DEF OwnInv
<1>7. op = "import" => Untold = {}
  BY <1>3 DEF OwnInv
<1>8. ASSUME op # "import" PROVE Untold \subseteq {i}
  <2>1. i = id \/ (id = 0 /\ i \in Untold)
    BY <1>2, <1>6, <1>8 DEF Ours
  <2>2. CASE i \in Untold
    BY <2>2 DEF OwnInv, Untold
  <2>3. CASE i = id /\ id # 0
    <3>1. tf # "none"
      BY <2>3 DEF IInv, HandlerInv
    <3>2. \A j \in Untold : id \in {0, j}
      BY <1>3, <3>1 DEF OwnInv
    <3>3. QED
      BY <2>3, <3>2
  <2>4. QED
    BY <1>2, <2>1, <2>2, <2>3
<1>9. Untold' \subseteq {i}
  BY <1>4, <1>7, <1>8 DEF Untold
<1>10. QED
  BY <1>4, <1>5, <1>9 DEF OwnInv, Ours, Snaps

\* A rename moves the name of the untold snapshot.
LEMMA RenamedOwn ==
  ASSUME IInv, OwnInv, pc = "rename", Renamed
  PROVE  /\ Untold' = Untold
         /\ \A i, j \in Snaps : title'[i] = title'[j] /\ title'[i] # NoName => i = j
         /\ \A j \in Snaps : title'[j] # name
         /\ mname' = mname /\ id' = id => Ours(mname)'
         /\ op = "update" /\ tf = "ok"
<1>1. PICK i \in current : title[i] = name /\ title' = [title EXCEPT ![i] = mname]
  BY DEF Renamed
<1>2. /\ op = "update" /\ tf = "ok" /\ name # NoName /\ mname # NoName
      /\ i \in Snaps /\ current = Snaps /\ UNCHANGED <<mine, told, last>>
  <2>1. op = "update"
    BY DEF IInv, TypeOK, HandlerInv, Ops
  <2>2. tf = "ok" /\ name # NoName /\ mname # NoName
    BY <2>1 DEF IInv, HandlerInv
  <2>3. current = Snaps /\ UNCHANGED <<mine, told, last>>
    BY DEF OwnInv, Renamed
  <2>4. QED
    BY <1>1, <2>1, <2>2, <2>3
<1>3. /\ title \in [1..MaxSnaps -> Names \cup {Foreign, NoName}]
      /\ Snaps \subseteq 1..MaxSnaps /\ mine \subseteq Snaps
  BY Bounds DEF IInv, TypeOK
<1>4. title'[i] = mname /\ \A j \in Snaps : j # i => title'[j] = title[j]
  BY <1>1, <1>2, <1>3
<1>5. \A j \in Snaps : title[j] # mname
  BY <1>2 DEF Renamed, Free
<1>6. Untold' = Untold
  BY <1>1, <1>2, <1>3, <1>4 DEF Untold
<1>7. Snaps' = Snaps
  BY <1>2 DEF Snaps
<1>8. \A j, k \in Snaps : title'[j] = title'[k] /\ title'[j] # NoName => j = k
  BY <1>4, <1>5 DEF OwnInv
<1>9. \A j \in Snaps : title'[j] # name
  BY <1>1, <1>2, <1>4, <1>5 DEF OwnInv
<1>10. i = id \/ (id = 0 /\ i \in Untold)
  BY <1>1, <1>2 DEF OwnInv, Ours
<1>11. mname' = mname /\ id' = id => Ours(mname)'
  BY <1>4, <1>5, <1>6, <1>7, <1>10 DEF Ours
<1>12. QED
  BY <1>2, <1>6, <1>8, <1>9, <1>11

\* The step Rename.
LEMMA RenameOwns ==
  ASSUME IInv, OwnInv, Rename
  PROVE  OwnInv'
<1>1. /\ pc = "rename" /\ Renamed /\ pc' \in {"byId", "byName"} /\ op' = op
      /\ UNCHANGED <<id, name, tf, mname, last, dbs, current, mine, told>>
  BY DEF Rename, Renamed, FirstLookup
<1>2. QED
  BY <1>1, RenamedOwn DEF OwnInv, Ours, Snaps

\* The step RenameLost.
LEMMA RenameLostOwns ==
  ASSUME IInv, OwnInv, RenameLost
  PROVE  OwnInv'
<1>1. /\ pc = "rename" /\ Renamed /\ pc' = "idle" /\ op' = "none"
      /\ UNCHANGED <<id, name, tf, last, dbs, current, mine, told>>
  BY DEF RenameLost, Renamed, Keep, End
<1>2. QED
  BY <1>1, RenamedOwn DEF OwnInv, Ours, Snaps

\* The step Fails.
LEMMA FailsOwns ==
  ASSUME IInv, OwnInv, Fails
  PROVE  OwnInv'
  BY Bounds, SnapshotAssumption DEF IInv, TypeOK, HandlerInv, Snaps, OwnInv, Ours, Untold, Fails, End, Keep, Set, Remove, NotRead, KeptAfterCreate, UnlistedEnds, Found

\* The step Create.
LEMMA CreateOwns ==
  ASSUME IInv, OwnInv, Create
  PROVE  OwnInv'
  BY Bounds, SnapshotAssumption DEF IInv, TypeOK, HandlerInv, Snaps, OwnInv, Ours, Untold, Create, Appear, Free

\* The step CreateLost.
LEMMA CreateLostOwns ==
  ASSUME IInv, OwnInv, CreateLost
  PROVE  OwnInv'
  BY Bounds, SnapshotAssumption DEF IInv, TypeOK, HandlerInv, Snaps, OwnInv, Ours, Untold, CreateLost, Appear, Keep, End, Free

\* The step FoundById.
LEMMA FoundByIdOwns ==
  ASSUME IInv, OwnInv, FoundById
  PROVE  OwnInv'
  BY Bounds, SnapshotAssumption DEF IInv, TypeOK, HandlerInv, Snaps, OwnInv, Ours, Untold, FoundById, End, Keep, Set, Remove, NotRead, KeptAfterCreate, UnlistedEnds, Found

\* The step Cleared.
LEMMA ClearedOwns ==
  ASSUME IInv, OwnInv, Cleared
  PROVE  OwnInv'
  BY Bounds, SnapshotAssumption DEF IInv, TypeOK, HandlerInv, Snaps, OwnInv, Ours, Untold, Cleared, End, Keep, Set, Remove, NotRead, KeptAfterCreate, UnlistedEnds, Found

\* The step NotListed.
LEMMA NotListedOwns ==
  ASSUME IInv, OwnInv, NotListed
  PROVE  OwnInv'
  BY Bounds, SnapshotAssumption DEF IInv, TypeOK, HandlerInv, Snaps, OwnInv, Ours, Untold, NotListed

\* The step Unlisted.
LEMMA UnlistedOwns ==
  ASSUME IInv, OwnInv, Unlisted
  PROVE  OwnInv'
  BY Bounds, SnapshotAssumption DEF IInv, TypeOK, HandlerInv, Snaps, OwnInv, Ours, Untold, Unlisted, End, Keep, Set, Remove, NotRead, KeptAfterCreate, UnlistedEnds, Found

\* The step Recover.
LEMMA RecoverOwns ==
  ASSUME IInv, OwnInv, Recover
  PROVE  OwnInv'
  BY Bounds, SnapshotAssumption DEF IInv, TypeOK, HandlerInv, Snaps, OwnInv, Ours, Untold, Recover, Matches

\* The step Attach.
LEMMA AttachOwns ==
  ASSUME IInv, OwnInv, Attach
  PROVE  OwnInv'
  BY Bounds, SnapshotAssumption DEF IInv, TypeOK, HandlerInv, Snaps, OwnInv, Ours, Untold, Attach

\* The step ChooseNative.
LEMMA ChooseNativeOwns ==
  ASSUME IInv, OwnInv, ChooseNative
  PROVE  OwnInv'
  BY Bounds, SnapshotAssumption DEF IInv, TypeOK, HandlerInv, Snaps, OwnInv, Ours, Untold, ChooseNative

\* The step Unname.
LEMMA UnnameOwns ==
  ASSUME IInv, OwnInv, Unname
  PROVE  OwnInv'
  BY Bounds, SnapshotAssumption DEF IInv, TypeOK, HandlerInv, Snaps, OwnInv, Ours, Untold, Unname, ClearName, Remove, Set, End

\* The step UnnameLost.
LEMMA UnnameLostOwns ==
  ASSUME IInv, OwnInv, UnnameLost
  PROVE  OwnInv'
  BY Bounds, SnapshotAssumption DEF IInv, TypeOK, HandlerInv, Snaps, OwnInv, Ours, Untold, UnnameLost, ClearName

\* The step UnnameMissing.
LEMMA UnnameMissingOwns ==
  ASSUME IInv, OwnInv, UnnameMissing
  PROVE  OwnInv'
  BY Bounds, SnapshotAssumption DEF IInv, TypeOK, HandlerInv, Snaps, OwnInv, Ours, Untold, UnnameMissing, Remove, Set, End

\* The environment's step DropDatabase.
LEMMA DropDatabaseOwns ==
  ASSUME calm', IInv, OwnInv, NEW d \in Natives, DropDatabase(d)
  PROVE  OwnInv'
  BY Bounds, SnapshotAssumption DEF IInv, TypeOK, HandlerInv, Snaps, OwnInv, Ours, Untold, DropDatabase, Apart

\* The environment's step Recreate.
LEMMA RecreateOwns ==
  ASSUME calm', IInv, OwnInv, Recreate
  PROVE  OwnInv'
  BY Bounds, SnapshotAssumption DEF IInv, TypeOK, HandlerInv, Snaps, OwnInv, Ours, Untold, Recreate, Apart

\* The environment's step RenameElsewhere.
LEMMA RenameElsewhereOwns ==
  ASSUME calm', IInv, OwnInv, NEW i \in Snaps, NEW n \in Names \cup {Foreign, NoName}, RenameElsewhere(i, n)
  PROVE  OwnInv'
<1>1. n = NoName \/ ~Reserved(n)
  BY Zenon DEF RenameElsewhere
<1>2. /\ title[i] # NoName /\ title' = [title EXCEPT ![i] = n]
      /\ UNCHANGED <<last, dbs, current, listed, mine, told, tf, id, name, op, pc, mid, mname, chosen>>
  BY DEF RenameElsewhere, Apart, tfVars, opVars
<1>3. QED
  BY <1>1, <1>2, Bounds, SnapshotAssumption DEF IInv, TypeOK, HandlerInv, Snaps, OwnInv, Ours, Untold, Reserved

\* The environment's step Rival.
LEMMA RivalOwns ==
  ASSUME calm', IInv, OwnInv, NEW n \in Names \cup {Foreign}, Rival(n)
  PROVE  OwnInv'
<1>1. ~Reserved(n)
  BY Zenon DEF Rival
<1>2. /\ Own \in dbs /\ last < MaxSnaps /\ last' = last + 1
      /\ title' = [title EXCEPT ![last + 1] = n] /\ current' = current \cup {last + 1}
      /\ UNCHANGED <<dbs, mine, told, tf, id, name, op, pc, mid, mname, chosen>>
  BY DEF Rival, Appear, Apart, tfVars, opVars
<1>3. QED
  BY <1>1, <1>2, Bounds, SnapshotAssumption DEF IInv, TypeOK, HandlerInv, Snaps, OwnInv, Ours, Untold, Reserved

\* The environment's step List.
LEMMA ListOwns ==
  ASSUME calm', IInv, OwnInv, NEW i \in Snaps, List(i)
  PROVE  OwnInv'
  BY Bounds, SnapshotAssumption DEF IInv, TypeOK, HandlerInv, Snaps, OwnInv, Ours, Untold, List, Apart

\* The environment's step Unlist.
LEMMA UnlistOwns ==
  ASSUME calm', IInv, OwnInv, NEW i \in Snaps, Unlist(i)
  PROVE  OwnInv'
  BY Bounds, SnapshotAssumption DEF IInv, TypeOK, HandlerInv, Snaps, OwnInv, Ours, Untold, Unlist, Apart

\* An account that is calm after a step was so before.
LEMMA StaysCalm == [Next]_vars /\ calm' => calm
  BY DEF Next, vars, mdVars, Begin, Handler, Fails, Create, CreateLost, FoundById, Cleared,
         NotListed, FoundByName, Found, Unlisted, Rename, RenameLost, Renamed, Recover, Attach,
         ChooseNative, Unname, UnnameLost, UnnameMissing, Elsewhere, DropDatabase, Recreate,
         RenameElsewhere, Rival, List, Unlist

\* Every step keeps the invariant of the calm account.
LEMMA OwnNext == IInv /\ CalmInv /\ [Next]_vars => CalmInv'
<1> SUFFICES ASSUME IInv, calm => OwnInv, [Next]_vars, calm' PROVE OwnInv'
  BY DEF CalmInv
<1>1. OwnInv
  BY StaysCalm
<1>2. CASE UNCHANGED vars
  BY <1>1, <1>2 DEF OwnInv, Ours, Untold, Snaps, vars, mdVars, tfVars, opVars
<1>3. CASE \E o \in Ops, n \in Names : Begin(o, n)
  BY <1>1, <1>3, BeginOwns
<1>4. CASE Handler
  BY <1>1, <1>4, FailsOwns, CreateOwns, CreateLostOwns, FoundByIdOwns, ClearedOwns,
     NotListedOwns, FoundByNameOwns, UnlistedOwns, RenameOwns, RenameLostOwns,
     RecoverOwns, AttachOwns, ChooseNativeOwns, UnnameOwns, UnnameLostOwns,
     UnnameMissingOwns DEF Handler
<1>5. CASE Elsewhere
  BY <1>1, <1>5, DropDatabaseOwns, RecreateOwns, RenameElsewhereOwns, RivalOwns,
     ListOwns, UnlistOwns DEF Elsewhere
<1>6. QED
  BY <1>2, <1>3, <1>4, <1>5 DEF Next

\* In a calm account names are unique and at most one named snapshot is
\* untold, which the state or the handler that runs has.
THEOREM OwnInvariant == Spec => []CalmInv
<1>1. Init => CalmInv
  BY OwnInit DEF CalmInv
<1>2. QED
  BY <1>1, OwnNext, Invariant, PTL DEF Spec

\* In a calm account no failed read-back, lost answer, lagging catalog or
\* dropped database leaves a named snapshot behind that nobody was told of.
THEOREM NoneForgotten == Spec => []NoSilentOrphan
<1>1. IInv /\ CalmInv => NoSilentOrphan
  BY DEF IInv, HandlerInv, CalmInv, OwnInv, NoSilentOrphan, OrphansAreTold
<1>2. QED
  BY <1>1, OwnInvariant, Invariant, PTL

\* In a calm account a refresh that cannot see a snapshot which may still have
\* its name says so: no other snapshot of that name can take its place.
THEOREM UnlistedAnnounced == Spec => UnlistedIsAnnounced
<1>1. IInv /\ CalmInv /\ [Next]_vars => [CalmUnlistedStep]_vars
  <2> SUFFICES ASSUME IInv, OwnInv, [Next]_vars, EndsUnlisted
               PROVE  tf' = "none" /\ said' = "warning"
    BY DEF CalmInv, CalmUnlistedStep, UnlistedStep
  <2> USE DEF EndsUnlisted
  <2>1. Handler
    BY DEF Next, Ops, vars, mdVars, tfVars, opVars, Begin, Elsewhere, DropDatabase,
           Recreate, RenameElsewhere, Rival, List, Unlist, Apart
  <2>2. mid = id /\ mname = name /\ tf # "none" /\ pc \in {"byId", "byName"}
    BY DEF IInv, HandlerInv
  <2>3. ~Fails /\ ~FoundById /\ ~Cleared /\ ~NotListed
    BY <2>2 DEF Fails, FoundById, Cleared, NotListed, NotRead, Keep, End
  <2>4. ~FoundByName
    <3>1. SUFFICES ASSUME NEW i \in Matches PROVE FALSE
      BY DEF FoundByName
    <3>2. i \in Snaps /\ i \in listed /\ title[i] = name
      BY <2>2 DEF Matches, IInv, TypeOK
    <3>3. i = id
      BY <2>2, <3>2 DEF OwnInv, Ours
    <3>4. QED
      BY <3>2, <3>3
  <2>5. Unlisted
    BY <2>1, <2>2, <2>3, <2>4
       DEF Handler, Create, CreateLost, Rename, RenameLost, Recover, Attach,
           ChooseNative, Unname, UnnameLost, UnnameMissing
  <2>6. QED
    BY <2>2, <2>5 DEF Unlisted, Remove, Set, End, UnlistedEnds
<1>2. QED
  BY <1>1, OwnInvariant, Invariant, PTL DEF Spec, UnlistedIsAnnounced
=============================================================================
