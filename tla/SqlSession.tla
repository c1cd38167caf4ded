----------------------------- MODULE SqlSession -----------------------------
(***************************************************************************)
(* The shared SQL client of the provider (internal/client/sql/client.go):  *)
(* one embedded DuckDB instance, a database/sql pool of a single           *)
(* connection, a channel of capacity one that admits one operation at a    *)
(* time, and the initializer that boots the MotherDuck extension when the  *)
(* first connection opens.                                                 *)
(*                                                                         *)
(* An element of Ops is one goroutine of the provider.  Terraform runs     *)
(* resource handlers in parallel, so any number of them call the client at *)
(* once.  What a statement does is kept only where the session depends on  *)
(* it: USE selects a database, CREATE/DROP DATABASE change which databases *)
(* exist.  A statement fails when its context is done, when the object it  *)
(* names is gone, or by a transport fault, of which there are MaxFaults.   *)
(***************************************************************************)
EXTENDS Integers, Sequences

CONSTANTS
  Ops,           \* goroutines that call the client
  Databases,     \* MotherDuck databases, which can be created and dropped
  Memory,        \* DuckDB's own in-memory database, always present
  BootDb,        \* the database the boot ATTACH leaves selected
  None,          \* no database, no connection
  AttachMode,    \* whether the attach_mode provider argument is set
  MaxFaults,     \* bound on transport faults and dropped connections
  ExternalDrops  \* whether someone outside the provider drops databases

ASSUME NamesAssumption ==
  /\ Memory \notin Databases
  /\ None \notin Databases \cup Ops
  /\ Memory # None
  /\ BootDb \in Databases \cup {Memory}

ASSUME SettingsAssumption ==
  /\ AttachMode \in BOOLEAN
  /\ ExternalDrops \in BOOLEAN
  /\ MaxFaults \in Nat

VARIABLES
  sem,              \* admissions taken from the channel, capacity 1
  pc,               \* where each goroutine stands in its client call
  ctx,              \* "live", or "done" after a deadline or cancellation
  kind,             \* the client call: see Kinds
  target,           \* the database the call names, or None
  follow,           \* the next client call of the same resource handler
  previous,         \* WithDatabaseUse: the database to restore
  discard,          \* WithDatabaseUse: close the connection afterwards
  once,             \* QueryRow: the Row has released its admission
  conn,             \* database the pooled connection has selected, or None
  next,             \* oneTimeInitializer.next
  initialized,      \* oneTimeInitializer.initialized
  defaultDatabase,  \* oneTimeInitializer.defaultDatabase
  attached,         \* the DuckDB instance has attached MotherDuck
  dbs,              \* MotherDuck databases that exist
  faults            \* transport faults so far

callVars  == <<ctx, kind, target, follow>>
localVars == <<previous, discard, once>>
bootVars  == <<next, initialized, defaultDatabase, attached>>
vars == <<sem, pc, callVars, localVars, conn, bootVars, dbs, faults>>

(***************************************************************************)
(* Client calls.  "exec" is Exec, AttachDatabase, ScalarString, Exists or  *)
(* QueryRowsJSON with a statement that leaves the session alone; "row" is  *)
(* QueryRow; "scope" is WithDatabaseUse; "create" is the Exec of a         *)
(* database resource's Create; "current", "reset" and "drop" are the three *)
(* calls its Delete makes, each admitted on its own.                       *)
(***************************************************************************)
Kinds == {"exec", "row", "scope", "create", "current", "reset", "drop"}

PCs == {"idle", "queued", "admitted", "boot", "run", "row", "scanned",
        "prev", "use", "scoped", "restore", "close", "release"}

BootQueries == IF AttachMode
                 THEN <<"install", "load", "token", "mode", "attach">>
                 ELSE <<"install", "load", "token", "attach">>

BootLen == IF AttachMode THEN 5 ELSE 4

Live == dbs \cup {Memory}

Init ==
  /\ sem = 0
  /\ pc = [o \in Ops |-> "idle"]
  /\ ctx = [o \in Ops |-> "live"]
  /\ kind = [o \in Ops |-> "exec"]
  /\ target = [o \in Ops |-> None]
  /\ follow = [o \in Ops |-> "none"]
  /\ previous = [o \in Ops |-> None]
  /\ discard = [o \in Ops |-> FALSE]
  /\ once = [o \in Ops |-> FALSE]
  /\ conn = None
  /\ next = 0
  /\ initialized = FALSE
  /\ defaultDatabase = None
  /\ attached = FALSE
  /\ dbs \in {Databases, Databases \cap {BootDb}}
  /\ faults = 0

-----------------------------------------------------------------------------
Goto(o, label) == pc' = [pc EXCEPT ![o] = label]

\* Where a call goes once its connection is ready, and where it goes when it
\* is over: a QueryRow keeps its admission until Scan, the others give it up.
Ready(o) == IF kind[o] = "scope" THEN "prev" ELSE "run"
After(o) == IF kind[o] = "row" THEN "row" ELSE "release"

\* The driver call fails because the context is done or the transport broke.
TransportFault == faults < MaxFaults /\ faults' = faults + 1
Fault(o) == \/ ctx[o] = "done" /\ UNCHANGED faults
            \/ TransportFault

\* The call is over and the goroutine is back in its resource handler.
Finish(o) ==
  /\ Goto(o, "idle")
  /\ ctx' = [ctx EXCEPT ![o] = "live"]
  /\ kind' = [kind EXCEPT ![o] = "exec"]
  /\ target' = [target EXCEPT ![o] = None]
  /\ follow' = [follow EXCEPT ![o] = "none"]
  /\ previous' = [previous EXCEPT ![o] = None]
  /\ discard' = [discard EXCEPT ![o] = FALSE]
  /\ once' = [once EXCEPT ![o] = FALSE]

\* retry.SQL repeats DROP DATABASE after a transport fault; nothing else that
\* changes a database is repeated.
RetryAfterFault(o) ==
  follow' = IF kind[o] = "drop" THEN [follow EXCEPT ![o] = "drop"] ELSE follow

-----------------------------------------------------------------------------
(* The decisions the code takes at one point each.  A definition whose     *)
(* name starts with Slip is the one after it as a plausible mistake would  *)
(* have it; no action uses it.                                             *)

\* Slip: the channel is made with room for every caller.
SlipChannelHasRoom == TRUE
\* acquire: the channel has capacity one.
ChannelHasRoom == sem < 1

\* Slip: a mutex instead of the select, so that ctx is seen after the wait.
SlipLeavesQueue(o) == ctx[o] = "done" /\ sem < 1
\* acquire: the wait ends when the context is done.
LeavesQueue(o) == ctx[o] = "done"

\* Slip: an early return on a done context skips the deferred release.
SlipGiveUpAdmission(o) ==
  /\ sem > 0
  /\ sem' = IF ctx[o] = "done" THEN sem ELSE sem - 1
\* release: one receive from the channel.
GiveUpAdmission(o) == sem > 0 /\ sem' = sem - 1

\* Slip: Scan calls release without the sync.Once.
SlipScanReleases(o) == sem > 0
\* Row.Scan: only the first call releases.
ScanReleases(o) == ~once[o]

\* Slip: a failed initialization starts over on the next connection.
SlipNextAfterFailure == 0
\* oneTimeInitializer: a failed initialization resumes where it failed.
NextAfterFailure == next

\* Slip: initialized is set as soon as the token is.
SlipBootDone == next > 2
\* oneTimeInitializer: the loop has run every statement.
BootDone == next = BootLen

\* Slip: the error of USE is dropped and the callback runs all the same.
SlipAfterUseError == "scoped"
\* WithDatabaseUse: the error of USE is returned.
AfterUseError == "close"

\* Slip: USE previous runs under the caller's context.
SlipRestoreFault(o) == Fault(o)
\* WithDatabaseUse: USE previous outlives the caller's cancellation.
RestoreFault(o) == TransportFault

\* Slip: discard is cleared before the error of USE previous is looked at.
SlipDiscardAfterRestoreError == FALSE
\* WithDatabaseUse: the discard stands when USE previous fails.
DiscardAfterRestoreError == TRUE

\* Slip: Conn.Close alone, which puts the connection back into the pool.
SlipConnAfterScope(o) == conn
\* WithDatabaseUse: ErrBadConn from Raw closes a discarded connection.
ConnAfterScope(o) == IF discard[o] THEN None ELSE conn

-----------------------------------------------------------------------------
(* Admission.                                                              *)

\* A handler makes a client call; acquire's first check of ctx passes.
Begin(o) ==
  /\ pc[o] = "idle"
  /\ \E k \in {"exec", "row", "scope", "create", "current"} :
       /\ kind' = [kind EXCEPT ![o] = k]
       /\ follow' = [follow EXCEPT ![o] = IF k = "current" THEN "drop"
                                                           ELSE "none"]
       /\ \E d \in Databases \cup {None} :
            /\ (d = None) <=> (k \in {"exec", "row"})
            /\ target' = [target EXCEPT ![o] = d]
  /\ Goto(o, "queued")
  /\ UNCHANGED <<sem, ctx, localVars, conn, bootVars, dbs, faults>>

\* acquire: the send on the channel succeeds when the buffer has room.
Acquire(o) ==
  /\ pc[o] = "queued"
  /\ ChannelHasRoom
  /\ sem' = sem + 1
  /\ Goto(o, "admitted")
  /\ UNCHANGED <<callVars, localVars, conn, bootVars, dbs, faults>>

\* acquire: the context is done first and the call returns its error.
Abandon(o) ==
  /\ pc[o] = "queued"
  /\ LeavesQueue(o)
  /\ Finish(o)
  /\ UNCHANGED <<sem, conn, bootVars, dbs, faults>>

\* The deferred release of a call; the handler may go on to its next call,
\* which acquire refuses at once when the context is done.
Release(o) ==
  /\ pc[o] = "release"
  /\ GiveUpAdmission(o)
  /\ \/ /\ follow[o] # "none"
        /\ ctx[o] = "live"
        /\ kind' = [kind EXCEPT ![o] = follow[o]]
        /\ follow' = [follow EXCEPT ![o] = IF @ = "reset" THEN "drop" ELSE "none"]
        /\ Goto(o, "queued")
        /\ UNCHANGED <<ctx, target, localVars>>
     \/ /\ follow[o] = "none" \/ ctx[o] = "done"
        /\ Finish(o)
  /\ UNCHANGED <<conn, bootVars, dbs, faults>>

-----------------------------------------------------------------------------
(* Connections.                                                            *)

\* database/sql hands out the idle connection.
Checkout(o) ==
  /\ pc[o] = "admitted"
  /\ ctx[o] = "live"
  /\ conn # None
  /\ Goto(o, Ready(o))
  /\ UNCHANGED <<sem, callVars, localVars, conn, bootVars, dbs, faults>>

\* contextConnector.Connect: a fresh connection, on which run() starts.
Open(o) ==
  /\ pc[o] = "admitted"
  /\ ctx[o] = "live"
  /\ conn = None
  /\ conn' = Memory
  /\ Goto(o, "boot")
  /\ UNCHANGED <<sem, callVars, localVars, bootVars, dbs, faults>>

\* No connection: database/sql sees the context done, or the driver fails.
ConnectFails(o) ==
  /\ pc[o] = "admitted"
  /\ Fault(o)
  /\ Goto(o, After(o))
  /\ RetryAfterFault(o)
  /\ UNCHANGED <<sem, ctx, kind, target, localVars, conn, bootVars, dbs>>

AtBootQuery(o, q) ==
  /\ pc[o] = "boot"
  /\ ~initialized
  /\ next < BootLen
  /\ BootQueries[next + 1] = q

\* run(): a boot statement other than ATTACH succeeds.
BootSetup(o) ==
  /\ \E q \in {"install", "load", "token", "mode"} : AtBootQuery(o, q)
  /\ next' = next + 1
  /\ UNCHANGED <<sem, pc, callVars, localVars, conn, initialized,
                 defaultDatabase, attached, dbs, faults>>

\* run(): ATTACH succeeds and selects a database, or an earlier attempt has
\* attached already and ATTACH IF NOT EXISTS succeeds instead.
BootAttach(o) ==
  /\ AtBootQuery(o, "attach")
  /\ \/ ~attached /\ BootDb \in Live /\ conn' = BootDb
     \/ attached /\ conn' \in {conn, BootDb}
  /\ attached' = TRUE
  /\ next' = next + 1
  /\ UNCHANGED <<sem, pc, callVars, localVars, initialized, defaultDatabase,
                 dbs, faults>>

\* run(): every statement ran; the connection's database becomes the default.
RecordDefault(o) ==
  /\ pc[o] = "boot"
  /\ ~initialized
  /\ BootDone
  /\ defaultDatabase' = conn
  /\ initialized' = TRUE
  /\ Goto(o, Ready(o))
  /\ UNCHANGED <<sem, callVars, localVars, conn, next, attached, dbs, faults>>

\* run(): a later connection selects the recorded default.
SelectDefault(o) ==
  /\ pc[o] = "boot"
  /\ initialized
  /\ defaultDatabase \in Live
  /\ conn' = defaultDatabase
  /\ Goto(o, Ready(o))
  /\ UNCHANGED <<sem, callVars, localVars, bootVars, dbs, faults>>

\* run() returns an error and Connect closes the new connection.  next keeps
\* the statements that succeeded; an ATTACH may have completed remotely.
BootFails(o) ==
  /\ pc[o] = "boot"
  /\ Fault(o)
  /\ attached' \in {attached} \cup
       (IF AtBootQuery(o, "attach") /\ BootDb \in Live THEN {TRUE} ELSE {})
  /\ conn' = None
  /\ next' = NextAfterFailure
  /\ Goto(o, After(o))
  /\ RetryAfterFault(o)
  /\ UNCHANGED <<sem, ctx, kind, target, localVars, initialized,
                 defaultDatabase, dbs>>

\* run() names a database that is gone: the one to attach, or the default.
BootRefused(o) ==
  /\ pc[o] = "boot"
  /\ \/ AtBootQuery(o, "attach") /\ ~attached /\ BootDb \notin Live
     \/ initialized /\ defaultDatabase \notin Live
  /\ conn' = None
  /\ Goto(o, After(o))
  /\ UNCHANGED <<sem, callVars, localVars, bootVars, dbs, faults>>

-----------------------------------------------------------------------------
(* Exec, QueryRow, ScalarString, Exists, QueryRowsJSON.                    *)

\* The databases that exist after the statement of a call has taken effect;
\* DuckDB refuses to drop the database that is selected.
Effect(o) ==
  (dbs \cup (IF kind[o] = "create" THEN {target[o]} ELSE {}))
    \ (IF kind[o] = "drop" /\ conn # target[o] THEN {target[o]} ELSE {})

\* The statement runs.  Delete's first call compares the current database
\* with its own and decides on USE memory.
Run(o) ==
  /\ pc[o] = "run"
  /\ conn # None
  /\ follow' = IF kind[o] = "current" /\ conn = target[o]
                 THEN [follow EXCEPT ![o] = "reset"] ELSE follow
  /\ conn' = IF kind[o] = "reset" THEN Memory ELSE conn
  /\ dbs' = Effect(o)
  /\ Goto(o, After(o))
  /\ UNCHANGED <<sem, ctx, kind, target, localVars, bootVars, faults>>

\* The statement fails; what it did on the server may stand.
RunFails(o) ==
  /\ pc[o] = "run"
  /\ Fault(o)
  /\ dbs' \in {dbs, Effect(o)}
  /\ RetryAfterFault(o)
  /\ Goto(o, After(o))
  /\ UNCHANGED <<sem, ctx, kind, target, localVars, conn, bootVars>>

\* The connection is gone: database/sql repeats the call on a new one.
RunOnLost(o) ==
  /\ pc[o] = "run"
  /\ conn = None
  /\ Goto(o, "admitted")
  /\ UNCHANGED <<sem, callVars, localVars, conn, bootVars, dbs, faults>>

\* Row.Scan: the first call releases the admission, a second one does not.
Scan(o) ==
  /\ pc[o] \in {"row", "scanned"}
  /\ IF ScanReleases(o) THEN sem > 0 /\ sem' = sem - 1 ELSE UNCHANGED sem
  /\ once' = [once EXCEPT ![o] = TRUE]
  /\ Goto(o, "scanned")
  /\ UNCHANGED <<callVars, previous, discard, conn, bootVars, dbs, faults>>

\* The handler lets go of the Row.
DropRow(o) ==
  /\ pc[o] = "scanned"
  /\ Finish(o)
  /\ UNCHANGED <<sem, conn, bootVars, dbs, faults>>

-----------------------------------------------------------------------------
(* WithDatabaseUse, on one dedicated connection.                           *)

\* SELECT current_database() on the dedicated connection.
ReadPrevious(o) ==
  /\ pc[o] = "prev"
  /\ \/ /\ conn # None
        /\ previous' = [previous EXCEPT ![o] = conn]
        /\ Goto(o, "use")
        /\ UNCHANGED faults
     \/ /\ IF conn = None THEN UNCHANGED faults ELSE Fault(o)
        /\ Goto(o, "close")
        /\ UNCHANGED previous
  /\ UNCHANGED <<sem, callVars, discard, once, conn, bootVars, dbs>>

\* USE database; a failure discards the connection.
UseTarget(o) ==
  /\ pc[o] = "use"
  /\ discard' = [discard EXCEPT ![o] = TRUE]
  /\ \/ /\ conn # None
        /\ target[o] \in dbs
        /\ conn' = target[o]
        /\ Goto(o, "scoped")
        /\ UNCHANGED faults
     \/ /\ Goto(o, AfterUseError)
        /\ \/ Fault(o) /\ conn' \in {conn} \cup
                (IF conn # None /\ target[o] \in dbs THEN {target[o]} ELSE {})
           \/ /\ conn = None \/ target[o] \notin dbs
              /\ UNCHANGED <<conn, faults>>
  /\ UNCHANGED <<sem, callVars, previous, once, bootVars, dbs>>

\* The callback runs its statements and returns, with or without an error.
ScopeBody(o) ==
  /\ pc[o] = "scoped"
  /\ Goto(o, "restore")
  /\ UNCHANGED <<sem, callVars, localVars, conn, bootVars, dbs, faults>>

\* The callback panics: only the deferred functions run.
ScopePanic(o) ==
  /\ pc[o] = "scoped"
  /\ Goto(o, "close")
  /\ UNCHANGED <<sem, callVars, localVars, conn, bootVars, dbs, faults>>

\* USE previous, under a context that survives the caller's cancellation.
Restore(o) ==
  /\ pc[o] = "restore"
  /\ Goto(o, "close")
  /\ \/ /\ conn # None
        /\ previous[o] \in Live
        /\ conn' = previous[o]
        /\ discard' = [discard EXCEPT ![o] = FALSE]
        /\ UNCHANGED faults
     \/ /\ conn = None \/ previous[o] \notin Live
        /\ discard' = [discard EXCEPT ![o] = DiscardAfterRestoreError]
        /\ UNCHANGED <<conn, faults>>
     \/ /\ RestoreFault(o)
        /\ discard' = [discard EXCEPT ![o] = DiscardAfterRestoreError]
        /\ UNCHANGED conn
  /\ UNCHANGED <<sem, callVars, previous, once, bootVars, dbs>>

\* The deferred Raw and Close: the connection is closed or goes back idle.
CloseScope(o) ==
  /\ pc[o] = "close"
  /\ conn' = ConnAfterScope(o)
  /\ Goto(o, "release")
  /\ UNCHANGED <<sem, callVars, localVars, bootVars, dbs, faults>>

-----------------------------------------------------------------------------
(* The surroundings.                                                       *)

\* The operation's deadline passes or Terraform is interrupted.
Cancel(o) ==
  /\ pc[o] \notin {"idle", "scanned"}
  /\ ctx[o] = "live"
  /\ ctx' = [ctx EXCEPT ![o] = "done"]
  /\ UNCHANGED <<sem, pc, kind, target, follow, localVars, conn, bootVars,
                 dbs, faults>>

\* The pool drops its connection: the driver found it broken.
Lose ==
  /\ conn # None
  /\ \A o \in Ops : pc[o] # "boot"
  /\ TransportFault
  /\ conn' = None
  /\ UNCHANGED <<sem, pc, callVars, localVars, bootVars, dbs>>

\* Another client of the same account drops a database.
ExternalDrop ==
  /\ ExternalDrops
  /\ \E d \in dbs : dbs' = dbs \ {d}
  /\ UNCHANGED <<sem, pc, callVars, localVars, conn, bootVars, faults>>

Connecting(o) == \/ Checkout(o) \/ Open(o) \/ ConnectFails(o)
                 \/ BootSetup(o) \/ BootAttach(o) \/ RecordDefault(o)
                 \/ SelectDefault(o) \/ BootFails(o) \/ BootRefused(o)
Plain(o) == Run(o) \/ RunFails(o) \/ RunOnLost(o) \/ Scan(o) \/ DropRow(o)
Scope(o) == \/ ReadPrevious(o) \/ UseTarget(o) \/ ScopeBody(o)
            \/ ScopePanic(o) \/ Restore(o) \/ CloseScope(o)

\* The steps a goroutine takes by itself once it has been admitted.
Work(o) == Connecting(o) \/ Plain(o) \/ Scope(o) \/ Release(o)

Next ==
  \/ \E o \in Ops : \/ Begin(o) \/ Acquire(o) \/ Abandon(o) \/ Work(o)
                    \/ Cancel(o)
  \/ Lose
  \/ ExternalDrop

Spec == Init /\ [][Next]_vars

(***************************************************************************)
(* Driver calls return, so an admitted call keeps moving; senders blocked  *)
(* on a Go channel are served in turn, so a queued call that finds the     *)
(* channel free again and again is admitted.                               *)
(***************************************************************************)
Scheduled == \A o \in Ops : WF_vars(Work(o)) /\ SF_vars(Acquire(o))

\* The weakest scheduling: an admitted statement may hang forever, and only
\* the select in acquire wakes up when its context is done.
HungSpec == Spec /\ \A o \in Ops : WF_vars(Abandon(o))

-----------------------------------------------------------------------------
(* Properties.                                                             *)

\* The goroutine holds the admission.
Holding(o) ==
  pc[o] \in {"admitted", "boot", "run", "row", "prev", "use", "scoped", "restore",
            "close", "release"}

\* WithDatabaseUse may have changed the connection's database.
InScope(o) == pc[o] \in {"use", "scoped", "restore", "close"}

\* Every variable has its type.
TypeOK ==
  /\ sem \in {0, 1}
  /\ pc \in [Ops -> PCs]
  /\ ctx \in [Ops -> {"live", "done"}]
  /\ kind \in [Ops -> Kinds]
  /\ target \in [Ops -> Databases \cup {None}]
  /\ follow \in [Ops -> Kinds \cup {"none"}]
  /\ previous \in [Ops -> Databases \cup {Memory, None}]
  /\ discard \in [Ops -> BOOLEAN]
  /\ once \in [Ops -> BOOLEAN]
  /\ conn \in Databases \cup {Memory, None}
  /\ next \in 0..BootLen
  /\ initialized \in BOOLEAN
  /\ defaultDatabase \in Databases \cup {Memory, None}
  /\ attached \in BOOLEAN
  /\ dbs \in SUBSET Databases
  /\ faults \in 0..MaxFaults

\* At most one operation is admitted, and the channel holds exactly its
\* token: no error path, retry, second Scan or panic gives up an admission
\* twice, gives up another operation's, or keeps it.
OneAdmitted ==
  /\ \A o, p \in Ops : Holding(o) /\ Holding(p) => o = p
  /\ sem = IF \E o \in Ops : Holding(o) THEN 1 ELSE 0

\* Outside a WithDatabaseUse scope the pooled connection has the default
\* database selected, or memory after a database resource's Delete reset it:
\* a later operation never inherits the USE target of an earlier scope,
\* whichever way that scope ended.
NoInheritedUse ==
  (\A o \in Ops : ~InScope(o) /\ pc[o] # "boot")
    => conn \in {None, Memory, defaultDatabase}

\* The statements of a WithDatabaseUse callback run in the database the
\* scope selected, unless the connection under it is gone.
ScopeOnTarget ==
  \A o \in Ops : pc[o] = "scoped" => conn \in {None, target[o]}

\* One step's share of ScopeRestores.
ScopeRestoresStep ==
  \A o \in Ops :
    /\ (pc[o] = "close" /\ pc'[o] # "close" /\ previous[o] # None)
         => conn' \in {None, previous[o]}
    /\ (/\ pc[o] = "restore" /\ pc'[o] # "restore" /\ faults' = faults
        /\ conn # None /\ previous[o] \in Live)
         => (conn' = previous[o] /\ ~discard'[o])

\* A scope gives back a connection on the database it found or none at all,
\* and cancelling the operation does not keep it from restoring: without a
\* transport fault, and with the previous database still there, it restores.
ScopeRestores == [][ScopeRestoresStep]_vars

\* The token is never set on an instance that has attached MotherDuck, which
\* refuses it: boots that failed half way are resumed, not replayed.
TokenOnlyBeforeAttach ==
  \A o \in Ops : AtBootQuery(o, "token") => ~attached

\* No operation's statement reaches DuckDB before the MotherDuck attach, when
\* local DuckDB would answer it (md_user() says "duckdb"), however many
\* connections failed on the way there.
StatementsAfterAttach ==
  \A o \in Ops :
    pc[o] \in {"run", "prev", "use", "scoped", "restore"}
      => attached /\ initialized /\ next = BootLen

\* A USE reaches the statements of its scope and no others.
UseConfined == NoInheritedUse /\ ScopeOnTarget

\* The boot runs its statements in order and once, whatever connections break
\* on the way: the token before the attach, all else after it.
BootInOrder == TokenOnlyBeforeAttach /\ StatementsAfterAttach

\* When no statement hangs, every call that waits for admission gets an answer:
\* no path of another operation keeps the admission, and no retry goes on for
\* ever.
Served == Scheduled => \A o \in Ops : pc[o] = "queued" ~> pc[o] = "idle"

\* A queued call whose context is done stops waiting even when the admitted
\* statement never returns.
QueuedObservesDeadline ==
  \A o \in Ops : (pc[o] = "queued" /\ ctx[o] = "done") ~> pc[o] # "queued"

-----------------------------------------------------------------------------
(* The inductive invariant behind the safety properties.                   *)

\* What each goroutine's locals say at each point of its call.
CallsInv ==
  \A o \in Ops :
    /\ target[o] = None <=> kind[o] \in {"exec", "row"}
    /\ follow[o] \in {"none", "reset", "drop"}
    /\ follow[o] # "none" => kind[o] \in {"current", "reset", "drop"}
    /\ InScope(o) \/ pc[o] = "prev" => kind[o] = "scope"
    /\ pc[o] \in {"run", "row", "scanned"} => kind[o] # "scope"
    /\ pc[o] \in {"scoped", "restore"} => discard[o]
    /\ discard[o] => pc[o] \in {"scoped", "restore", "close", "release"}
                    /\ kind[o] = "scope"
    /\ previous[o] # None
         => /\ pc[o] \in {"use", "scoped", "restore", "close", "release"}
            /\ kind[o] = "scope"
    /\ once[o] <=> pc[o] = "scanned"

\* How far the boot is, and that nobody gets past it before it is done.
BootInv ==
  /\ next = BootLen => attached
  /\ attached => next >= BootLen - 1
  /\ initialized => next = BootLen /\ defaultDatabase # None
  /\ ~initialized => defaultDatabase = None
  /\ \A o \in Ops : InScope(o) \/ pc[o] \in {"run", "prev"} => initialized
  /\ \A o \in Ops : pc[o] = "boot" => conn # None
  /\ conn # None => initialized \/ \E o \in Ops : pc[o] = "boot"

\* The connection may have a database selected that is not its home.
Away(o) == \/ pc[o] \in {"boot", "scoped", "restore"}
           \/ pc[o] = "close" /\ discard[o]

\* Where the connection stands, and where a scope will take it back to.
HomeInv ==
  /\ conn \in {None, Memory, defaultDatabase} \/ \E o \in Ops : Away(o)
  /\ \A o \in Ops : pc[o] = "scoped" => conn \in {None, target[o]}
  /\ \A o \in Ops : pc[o] \in {"use", "scoped", "restore"}
                     => previous[o] \in {Memory, defaultDatabase}
  /\ \A o \in Ops : (pc[o] = "close" /\ ~discard[o] /\ previous[o] # None)
                     => conn \in {None, previous[o]}

IInv == TypeOK /\ OneAdmitted /\ CallsInv /\ BootInv /\ HomeInv

-----------------------------------------------------------------------------
(* The client implements exclusive sessions that start at home.            *)

Owner == IF \E o \in Ops : Holding(o) THEN CHOOSE o \in Ops : Holding(o)
                                      ELSE None

Serial == INSTANCE SerialSession
            WITH Clients <- Ops, Names <- Databases \cup {Memory},
                 Base <- Memory, Nobody <- None,
                 owner <- Owner, selected <- conn, home <- defaultDatabase

\* Every behaviour of the client is one of exclusive sessions.
ImplementsSerial == Serial!Spec
=============================================================================
