----------------------------- MODULE FlightRun -----------------------------
(***************************************************************************)
(* The motherduck_flight_run resource (flight_run_resource.go): Create     *)
(* starts a production run of a Flight and may wait for it, refresh looks  *)
(* for the run, and destroy may cancel it.                                 *)
(*                                                                         *)
(* The hazard is a second production run.  An error after the run is in    *)
(* the state taints it, a tainted run is replaced by the next apply, and a *)
(* run that refresh forgets is created again.  Meanwhile the schedule      *)
(* starts runs of the same Flight, the listing lags and forgets, and the   *)
(* principal may not even see the Flight it may run.                       *)
(***************************************************************************)
EXTENDS Integers, FiniteSets

CONSTANTS
  MaxRuns,     \* bound on the runs of the Flight
  MaxStarts,   \* bound on the runs the resource starts
  MaxUnlisted, \* bound on the runs the listing lacks, for the schedule to start one
  PageSize,    \* flightRunListPageSize, and the listing's default page
  MaxPages,    \* flightRunListMaxPages
  NullConfig,  \* whether a value of config is null
  Functions    \* read functions the session exposes: "get" is MD_GET_FLIGHT_RUN,
               \* "list" MD_LIST_FLIGHT_RUNS, "flight" MD_GET_FLIGHT

ASSUME PageAssumption ==
  /\ MaxRuns \in Nat
  /\ MaxStarts \in Nat
  /\ MaxUnlisted \in Nat
  /\ PageSize \in Nat \ {0}
  /\ MaxPages \in Nat \ {0}
  /\ NullConfig \in BOOLEAN
  /\ Functions \subseteq {"get", "list", "flight"}

VARIABLES
  last,      \* number of the Flight's latest run
  status,    \* status of each run
  listed,    \* runs the listing has
  purged,    \* runs up to this number have been removed
  access,    \* what the principal may do with the Flight
  mine,      \* runs this resource has started
  excused,   \* runs after which another one may be started
  tf,        \* "none", "ok" or "tainted": the resource in Terraform's state
  recorded,  \* its run_number, or 0
  saved,     \* its status
  waits,     \* a Create that runs has wait_for_status = "succeeded"
  cancels,   \* cancel_on_destroy
  said,      \* how the last handler ended: "ok", "warning" or "error"
  op,        \* the handler that runs
  pc,        \* where it stands
  observed,  \* the status in its model
  late,      \* the deadline of the wait has passed
  ctx,       \* "live", or "done" after an interrupt
  page,      \* findFlightRunInListing: next page
  first,     \* its previousFirstRunID, 0 for none
  fresh,     \* runs listed since the last page
  watch      \* the run has been listed all along, and fresh is less than a page

apiVars  == <<last, status, listed, purged, access>>
tfVars   == <<tf, recorded, saved, waits, cancels, said>>
walkVars == <<page, first, fresh, watch>>
vars == <<apiVars, mine, excused, tfVars, op, pc, observed, late, ctx, walkVars>>

\* "failed" stands for every status flightRunFailed counts, cancelled included.
Terminal == {"failed", "succeeded"}
Statuses == Terminal \cup {"pending", "running"}
Ops == {"create", "read", "delete"}
PCs == {"idle", "start", "wait", "sleep", "poll", "visible", "read", "walk",
        "exists", "cancel"}

Init ==
  /\ last = 0
  /\ status = [r \in 1..MaxRuns |-> "pending"]
  /\ listed = {}
  /\ purged = 0
  /\ access \in {"full", "run_only"}
  /\ mine = {}
  /\ excused = {}
  /\ tf = "none"
  /\ recorded = 0
  /\ saved = "pending"
  /\ waits = FALSE
  /\ cancels \in BOOLEAN
  /\ said = "ok"
  /\ op = "none"
  /\ pc = "idle"
  /\ observed = "pending"
  /\ late = FALSE
  /\ ctx = "live"
  /\ page = 0
  /\ first = 0
  /\ fresh = 0
  /\ watch = FALSE

-----------------------------------------------------------------------------
(* What the session can see.                                               *)

\* How many listed runs are newer.
Rank(r) == Cardinality({n \in listed : n > r})

\* Rows of page k of MD_LIST_FLIGHT_RUNS, newest first.
Rows(k) == {r \in listed : k * PageSize <= Rank(r) /\ Rank(r) < (k + 1) * PageSize}

\* flightRunLookup finds a function to read runs with.
Readable == Functions \cap {"get", "list"} # {}

\* readFlightRunStatus gets the run's row: by number, or from the page the
\* listing returns by default.
RowFound ==
  /\ access = "full"
  /\ recorded \in IF "get" \in Functions THEN listed ELSE Rows(0)

-----------------------------------------------------------------------------
(* Decisions; Slip marks a plausible mistake no action uses.               *)

\* Slip: MD_RUN_FLIGHT is wrapped in retry.SQL like the other statements.
SlipAfterLostStart == "again"
\* Create: the error of MD_RUN_FLIGHT is reported at once.
AfterLostStart == "error"

\* Slip: the status is compared only with the failures.
SlipWaitIsOver == observed \in Terminal
\* waitForFlightRun: the wanted status was observed.
WaitIsOver == observed = "succeeded"

\* Slip: the deadline is left to the context of the statements.
SlipTimedOut == FALSE
\* waitForFlightRun: time.Now is not before the deadline.
TimedOut == late

\* Slip: an error of the poll is reported whatever its cause.
SlipPollErrorCounts == TRUE
\* waitForFlightRun: an error counts unless the context of the wait is done.
PollErrorCounts == ctx = "live" /\ ~late

\* Slip: the run is dropped when neither it nor its Flight is found.
SlipKeepsUnseen == access = "full" \/ "flight" \notin Functions
\* Read: a run that has a number is kept.
KeepsUnseen == access = "full" \/ "flight" \notin Functions \/ recorded # 0

\* Slip: the newest run of the page is taken for the resource's own.
SlipRowTaken(rows) == CHOOSE r \in rows : \A n \in rows : n <= r
\* findFlightRunInListing: the row with the run's number.
RowTaken(rows) == recorded

\* Slip: the last row of the page is kept to compare the next page with.
SlipPreviousFirst(rows) == {r \in rows : \A n \in rows : r <= n}
\* findFlightRunInListing: previousFirstRunID is rows[0], the newest row.
PreviousFirst(rows) == {r \in rows : \A n \in rows : n <= r}

\* findFlightRunInListing: a page without rows, or with the first row of the
\* page before, ends the walk before its rows are looked at.
Repeats(rows) == rows = {} \/ (first \in rows /\ \A n \in rows : n <= first)

\* findFlightRunInListing: after the rows, older ones or fewer than a page.
EndOfListing(rows) == Cardinality(rows) < PageSize \/ \E r \in rows : r < recorded

\* findFlightRunInListing: the bound of its loop.
LastPage == page + 1 = MaxPages

\* Slip: a Flight that is not found leaves nothing to cancel.
SlipAfterCancelMissing == "ok"
\* Delete: the run may go on, which a warning says.
AfterCancelMissing == "warning"

-----------------------------------------------------------------------------
(* Handlers.                                                               *)

\* The handler returns: its diagnostics are v.
Leave(v) ==
  /\ op' = "none"
  /\ pc' = "idle"
  /\ said' = v
  /\ waits' = FALSE

\* The same, for a handler that has waited or walked.
Return(v) ==
  /\ Leave(v)
  /\ observed' = "pending"
  /\ late' = FALSE
  /\ ctx' = "live"
  /\ page' = 0
  /\ first' = 0
  /\ fresh' = 0
  /\ watch' = FALSE
  /\ UNCHANGED <<apiVars, mine, cancels>>

\* Goes on inside the handler.
Goto(label) ==
  /\ pc' = label
  /\ UNCHANGED <<apiVars, mine, excused, tfVars, op, late, ctx>>

\* Create returns without an error and the state has the observed status.
CreateOk(v) ==
  /\ Return(v)
  /\ saved' = observed
  /\ UNCHANGED <<excused, tf, recorded>>

\* Create returns an error after the run is in the state, which taints it.
Taint ==
  /\ Return("error")
  /\ tf' = "tainted"
  /\ excused' = mine
  /\ UNCHANGED <<recorded, saved>>

\* Terraform calls a handler: Create when there is no run in the state, Delete
\* to destroy or replace it, Read to refresh it.
Begin(o) ==
  /\ op = "none"
  /\ o = "create" <=> tf = "none"
  /\ op' = o
  /\ pc' = IF o = "create" THEN "start" ELSE IF o = "read" THEN "read" ELSE "cancel"
  /\ said' = "ok"
  /\ waits' \in IF o = "create" THEN BOOLEAN ELSE {FALSE}
  /\ UNCHANGED <<apiVars, mine, excused, tf, recorded, saved, cancels,
                 observed, late, ctx, walkVars>>

\* The client, a probe or a statement fails where that ends the handler and
\* leaves the state as it was; Create has started nothing.
Fails ==
  /\ pc \in {"start", "read", "walk", "exists", "cancel"}
  /\ Return("error")
  /\ excused' = IF op = "create" THEN mine ELSE excused
  /\ UNCHANGED <<tf, recorded, saved>>

\* MD_RUN_FLIGHT starts a run.  Its answer arrives, with the status the run has
\* by then, and the state has the run, which is tainted if the conversion of
\* config had reported an error, and is waited for if that is asked; or the
\* answer is lost.
Start ==
  /\ pc = "start"
  /\ waits => Readable
  /\ access # "deleted"
  /\ last < MaxRuns
  /\ Cardinality(mine) < MaxStarts
  /\ last' = last + 1
  /\ mine' = mine \cup {last + 1}
  /\ \/ /\ recorded' = last + 1
        /\ saved' \in Statuses
        /\ status' = [status EXCEPT ![last + 1] = saved']
        /\ tf' = IF NullConfig THEN "tainted" ELSE "ok"
        /\ IF NullConfig THEN Leave("error") /\ excused' = mine'
           ELSE /\ UNCHANGED excused
                /\ IF waits THEN pc' = "wait" /\ UNCHANGED <<op, said, waits>>
                            ELSE Leave("ok")
        /\ observed' = IF waits /\ ~NullConfig THEN saved' ELSE "pending"
     \/ /\ IF AfterLostStart = "error" THEN Leave("error") /\ excused' = mine'
                                     ELSE UNCHANGED <<pc, op, said, waits, excused>>
        /\ UNCHANGED <<tf, recorded, saved, status, observed>>
  /\ UNCHANGED <<listed, purged, access, cancels, late, ctx, walkVars>>

\* The top of the loop in waitForFlightRun.
WaitSucceeded ==
  /\ pc = "wait"
  /\ WaitIsOver
  /\ CreateOk("ok")

WaitFailed ==
  /\ pc = "wait"
  /\ ~WaitIsOver
  /\ observed = "failed"
  /\ Taint

WaitTimedOut ==
  /\ pc = "wait"
  /\ ~WaitIsOver /\ observed # "failed"
  /\ TimedOut
  /\ CreateOk("warning")

WaitGoesOn ==
  /\ pc = "wait"
  /\ ~WaitIsOver /\ observed # "failed"
  /\ ~TimedOut
  /\ Goto("sleep")
  /\ UNCHANGED <<observed, walkVars>>

\* The sleep ends: at the deadline, by an interrupt, or for the next poll.
Wake ==
  /\ pc = "sleep"
  /\ \/ /\ TimedOut
        /\ Goto("wait")
        /\ UNCHANGED <<observed, walkVars>>
     \/ /\ ~TimedOut
        /\ ctx = "done"
        /\ CreateOk("warning")
     \/ /\ ~TimedOut
        /\ Goto("poll")
        /\ UNCHANGED <<observed, walkVars>>

\* readFlightRunStatus answers.
Poll ==
  /\ pc = "poll"
  /\ IF RowFound THEN Goto("wait") /\ observed' = status[recorded]
                 ELSE Goto("visible") /\ UNCHANGED observed
  /\ UNCHANGED walkVars

\* flightExists answers: a Flight that is not found ends the wait.
PollVisible ==
  /\ pc = "visible"
  /\ IF access = "full" \/ "flight" \notin Functions
       THEN Goto("wait") /\ UNCHANGED <<observed, walkVars>>
       ELSE CreateOk("warning")

\* The poll or flightExists fails.
PollFails ==
  /\ pc \in {"poll", "visible"}
  /\ IF PollErrorCounts THEN Taint
                        ELSE Goto("wait") /\ UNCHANGED <<observed, walkVars>>

\* Read is over and the state has the status it found.
Refreshed(s, v) ==
  /\ Return(v)
  /\ saved' = s
  /\ UNCHANGED <<excused, tf, recorded>>

\* Read: the row of the run, or the walk, or the look at the Flight.
ReadStatus ==
  /\ pc = "read"
  /\ Readable
  /\ \/ RowFound /\ Refreshed(status[recorded], "ok")
     \/ /\ ~RowFound
        /\ IF "list" \in Functions
             THEN Goto("walk") /\ watch' = (access = "full" /\ recorded \in listed)
             ELSE Goto("exists") /\ UNCHANGED watch
        /\ UNCHANGED <<observed, page, first, fresh>>

\* findFlightRunInListing: one page.
ReadPage ==
  /\ pc = "walk"
  /\ LET rows == IF access = "full" THEN Rows(page) ELSE {}
         over == Repeats(rows) \/ EndOfListing(rows) \/ LastPage
     IN \/ /\ ~Repeats(rows)
           /\ recorded \in rows
           /\ Refreshed(status[RowTaken(rows)], "ok")
        \/ /\ Repeats(rows) \/ recorded \notin rows
           /\ Goto(IF over THEN "exists" ELSE "walk")
           /\ page' = page + 1
           /\ IF Repeats(rows) THEN UNCHANGED first ELSE first' \in PreviousFirst(rows)
           /\ fresh' = 0
           /\ UNCHANGED <<observed, watch>>

\* Read: the run is nowhere; flightExists decides between the warnings.
ReadUnseen ==
  /\ pc = "exists"
  /\ Return("warning")
  /\ IF KeepsUnseen THEN UNCHANGED <<tf, recorded, saved>>
                    ELSE tf' = "none" /\ recorded' = 0 /\ saved' = "pending"
  /\ UNCHANGED excused

\* Delete is over and the run is out of the state.
Removed(v) ==
  /\ Leave(v)
  /\ tf' = "none"
  /\ recorded' = 0
  /\ saved' = "pending"
  /\ excused' = mine
  /\ UNCHANGED <<last, listed, purged, access, mine, cancels, observed, late,
                 ctx, walkVars>>

\* Delete: MD_CANCEL_FLIGHT_RUN is not asked for, cancels the run, finds it
\* terminal, or does not find it.
Delete ==
  /\ pc = "cancel"
  /\ \/ ~cancels /\ Removed("ok") /\ UNCHANGED status
     \/ /\ cancels /\ access = "full" /\ recorded > purged
        /\ Removed("ok")
        /\ status' = [status EXCEPT ![recorded] = IF @ \in Terminal THEN @ ELSE "failed"]
     \/ /\ cancels /\ (access # "full" \/ recorded <= purged)
        /\ Removed(AfterCancelMissing)
        /\ UNCHANGED status

\* Delete: the run is cancelled and the answer is lost; retry.SQL tries again
\* or Delete reports the error.
CancelUnanswered ==
  /\ pc = "cancel"
  /\ cancels /\ access = "full" /\ recorded > purged
  /\ status[recorded] \notin Terminal
  /\ status' = [status EXCEPT ![recorded] = "failed"]
  /\ Leave("error") \/ UNCHANGED <<op, pc, said, waits>>
  /\ UNCHANGED <<last, listed, purged, access, mine, excused, tf, recorded, saved,
                 cancels, observed, late, ctx, walkVars>>

\* Update copies the run from the state and takes the new settings.
Update ==
  /\ op = "none"
  /\ tf = "ok"
  /\ cancels' \in BOOLEAN
  /\ said' = "ok"
  /\ UNCHANGED <<apiVars, mine, excused, tf, recorded, saved, waits, op, pc,
                 observed, late, ctx, walkVars>>

-----------------------------------------------------------------------------
(* The surroundings.                                                       *)

stillVars == <<mine, excused, tfVars, op, pc, observed, page, first>>

\* The Flight's schedule starts a run.  It is over at once: what matters of the
\* runs of others is their place in the listing.
Schedule ==
  /\ access # "deleted"
  /\ last < MaxRuns
  /\ Cardinality((purged + 1)..last \ listed) < MaxUnlisted
  /\ last' = last + 1
  /\ status' = [status EXCEPT ![last + 1] = "succeeded"]
  /\ UNCHANGED <<listed, purged, access, stillVars, late,
                 ctx, fresh, watch>>

\* A run becomes visible in the listing.
List(r) ==
  /\ r > purged /\ r <= last /\ r \notin listed
  /\ listed' = listed \cup {r}
  /\ watch' = (watch /\ ~(pc = "walk" /\ fresh + 1 = PageSize))
  /\ fresh' = IF watch' /\ pc = "walk" THEN fresh + 1 ELSE 0
  /\ UNCHANGED <<last, status, purged, access, stillVars, late, ctx>>

\* The oldest run is removed from the listing for good.
Purge ==
  /\ purged < last
  /\ status[purged + 1] \in Terminal
  /\ purged' = purged + 1
  /\ listed' = listed \ {purged + 1}
  /\ watch' = (watch /\ recorded # purged + 1)
  /\ UNCHANGED <<last, status, access, stillVars, late, ctx, fresh>>

\* A run of the resource starts executing or ends.
Progress(r) ==
  /\ r \in mine
  /\ \/ status[r] = "pending" /\ status' = [status EXCEPT ![r] = "running"]
     \/ status[r] = "running"
        /\ \E s \in Terminal : status' = [status EXCEPT ![r] = s]
     \/ status[r] = "pending" /\ status' = [status EXCEPT ![r] = "failed"]
  /\ UNCHANGED <<last, listed, purged, access, stillVars, late, ctx,
                 fresh, watch>>

\* Grants on the Flight change, or it is deleted.
Grants ==
  /\ access # "deleted"
  /\ access' \in {"full", "run_only", "deleted"} \ {access}
  /\ watch' = FALSE
  /\ UNCHANGED <<last, status, listed, purged, stillVars, late, ctx,
                 fresh>>

\* The deadline of the wait passes.
Clock ==
  /\ pc \in {"wait", "sleep", "poll", "visible"}
  /\ ~late
  /\ late' = TRUE
  /\ UNCHANGED <<apiVars, stillVars, ctx, fresh, watch>>

\* Terraform is interrupted while Create waits.
Interrupt ==
  /\ pc \in {"wait", "sleep", "poll", "visible"}
  /\ ctx = "live"
  /\ ctx' = "done"
  /\ UNCHANGED <<apiVars, stillVars, late, fresh, watch>>

Handler == \/ Fails \/ Start \/ WaitSucceeded \/ WaitFailed \/ WaitTimedOut
           \/ WaitGoesOn \/ Wake \/ Poll \/ PollVisible \/ PollFails
           \/ ReadStatus \/ ReadPage \/ ReadUnseen \/ Delete \/ CancelUnanswered

Elsewhere == \/ Schedule \/ Purge \/ Grants \/ Clock \/ Interrupt
             \/ \E r \in 1..MaxRuns : List(r) \/ Progress(r)

Next == (\E o \in Ops : Begin(o)) \/ Handler \/ Update \/ Elsewhere

Spec == Init /\ [][Next]_vars

\* Statements return and time passes; the run need not end.
FairSpec == Spec /\ WF_vars(Handler) /\ WF_vars(Clock)

-----------------------------------------------------------------------------
(* Properties.                                                             *)

\* Every variable has its type.
TypeOK ==
  /\ last \in 0..MaxRuns
  /\ status \in [1..MaxRuns -> Statuses]
  /\ listed \in SUBSET (1..last)
  /\ purged \in 0..last
  /\ access \in {"full", "run_only", "deleted"}
  /\ mine \in SUBSET (1..last)
  /\ excused \in SUBSET (1..last)
  /\ tf \in {"none", "ok", "tainted"}
  /\ recorded \in 0..last
  /\ saved \in Statuses
  /\ waits \in BOOLEAN
  /\ cancels \in BOOLEAN
  /\ said \in {"ok", "warning", "error"}
  /\ op \in Ops \cup {"none"}
  /\ pc \in PCs
  /\ observed \in Statuses
  /\ late \in BOOLEAN
  /\ ctx \in {"live", "done"}
  /\ page \in 0..MaxPages
  /\ first \in 0..last
  /\ fresh \in Nat
  /\ watch \in BOOLEAN

\* One step's share of SecondRunJustified.
SecondRunStep == mine' # mine => mine \subseteq excused

\* A run is started only when every earlier run of the resource was given up
\* by a destroy, or the Create that started it reported an error: no lost
\* answer, timeout, refresh or change of settings starts production twice
\* behind the user's back.
SecondRunJustified == [][SecondRunStep]_vars

\* One step's share of TaintIsNews.
TaintStep ==
  (tf # "tainted" /\ tf' = "tainted")
    => \/ status[recorded'] = "failed"
       \/ pc \in {"poll", "visible"} /\ ctx = "live" /\ ~late

\* Only a run that really failed, or a failing status query of a wait that is
\* neither over nor interrupted, taints the run and so has it replaced.
TaintIsNews == [][TaintStep]_vars

\* What is recorded is not ahead of what happened.
NotAhead(s, t) == s = t \/ s = "pending" \/ (s = "running" /\ t # "pending")

\* The state has a run this resource started, in a status that run has had,
\* though other runs crowd the same listing.
RecordsOwnRun ==
  tf # "none" => recorded \in mine /\ NotAhead(saved, status[recorded])

\* One step's share of CleanEndings.
CleanEndingsStep ==
  (op # "none" /\ op' = "none" /\ said' = "ok")
    => /\ op = "create" /\ waits => status[recorded'] = "succeeded"
       /\ op = "delete" /\ cancels => status'[recorded] \in Terminal

\* A Create that waits ends without any diagnostic only when its run has
\* succeeded, and a Delete that cancels only when its run is over.
CleanEndings == [][CleanEndingsStep]_vars

\* When refresh gives up looking, a run that was listed all along is beyond
\* the last page: pages that shift under the walk hide no run, as long as
\* fewer than a page of runs is listed between two of them.
WalkFindsListed ==
  pc = "exists" /\ watch => Rank(recorded) >= MaxPages * PageSize

\* A wait ends, even if the run never does and no status can be read.
WaitEnds == op = "create" ~> op = "none"

-----------------------------------------------------------------------------
(* The inductive invariant behind the safety properties.                   *)

\* Where each handler can stand, and what is in the state meanwhile.
HandlerInv ==
  /\ op = "none" <=> pc = "idle"
  /\ op = "create" <=> pc \in {"start", "wait", "sleep", "poll", "visible"}
  /\ op = "read" <=> pc \in {"read", "walk", "exists"}
  /\ op = "delete" <=> pc = "cancel"
  /\ pc = "start" => tf = "none"
  /\ pc \notin {"idle", "start"} => tf # "none"
  /\ pc \notin {"wait", "sleep", "poll", "visible"} => observed = "pending"
  /\ pc = "walk" => page < MaxPages
  /\ pc \notin {"walk", "exists"} => page = 0

\* The state has the latest of the resource's runs that may not be repeated,
\* and neither it nor the handler's model is ahead of that run.
RunInv ==
  /\ tf = "none" => mine \subseteq excused
  /\ tf # "none" => /\ recorded \in mine
                    /\ mine \ {recorded} \subseteq excused
                    /\ NotAhead(saved, status[recorded])
                    /\ NotAhead(observed, status[recorded])

IInv == TypeOK /\ HandlerInv /\ RunInv

\* Purges take the oldest runs, so a run that stays is shifted by newer ones
\* only, towards pages that the walk has yet to read; and as long as fewer than
\* a page is listed between two pages, the first row of the page before is not
\* among the rows of this one.
WalkInv ==
  /\ \A r \in listed : r > purged
  /\ watch => access = "full" /\ recorded \in listed /\ fresh < PageSize
  /\ pc \notin {"walk", "exists"} => first = 0 /\ fresh = 0 /\ watch = FALSE
  /\ pc = "walk" /\ watch /\ first # 0
       => page > 0 /\ Rank(first) <= (page - 1) * PageSize + fresh
  /\ pc = "walk" /\ watch => Rank(recorded) >= page * PageSize
  /\ WalkFindsListed
=============================================================================
