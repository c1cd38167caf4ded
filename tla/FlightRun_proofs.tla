-------------------------- MODULE FlightRun_proofs --------------------------
(* Proofs about FlightRun, for any number of runs and any page size.       *)
EXTENDS FlightRun, FiniteSetTheorems, WellFoundedInduction, TLAPS

USE DEF apiVars, tfVars, walkVars, stillVars

\* A handler that waits for its run.
Waiting == pc \in {"wait", "sleep", "poll", "visible"}

\* Bounds the steps below use.
LEMMA Bounds ==
  ASSUME TypeOK
  PROVE  /\ 0 \in 0..MaxPages /\ 0 \in 0..last /\ 0 \in Nat
         /\ last \in Nat /\ 1..last \subseteq 1..MaxRuns
  BY PageAssumption DEF TypeOK

\* Nothing has run yet.
LEMMA InvInit == Init => IInv
<1> SUFFICES ASSUME Init PROVE IInv
  OBVIOUS
<1>1. /\ 0 \in 0..MaxRuns /\ 0 \in 0..MaxPages /\ 0 \in 0..last /\ 0 \in Nat
      /\ last = 0
  BY PageAssumption DEF Init
<1>2. TypeOK
  BY <1>1 DEF Init, TypeOK, Statuses, PCs
<1>3. HandlerInv /\ RunInv
  BY DEF Init, HandlerInv, RunInv
<1>4. QED
  BY <1>2, <1>3 DEF IInv

\* A wait that goes on knows at most the run's own status.
LEMMA GoesOn ==
  ASSUME IInv, Waiting, NEW label \in {"wait", "sleep", "poll", "visible"}, Goto(label),
         observed' \in {observed, status[recorded]}, UNCHANGED walkVars
  PROVE  IInv'
<1>1. TypeOK'
  BY Bounds, PageAssumption DEF IInv, TypeOK, HandlerInv, RunInv, NotAhead, Statuses, Terminal, Ops, PCs, Goto, Waiting
<1>2. HandlerInv'
  BY PageAssumption DEF IInv, TypeOK, HandlerInv, RunInv, NotAhead, Statuses, Terminal, Ops, PCs, Goto, Waiting
<1>3. RunInv'
  BY PageAssumption DEF IInv, TypeOK, HandlerInv, RunInv, NotAhead, Statuses, Terminal, Ops, PCs, Goto, Waiting
<1>4. QED
  BY <1>1, <1>2, <1>3 DEF IInv

\* A wait that ends without an error saves the status it has observed.
LEMMA EndsWell ==
  ASSUME IInv, Waiting, NEW v \in {"ok", "warning"}, CreateOk(v)
  PROVE  IInv'
<1>1. TypeOK'
  BY Bounds, PageAssumption DEF IInv, TypeOK, HandlerInv, RunInv, NotAhead, Statuses, Terminal, Ops, PCs, CreateOk, Return, Leave, Waiting
<1>2. HandlerInv'
  BY PageAssumption DEF IInv, TypeOK, HandlerInv, RunInv, NotAhead, Statuses, Terminal, Ops, PCs, CreateOk, Return, Leave, Waiting
<1>3. RunInv'
  BY PageAssumption DEF IInv, TypeOK, HandlerInv, RunInv, NotAhead, Statuses, Terminal, Ops, PCs, CreateOk, Return, Leave, Waiting
<1>4. QED
  BY <1>1, <1>2, <1>3 DEF IInv

\* A tainted run excuses every run so far.
LEMMA EndsTainted ==
  ASSUME IInv, Waiting, Taint
  PROVE  IInv'
<1>1. TypeOK'
  BY Bounds, PageAssumption DEF IInv, TypeOK, HandlerInv, RunInv, NotAhead, Statuses, Terminal, Ops, PCs, Taint, Return, Leave, Waiting
<1>2. HandlerInv'
  BY PageAssumption DEF IInv, TypeOK, HandlerInv, RunInv, NotAhead, Statuses, Terminal, Ops, PCs, Taint, Return, Leave, Waiting
<1>3. RunInv'
  BY PageAssumption DEF IInv, TypeOK, HandlerInv, RunInv, NotAhead, Statuses, Terminal, Ops, PCs, Taint, Return, Leave, Waiting
<1>4. QED
  BY <1>1, <1>2, <1>3 DEF IInv

\* A refresh saves the status of the run in the state.
LEMMA Refreshes ==
  ASSUME IInv, pc \in {"read", "walk"}, Refreshed(status[recorded], "ok")
  PROVE  IInv'
<1>1. TypeOK'
  BY Bounds, PageAssumption DEF IInv, TypeOK, HandlerInv, RunInv, NotAhead, Statuses, Terminal, Ops, PCs, Refreshed, Return, Leave
<1>2. HandlerInv'
  BY PageAssumption DEF IInv, TypeOK, HandlerInv, RunInv, NotAhead, Statuses, Terminal, Ops, PCs, Refreshed, Return, Leave
<1>3. RunInv'
  BY PageAssumption DEF IInv, TypeOK, HandlerInv, RunInv, NotAhead, Statuses, Terminal, Ops, PCs, Refreshed, Return, Leave
<1>4. QED
  BY <1>1, <1>2, <1>3 DEF IInv

\* A refresh that looks on leaves the state alone.
LEMMA LooksOn ==
  ASSUME IInv, pc \in {"read", "walk"}, NEW label \in {"walk", "exists"}, Goto(label),
         page' \in 0..MaxPages, label = "walk" => page' < MaxPages,
         first' \in 0..last, fresh' \in Nat, watch' \in BOOLEAN, UNCHANGED observed
  PROVE  IInv'
<1>1. TypeOK'
  BY Bounds, PageAssumption DEF IInv, TypeOK, HandlerInv, RunInv, NotAhead, Statuses, Terminal, Ops, PCs, Goto
<1>2. HandlerInv'
  BY PageAssumption DEF IInv, TypeOK, HandlerInv, RunInv, NotAhead, Statuses, Terminal, Ops, PCs, Goto
<1>3. RunInv'
  BY PageAssumption DEF IInv, TypeOK, HandlerInv, RunInv, NotAhead, Statuses, Terminal, Ops, PCs, Goto
<1>4. QED
  BY <1>1, <1>2, <1>3 DEF IInv

\* A handler that fails before it changes anything leaves the state alone.
LEMMA Fail ==
  ASSUME IInv, Fails
  PROVE  IInv'
<1>1. TypeOK'
  BY Bounds, PageAssumption DEF IInv, TypeOK, HandlerInv, RunInv, NotAhead, Statuses, Terminal, Ops, PCs, Fails, Return, Leave
<1>2. HandlerInv'
  BY PageAssumption DEF IInv, TypeOK, HandlerInv, RunInv, NotAhead, Statuses, Terminal, Ops, PCs, Fails, Return, Leave
<1>3. RunInv'
  BY PageAssumption DEF IInv, TypeOK, HandlerInv, RunInv, NotAhead, Statuses, Terminal, Ops, PCs, Fails, Return, Leave
<1>4. QED
  BY <1>1, <1>2, <1>3 DEF IInv

\* Create starts a run when every earlier one is excused.
LEMMA StartsRun ==
  ASSUME IInv, Start
  PROVE  IInv'
<1>1. /\ last + 1 \in 1..MaxRuns /\ last' = last + 1
      /\ mine' \in SUBSET (1..last') /\ excused \in SUBSET (1..last')
      /\ excused' \in {excused, mine'} /\ recorded' \in 0..last'
      /\ first' \in 0..last' /\ listed' \in SUBSET (1..last') /\ purged' \in 0..last'
  BY PageAssumption DEF IInv, TypeOK, Start, Leave, AfterLostStart
<1>2. TypeOK'
  <2>1. /\ status' \in [1..MaxRuns -> Statuses]
        /\ saved' \in Statuses /\ observed' \in Statuses
    BY <1>1 DEF IInv, TypeOK, Start, Statuses
  <2>2. /\ tf' \in {"none", "ok", "tainted"} /\ pc' \in PCs
        /\ said' \in {"ok", "warning", "error"} /\ op' \in Ops \cup {"none"}
    BY DEF IInv, TypeOK, Start, Leave, AfterLostStart, PCs
  <2>3. waits' \in BOOLEAN
    BY DEF IInv, TypeOK, Start, Leave, AfterLostStart
  <2>4. UNCHANGED <<listed, purged, access, cancels, late, ctx, walkVars>>
    BY DEF Start
  <2>5. QED
    BY <1>1, <2>1, <2>2, <2>3, <2>4 DEF IInv, TypeOK
<1>3. HandlerInv'
  BY <1>1, PageAssumption DEF IInv, TypeOK, HandlerInv, RunInv, NotAhead, Statuses, Terminal, Ops, PCs, Start, Leave, AfterLostStart
<1>4. RunInv'
  BY <1>1, PageAssumption DEF IInv, TypeOK, HandlerInv, RunInv, NotAhead, Statuses, Terminal, Ops, PCs, Start, Leave, AfterLostStart
<1>5. QED
  BY <1>2, <1>3, <1>4 DEF IInv

\* A refresh that finds nothing keeps the run.
LEMMA KeepsRun ==
  ASSUME IInv, ReadUnseen
  PROVE  IInv'
<1>1. recorded # 0 /\ pc = "exists" /\ UNCHANGED <<tf, recorded, saved>>
  BY DEF IInv, TypeOK, HandlerInv, RunInv, ReadUnseen, KeepsUnseen
<1>2. TypeOK'
  BY <1>1, Bounds, PageAssumption DEF IInv, TypeOK, HandlerInv, RunInv, NotAhead, Statuses, Terminal, Ops, PCs, ReadUnseen, Return, Leave, KeepsUnseen
<1>3. HandlerInv'
  BY <1>1, PageAssumption DEF IInv, TypeOK, HandlerInv, RunInv, NotAhead, Statuses, Terminal, Ops, PCs, ReadUnseen, Return, Leave, KeepsUnseen
<1>4. RunInv'
  BY <1>1, PageAssumption DEF IInv, TypeOK, HandlerInv, RunInv, NotAhead, Statuses, Terminal, Ops, PCs, ReadUnseen, Return, Leave, KeepsUnseen
<1>5. QED
  BY <1>2, <1>3, <1>4 DEF IInv

\* A destroy excuses the run it removes.
LEMMA Removes ==
  ASSUME IInv, Delete
  PROVE  IInv'
<1>1. TypeOK'
  BY Bounds, PageAssumption DEF IInv, TypeOK, HandlerInv, RunInv, NotAhead, Statuses, Terminal, Ops, PCs, Delete, Removed, Leave, AfterCancelMissing
<1>2. HandlerInv'
  BY PageAssumption DEF IInv, TypeOK, HandlerInv, RunInv, NotAhead, Statuses, Terminal, Ops, PCs, Delete, Removed, Leave, AfterCancelMissing
<1>3. RunInv'
  BY PageAssumption DEF IInv, TypeOK, HandlerInv, RunInv, NotAhead, Statuses, Terminal, Ops, PCs, Delete, Removed, Leave, AfterCancelMissing
<1>4. QED
  BY <1>1, <1>2, <1>3 DEF IInv

\* A cancellation without an answer keeps the run in the state.
LEMMA Cancels ==
  ASSUME IInv, CancelUnanswered
  PROVE  IInv'
<1>1. TypeOK'
  BY Bounds, PageAssumption DEF IInv, TypeOK, HandlerInv, RunInv, NotAhead, Statuses, Terminal, Ops, PCs, CancelUnanswered, Leave
<1>2. HandlerInv'
  BY PageAssumption DEF IInv, TypeOK, HandlerInv, RunInv, NotAhead, Statuses, Terminal, Ops, PCs, CancelUnanswered, Leave
<1>3. RunInv'
  BY PageAssumption DEF IInv, TypeOK, HandlerInv, RunInv, NotAhead, Statuses, Terminal, Ops, PCs, CancelUnanswered, Leave
<1>4. QED
  BY <1>1, <1>2, <1>3 DEF IInv

\* A handler begins with the state as it is.
LEMMA Begins ==
  ASSUME IInv, NEW o \in Ops, Begin(o)
  PROVE  IInv'
<1>1. TypeOK'
  BY Bounds, PageAssumption DEF IInv, TypeOK, HandlerInv, RunInv, NotAhead, Statuses, Terminal, Ops, PCs, Begin
<1>2. HandlerInv'
  BY PageAssumption DEF IInv, TypeOK, HandlerInv, RunInv, NotAhead, Statuses, Terminal, Ops, PCs, Begin
<1>3. RunInv'
  BY PageAssumption DEF IInv, TypeOK, HandlerInv, RunInv, NotAhead, Statuses, Terminal, Ops, PCs, Begin
<1>4. QED
  BY <1>1, <1>2, <1>3 DEF IInv

\* New settings leave the run alone.
LEMMA Updates ==
  ASSUME IInv, Update
  PROVE  IInv'
<1>1. TypeOK'
  BY Bounds, PageAssumption DEF IInv, TypeOK, HandlerInv, RunInv, NotAhead, Statuses, Terminal, Ops, PCs, Update
<1>2. HandlerInv'
  BY PageAssumption DEF IInv, TypeOK, HandlerInv, RunInv, NotAhead, Statuses, Terminal, Ops, PCs, Update
<1>3. RunInv'
  BY PageAssumption DEF IInv, TypeOK, HandlerInv, RunInv, NotAhead, Statuses, Terminal, Ops, PCs, Update
<1>4. QED
  BY <1>1, <1>2, <1>3 DEF IInv

\* A scheduled run is none of the resource's.
LEMMA Schedules ==
  ASSUME IInv, Schedule
  PROVE  IInv'
<1>1. TypeOK'
  BY Bounds, PageAssumption DEF IInv, TypeOK, HandlerInv, RunInv, NotAhead, Statuses, Terminal, Ops, PCs, Schedule
<1>2. HandlerInv'
  BY PageAssumption DEF IInv, TypeOK, HandlerInv, RunInv, NotAhead, Statuses, Terminal, Ops, PCs, Schedule
<1>3. RunInv'
  BY PageAssumption DEF IInv, TypeOK, HandlerInv, RunInv, NotAhead, Statuses, Terminal, Ops, PCs, Schedule
<1>4. QED
  BY <1>1, <1>2, <1>3 DEF IInv

\* Removing an old run from the listing leaves the state alone.
LEMMA Purges ==
  ASSUME IInv, Purge
  PROVE  IInv'
<1>1. TypeOK'
  BY Bounds, PageAssumption DEF IInv, TypeOK, HandlerInv, RunInv, NotAhead, Statuses, Terminal, Ops, PCs, Purge
<1>2. HandlerInv'
  BY PageAssumption DEF IInv, TypeOK, HandlerInv, RunInv, NotAhead, Statuses, Terminal, Ops, PCs, Purge
<1>3. RunInv'
  BY PageAssumption DEF IInv, TypeOK, HandlerInv, RunInv, NotAhead, Statuses, Terminal, Ops, PCs, Purge
<1>4. QED
  BY <1>1, <1>2, <1>3 DEF IInv

\* Grants on the Flight leave its runs alone.
LEMMA Regrants ==
  ASSUME IInv, Grants
  PROVE  IInv'
<1>1. TypeOK'
  <2>1. access' \in {"full", "run_only", "deleted"} /\ watch' \in BOOLEAN
    BY DEF Grants
  <2>2. UNCHANGED <<last, status, listed, purged, stillVars, late, ctx, fresh>>
    BY DEF Grants
  <2>3. QED
    BY <2>1, <2>2 DEF IInv, TypeOK
<1>2. HandlerInv'
  BY PageAssumption DEF IInv, TypeOK, HandlerInv, RunInv, NotAhead, Statuses, Terminal, Ops, PCs, Grants
<1>3. RunInv'
  BY PageAssumption DEF IInv, TypeOK, HandlerInv, RunInv, NotAhead, Statuses, Terminal, Ops, PCs, Grants
<1>4. QED
  BY <1>1, <1>2, <1>3 DEF IInv

\* Time leaves the runs alone.
LEMMA Ticks ==
  ASSUME IInv, Clock
  PROVE  IInv'
<1>1. TypeOK'
  BY Bounds, PageAssumption DEF IInv, TypeOK, HandlerInv, RunInv, NotAhead, Statuses, Terminal, Ops, PCs, Clock
<1>2. HandlerInv'
  BY PageAssumption DEF IInv, TypeOK, HandlerInv, RunInv, NotAhead, Statuses, Terminal, Ops, PCs, Clock
<1>3. RunInv'
  BY PageAssumption DEF IInv, TypeOK, HandlerInv, RunInv, NotAhead, Statuses, Terminal, Ops, PCs, Clock
<1>4. QED
  BY <1>1, <1>2, <1>3 DEF IInv

\* An interrupt leaves the runs alone.
LEMMA Interrupts ==
  ASSUME IInv, Interrupt
  PROVE  IInv'
<1>1. TypeOK'
  BY Bounds, PageAssumption DEF IInv, TypeOK, HandlerInv, RunInv, NotAhead, Statuses, Terminal, Ops, PCs, Interrupt
<1>2. HandlerInv'
  BY PageAssumption DEF IInv, TypeOK, HandlerInv, RunInv, NotAhead, Statuses, Terminal, Ops, PCs, Interrupt
<1>3. RunInv'
  BY PageAssumption DEF IInv, TypeOK, HandlerInv, RunInv, NotAhead, Statuses, Terminal, Ops, PCs, Interrupt
<1>4. QED
  BY <1>1, <1>2, <1>3 DEF IInv

\* A run that is listed changes nothing for the others.
LEMMA Lists ==
  ASSUME IInv, NEW r \in 1..MaxRuns, List(r)
  PROVE  IInv'
<1>1. TypeOK'
  BY Bounds, PageAssumption DEF IInv, TypeOK, HandlerInv, RunInv, NotAhead, Statuses, Terminal, Ops, PCs, List
<1>2. HandlerInv'
  BY PageAssumption DEF IInv, TypeOK, HandlerInv, RunInv, NotAhead, Statuses, Terminal, Ops, PCs, List
<1>3. RunInv'
  BY PageAssumption DEF IInv, TypeOK, HandlerInv, RunInv, NotAhead, Statuses, Terminal, Ops, PCs, List
<1>4. QED
  BY <1>1, <1>2, <1>3 DEF IInv

\* A run that progresses does not go back.
LEMMA Progresses ==
  ASSUME IInv, NEW r \in 1..MaxRuns, Progress(r)
  PROVE  IInv'
<1>1. TypeOK'
  BY Bounds, PageAssumption DEF IInv, TypeOK, HandlerInv, RunInv, NotAhead, Statuses, Terminal, Ops, PCs, Progress
<1>2. HandlerInv'
  BY PageAssumption DEF IInv, TypeOK, HandlerInv, RunInv, NotAhead, Statuses, Terminal, Ops, PCs, Progress
<1>3. RunInv'
  BY PageAssumption DEF IInv, TypeOK, HandlerInv, RunInv, NotAhead, Statuses, Terminal, Ops, PCs, Progress
<1>4. QED
  BY <1>1, <1>2, <1>3 DEF IInv

\* Every step keeps the invariant.
LEMMA InvNext == IInv /\ [Next]_vars => IInv'
<1> SUFFICES ASSUME IInv, [Next]_vars PROVE IInv'
  OBVIOUS
<1>1. CASE \E o \in Ops : Begin(o)
  BY <1>1, Begins
<1>2. CASE Fails \/ Start \/ ReadUnseen \/ Delete \/ CancelUnanswered \/ Update
  BY <1>2, Fail, StartsRun, KeepsRun, Removes, Cancels, Updates
<1>3. CASE WaitSucceeded \/ WaitTimedOut \/ WaitFailed
  BY <1>3, EndsWell, EndsTainted
     DEF WaitSucceeded, WaitTimedOut, WaitFailed, Waiting
<1>4. CASE WaitGoesOn
  BY <1>4, GoesOn DEF WaitGoesOn, Waiting
<1>5. CASE Wake
  BY <1>5, GoesOn, EndsWell DEF Wake, Waiting
<1>6. CASE Poll
  <2>1. \E label \in {"wait", "visible"} :
          Goto(label) /\ observed' \in {observed, status[recorded]}
    BY <1>6 DEF Poll
  <2>2. QED
    BY <1>6, <2>1, GoesOn DEF Poll, Waiting
<1>7. CASE PollVisible
  BY <1>7, GoesOn, EndsWell DEF PollVisible, Waiting
<1>8. CASE PollFails
  BY <1>8, GoesOn, EndsTainted DEF PollFails, Waiting
<1>9. CASE ReadStatus
  <2>1. CASE Refreshed(status[recorded], "ok")
    BY <1>9, <2>1, Refreshes DEF ReadStatus
  <2>2. CASE \E label \in {"walk", "exists"} :
               Goto(label) /\ watch' \in BOOLEAN
    <3>1. pc = "read" /\ UNCHANGED <<observed, page, first, fresh>>
      BY <1>9, <2>2 DEF ReadStatus, Refreshed, Return, Leave, Goto
    <3>2. page' \in 0..MaxPages /\ page' < MaxPages
      BY <3>1, PageAssumption DEF IInv, TypeOK, HandlerInv
    <3>3. first' \in 0..last /\ fresh' \in Nat /\ watch' \in BOOLEAN
      BY <2>2, <3>1 DEF IInv, TypeOK
    <3>4. QED
      BY <2>2, <3>1, <3>2, <3>3, LooksOn
  <2>3. QED
    <3>1. watch \in BOOLEAN
      BY DEF IInv, TypeOK
    <3>2. QED
      BY <1>9, <2>1, <2>2, <3>1 DEF ReadStatus
<1>10. CASE ReadPage
  <2>1. CASE Refreshed(status[recorded], "ok")
    BY <1>10, <2>1, Refreshes DEF ReadPage
  <2>2. CASE \E label \in {"walk", "exists"} :
               Goto(label) /\ (label = "walk" => ~LastPage) /\ page' = page + 1
    <3>1. pc = "walk" /\ UNCHANGED observed /\ page \in 0..(MaxPages - 1)
      BY <1>10, <2>2, PageAssumption
         DEF ReadPage, Refreshed, Return, Leave, Goto, IInv, TypeOK, HandlerInv
    <3>2. first' \in 0..last /\ fresh' \in Nat /\ watch' \in BOOLEAN
      <4> DEFINE rows == IF access = "full" THEN Rows(page) ELSE {}
      <4>1. rows \in SUBSET listed
        BY DEF Rows
      <4>2. fresh' = 0 /\ UNCHANGED watch /\ (first' = first \/ first' \in rows)
        <5>1. CASE Refreshed(status[RowTaken(rows)], "ok")
          BY <5>1, <2>2 DEF Refreshed, Return, Leave, Goto
        <5>2. CASE /\ IF Repeats(rows) THEN UNCHANGED first ELSE first' \in PreviousFirst(rows)
                   /\ fresh' = 0 /\ UNCHANGED <<observed, watch>>
          <6>1. CASE Repeats(rows)
            BY <5>2, <6>1
          <6>2. CASE ~Repeats(rows)
            BY <5>2, <6>2 DEF PreviousFirst
          <6>3. QED
            BY <6>1, <6>2
        <5>3. QED
          BY <1>10, <5>1, <5>2 DEF ReadPage
      <4>3. \A r \in listed : r \in 0..last
        BY Bounds DEF IInv, TypeOK
      <4> HIDE DEF rows
      <4>4. QED
        BY <4>1, <4>2, <4>3 DEF IInv, TypeOK
    <3>3. page' \in 0..MaxPages
      BY <2>2, <3>1, PageAssumption
    <3>4. ~LastPage => page' < MaxPages
      BY <2>2, <3>1, PageAssumption DEF LastPage
    <3>5. QED
      BY <2>2, <3>1, <3>2, <3>3, <3>4, LooksOn
  <2>3. QED
    BY <1>10, <2>1, <2>2 DEF ReadPage, RowTaken
<1>11. CASE Schedule \/ Purge \/ Grants \/ Clock \/ Interrupt
  BY <1>11, Schedules, Purges, Regrants, Ticks, Interrupts
<1>12. CASE \E r \in 1..MaxRuns : List(r) \/ Progress(r)
  BY <1>12, Lists, Progresses
<1>13. CASE UNCHANGED vars
  BY <1>13 DEF vars, IInv, TypeOK, HandlerInv, RunInv
<1>14. QED
  BY <1>1, <1>2, <1>3, <1>4, <1>5, <1>6, <1>7, <1>8, <1>9, <1>10, <1>11, <1>12,
     <1>13 DEF Next, Handler, Elsewhere

\* The invariant holds in every behaviour of the resource.
THEOREM Invariant == Spec => []IInv
  BY InvInit, InvNext, PTL DEF Spec

\* Every variable keeps its type, for any number of runs.
THEOREM TypeCorrect == Spec => []TypeOK
<1>1. IInv => TypeOK
  BY DEF IInv
<1>2. QED
  BY <1>1, Invariant, PTL

\* What the state says of the run is true of the resource's own run.
THEOREM OwnRun == Spec => []RecordsOwnRun
<1>1. IInv => RecordsOwnRun
  BY DEF IInv, RunInv, RecordsOwnRun
<1>2. QED
  BY <1>1, Invariant, PTL

\* A step that is not Start starts no run of the resource.
LEMMA OnlyStartStarts == ASSUME [Next]_vars PROVE mine' = mine \/ Start
  BY DEF Next, Handler, Elsewhere, Begin, Fails, WaitSucceeded, WaitFailed,
         WaitTimedOut, WaitGoesOn, Wake, Poll, PollVisible, PollFails, ReadStatus,
         ReadPage, ReadUnseen, Delete, CancelUnanswered, Update, Schedule, List,
         Purge, Progress, Grants, Clock, Interrupt, Leave, Return, Goto, CreateOk,
         Taint, Refreshed, Removed, vars

\* Production is started again only after a reported error or a destroy.
THEOREM RestartsJustified == Spec => SecondRunJustified
<1>1. IInv /\ [Next]_vars => [SecondRunStep]_vars
  <2> SUFFICES ASSUME IInv, [Next]_vars, mine' # mine PROVE mine \subseteq excused
    BY DEF SecondRunStep
  <2>1. Start
    BY OnlyStartStarts
  <2>2. QED
    BY <2>1 DEF Start, IInv, HandlerInv, RunInv
<1>2. QED
  BY <1>1, Invariant, PTL DEF Spec, SecondRunJustified

\* A run is tainted by its failure or by a failing query of a live wait, if no
\* value of its config is null.
THEOREM TaintsAreNews == ASSUME NullConfig = FALSE PROVE Spec => TaintIsNews
<1>1. IInv /\ [Next]_vars => [TaintStep]_vars
  <2> SUFFICES ASSUME IInv, [Next]_vars, tf # "tainted", tf' = "tainted"
               PROVE  \/ status[recorded'] = "failed"
                      \/ pc \in {"poll", "visible"} /\ ctx = "live" /\ ~late
    BY DEF TaintStep
  <2>1. WaitFailed \/ PollFails
    BY NullConfig = FALSE
       DEF Next, Handler, Elsewhere, Begin, Fails, Start, WaitSucceeded,
           WaitTimedOut, WaitGoesOn, Wake, Poll, PollVisible, ReadStatus, ReadPage,
           ReadUnseen, Delete, CancelUnanswered, Update, Schedule, List, Purge,
           Progress, Grants, Clock, Interrupt, Leave, Return, Goto, CreateOk,
           Refreshed, Removed, vars
  <2>2. CASE WaitFailed
    BY <2>2 DEF WaitFailed, Taint, IInv, HandlerInv, RunInv, NotAhead
  <2>3. CASE PollFails
    BY <2>3 DEF PollFails, PollErrorCounts, Goto
  <2>4. QED
    BY <2>1, <2>2, <2>3
<1>2. QED
  BY <1>1, Invariant, PTL DEF Spec, TaintIsNews

\* Handlers end without a diagnostic only when they have done their work.
THEOREM EndingsAreClean == Spec => CleanEndings
<1>1. IInv /\ [Next]_vars => [CleanEndingsStep]_vars
  <2> SUFFICES ASSUME IInv, [Next]_vars, op # "none", op' = "none", said' = "ok"
               PROVE  /\ op = "create" /\ waits => status[recorded'] = "succeeded"
                      /\ op = "delete" /\ cancels => status'[recorded] \in Terminal
    BY DEF CleanEndingsStep
  <2>1. \/ Start \/ WaitSucceeded \/ Delete
        \/ ReadStatus \/ ReadPage
    BY DEF Next, Handler, Elsewhere, Begin, Fails, WaitFailed, WaitTimedOut,
           WaitGoesOn, Wake, Poll, PollVisible, PollFails, ReadUnseen,
           CancelUnanswered, Update, Schedule, List, Purge, Progress, Grants, Clock,
           Interrupt, Leave, Return, Goto, CreateOk, Taint, vars
  <2>2. CASE Start
    BY <2>2 DEF Start, Leave, AfterLostStart, IInv, HandlerInv
  <2>3. CASE WaitSucceeded
    BY <2>3 DEF WaitSucceeded, WaitIsOver, CreateOk, IInv, HandlerInv, RunInv,
                NotAhead
  <2>4. CASE Delete
    <3>1. op = "delete" /\ status \in [1..MaxRuns -> Statuses]
      BY <2>4 DEF Delete, IInv, TypeOK, HandlerInv
    <3>2. recorded \in 1..MaxRuns
      BY <2>4, Bounds DEF Delete, IInv, TypeOK, HandlerInv, RunInv
    <3>3. cancels => status' =
            [status EXCEPT ![recorded] = IF @ \in Terminal THEN @ ELSE "failed"]
      BY <2>4 DEF Delete, Removed, Leave, AfterCancelMissing
    <3>4. QED
      BY <3>1, <3>2, <3>3 DEF Terminal
  <2>5. CASE ReadStatus \/ ReadPage
    BY <2>5 DEF ReadStatus, ReadPage, IInv, HandlerInv
  <2>6. QED
    BY <2>1, <2>2, <2>3, <2>4, <2>5
<1>2. QED
  BY <1>1, Invariant, PTL DEF Spec, CleanEndings

-----------------------------------------------------------------------------
(* The listing walk: ranks count the newer runs, and pages are intervals of *)
(* ranks.                                                                   *)

\* The least and the greatest of a set of numbers.
LEMMA LeastExists ==
  ASSUME NEW T \in SUBSET Nat, T # {}
  PROVE  \E x \in T : \A y \in T : x <= y
<1>1. IsWellFoundedOn(OpToRel(<, Nat), Nat)
  BY NatLessThanWellFounded
<1>2. PICK x \in T : \A y \in T : <<y, x>> \notin OpToRel(<, Nat)
  BY <1>1, WFMin
<1>3. \A y \in T : ~(y < x)
  BY <1>2 DEF OpToRel
<1>4. QED
  BY <1>3

LEMMA GreatestExists ==
  ASSUME NEW n \in Nat, NEW T \in SUBSET (1..n), T # {}
  PROVE  \E x \in T : \A y \in T : y <= x
<1> DEFINE Bs == {b \in Nat : \A y \in T : y <= b}
<1>1. n \in Bs
  OBVIOUS
<1>2. PICK m \in Bs : \A b \in Bs : m <= b
  BY <1>1, LeastExists
<1>3. CASE m \in T
  BY <1>3
<1>4. CASE m \notin T
  <2>1. PICK y \in T : TRUE
    OBVIOUS
  <2>2. m \in Nat \ {0} /\ \A z \in T : z <= m - 1
    BY <1>2, <1>4, <2>1
  <2>3. m - 1 \in Bs
    BY <2>2
  <2>4. QED
    BY <1>2, <2>3
<1>5. QED
  BY <1>3, <1>4

\* Sets of listed runs are finite sets of numbers.
LEMMA ListedFacts ==
  ASSUME TypeOK, NEW T \in SUBSET listed
  PROVE  /\ IsFiniteSet(T)
         /\ Cardinality(T) \in Nat
         /\ T \in SUBSET (1..last) /\ T \in SUBSET Nat
         /\ \A t \in T : t \in Nat
         /\ last \in Nat
<1>1. last \in Nat /\ T \in SUBSET (1..last)
  BY Bounds DEF TypeOK
<1>2. IsFiniteSet(1..last)
  BY <1>1, FS_Interval
<1>3. IsFiniteSet(T)
  BY <1>1, <1>2, FS_Subset
<1>4. Cardinality(T) \in Nat
  BY <1>3, FS_CardinalityType
<1>5. \A t \in T : t \in Nat
  BY <1>1
<1>6. QED
  BY <1>1, <1>3, <1>4, <1>5

LEMMA RankType ==
  ASSUME TypeOK, NEW r
  PROVE  Rank(r) \in Nat
<1>1. {n \in listed : n > r} \in SUBSET listed
  OBVIOUS
<1>2. QED
  BY <1>1, ListedFacts DEF Rank

\* Newer runs have lower ranks.
LEMMA NewerIsLower ==
  ASSUME TypeOK, NEW r \in Int, NEW s \in listed, s > r
  PROVE  Rank(s) < Rank(r)
<1> DEFINE S == {n \in listed : n > s}
<1> DEFINE R == {n \in listed : n > r}
<1>1. s \in Nat /\ \A n \in listed : n \in Nat
  BY ListedFacts
<1>2. S \in SUBSET (R \ {s}) /\ s \in R
  <2>1. \A n \in listed : n > s => n > r /\ n # s
    BY <1>1
  <2>2. QED
    BY <2>1
<1> HIDE DEF S, R
<1>3. IsFiniteSet(R)
  BY ListedFacts DEF R
<1>4. IsFiniteSet(R \ {s}) /\ Cardinality(R \ {s}) = Cardinality(R) - 1
  BY <1>2, <1>3, FS_RemoveElement
<1>5. Cardinality(S) <= Cardinality(R \ {s})
  BY <1>2, <1>4, FS_Subset
<1>6. Cardinality(S) \in Nat /\ Cardinality(R) \in Nat
  BY ListedFacts DEF S, R
<1>7. QED
  BY <1>4, <1>5, <1>6 DEF Rank, S, R

\* If a run has a rank of m or more, then exactly m runs have a lower one.
LEMMA RanksAreDense ==
  ASSUME TypeOK, NEW m \in Nat, NEW r \in listed, Rank(r) >= m
  PROVE  Cardinality({n \in listed : Rank(n) < m}) = m
<1> DEFINE Low == {n \in listed : Rank(n) < m}
<1> DEFINE High == {n \in listed : Rank(n) >= m}
<1>1. listed \in SUBSET (1..last) /\ last \in Nat /\ listed \in SUBSET Nat
  BY ListedFacts
<1>2. PICK x \in High : \A y \in High : y <= x
  BY <1>1, GreatestExists
<1>3. Low = {n \in listed : n > x}
  <2>1. x \in Nat /\ Rank(x) >= m /\ \A n \in listed : n \in Nat /\ Rank(n) \in Nat
    BY <1>2, ListedFacts, RankType
  <2>2. \A n \in listed : n > x => Rank(n) < m
    BY <1>2, <2>1
  <2>3. \A n \in listed : n < x => Rank(n) >= m
    BY <1>2, <2>1, NewerIsLower
  <2>4. \A n \in listed : Rank(n) < m <=> n > x
    BY <2>1, <2>2, <2>3
  <2>5. QED
    BY <2>4
<1>4. Cardinality(Low) = Rank(x) /\ Rank(x) >= m /\ Rank(x) \in Nat
  BY <1>2, <1>3, RankType DEF Rank
<1>5. CASE Low = {}
  BY <1>4, <1>5, FS_EmptySet
<1>6. CASE Low # {}
  <2>1. PICK u \in Low : \A y \in Low : u <= y
    BY <1>1, <1>6, LeastExists
  <2>2. {n \in listed : n > u} = Low \ {u}
    <3>1. u \in Nat /\ x \in Nat /\ u > x /\ \A n \in listed : n \in Nat
      BY <1>2, <1>3, <2>1, ListedFacts
    <3>2. \A n \in listed : n > u <=> n > x /\ n # u
      BY <1>3, <2>1, <3>1
    <3>3. QED
      BY <1>3, <3>2
  <2>3. Rank(u) = Cardinality(Low) - 1
    <3>1. IsFiniteSet(Low)
      BY ListedFacts
    <3>2. Cardinality(Low \ {u}) = Cardinality(Low) - 1
      BY <2>1, <3>1, FS_RemoveElement
    <3>3. QED
      BY <2>2, <3>2 DEF Rank
  <2>4. QED
    BY <1>4, <2>1, <2>3, RankType
<1>7. QED
  BY <1>5, <1>6

LEMMA PageBounds ==
  ASSUME NEW k \in Nat
  PROVE  /\ k * PageSize \in Nat
         /\ (k + 1) * PageSize = k * PageSize + PageSize
         /\ PageSize \in Nat \ {0}
  BY PageAssumption

\* A page is full if a run has a rank beyond it.
LEMMA PageIsFull ==
  ASSUME TypeOK, NEW k \in Nat, NEW r \in listed, Rank(r) >= (k + 1) * PageSize
  PROVE  Cardinality(Rows(k)) = PageSize
<1> DEFINE Low(m) == {n \in listed : Rank(n) < m}
<1>1. /\ k * PageSize \in Nat /\ (k + 1) * PageSize = k * PageSize + PageSize
      /\ PageSize \in Nat \ {0}
  BY PageBounds
<1>2. Cardinality(Low(k * PageSize)) = k * PageSize
  BY <1>1, RankType, RanksAreDense
<1>3. Cardinality(Low((k + 1) * PageSize)) = k * PageSize + PageSize
  BY <1>1, RanksAreDense
<1>4. Rows(k) = Low((k + 1) * PageSize) \ Low(k * PageSize)
  BY <1>1, RankType DEF Rows
<1>5. Low((k + 1) * PageSize) \cap Low(k * PageSize) = Low(k * PageSize)
  BY <1>1, RankType
<1>6. IsFiniteSet(Low((k + 1) * PageSize))
  BY ListedFacts
<1>7. Cardinality(Rows(k)) = Cardinality(Low((k + 1) * PageSize))
                               - Cardinality(Low(k * PageSize))
  BY <1>4, <1>5, <1>6, FS_Difference
<1>8. QED
  BY <1>1, <1>2, <1>3, <1>7

\* The first row of a page has the first rank of the page.
LEMMA FirstRowRank ==
  ASSUME TypeOK, NEW k \in Nat, NEW x \in Rows(k), \A n \in Rows(k) : n <= x
  PROVE  Rank(x) <= k * PageSize
<1>1. k * PageSize \in Nat /\ x \in listed /\ Rank(x) >= k * PageSize
  BY PageBounds DEF Rows
<1>2. {n \in listed : n > x} \subseteq {n \in listed : Rank(n) < k * PageSize}
  <2>1. x \in Nat /\ \A n \in listed : n \in Nat /\ Rank(n) \in Nat
    BY <1>1, ListedFacts, RankType
  <2>2. \A n \in listed : n > x => Rank(n) < Rank(x) /\ n \notin Rows(k)
    BY <1>1, <2>1, NewerIsLower
  <2>3. Rank(x) < (k + 1) * PageSize
    BY DEF Rows
  <2>4. \A n \in listed : n > x => Rank(n) < k * PageSize
    <3> SUFFICES ASSUME NEW n \in listed, n > x PROVE Rank(n) < k * PageSize
      OBVIOUS
    <3>1. ~(k * PageSize <= Rank(n) /\ Rank(n) < (k + 1) * PageSize)
      BY <2>2 DEF Rows
    <3>2. Rank(n) < (k + 1) * PageSize
      BY <1>1, <2>1, <2>2, <2>3, PageBounds
    <3>3. QED
      BY <1>1, <2>1, <3>1, <3>2
  <2>5. QED
    BY <2>4
<1>3. Cardinality({n \in listed : Rank(n) < k * PageSize}) = k * PageSize
  BY <1>1, RanksAreDense
<1>4. IsFiniteSet({n \in listed : Rank(n) < k * PageSize})
  BY ListedFacts
<1>5. Rank(x) <= Cardinality({n \in listed : Rank(n) < k * PageSize})
  BY <1>2, <1>4, FS_Subset DEF Rank
<1>6. QED
  BY <1>3, <1>5

\* The walk stands still, is over, or is in the one step that moves it.
WalkRests ==
  /\ pc \notin {"walk", "exists"} /\ pc' \notin {"walk", "exists"}
  /\ UNCHANGED <<listed, purged, access, first, fresh, watch>>
WalkOver ==
  /\ pc' = "idle" /\ first' = 0 /\ fresh' = 0 /\ watch' = FALSE
  /\ UNCHANGED <<listed, purged, access>>
WalkWaits ==
  UNCHANGED <<pc, listed, purged, access, page, first, fresh, watch, recorded>>

LEMMA WalkMoves ==
  ASSUME IInv, [Next]_vars
  PROVE  \/ WalkRests \/ WalkOver \/ WalkWaits
         \/ ReadStatus \/ ReadPage \/ Purge \/ Grants
         \/ \E r \in 1..MaxRuns : List(r)
<1>1. CASE \E o \in Ops : Begin(o)
  BY <1>1 DEF Begin, WalkRests, IInv, HandlerInv, Ops
<1>2. CASE Fails \/ ReadUnseen
  BY <1>2 DEF Fails, ReadUnseen, Return, Leave, WalkOver
<1>3. CASE Start
  BY <1>3 DEF Start, Leave, WalkRests
<1>4. CASE WaitSucceeded \/ WaitFailed \/ WaitTimedOut
  BY <1>4
  DEF WaitSucceeded, WaitFailed, WaitTimedOut, CreateOk, Taint, Return, Leave,
      WalkOver
<1>5. CASE WaitGoesOn \/ Wake \/ Poll \/ PollVisible \/ PollFails
  BY <1>5
  DEF WaitGoesOn, Wake, Poll, PollVisible, PollFails, Goto, CreateOk, Taint,
      Return, Leave, WalkOver, WalkRests
<1>6. CASE Delete \/ CancelUnanswered
  BY <1>6 DEF Delete, Removed, CancelUnanswered, Leave, WalkRests
<1>7. CASE Update \/ Schedule \/ Clock \/ Interrupt \/ UNCHANGED vars
  BY <1>7 DEF Update, Schedule, Clock, Interrupt, vars, WalkWaits
<1>8. CASE \E r \in 1..MaxRuns : Progress(r)
  BY <1>8 DEF Progress, WalkWaits
<1>9. QED
  BY <1>1, <1>2, <1>3, <1>4, <1>5, <1>6, <1>7, <1>8 DEF Next, Handler, Elsewhere

\* A run that is listed shifts the older ones by one.
LEMMA ListingShifts ==
  ASSUME TypeOK, NEW r, List(r), NEW x
  PROVE  (Rank(x))' \in Rank(x)..(Rank(x) + 1)
<1> DEFINE S == {n \in listed : n > x}
<1>1. {n \in listed' : n > x} = IF r > x THEN S \cup {r} ELSE S
  BY DEF List
<1>2. r \notin S
  BY DEF List
<1> HIDE DEF S
<1>3. IsFiniteSet(S) /\ Cardinality(S) \in Nat
  BY ListedFacts DEF S
<1>4. Cardinality(S \cup {r}) = Cardinality(S) + 1
  BY <1>2, <1>3, FS_AddElement
<1>5. /\ Rank(x) = Cardinality(S) /\ Rank(x) \in Nat
      /\ (Rank(x))' = Cardinality({n \in listed' : n > x})
  BY <1>3 DEF Rank, S
<1>6. CASE r > x
  BY <1>1, <1>3, <1>4, <1>5, <1>6
<1>7. CASE ~(r > x)
  BY <1>1, <1>3, <1>5, <1>7
<1>8. QED
  BY <1>6, <1>7

\* A purge takes a run that is older than those that stay.
LEMMA PurgingSpares ==
  ASSUME TypeOK, Purge, NEW x
  PROVE  /\ (Rank(x))' <= Rank(x)
         /\ x \in Int /\ x > purged => (Rank(x))' = Rank(x)
<1> DEFINE S == {n \in listed : n > x}
<1>1. {n \in listed' : n > x} = S \ {purged + 1}
  BY DEF Purge
<1>2. S \in SUBSET listed /\ IsFiniteSet(S) /\ Cardinality(S) \in Nat
  BY ListedFacts
<1>3. S \ {purged + 1} \in SUBSET S
  OBVIOUS
<1>4. Cardinality(S \ {purged + 1}) <= Cardinality(S)
  BY <1>2, <1>3, FS_Subset
<1>5. purged \in Int
  BY DEF TypeOK
<1>6. x \in Int /\ x > purged => S \ {purged + 1} = S
  BY <1>5
<1>7. QED
  BY <1>1, <1>4, <1>6 DEF Rank

\* One page of the walk: a run that is watched and not on it is beyond it, and
\* only the bound on the pages can end the walk before it is reached.
LEMMA WalkPage ==
  ASSUME IInv, WalkInv, ReadPage
  PROVE  WalkInv'
<1> DEFINE rows == IF access = "full" THEN Rows(page) ELSE {}
<1>1. TypeOK /\ HandlerInv /\ pc = "walk" /\ page \in Nat /\ fresh \in Nat
  BY DEF IInv, TypeOK, ReadPage
<1>2. CASE Refreshed(status[RowTaken(rows)], "ok")
  <2>1. WalkOver
    BY <1>2 DEF Refreshed, Return, Leave, WalkOver
  <2>2. QED
    BY <2>1 DEF WalkOver, WalkInv, WalkFindsListed
<1> DEFINE over == Repeats(rows) \/ EndOfListing(rows) \/ LastPage
<1>3. CASE /\ Repeats(rows) \/ recorded \notin rows
           /\ Goto(IF over THEN "exists" ELSE "walk")
           /\ page' = page + 1
           /\ IF Repeats(rows) THEN UNCHANGED first ELSE first' \in PreviousFirst(rows)
           /\ fresh' = 0
           /\ UNCHANGED <<observed, watch>>
  <2>1. /\ UNCHANGED <<listed, purged, access, recorded>>
        /\ pc' = IF over THEN "exists" ELSE "walk"
        /\ watch' = watch
    BY <1>3 DEF Goto
  <2>2. \A x : (Rank(x))' = Rank(x)
    BY <2>1 DEF Rank
  <2>3. rows \in SUBSET listed /\ \A r \in rows : r \in Nat /\ Rank(r) \in Nat
    BY <1>1, ListedFacts, RankType DEF Rows
  <2>4. /\ page * PageSize \in Nat
        /\ (page + 1) * PageSize = page * PageSize + PageSize
        /\ PageSize \in Nat \ {0}
        /\ page' > 0 /\ (page' - 1) * PageSize = page * PageSize
    BY <1>1, <1>3, PageBounds
  <2>5. ASSUME watch
        PROVE  /\ Rank(recorded) >= (page + 1) * PageSize
               /\ ~Repeats(rows) /\ ~EndOfListing(rows)
    <3>1. /\ fresh < PageSize /\ access = "full"
          /\ recorded \in listed /\ rows = Rows(page)
          /\ Rank(recorded) \in Nat /\ recorded \in Nat
          /\ Rank(recorded) >= page * PageSize
      BY <1>1, <2>5, RankType, ListedFacts DEF WalkInv
    <3>2. first \notin rows
      <4>1. CASE first = 0
        <5>1. \A r \in listed : r # 0
          BY <1>1 DEF TypeOK
        <5>2. QED
          BY <2>3, <4>1, <5>1
      <4>2. CASE first # 0
        <5>1. page > 0 /\ Rank(first) <= (page - 1) * PageSize + fresh
          BY <1>1, <2>5, <4>2 DEF WalkInv
        <5>2. page * PageSize = (page - 1) * PageSize + PageSize
              /\ (page - 1) * PageSize \in Nat
          <6>1. page - 1 \in Nat /\ (page - 1) + 1 = page
            BY <1>1, <5>1
          <6>2. QED
            BY <6>1, PageBounds
        <5>3. Rank(first) \in Nat
          BY <1>1, RankType
        <5>4. Rank(first) < page * PageSize
          BY <1>1, <2>4, <3>1, <5>1, <5>2, <5>3
        <5>5. QED
          BY <3>1, <5>3, <5>4, <2>4 DEF Rows
      <4>3. QED
        BY <4>1, <4>2
    <3>3. Rank(recorded) >= (page + 1) * PageSize
      <4>1. CASE recorded \notin rows
        BY <2>4, <3>1, <4>1 DEF Rows
      <4>2. CASE recorded \in rows
        <5>1. rows = {} \/ first \in rows
          BY <1>3, <4>2 DEF Repeats
        <5>2. QED
          BY <3>2, <4>2, <5>1
      <4>3. QED
        BY <4>1, <4>2
    <3>4. Cardinality(rows) = PageSize
      BY <1>1, <3>1, <3>3, PageIsFull
    <3>5. rows # {}
      BY <2>4, <3>4, FS_EmptySet
    <3>6. \A r \in rows : ~(r < recorded)
      <4> SUFFICES ASSUME NEW r \in rows, r < recorded PROVE FALSE
        OBVIOUS
      <4>1. Rank(recorded) < Rank(r)
        BY <1>1, <2>3, <3>1, NewerIsLower
      <4>2. Rank(r) < (page + 1) * PageSize
        BY <3>1 DEF Rows
      <4>3. QED
        BY <2>3, <2>4, <3>1, <3>3, <4>1, <4>2
    <3>7. ~EndOfListing(rows)
      BY <2>4, <3>4, <3>6 DEF EndOfListing
    <3>8. ~Repeats(rows)
      BY <3>2, <3>5 DEF Repeats
    <3>9. QED
      BY <3>3, <3>7, <3>8
  <2>6. ASSUME pc' = "walk"
        PROVE  page' > 0 /\ Rank(first') <= (page' - 1) * PageSize + fresh'
    <3>1. ~Repeats(rows) /\ rows # {}
      BY <2>1, <2>6 DEF Repeats
    <3>2. rows = Rows(page) /\ first' \in Rows(page) /\ \A n \in Rows(page) : n <= first'
      BY <1>3, <3>1 DEF PreviousFirst
    <3>3. Rank(first') <= page * PageSize
      BY <1>1, <3>2, FirstRowRank
    <3>4. QED
      BY <1>3, <2>4, <3>3
  <2>7. /\ (\A r \in listed : r > purged)'
        /\ (watch => access = "full" /\ recorded \in listed /\ fresh < PageSize)'
    BY <1>3, <2>1, <2>4 DEF WalkInv
  <2>8. pc' \in {"walk", "exists"}
    BY <2>1
  <2>9. (Rank(first))' = Rank(first')
    BY <2>1 DEF Rank
  <2>10. (pc = "walk" /\ watch /\ first # 0
            => page > 0 /\ Rank(first) <= (page - 1) * PageSize + fresh)'
    BY <2>6, <2>9
  <2>11. (Rank(recorded))' = Rank(recorded)
    BY <2>1 DEF Rank
  <2>12. (pc = "walk" /\ watch => Rank(recorded) >= page * PageSize)'
    BY <1>3, <2>1, <2>5, <2>11
  <2>13. WalkFindsListed'
    <3> SUFFICES ASSUME pc' = "exists", watch'
                 PROVE  Rank(recorded) >= MaxPages * PageSize
      BY <2>1, <2>11 DEF WalkFindsListed
    <3>1. watch
      BY <2>1
    <3>2. LastPage
      BY <2>1, <2>5, <3>1
    <3>3. QED
      BY <2>5, <3>1, <3>2 DEF LastPage
  <2>14. QED
    BY <2>7, <2>8, <2>10, <2>12, <2>13 DEF WalkInv
<1>4. QED
  BY <1>2, <1>3 DEF ReadPage

LEMMA WalkNext == IInv /\ WalkInv /\ [Next]_vars => WalkInv'
<1> SUFFICES ASSUME IInv, WalkInv, [Next]_vars PROVE WalkInv'
  OBVIOUS
<1>0. TypeOK /\ HandlerInv
  BY DEF IInv
<1>1. CASE WalkRests \/ WalkOver
  BY <1>1 DEF WalkRests, WalkOver, WalkInv, WalkFindsListed
<1>2. CASE WalkWaits
  BY <1>2 DEF WalkWaits, WalkInv, WalkFindsListed, Rank
<1>3. CASE ReadStatus
  <2>1. CASE Refreshed(status[recorded], "ok")
    <3>1. WalkOver
      BY <2>1 DEF Refreshed, Return, Leave, WalkOver
    <3>2. QED
      BY <3>1 DEF WalkOver, WalkInv, WalkFindsListed
  <2>2. CASE ~Refreshed(status[recorded], "ok")
    <3>1. /\ pc = "read" /\ page = 0 /\ page' = 0 /\ first' = 0 /\ fresh' = 0
          /\ UNCHANGED <<listed, purged, access, recorded>>
          /\ \/ pc' = "walk" /\ watch' = (access = "full" /\ recorded \in listed)
             \/ pc' = "exists" /\ watch' = FALSE
      BY <1>0, <1>3, <2>2 DEF ReadStatus, Goto, WalkInv, HandlerInv
    <3>2. (Rank(recorded))' >= 0 * PageSize
      <4>1. (Rank(recorded))' = Rank(recorded)
        BY <3>1 DEF Rank
      <4>2. QED
        BY <1>0, <4>1, RankType, PageAssumption
    <3>3. QED
      <4>1. (\A r \in listed : r > purged)'
        BY <3>1 DEF WalkInv
      <4>2. (watch => access = "full" /\ recorded \in listed /\ fresh < PageSize)'
        <5>1. fresh' < PageSize
          BY <3>1, PageAssumption
        <5>2. watch' => access = "full" /\ recorded \in listed
          BY <3>1, Zenon
        <5>3. QED
          BY <3>1, <5>1, <5>2
      <4>3. (pc = "walk" /\ watch => Rank(recorded) >= page * PageSize)'
        BY <3>1, <3>2
      <4>4. WalkFindsListed'
        BY <3>1 DEF WalkFindsListed
      <4>5. QED
        BY <3>1, <4>1, <4>2, <4>3, <4>4 DEF WalkInv
  <2>3. QED
    BY <2>1, <2>2
<1>4. CASE ReadPage
  BY <1>4, WalkPage
<1>5. CASE Grants
  BY <1>5 DEF Grants, WalkInv, WalkFindsListed, Rank
<1>6. ASSUME NEW r \in 1..MaxRuns, List(r)
      PROVE  WalkInv'
  <2>1. /\ r > purged /\ listed' = listed \cup {r}
        /\ watch' => watch /\ ~(pc = "walk" /\ fresh + 1 = PageSize)
        /\ fresh' = IF watch' /\ pc = "walk" THEN fresh + 1 ELSE 0
        /\ UNCHANGED <<purged, access, pc, page, first, recorded>>
    BY <1>6 DEF List
  <2>2. /\ (Rank(first))' \in Rank(first)..(Rank(first) + 1)
        /\ (Rank(recorded))' \in Rank(recorded)..(Rank(recorded) + 1)
    <3>1. \A x : (Rank(x))' \in Rank(x)..(Rank(x) + 1)
      BY <1>0, <1>6, ListingShifts
    <3>2. (Rank(first))' = Cardinality({n \in listed' : n > first})
          /\ (Rank(recorded))' = Cardinality({n \in listed' : n > recorded})
      BY <2>1 DEF Rank
    <3>3. QED
      BY <3>1, <3>2 DEF Rank
  <2>3. Rank(first) \in Nat /\ Rank(recorded) \in Nat /\ fresh \in Nat
        /\ page \in Nat /\ page * PageSize \in Nat /\ (page - 1) * PageSize \in Int
        /\ MaxPages * PageSize \in Nat
    BY <1>0, RankType, PageAssumption DEF TypeOK
  <2>4. (pc = "walk" /\ watch /\ first # 0
            => page > 0 /\ Rank(first) <= (page - 1) * PageSize + fresh)'
    BY <2>1, <2>2, <2>3 DEF WalkInv
  <2>5. /\ (pc = "walk" /\ watch => Rank(recorded) >= page * PageSize)'
        /\ WalkFindsListed'
    BY <2>1, <2>2, <2>3 DEF WalkInv, WalkFindsListed
  <2>6. (watch => access = "full" /\ recorded \in listed /\ fresh < PageSize)'
    BY <2>1, <2>3, PageAssumption DEF WalkInv
  <2>7. QED
    BY <2>1, <2>4, <2>5, <2>6 DEF WalkInv
<1>7. CASE Purge
  <2>1. /\ purged' = purged + 1 /\ listed' = listed \ {purged + 1}
        /\ watch' => watch /\ recorded # purged + 1
        /\ UNCHANGED <<access, pc, page, first, fresh, recorded>>
    BY <1>7 DEF Purge
  <2>2. /\ (Rank(first))' <= Rank(first)
        /\ watch => (Rank(recorded))' = Rank(recorded)
    <3>1. /\ (Rank(first))' = Cardinality({n \in listed' : n > first})
          /\ (Rank(recorded))' = Cardinality({n \in listed' : n > recorded})
      BY <2>1 DEF Rank
    <3>2. watch => recorded \in Int /\ recorded > purged
      BY <1>0 DEF TypeOK, WalkInv
    <3>3. \A x : /\ Cardinality({n \in listed' : n > x}) <= Rank(x)
                 /\ x \in Int /\ x > purged
                      => Cardinality({n \in listed' : n > x}) = Rank(x)
      BY <1>0, <1>7, PurgingSpares DEF Rank
    <3>4. QED
      BY <3>1, <3>2, <3>3
  <2>3. Rank(first) \in Nat /\ (Rank(first))' \in Int /\ fresh \in Nat
        /\ (page - 1) * PageSize \in Int
    <3>1. {n \in listed' : n > first'} \in SUBSET listed
      BY <2>1
    <3>2. (Rank(first))' \in Nat
      BY <1>0, <3>1, ListedFacts DEF Rank
    <3>3. QED
      BY <1>0, <3>2, RankType, PageAssumption DEF TypeOK
  <2>4. (pc = "walk" /\ watch /\ first # 0
            => page > 0 /\ Rank(first) <= (page - 1) * PageSize + fresh)'
    BY <2>1, <2>2, <2>3 DEF WalkInv
  <2>5. /\ (pc = "walk" /\ watch => Rank(recorded) >= page * PageSize)'
        /\ WalkFindsListed'
    BY <2>1, <2>2 DEF WalkInv, WalkFindsListed
  <2>6. (\A r \in listed : r > purged)'
    <3>1. purged \in Int /\ \A r \in listed : r \in Int /\ r > purged
      BY <1>0, ListedFacts DEF TypeOK, WalkInv
    <3>2. QED
      BY <2>1, <3>1
  <2>7. QED
    BY <2>1, <2>4, <2>5, <2>6 DEF WalkInv
<1>8. QED
  BY <1>1, <1>2, <1>3, <1>4, <1>5, <1>6, <1>7, WalkMoves

\* When refresh gives up, the run it looks for is beyond the last page, or so
\* many runs were listed between two pages that one was skipped: no shift, no
\* purge and no early end of the walk hides a run.
THEOREM WalksFindTheListed == Spec => []WalkFindsListed
<1>1. Init => WalkInv
  BY DEF Init, WalkInv, WalkFindsListed
<1>2. WalkInv => WalkFindsListed
  BY DEF WalkInv
<1>3. QED
  BY <1>1, <1>2, WalkNext, Invariant, PTL DEF Spec

=============================================================================
