-------------------------- MODULE SqlSession_proofs --------------------------
(* Proofs about SqlSession.                                                *)
EXTENDS SqlSession, TLAPS

\* What an action writes and what it leaves alone, unfolded once.
USE DEF callVars, localVars, bootVars, Goto

\* The boot of bootQueries has four statements, or five with an attach mode; the
\* token is its third and the attach its last.
LEMMA BootLenFacts ==
  /\ BootLen \in {4, 5}
  /\ \A k \in 1..BootLen : BootQueries[k] = "attach" => k = BootLen
  /\ \A k \in 1..BootLen : BootQueries[k] = "token" => k = 3
  /\ \A k \in 1..BootLen :
       BootQueries[k] \in {"install", "load", "token", "mode"} => k # BootLen
<1>1. CASE AttachMode
  BY <1>1 DEF BootLen, BootQueries
<1>2. CASE ~AttachMode
  BY <1>2 DEF BootLen, BootQueries
<1>3. QED
  BY <1>1, <1>2

\* A client that serves nobody yet has well-typed state.
LEMMA TypeInit == Init => TypeOK
<1> SUFFICES ASSUME Init PROVE TypeOK
  OBVIOUS
<1>1. 0 \in 0..BootLen
  BY BootLenFacts
<1>2. 0 \in 0..MaxFaults
  BY SettingsAssumption
<1>3. dbs \in SUBSET Databases
  BY DEF Init
<1>4. QED
  BY <1>1, <1>2, <1>3 DEF Init, TypeOK, PCs, Kinds

\* Every step of every goroutine and every fault keeps the types.
LEMMA TypeNext == TypeOK /\ CallsInv /\ [Next]_vars => TypeOK'
<1> SUFFICES ASSUME TypeOK, CallsInv, [Next]_vars PROVE TypeOK'
  OBVIOUS
<1> USE DEF TypeOK, PCs, Kinds
<1>1. ASSUME NEW o \in Ops, Begin(o) PROVE TypeOK'
  BY <1>1 DEF Begin
<1>2. ASSUME NEW o \in Ops, Acquire(o) PROVE TypeOK'
  BY <1>2 DEF Acquire, ChannelHasRoom
<1>3. ASSUME NEW o \in Ops, Abandon(o) PROVE TypeOK'
  BY <1>3 DEF Abandon, Finish
<1>4. ASSUME NEW o \in Ops, Release(o) PROVE TypeOK'
  <2>1. sem' \in {0, 1}
    BY <1>4 DEF Release, GiveUpAdmission
  <2>2. CASE follow[o] # "none" /\ Goto(o, "queued")
    BY <1>4, <2>1, <2>2 DEF Release, Finish
  <2>3. CASE Finish(o)
    BY <1>4, <2>1, <2>3 DEF Release, Finish
  <2>4. QED
    BY <1>4, <2>2, <2>3 DEF Release
<1>5. ASSUME NEW o \in Ops, Cancel(o) PROVE TypeOK'
  BY <1>5 DEF Cancel
<1>6. ASSUME NEW o \in Ops, Connecting(o) PROVE TypeOK'
  <2>1. CASE Checkout(o)
    BY <2>1 DEF Checkout, Ready
  <2>2. CASE Open(o)
    BY <2>2 DEF Open
  <2>3. CASE ConnectFails(o)
    BY <2>3, SettingsAssumption DEF ConnectFails, After, RetryAfterFault, Fault, TransportFault
  <2>4. CASE BootSetup(o)
    BY <2>4, BootLenFacts DEF BootSetup, AtBootQuery
  <2>5. CASE BootAttach(o)
    BY <2>5, BootLenFacts, NamesAssumption DEF BootAttach, AtBootQuery
  <2>6. CASE RecordDefault(o)
    BY <2>6 DEF RecordDefault, Ready, BootDone
  <2>7. CASE SelectDefault(o)
    BY <2>7 DEF SelectDefault, Ready, Live
  <2>8. CASE BootFails(o)
    <3>1. faults' \in 0..MaxFaults
      BY <2>8, SettingsAssumption DEF BootFails, Fault, TransportFault
    <3>2. QED
      BY <2>8, <3>1 DEF BootFails, After, RetryAfterFault, NextAfterFailure
  <2>9. CASE BootRefused(o)
    BY <2>9 DEF BootRefused, After, AtBootQuery
  <2>10. QED
    BY <1>6, <2>1, <2>2, <2>3, <2>4, <2>5, <2>6, <2>7, <2>8, <2>9 DEF Connecting
<1>7. ASSUME NEW o \in Ops, Plain(o) PROVE TypeOK'
  <2>1. CASE Run(o)
    <3>1. Effect(o) \in SUBSET Databases
      BY DEF Effect, CallsInv
    <3>2. QED
      BY <2>1, <3>1 DEF Run, After
  <2>2. CASE RunFails(o)
    <3>1. Effect(o) \in SUBSET Databases
      BY DEF Effect, CallsInv
    <3>2. faults' \in 0..MaxFaults
      BY <2>2, SettingsAssumption DEF RunFails, Fault, TransportFault
    <3>3. QED
      BY <2>2, <3>1, <3>2 DEF RunFails, After, RetryAfterFault
  <2>3. CASE RunOnLost(o)
    BY <2>3 DEF RunOnLost
  <2>4. CASE Scan(o)
    BY <2>4 DEF Scan, ScanReleases
  <2>5. CASE DropRow(o)
    BY <2>5 DEF DropRow, Finish
  <2>6. QED
    BY <1>7, <2>1, <2>2, <2>3, <2>4, <2>5 DEF Plain
<1>8. ASSUME NEW o \in Ops, Scope(o) PROVE TypeOK'
  <2>1. CASE ReadPrevious(o)
    BY <2>1, SettingsAssumption DEF ReadPrevious, Fault, TransportFault
  <2>2. CASE UseTarget(o)
    BY <2>2, SettingsAssumption DEF UseTarget, AfterUseError, Fault, TransportFault
  <2>3. CASE ScopeBody(o)
    BY <2>3 DEF ScopeBody
  <2>4. CASE ScopePanic(o)
    BY <2>4 DEF ScopePanic
  <2>5. CASE Restore(o)
    <3>1. faults' \in 0..MaxFaults
      BY <2>5, SettingsAssumption DEF Restore, RestoreFault, TransportFault
    <3>2. discard' \in [Ops -> BOOLEAN] /\ conn' \in Databases \cup {Memory, None}
      BY <2>5 DEF Restore, DiscardAfterRestoreError
    <3>3. QED
      BY <2>5, <3>1, <3>2 DEF Restore
  <2>6. CASE CloseScope(o)
    BY <2>6 DEF CloseScope, ConnAfterScope
  <2>7. QED
    BY <1>8, <2>1, <2>2, <2>3, <2>4, <2>5, <2>6 DEF Scope
<1>9. CASE Lose
  BY <1>9, SettingsAssumption DEF Lose, TransportFault
<1>10. CASE ExternalDrop
  BY <1>10 DEF ExternalDrop
<1>11. CASE UNCHANGED vars
  BY <1>11 DEF vars
<1>12. QED
  BY <1>1, <1>2, <1>3, <1>4, <1>5, <1>6, <1>7, <1>8, <1>9, <1>10, <1>11
  DEF Next, Work

\* Acquire is the only way in, and it needs the free slot of the sem channel.
LEMMA OneAdmittedNext == IInv /\ [Next]_vars => OneAdmitted'
<1> SUFFICES ASSUME TypeOK, OneAdmitted, CallsInv, [Next]_vars PROVE OneAdmitted'
  BY DEF IInv
<1> USE DEF OneAdmitted, Holding, TypeOK, CallsInv
<1>1. ASSUME NEW o \in Ops, Begin(o) PROVE OneAdmitted'
  BY <1>1 DEF Begin
<1>2. ASSUME NEW o \in Ops, Acquire(o) PROVE OneAdmitted'
  BY <1>2 DEF Acquire, ChannelHasRoom
<1>3. ASSUME NEW o \in Ops, Abandon(o) PROVE OneAdmitted'
  BY <1>3 DEF Abandon, Finish
<1>4. ASSUME NEW o \in Ops, Release(o) PROVE OneAdmitted'
  BY <1>4 DEF Release, GiveUpAdmission, Finish
<1>5. ASSUME NEW o \in Ops, Cancel(o) PROVE OneAdmitted'
  BY <1>5 DEF Cancel
<1>6. ASSUME NEW o \in Ops, Connecting(o) PROVE OneAdmitted'
  <2>1. CASE Checkout(o)
    BY <2>1 DEF Checkout, Ready
  <2>2. CASE Open(o)
    BY <2>2 DEF Open
  <2>3. CASE ConnectFails(o)
    BY <2>3 DEF ConnectFails, After, RetryAfterFault, Fault, TransportFault
  <2>4. CASE BootSetup(o)
    BY <2>4 DEF BootSetup, AtBootQuery
  <2>5. CASE BootAttach(o)
    BY <2>5 DEF BootAttach, AtBootQuery
  <2>6. CASE RecordDefault(o)
    BY <2>6 DEF RecordDefault, Ready, BootDone
  <2>7. CASE SelectDefault(o)
    BY <2>7 DEF SelectDefault, Ready, Live
  <2>8. CASE BootFails(o)
    BY <2>8 DEF BootFails, After, RetryAfterFault, Fault, TransportFault, NextAfterFailure, AtBootQuery
  <2>9. CASE BootRefused(o)
    BY <2>9 DEF BootRefused, After, AtBootQuery
  <2>10. QED
    BY <1>6, <2>1, <2>2, <2>3, <2>4, <2>5, <2>6, <2>7, <2>8, <2>9 DEF Connecting
<1>7. ASSUME NEW o \in Ops, Plain(o) PROVE OneAdmitted'
  <2>1. CASE Run(o)
    BY <2>1 DEF Run, After, Effect
  <2>2. CASE RunFails(o)
    BY <2>2 DEF RunFails, After, Effect, RetryAfterFault, Fault, TransportFault
  <2>3. CASE RunOnLost(o)
    BY <2>3 DEF RunOnLost
  <2>4. CASE Scan(o)
    BY <2>4 DEF Scan, ScanReleases
  <2>5. CASE DropRow(o)
    BY <2>5 DEF DropRow, Finish
  <2>6. QED
    BY <1>7, <2>1, <2>2, <2>3, <2>4, <2>5 DEF Plain
<1>8. ASSUME NEW o \in Ops, Scope(o) PROVE OneAdmitted'
  <2>1. CASE ReadPrevious(o)
    BY <2>1 DEF ReadPrevious, Fault, TransportFault
  <2>2. CASE UseTarget(o)
    BY <2>2 DEF UseTarget, AfterUseError, Fault, TransportFault
  <2>3. CASE ScopeBody(o)
    BY <2>3 DEF ScopeBody
  <2>4. CASE ScopePanic(o)
    BY <2>4 DEF ScopePanic
  <2>5. CASE Restore(o)
    BY <2>5 DEF Restore, Live, DiscardAfterRestoreError, RestoreFault, TransportFault
  <2>6. CASE CloseScope(o)
    BY <2>6 DEF CloseScope, ConnAfterScope
  <2>7. QED
    BY <1>8, <2>1, <2>2, <2>3, <2>4, <2>5, <2>6 DEF Scope
<1>9. CASE Lose
  BY <1>9 DEF Lose, TransportFault
<1>10. CASE ExternalDrop
  BY <1>10 DEF ExternalDrop
<1>11. CASE UNCHANGED vars
  BY <1>11 DEF vars
<1>12. QED
  BY <1>1, <1>2, <1>3, <1>4, <1>5, <1>6, <1>7, <1>8, <1>9, <1>10, <1>11
  DEF Next, Work

\* The recorded operation of a goroutine agrees with where it stands.
LEMMA CallsNext == IInv /\ [Next]_vars => CallsInv'
<1> SUFFICES ASSUME TypeOK, CallsInv, [Next]_vars PROVE CallsInv'
  BY DEF IInv
<1> USE NamesAssumption DEF CallsInv, InScope, TypeOK
<1>1. ASSUME NEW o \in Ops, Begin(o) PROVE CallsInv'
  BY <1>1 DEF Begin
<1>2. ASSUME NEW o \in Ops, Acquire(o) PROVE CallsInv'
  BY <1>2 DEF Acquire, ChannelHasRoom
<1>3. ASSUME NEW o \in Ops, Abandon(o) PROVE CallsInv'
  BY <1>3 DEF Abandon, Finish
<1>4. ASSUME NEW o \in Ops, Release(o) PROVE CallsInv'
  BY <1>4 DEF Release, GiveUpAdmission, Finish
<1>5. ASSUME NEW o \in Ops, Cancel(o) PROVE CallsInv'
  BY <1>5 DEF Cancel
<1>6. ASSUME NEW o \in Ops, Connecting(o) PROVE CallsInv'
  <2>1. CASE Checkout(o)
    BY <2>1 DEF Checkout, Ready
  <2>2. CASE Open(o)
    BY <2>2 DEF Open
  <2>3. CASE ConnectFails(o)
    BY <2>3 DEF ConnectFails, After, RetryAfterFault, Fault, TransportFault
  <2>4. CASE BootSetup(o)
    BY <2>4 DEF BootSetup, AtBootQuery
  <2>5. CASE BootAttach(o)
    BY <2>5 DEF BootAttach, AtBootQuery
  <2>6. CASE RecordDefault(o)
    BY <2>6 DEF RecordDefault, Ready, BootDone
  <2>7. CASE SelectDefault(o)
    BY <2>7 DEF SelectDefault, Ready, Live
  <2>8. CASE BootFails(o)
    BY <2>8 DEF BootFails, After, RetryAfterFault, Fault, TransportFault, NextAfterFailure, AtBootQuery
  <2>9. CASE BootRefused(o)
    BY <2>9 DEF BootRefused, After, AtBootQuery
  <2>10. QED
    BY <1>6, <2>1, <2>2, <2>3, <2>4, <2>5, <2>6, <2>7, <2>8, <2>9 DEF Connecting
<1>7. ASSUME NEW o \in Ops, Plain(o) PROVE CallsInv'
  <2>1. CASE Run(o)
    BY <2>1 DEF Run, After, Effect
  <2>2. CASE RunFails(o)
    BY <2>2 DEF RunFails, After, Effect, RetryAfterFault, Fault, TransportFault
  <2>3. CASE RunOnLost(o)
    BY <2>3 DEF RunOnLost
  <2>4. CASE Scan(o)
    BY <2>4 DEF Scan, ScanReleases
  <2>5. CASE DropRow(o)
    BY <2>5 DEF DropRow, Finish
  <2>6. QED
    BY <1>7, <2>1, <2>2, <2>3, <2>4, <2>5 DEF Plain
<1>8. ASSUME NEW o \in Ops, Scope(o) PROVE CallsInv'
  <2>1. CASE ReadPrevious(o)
    BY <2>1 DEF ReadPrevious, Fault, TransportFault
  <2>2. CASE UseTarget(o)
    BY <2>2 DEF UseTarget, AfterUseError, Fault, TransportFault
  <2>3. CASE ScopeBody(o)
    BY <2>3 DEF ScopeBody
  <2>4. CASE ScopePanic(o)
    BY <2>4 DEF ScopePanic
  <2>5. CASE Restore(o)
    BY <2>5 DEF Restore, Live, DiscardAfterRestoreError, RestoreFault, TransportFault
  <2>6. CASE CloseScope(o)
    BY <2>6 DEF CloseScope, ConnAfterScope
  <2>7. QED
    BY <1>8, <2>1, <2>2, <2>3, <2>4, <2>5, <2>6 DEF Scope
<1>9. CASE Lose
  BY <1>9 DEF Lose, TransportFault
<1>10. CASE ExternalDrop
  BY <1>10 DEF ExternalDrop
<1>11. CASE UNCHANGED vars
  BY <1>11 DEF vars
<1>12. QED
  BY <1>1, <1>2, <1>3, <1>4, <1>5, <1>6, <1>7, <1>8, <1>9, <1>10, <1>11
  DEF Next, Work

\* The boot counter says which boot statements the connection has run.
LEMMA BootNext == IInv /\ [Next]_vars => BootInv'
<1> SUFFICES ASSUME TypeOK, OneAdmitted, CallsInv, BootInv, [Next]_vars PROVE BootInv'
  BY DEF IInv
<1> USE NamesAssumption, BootLenFacts DEF BootInv, InScope, TypeOK, OneAdmitted, Holding
<1>1. ASSUME NEW o \in Ops, Begin(o) PROVE BootInv'
  BY <1>1 DEF Begin
<1>2. ASSUME NEW o \in Ops, Acquire(o) PROVE BootInv'
  BY <1>2 DEF Acquire, ChannelHasRoom
<1>3. ASSUME NEW o \in Ops, Abandon(o) PROVE BootInv'
  BY <1>3 DEF Abandon, Finish
<1>4. ASSUME NEW o \in Ops, Release(o) PROVE BootInv'
  BY <1>4 DEF Release, GiveUpAdmission, Finish
<1>5. ASSUME NEW o \in Ops, Cancel(o) PROVE BootInv'
  BY <1>5 DEF Cancel
<1>6. ASSUME NEW o \in Ops, Connecting(o) PROVE BootInv'
  <2>1. CASE Checkout(o)
    BY <2>1 DEF Checkout, Ready
  <2>2. CASE Open(o)
    BY <2>2 DEF Open
  <2>3. CASE ConnectFails(o)
    BY <2>3 DEF ConnectFails, After, RetryAfterFault, Fault, TransportFault
  <2>4. CASE BootSetup(o)
    BY <2>4 DEF BootSetup, AtBootQuery
  <2>5. CASE BootAttach(o)
    BY <2>5 DEF BootAttach, AtBootQuery
  <2>6. CASE RecordDefault(o)
    BY <2>6 DEF RecordDefault, Ready, BootDone
  <2>7. CASE SelectDefault(o)
    BY <2>7 DEF SelectDefault, Ready, Live
  <2>8. CASE BootFails(o)
    <3>1. next' = next /\ conn' = None /\ UNCHANGED <<initialized, defaultDatabase>>
      BY <2>8 DEF BootFails, NextAfterFailure
    <3>2. attached' = attached \/ (attached' /\ AtBootQuery(o, "attach"))
      BY <2>8 DEF BootFails
    <3>3. AtBootQuery(o, "attach") => next + 1 = BootLen
      BY DEF AtBootQuery
    <3>4. /\ next' = BootLen => attached'
          /\ attached' => next' >= BootLen - 1
      BY <3>1, <3>2, <3>3
    <3>5. \A p \in Ops : pc[p] = "boot" => p = o
      BY <2>8 DEF BootFails
    <3>6. pc' = [pc EXCEPT ![o] = After(o)]
      BY <2>8 DEF BootFails
    <3>7. QED
      BY <3>1, <3>4, <3>5, <3>6 DEF After
  <2>9. CASE BootRefused(o)
    BY <2>9 DEF BootRefused, After, AtBootQuery
  <2>10. QED
    BY <1>6, <2>1, <2>2, <2>3, <2>4, <2>5, <2>6, <2>7, <2>8, <2>9 DEF Connecting
<1>7. ASSUME NEW o \in Ops, Plain(o) PROVE BootInv'
  <2>1. CASE Run(o)
    BY <2>1 DEF Run, After, Effect
  <2>2. CASE RunFails(o)
    BY <2>2 DEF RunFails, After, Effect, RetryAfterFault, Fault, TransportFault
  <2>3. CASE RunOnLost(o)
    BY <2>3 DEF RunOnLost
  <2>4. CASE Scan(o)
    BY <2>4 DEF Scan, ScanReleases
  <2>5. CASE DropRow(o)
    BY <2>5 DEF DropRow, Finish
  <2>6. QED
    BY <1>7, <2>1, <2>2, <2>3, <2>4, <2>5 DEF Plain
<1>8. ASSUME NEW o \in Ops, Scope(o) PROVE BootInv'
  <2>1. CASE ReadPrevious(o)
    BY <2>1 DEF ReadPrevious, Fault, TransportFault
  <2>2. CASE UseTarget(o)
    BY <2>2 DEF UseTarget, AfterUseError, Fault, TransportFault
  <2>3. CASE ScopeBody(o)
    BY <2>3 DEF ScopeBody
  <2>4. CASE ScopePanic(o)
    BY <2>4 DEF ScopePanic
  <2>5. CASE Restore(o)
    BY <2>5 DEF Restore, Live, DiscardAfterRestoreError, RestoreFault, TransportFault
  <2>6. CASE CloseScope(o)
    BY <2>6 DEF CloseScope, ConnAfterScope
  <2>7. QED
    BY <1>8, <2>1, <2>2, <2>3, <2>4, <2>5, <2>6 DEF Scope
<1>9. CASE Lose
  BY <1>9 DEF Lose, TransportFault
<1>10. CASE ExternalDrop
  BY <1>10 DEF ExternalDrop
<1>11. CASE UNCHANGED vars
  BY <1>11 DEF vars
<1>12. QED
  BY <1>1, <1>2, <1>3, <1>4, <1>5, <1>6, <1>7, <1>8, <1>9, <1>10, <1>11
  DEF Next, Work

\* Outside a WithDatabaseUse the connection is where it booted or was left.
LEMMA HomeNext == IInv /\ [Next]_vars => HomeInv'
<1> SUFFICES ASSUME TypeOK, OneAdmitted, CallsInv, BootInv, HomeInv, [Next]_vars PROVE HomeInv'
  BY DEF IInv
<1> USE NamesAssumption DEF HomeInv, Away, InScope, TypeOK, OneAdmitted, Holding, CallsInv, BootInv
<1>1. ASSUME NEW o \in Ops, Begin(o) PROVE HomeInv'
  BY <1>1 DEF Begin
<1>2. ASSUME NEW o \in Ops, Acquire(o) PROVE HomeInv'
  BY <1>2 DEF Acquire, ChannelHasRoom
<1>3. ASSUME NEW o \in Ops, Abandon(o) PROVE HomeInv'
  BY <1>3 DEF Abandon, Finish
<1>4. ASSUME NEW o \in Ops, Release(o) PROVE HomeInv'
  BY <1>4 DEF Release, GiveUpAdmission, Finish
<1>5. ASSUME NEW o \in Ops, Cancel(o) PROVE HomeInv'
  BY <1>5 DEF Cancel
<1>6. ASSUME NEW o \in Ops, Connecting(o) PROVE HomeInv'
  <2>1. CASE Checkout(o)
    BY <2>1 DEF Checkout, Ready
  <2>2. CASE Open(o)
    BY <2>2 DEF Open
  <2>3. CASE ConnectFails(o)
    BY <2>3 DEF ConnectFails, After, RetryAfterFault, Fault, TransportFault
  <2>4. CASE BootSetup(o)
    BY <2>4 DEF BootSetup, AtBootQuery
  <2>5. CASE BootAttach(o)
    BY <2>5 DEF BootAttach, AtBootQuery
  <2>6. CASE RecordDefault(o)
    BY <2>6 DEF RecordDefault, Ready, BootDone
  <2>7. CASE SelectDefault(o)
    BY <2>7 DEF SelectDefault, Ready, Live
  <2>8. CASE BootFails(o)
    BY <2>8 DEF BootFails, After, RetryAfterFault, Fault, TransportFault, NextAfterFailure, AtBootQuery
  <2>9. CASE BootRefused(o)
    BY <2>9 DEF BootRefused, After, AtBootQuery
  <2>10. QED
    BY <1>6, <2>1, <2>2, <2>3, <2>4, <2>5, <2>6, <2>7, <2>8, <2>9 DEF Connecting
<1>7. ASSUME NEW o \in Ops, Plain(o) PROVE HomeInv'
  <2>1. CASE Run(o)
    BY <2>1 DEF Run, After, Effect
  <2>2. CASE RunFails(o)
    BY <2>2 DEF RunFails, After, Effect, RetryAfterFault, Fault, TransportFault
  <2>3. CASE RunOnLost(o)
    BY <2>3 DEF RunOnLost
  <2>4. CASE Scan(o)
    BY <2>4 DEF Scan, ScanReleases
  <2>5. CASE DropRow(o)
    BY <2>5 DEF DropRow, Finish
  <2>6. QED
    BY <1>7, <2>1, <2>2, <2>3, <2>4, <2>5 DEF Plain
<1>8. ASSUME NEW o \in Ops, Scope(o) PROVE HomeInv'
  <2>1. CASE ReadPrevious(o)
    BY <2>1 DEF ReadPrevious, Fault, TransportFault
  <2>2. CASE UseTarget(o)
    BY <2>2 DEF UseTarget, AfterUseError, Fault, TransportFault
  <2>3. CASE ScopeBody(o)
    BY <2>3 DEF ScopeBody
  <2>4. CASE ScopePanic(o)
    BY <2>4 DEF ScopePanic
  <2>5. CASE Restore(o)
    BY <2>5 DEF Restore, Live, DiscardAfterRestoreError, RestoreFault, TransportFault
  <2>6. CASE CloseScope(o)
    BY <2>6 DEF CloseScope, ConnAfterScope
  <2>7. QED
    BY <1>8, <2>1, <2>2, <2>3, <2>4, <2>5, <2>6 DEF Scope
<1>9. CASE Lose
  BY <1>9 DEF Lose, TransportFault
<1>10. CASE ExternalDrop
  BY <1>10 DEF ExternalDrop
<1>11. CASE UNCHANGED vars
  BY <1>11 DEF vars
<1>12. QED
  BY <1>1, <1>2, <1>3, <1>4, <1>5, <1>6, <1>7, <1>8, <1>9, <1>10, <1>11
  DEF Next, Work

\* The inductive invariant holds before the first operation.
LEMMA InvInit == Init => IInv
<1> SUFFICES ASSUME Init PROVE IInv
  OBVIOUS
<1>1. TypeOK
  BY TypeInit
<1>2. OneAdmitted
  BY DEF Init, OneAdmitted, Holding
<1>3. CallsInv
  BY DEF Init, CallsInv, InScope
<1>4. BootInv
  BY BootLenFacts DEF Init, BootInv, InScope
<1>5. HomeInv
  BY DEF Init, HomeInv
<1>6. QED
  BY <1>1, <1>2, <1>3, <1>4, <1>5 DEF IInv

\* Every step keeps the inductive invariant, part by part.
LEMMA InvNext == IInv /\ [Next]_vars => IInv'
BY TypeNext, OneAdmittedNext, CallsNext, BootNext, HomeNext DEF IInv

\* IInv is an invariant: it holds at first and every step keeps it.
THEOREM Invariant == Spec => []IInv
BY InvInit, InvNext, PTL DEF Spec

\* Every variable keeps its type in the client's runs.
THEOREM TypeCorrect == Spec => []TypeOK
<1>1. IInv => TypeOK
  BY DEF IInv
<1>2. QED
  BY <1>1, Invariant, PTL

\* The admission of client.go is exclusive and never lost, for any number of
\* goroutines, databases and faults.
THEOREM ExclusiveAdmission == Spec => []OneAdmitted
<1>1. IInv => OneAdmitted
  BY DEF IInv
<1>2. QED
  BY <1>1, Invariant, PTL

\* No operation inherits the USE target of an earlier WithDatabaseUse.
THEOREM UseNeverLeaks == Spec => []NoInheritedUse
<1>1. IInv => NoInheritedUse
  BY DEF IInv, NoInheritedUse, HomeInv, Away, InScope
<1>2. QED
  BY <1>1, Invariant, PTL

\* The callback of a WithDatabaseUse runs in the database it selected.
THEOREM CallbackOnTarget == Spec => []ScopeOnTarget
<1>1. IInv => ScopeOnTarget
  BY DEF IInv, ScopeOnTarget, HomeInv
<1>2. QED
  BY <1>1, Invariant, PTL

\* Both together: a USE reaches the statements of its scope and no others.
THEOREM UseStaysConfined == Spec => []UseConfined
<1>1. NoInheritedUse /\ ScopeOnTarget => UseConfined
  BY DEF UseConfined
<1>2. QED
  BY <1>1, UseNeverLeaks, CallbackOnTarget, PTL

\* The boot is resumed, never replayed: no token is set after the attach.
THEOREM TokenSetOnce == Spec => []TokenOnlyBeforeAttach
<1>1. IInv => TokenOnlyBeforeAttach
  <2> SUFFICES ASSUME IInv, NEW o \in Ops, AtBootQuery(o, "token")
               PROVE ~attached
    BY DEF TokenOnlyBeforeAttach
  <2>1. next + 1 = 3
    BY BootLenFacts DEF AtBootQuery, IInv, TypeOK
  <2>2. attached => next >= BootLen - 1
    BY DEF IInv, BootInv
  <2>3. QED
    BY <2>1, <2>2, BootLenFacts DEF IInv, TypeOK
<1>2. QED
  BY <1>1, Invariant, PTL

\* No operation's statement runs before MotherDuck is attached.
THEOREM AttachedBeforeStatements == Spec => []StatementsAfterAttach
<1>1. IInv => StatementsAfterAttach
  BY DEF IInv, StatementsAfterAttach, BootInv, InScope
<1>2. QED
  BY <1>1, Invariant, PTL

\* Both together: the token before the attach, the statements after it.
THEOREM BootsInOrder == Spec => []BootInOrder
<1>1. TokenOnlyBeforeAttach /\ StatementsAfterAttach => BootInOrder
  BY DEF BootInOrder
<1>2. QED
  BY <1>1, TokenSetOnce, AttachedBeforeStatements, PTL

\* The step that ends a WithDatabaseUse leaves the session on the database it
\* found, or without a connection, unless a fault is to blame.
LEMMA RestoreStep == IInv /\ [Next]_vars => ScopeRestoresStep
<1> SUFFICES ASSUME IInv, [Next]_vars PROVE ScopeRestoresStep
  OBVIOUS
<1> USE DEF ScopeRestoresStep, IInv, TypeOK, HomeInv, CallsInv, InScope
<1>1. ASSUME NEW o \in Ops, Begin(o) PROVE ScopeRestoresStep
  BY <1>1 DEF Begin
<1>2. ASSUME NEW o \in Ops, Acquire(o) PROVE ScopeRestoresStep
  BY <1>2 DEF Acquire, ChannelHasRoom
<1>3. ASSUME NEW o \in Ops, Abandon(o) PROVE ScopeRestoresStep
  BY <1>3 DEF Abandon, Finish
<1>4. ASSUME NEW o \in Ops, Release(o) PROVE ScopeRestoresStep
  BY <1>4 DEF Release, GiveUpAdmission, Finish
<1>5. ASSUME NEW o \in Ops, Cancel(o) PROVE ScopeRestoresStep
  BY <1>5 DEF Cancel
<1>6. ASSUME NEW o \in Ops, Connecting(o) PROVE ScopeRestoresStep
  <2>1. CASE Checkout(o)
    BY <2>1 DEF Checkout, Ready
  <2>2. CASE Open(o)
    BY <2>2 DEF Open
  <2>3. CASE ConnectFails(o)
    BY <2>3 DEF ConnectFails, After, RetryAfterFault, Fault, TransportFault
  <2>4. CASE BootSetup(o)
    BY <2>4 DEF BootSetup, AtBootQuery
  <2>5. CASE BootAttach(o)
    BY <2>5 DEF BootAttach, AtBootQuery
  <2>6. CASE RecordDefault(o)
    BY <2>6 DEF RecordDefault, Ready, BootDone
  <2>7. CASE SelectDefault(o)
    BY <2>7 DEF SelectDefault, Ready, Live
  <2>8. CASE BootFails(o)
    BY <2>8 DEF BootFails, After, RetryAfterFault, Fault, TransportFault, NextAfterFailure, AtBootQuery
  <2>9. CASE BootRefused(o)
    BY <2>9 DEF BootRefused, After, AtBootQuery
  <2>10. QED
    BY <1>6, <2>1, <2>2, <2>3, <2>4, <2>5, <2>6, <2>7, <2>8, <2>9 DEF Connecting
<1>7. ASSUME NEW o \in Ops, Plain(o) PROVE ScopeRestoresStep
  <2>1. CASE Run(o)
    BY <2>1 DEF Run, After, Effect
  <2>2. CASE RunFails(o)
    BY <2>2 DEF RunFails, After, Effect, RetryAfterFault, Fault, TransportFault
  <2>3. CASE RunOnLost(o)
    BY <2>3 DEF RunOnLost
  <2>4. CASE Scan(o)
    BY <2>4 DEF Scan, ScanReleases
  <2>5. CASE DropRow(o)
    BY <2>5 DEF DropRow, Finish
  <2>6. QED
    BY <1>7, <2>1, <2>2, <2>3, <2>4, <2>5 DEF Plain
<1>8. ASSUME NEW o \in Ops, Scope(o) PROVE ScopeRestoresStep
  <2>1. CASE ReadPrevious(o)
    BY <2>1 DEF ReadPrevious, Fault, TransportFault
  <2>2. CASE UseTarget(o)
    BY <2>2 DEF UseTarget, AfterUseError, Fault, TransportFault
  <2>3. CASE ScopeBody(o)
    BY <2>3 DEF ScopeBody
  <2>4. CASE ScopePanic(o)
    BY <2>4 DEF ScopePanic
  <2>5. CASE Restore(o)
    BY <2>5 DEF Restore, Live, DiscardAfterRestoreError, RestoreFault, TransportFault
  <2>6. CASE CloseScope(o)
    BY <2>6 DEF CloseScope, ConnAfterScope
  <2>7. QED
    BY <1>8, <2>1, <2>2, <2>3, <2>4, <2>5, <2>6 DEF Scope
<1>9. CASE Lose
  BY <1>9 DEF Lose, TransportFault
<1>10. CASE ExternalDrop
  BY <1>10 DEF ExternalDrop
<1>11. CASE UNCHANGED vars
  BY <1>11 DEF vars
<1>12. QED
  BY <1>1, <1>2, <1>3, <1>4, <1>5, <1>6, <1>7, <1>8, <1>9, <1>10, <1>11
  DEF Next, Work

\* A scope ends on the database it found or without a connection, and only a
\* fault or the loss of that database keeps it from restoring.
THEOREM ScopesRestore == Spec => ScopeRestores
<1>1. IInv /\ [Next]_vars => [ScopeRestoresStep]_vars
  BY RestoreStep
<1>2. QED
  BY <1>1, Invariant, PTL DEF Spec, ScopeRestores

-----------------------------------------------------------------------------
(* The refinement of SerialSession.                                        *)

\* The admitted goroutine is the owner of the session.
LEMMA OwnerIs ==
  ASSUME OneAdmitted, NEW o \in Ops, Holding(o)
  PROVE  Owner = o
BY DEF OneAdmitted, Owner

\* With nobody admitted the abstract session has no owner.
LEMMA NoOwner ==
  ASSUME \A o \in Ops : ~Holding(o)
  PROVE  Owner = None
BY DEF Owner

\* A step of the admitted goroutine that keeps it admitted keeps the owner.
LEMMA SameOwner ==
  ASSUME OneAdmitted, OneAdmitted', \A o \in Ops : Holding(o)' <=> Holding(o)
  PROVE  Owner' = Owner
<1>1. CASE \E o \in Ops : Holding(o)
  <2> PICK o \in Ops : Holding(o)
    BY <1>1
  <2>1. Owner = o
    BY OwnerIs
  <2>2. Owner' = o
    BY DEF OneAdmitted, Owner
  <2>3. QED
    BY <2>1, <2>2
<1>2. CASE ~\E o \in Ops : Holding(o)
  <2>1. Owner = None
    BY <1>2, NoOwner
  <2>2. Owner' = None
    BY <1>2 DEF Owner
  <2>3. QED
    BY <2>1, <2>2
<1>3. QED
  BY <1>1, <1>2

\* What the goroutine that stays admitted does to the connection is Select.
LEMMA OwnerSelects ==
  ASSUME IInv, IInv', NEW o \in Ops, Holding(o), Holding(o)',
         initialized => defaultDatabase' = defaultDatabase
  PROVE  Serial!Select
<1>1. Owner = o
  BY OwnerIs DEF IInv
<1>2. Owner' = o
  BY DEF IInv, OneAdmitted, Owner
<1>3. defaultDatabase' \in IF defaultDatabase = None
                           THEN Databases \cup {Memory} \cup {None}
                           ELSE {defaultDatabase}
  BY DEF IInv, BootInv, TypeOK
<1>4. QED
  BY <1>1, <1>2, <1>3, NamesAssumption DEF Serial!Select, IInv, TypeOK

\* The first state of the client is a first state of the abstract session.
LEMMA SerialInit == Init => Serial!Init
<1> SUFFICES ASSUME Init PROVE Serial!Init
  OBVIOUS
<1>1. Owner = None
  BY NoOwner DEF Init, Holding
<1>2. QED
  BY <1>1 DEF Init, Serial!Init

\* Each step of the client is one of the exclusive sessions' or a stutter:
\* Acquire enters, Release and the first Scan leave, a lost idle connection
\* breaks, and what an admitted call does to the connection selects.
LEMMA SerialNext == IInv /\ IInv' /\ [Next]_vars => [Serial!Next]_(Serial!vars)
<1> SUFFICES ASSUME IInv, IInv', [Next]_vars
             PROVE  [Serial!Next]_(Serial!vars)
  OBVIOUS
<1>0. TypeOK /\ OneAdmitted /\ OneAdmitted'
  BY DEF IInv
<1>1. ASSUME NEW o \in Ops, Begin(o) \/ Abandon(o) \/ Cancel(o) \/ DropRow(o)
      PROVE  Serial!vars' = Serial!vars
  <2>1. /\ \A p \in Ops : Holding(p)' <=> Holding(p)
        /\ UNCHANGED <<conn, defaultDatabase>>
    BY <1>0, <1>1 DEF TypeOK, Begin, Abandon, Cancel, DropRow, Finish, Holding
  <2>2. QED
    BY <2>1, <1>0, SameOwner DEF Serial!vars
<1>2. ASSUME NEW o \in Ops, Acquire(o) PROVE Serial!Enter(o)
  <2>1. Owner = None
    BY <1>0, <1>2, NoOwner DEF Acquire, ChannelHasRoom, OneAdmitted, TypeOK
  <2>2. Holding(o)' /\ UNCHANGED <<conn, defaultDatabase>>
    BY <1>0, <1>2 DEF Acquire, Holding, TypeOK
  <2>3. Owner' = o
    BY <1>0, <2>2 DEF OneAdmitted, Owner
  <2>4. QED
    BY <2>1, <2>2, <2>3 DEF Serial!Enter
<1>3. ASSUME NEW o \in Ops, Release(o) \/ (Scan(o) /\ pc[o] = "row")
      PROVE  Serial!Leave
  <2>1. Holding(o) /\ sem' = 0 /\ UNCHANGED <<conn, defaultDatabase>>
    BY <1>0, <1>3 DEF IInv, CallsInv, Release, GiveUpAdmission, Scan,
       ScanReleases, Holding, TypeOK
  <2>2. Owner = o
    BY <1>0, <2>1, OwnerIs
  <2>3. Owner' = None
    BY <1>0, <2>1 DEF OneAdmitted, Owner
  <2>4. conn \in {None, Memory, defaultDatabase}
    BY <1>0, <1>3 DEF IInv, HomeInv, Away, OneAdmitted, Holding, Release, Scan
  <2>5. QED
    BY <2>1, <2>2, <2>3, <2>4, NamesAssumption DEF Serial!Leave
<1>4. ASSUME NEW o \in Ops, Scan(o), pc[o] = "scanned"
      PROVE  Serial!vars' = Serial!vars
  <2>1. /\ \A p \in Ops : Holding(p)' <=> Holding(p)
        /\ UNCHANGED <<conn, defaultDatabase>>
    BY <1>0, <1>4 DEF TypeOK, Scan, Holding
  <2>2. QED
    BY <2>1, <1>0, SameOwner DEF Serial!vars
<1>5. ASSUME NEW o \in Ops, Connecting(o) \/ Run(o) \/ RunFails(o)
                            \/ RunOnLost(o) \/ Scope(o)
      PROVE  Serial!Select
  <2>1. Holding(o) /\ Holding(o)'
    BY <1>0, <1>5 DEF TypeOK, Holding, Connecting, Checkout, Open, ConnectFails,
       BootSetup, BootAttach, RecordDefault, SelectDefault, BootFails,
       BootRefused, Run, RunFails, RunOnLost, Scope, ReadPrevious, UseTarget,
       ScopeBody, ScopePanic, Restore, CloseScope, Ready, After, AtBootQuery,
       AfterUseError
  <2>2. initialized => defaultDatabase' = defaultDatabase
    BY <1>5 DEF Connecting, Checkout, Open, ConnectFails,
       BootSetup, BootAttach, RecordDefault, SelectDefault, BootFails,
       BootRefused, Run, RunFails, RunOnLost, Scope, ReadPrevious, UseTarget,
       ScopeBody, ScopePanic, Restore, CloseScope
  <2>3. QED
    BY <2>1, <2>2, OwnerSelects
<1>6. ASSUME Lose PROVE Serial!Select \/ Serial!Break
  <2>1. /\ \A p \in Ops : Holding(p)' <=> Holding(p)
        /\ UNCHANGED defaultDatabase
    BY <1>6 DEF Lose, Holding
  <2>2. CASE \E o \in Ops : Holding(o)
    BY <2>1, <2>2, OwnerSelects
  <2>3. CASE ~\E o \in Ops : Holding(o)
    <3>1. Owner = None /\ Owner' = None
      BY <2>1, <2>3, <1>0, NoOwner, SameOwner
    <3>2. QED
      BY <2>1, <3>1, <1>6 DEF Lose, Serial!Break
  <2>4. QED
    BY <2>2, <2>3
<1>7. ASSUME ExternalDrop \/ UNCHANGED vars PROVE Serial!vars' = Serial!vars
  <2>1. /\ \A p \in Ops : Holding(p)' <=> Holding(p)
        /\ UNCHANGED <<conn, defaultDatabase>>
    BY <1>7 DEF ExternalDrop, vars, Holding
  <2>2. QED
    BY <2>1, <1>0, SameOwner DEF Serial!vars
<1>8. ASSUME NEW o \in Ops, Scan(o) PROVE pc[o] \in {"row", "scanned"}
  BY <1>8 DEF Scan
<1>9. QED
  BY <1>1, <1>2, <1>3, <1>4, <1>5, <1>6, <1>7, <1>8
  DEF Next, Work, Plain, Serial!Next

\* The SQL client implements exclusive sessions that start at home.
THEOREM ClientImplementsSerial == Spec => ImplementsSerial
<1>1. IInv /\ IInv' /\ [Next]_vars => [Serial!Next]_(Serial!vars)
  BY SerialNext
<1>2. QED
  BY <1>1, SerialInit, Invariant, PTL DEF Spec, ImplementsSerial, Serial!Spec

=============================================================================
