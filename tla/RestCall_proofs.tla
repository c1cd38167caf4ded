--------------------------- MODULE RestCall_proofs ---------------------------
(* Proofs about RestCall, for every number of attempts.                    *)
EXTENDS RestCall, FiniteSetTheorems, TLAPS

\* Copies on the wire are counted by whole numbers.
LEMMA WireFinite ==
  ASSUME TypeOK
  PROVE  IsFiniteSet(wire) /\ Cardinality(wire) \in Nat
<1>1. MaxAttempts - 1 \in Int /\ 0 \in Int
  BY AttemptsAssumption
<1>2. IsFiniteSet(Attempts)
  BY <1>1, FS_Interval DEF Attempts
<1>3. wire \in SUBSET Attempts
  BY DEF TypeOK
<1>4. IsFiniteSet(wire)
  BY <1>2, <1>3, FS_Subset
<1>5. QED
  BY <1>4, FS_CardinalityType

\* Sending a copy adds one to the wire at most.
LEMMA WireGrows ==
  ASSUME TypeOK, NEW a \in Attempts
  PROVE  Cardinality(wire \cup {a}) <= Cardinality(wire) + 1
<1>1. IsFiniteSet(wire) /\ Cardinality(wire) \in Nat
  BY WireFinite
<1>2. Cardinality(wire \cup {a}) =
        IF a \in wire THEN Cardinality(wire) ELSE Cardinality(wire) + 1
  BY <1>1, FS_AddElement
<1>3. QED
  BY <1>1, <1>2

\* A copy that arrives or is lost leaves the wire one shorter.
LEMMA WireShrinks ==
  ASSUME TypeOK, NEW a \in wire
  PROVE  Cardinality(wire \ {a}) = Cardinality(wire) - 1
<1>1. IsFiniteSet(wire)
  BY WireFinite
<1>2. QED
  BY <1>1, FS_RemoveElement

\* The invariant holds before the first attempt.
LEMMA InvInit == Init => IInv
<1> SUFFICES ASSUME Init PROVE IInv
  OBVIOUS
<1>1. 0 \in Attempts
  BY AttemptsAssumption DEF Attempts
<1>2. Cardinality(wire) = 0
  BY FS_EmptySet DEF Init
<1>3. TypeOK
  BY <1>1 DEF Init, TypeOK, Methods
<1>4. CallInv
  BY <1>2, AttemptsAssumption DEF Init, CallInv, Sent, RetryableMethod
<1>5. QED
  BY <1>3, <1>4 DEF IInv

\* Every step of the client, the network and Terraform preserves it.
LEMMA InvNext == IInv /\ [Next]_vars => IInv'
<1> SUFFICES ASSUME IInv, [Next]_vars PROVE IInv'
  OBVIOUS
<1> USE AttemptsAssumption
<1>1. Cardinality(wire) \in Nat /\ TypeOK /\ CallInv
  BY WireFinite DEF IInv
<1>2. CASE Send
  <2>1. Cardinality(wire') <= Cardinality(wire) + 1 /\ wire' \in SUBSET Attempts
    BY <1>1, <1>2, WireGrows DEF Send, TypeOK
  <2>2. Cardinality(wire') \in Nat
    <3>1. TypeOK'
      BY <1>1, <1>2, <2>1 DEF Send, TypeOK
    <3>2. IsFiniteSet(wire) /\ wire' = wire \cup {attempt}
      BY <1>1, <1>2, WireFinite DEF Send
    <3>3. QED
      BY <3>2, FS_AddElement, FS_CardinalityType
  <2>3. QED
    BY <1>1, <1>2, <2>1, <2>2
    DEF IInv, TypeOK, CallInv, Send, Sent, RetryableMethod, Attempts
<1>3. CASE Answered
  <2>1. TypeOK'
    BY <1>1, <1>3
    DEF TypeOK, Answered, Return, Result, Attempts, Answers, Outcomes
  <2>2. CASE Final \/ ~RetryableStatus(reply)
    BY <1>1, <1>3, <2>1, <2>2
    DEF IInv, TypeOK, CallInv, Answered, Return, Result, Sent,
        RetryableMethod, RetryableStatus, Final, Attempts
  <2>3. CASE ~Final /\ RetryableStatus(reply)
    BY <1>1, <1>3, <2>1, <2>3
    DEF IInv, TypeOK, CallInv, Answered, Sent, RetryableMethod,
        RetryableStatus, Final, Attempts
  <2>4. QED
    BY <2>2, <2>3
<1>3a. CASE RedirectRefused
  BY <1>1, <1>3a
  DEF IInv, TypeOK, CallInv, RedirectRefused, Return, Sent, RetryableMethod,
      Attempts, Answers, Outcomes
<1>4. CASE TransportError
  BY <1>1, <1>4
  DEF IInv, TypeOK, CallInv, TransportError, Return, Sent, RetryableMethod,
      Final, Attempts, Answers, Outcomes
<1>5. CASE Wake
  BY <1>1, <1>5
  DEF IInv, TypeOK, CallInv, Wake, NextAttempt, Return, Sent, RetryableMethod,
      Attempts, Answers, Outcomes
<1>6. CASE SleepCancelled \/ Cancel
  BY <1>1, <1>6
  DEF IInv, TypeOK, CallInv, SleepCancelled, Cancel, Return, Sent,
      RetryableMethod, Attempts, Answers, Outcomes
<1>7. ASSUME NEW a \in Attempts, Process(a) \/ TurnAway(a) \/ Drop(a)
      PROVE  IInv'
  <2>1. a \in wire /\ wire' = wire \ {a}
    BY <1>7 DEF Process, TurnAway, Drop
  <2>2. Cardinality(wire') = Cardinality(wire) - 1
    BY <1>1, <2>1, WireShrinks
  <2>3. CASE Process(a)
    BY <1>1, <2>1, <2>2, <2>3
    DEF IInv, TypeOK, CallInv, Process, Answer, Sent, RetryableMethod,
        Attempts, Answers
  <2>4. CASE TurnAway(a)
    BY <1>1, <2>1, <2>2, <2>4
    DEF IInv, TypeOK, CallInv, TurnAway, Answer, Sent, RetryableMethod,
        Attempts, Answers
  <2>5. CASE Drop(a)
    BY <1>1, <2>1, <2>2, <2>5
    DEF IInv, TypeOK, CallInv, Drop, Sent, RetryableMethod, Attempts
  <2>6. QED
    BY <1>7, <2>3, <2>4, <2>5
<1>8. CASE UNCHANGED vars
  BY <1>1, <1>8 DEF IInv, TypeOK, CallInv, Sent, RetryableMethod, vars
<1>9. QED
  BY <1>2, <1>3, <1>3a, <1>4, <1>5, <1>6, <1>7, <1>8
  DEF Next, Client, Network

\* The inductive invariant: the server has acted on, and the wire still
\* holds, no more copies than the attempts made so far.
THEOREM Invariant == Spec => []IInv
BY InvInit, InvNext, PTL DEF Spec

\* Type correctness.
THEOREM TypeCorrect == Spec => []TypeOK
<1>1. IInv => TypeOK
  BY DEF IInv
<1>2. QED
  BY <1>1, Invariant, PTL

\* A POST is carried out at most once, whatever the network does.
THEOREM CreatesOnce == Spec => []PostAtMostOnce
<1>1. ASSUME IInv PROVE PostAtMostOnce
  <2>1. Cardinality(wire) \in Nat
    BY <1>1, WireFinite DEF IInv
  <2>2. QED
    BY <1>1, <2>1
    DEF IInv, TypeOK, CallInv, Sent, PostAtMostOnce, RetryableMethod, Methods
<1>2. QED
  BY <1>1, Invariant, PTL

\* A success is never reported for a request the server did not act on.
THEOREM NoFalseSuccess == Spec => []SuccessMeansApplied
<1>1. IInv => SuccessMeansApplied
  BY DEF IInv, CallInv, SuccessMeansApplied
<1>2. QED
  BY <1>1, Invariant, PTL

\* An idempotent request does not give up early.
THEOREM GivesUpAtTheEnd == Spec => []UsesEveryAttempt
<1>1. IInv => UsesEveryAttempt
  BY DEF IInv, CallInv, UsesEveryAttempt
<1>2. QED
  BY <1>1, Invariant, PTL

\* The loop of doWithRetry never ends without a response or an error.
THEOREM AlwaysAnswers == Spec => []NeverEmptyHanded
<1>1. IInv => NeverEmptyHanded
  BY DEF IInv, CallInv, NeverEmptyHanded
<1>2. QED
  BY <1>1, Invariant, PTL

\* A request starts as the contract's does.
LEMMA ContractInit == Init => Contract!Init
BY DEF Init, Contract!Init, RetryableMethod, Methods

\* Every step is one of the contract's, or does not show there.
LEMMA ContractNext ==
  ASSUME IInv, IInv', [Next]_vars
  PROVE  [Contract!Next]_(Contract!vars)
<1>1. CASE Send \/ Cancel \/ UNCHANGED vars
  BY <1>1, IInv
  DEF Send, Cancel, vars, Contract!vars, RetryableMethod
<1>2. CASE Answered \/ RedirectRefused
  BY <1>2, IInv
  DEF IInv, CallInv, TypeOK, Answered, RedirectRefused, Return, Result,
      RetryableMethod, Contract!vars, Contract!Next, Contract!Return
<1>3. CASE TransportError \/ SleepCancelled
  BY <1>3, IInv
  DEF IInv, CallInv, TypeOK, TransportError, SleepCancelled, Return,
      RetryableMethod, Contract!vars, Contract!Next, Contract!Return
<1>4. CASE Wake
  BY <1>4, IInv, AttemptsAssumption
  DEF IInv, CallInv, TypeOK, Wake, NextAttempt, Return, RetryableMethod,
      Attempts, Contract!vars
<1>5. ASSUME NEW a \in Attempts, TurnAway(a) \/ Drop(a)
      PROVE  UNCHANGED Contract!vars
  BY <1>5 DEF TurnAway, Drop, Contract!vars, RetryableMethod
<1>6. ASSUME NEW a \in Attempts, Process(a)
      PROVE  Contract!Act
  <2>1. Cardinality(wire) \in Nat /\ Cardinality(wire \ {a}) \in Nat
    BY <1>6, WireFinite, FS_RemoveElement, FS_CardinalityType DEF IInv, Process
  <2>2. Cardinality(wire) > 0
    BY <1>6, <2>1, WireShrinks DEF IInv, Process
  <2>3. QED
    BY <1>6, <2>1, <2>2, AttemptsAssumption
    DEF IInv, CallInv, TypeOK, Process, Sent, RetryableMethod, Attempts,
        Contract!Act
<1>7. QED
  BY <1>1, <1>2, <1>3, <1>4, <1>5, <1>6
  DEF Next, Client, Network, Contract!Next

\* Whatever the network does, do() keeps to RestContract.
THEOREM RequestKeepsContract == Spec => ImplementsContract
<1>1. IInv /\ IInv' /\ [Next]_vars => [Contract!Next]_(Contract!vars)
  BY ContractNext
<1>2. QED
  BY <1>1, ContractInit, Invariant, PTL DEF Spec, ImplementsContract, Contract!Spec
=============================================================================
