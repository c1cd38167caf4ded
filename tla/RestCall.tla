------------------------------ MODULE RestCall ------------------------------
(***************************************************************************)
(* One request of the REST client (internal/client/rest/client.go), from   *)
(* do() through doWithRetry() to the MotherDuck API and back.              *)
(*                                                                         *)
(* Every attempt puts one copy of the request on the wire.  A copy may be  *)
(* lost, may be turned away by a gateway or by the API, or may reach the   *)
(* API late: after the attempt that sent it timed out, while a later       *)
(* attempt is under way, even after do() returned.  The server's answer    *)
(* may be lost as well, so a transport error says nothing about whether    *)
(* the request was carried out.                                            *)
(***************************************************************************)
EXTENDS Integers, FiniteSets

CONSTANT MaxAttempts   \* maxAttempts, 4 in the code

ASSUME AttemptsAssumption == MaxAttempts \in Nat \ {0}

VARIABLES
  method,   \* the HTTP method
  pc,       \* where doWithRetry stands
  attempt,  \* its loop variable
  wire,     \* attempts whose copy is still on its way to the server
  reply,    \* the answer to the current attempt, or "none"
  applied,  \* how often the server carried the request out
  ctx,      \* "live", or "done" after a deadline or cancellation
  outcome   \* what do() returned, or "none"

vars == <<method, pc, attempt, wire, reply, applied, ctx, outcome>>

Methods == {"GET", "POST", "PUT", "DELETE"}

\* Answers.  "ok" is a 2xx answer with a complete body; "cut" is one whose
\* body breaks off, exceeds the limit, is empty or null, or is no JSON object;
\* "busy" is 429, 502, 503 or 504; "rejected" any other status; "redirect" a
\* redirect that checkRedirect refuses.
Answers == {"ok", "cut", "busy", "rejected", "redirect"}

\* do() returns an answer, a transport error, or the error of its context; or,
\* should the loop of doWithRetry ever run out, no response and no error.
Outcomes == Answers \cup {"transport", "cancelled", "nothing"}

Init ==
  /\ method \in Methods
  /\ pc = "send"
  /\ attempt = 0
  /\ wire = {}
  /\ reply = "none"
  /\ applied = 0
  /\ ctx = "live"
  /\ outcome = "none"

-----------------------------------------------------------------------------
(* The decisions doWithRetry and do take.  A definition whose name starts  *)
(* with Slip is the one after it as a plausible mistake would have it; no  *)
(* action uses it.                                                         *)

\* Slip: every method that can be built is retried.
SlipRetryableMethod == method \in {"GET", "PUT", "DELETE", "POST"}
\* retryableMethod: POST is not repeated.
RetryableMethod == method \in {"GET", "PUT", "DELETE"}

\* Slip: final is off by one.
SlipFinal == attempt = MaxAttempts
\* doWithRetry: this is the last attempt.
Final == attempt = MaxAttempts - 1

\* Slip: the attempt is counted only when the server answered.
SlipNextAttempt == IF reply = "none" THEN attempt ELSE attempt + 1
\* doWithRetry: the loop's increment.
NextAttempt == attempt + 1

\* Slip: a DELETE that is turned away on its second attempt has succeeded.
SlipResult(r) == IF r = "rejected" /\ attempt > 0 THEN "ok" ELSE r
\* do: only a 2xx status with a usable body is a success.
Result(r) == r

\* Slip: the give-up test forgets that a busy server is to be asked again.
SlipRetryableStatus(r) == r = "busy" /\ RetryableMethod /\ attempt = 0
\* retryableStatus: 429, 502, 503 and 504 of an idempotent method.
RetryableStatus(r) == r = "busy" /\ RetryableMethod

-----------------------------------------------------------------------------
(* The client.                                                             *)

Return(o) == pc' = "done" /\ outcome' = o

\* httpClient.Do: a clone of the request goes out.
Send ==
  /\ pc = "send"
  /\ wire' = wire \cup {attempt}
  /\ reply' = "none"
  /\ pc' = "wait"
  /\ UNCHANGED <<method, attempt, applied, ctx, outcome>>

\* Do returns a response: it is final, or it is discarded and the loop sleeps.
Answered ==
  /\ pc = "wait"
  /\ reply \in {"ok", "cut", "busy", "rejected"}
  /\ IF Final \/ ~RetryableStatus(reply)
       THEN Return(Result(reply))
       ELSE pc' = "sleep" /\ UNCHANGED outcome
  /\ UNCHANGED <<method, attempt, wire, reply, applied, ctx>>

\* Do returns errRedirectRefused, which no attempt would get past.
RedirectRefused ==
  /\ pc = "wait"
  /\ reply = "redirect"
  /\ Return("redirect")
  /\ UNCHANGED <<method, attempt, wire, reply, applied, ctx>>

\* Do returns a transport error or times out; the answer, if any, is lost.
TransportError ==
  /\ pc = "wait"
  /\ reply' = "none"
  /\ IF ~RetryableMethod \/ Final
       THEN Return("transport")
       ELSE pc' = "sleep" /\ UNCHANGED outcome
  /\ UNCHANGED <<method, attempt, wire, applied, ctx>>

\* retry.Sleep: the timer fires.  With the loop at its end, doWithRetry
\* returns the last error, and after an answered attempt there is none.
Wake ==
  /\ pc = "sleep"
  /\ attempt' = NextAttempt
  /\ IF attempt' < MaxAttempts
       THEN pc' = "send" /\ UNCHANGED outcome
       ELSE Return(IF reply = "none" THEN "transport" ELSE "nothing")
  /\ UNCHANGED <<method, wire, reply, applied, ctx>>

\* retry.Sleep: the context is done first.
SleepCancelled ==
  /\ pc = "sleep"
  /\ ctx = "done"
  /\ Return("cancelled")
  /\ UNCHANGED <<method, attempt, wire, reply, applied, ctx>>

-----------------------------------------------------------------------------
(* The network, the API and Terraform.                                     *)

\* The answer to a copy reaches the client if its attempt still waits.
Answer(a, Possible) ==
  reply' \in IF a = attempt /\ pc = "wait" THEN Possible ELSE {reply}

\* The API carries out a copy of the request; a gateway may still time out.
Process(a) ==
  /\ a \in wire
  /\ wire' = wire \ {a}
  /\ applied' = applied + 1
  /\ Answer(a, {"ok", "cut", "busy"})
  /\ UNCHANGED <<method, pc, attempt, ctx, outcome>>

\* The API or a gateway turns a copy away.
TurnAway(a) ==
  /\ a \in wire
  /\ wire' = wire \ {a}
  /\ Answer(a, {"busy", "rejected", "redirect"})
  /\ UNCHANGED <<method, pc, attempt, applied, ctx, outcome>>

\* A copy is lost.
Drop(a) ==
  /\ a \in wire
  /\ wire' = wire \ {a}
  /\ UNCHANGED <<method, pc, attempt, reply, applied, ctx, outcome>>

\* The operation's deadline passes or Terraform is interrupted.
Cancel ==
  /\ ctx = "live"
  /\ pc # "done"
  /\ ctx' = "done"
  /\ UNCHANGED <<method, pc, attempt, wire, reply, applied, outcome>>

Client == \/ Send \/ Answered \/ RedirectRefused \/ TransportError
          \/ Wake \/ SleepCancelled

Attempts == 0..(MaxAttempts - 1)

Network == \E a \in Attempts : Process(a) \/ TurnAway(a) \/ Drop(a)

Next == Client \/ Network \/ Cancel

Spec == Init /\ [][Next]_vars

\* The http.Client has a timeout and the timer of Sleep fires, so the client
\* always moves; the network owes it nothing.
FairSpec == Spec /\ WF_vars(Client)

-----------------------------------------------------------------------------
(* Properties.                                                             *)

\* Every variable has its type.
TypeOK ==
  /\ method \in Methods
  /\ pc \in {"send", "wait", "sleep", "done"}
  /\ attempt \in Attempts
  /\ wire \in SUBSET Attempts
  /\ reply \in Answers \cup {"none"}
  /\ applied \in Nat
  /\ ctx \in {"live", "done"}
  /\ outcome \in Outcomes \cup {"none"}

\* A POST is carried out at most once, however late its copy arrives and
\* whatever the client was told: a create never mints a second token or
\* service account.
PostAtMostOnce == method = "POST" => applied <= 1

\* A success is reported only if the server carried the request out.
SuccessMeansApplied == outcome \in {"ok", "cut"} => applied > 0

\* An idempotent request whose context lives fails for want of a usable
\* connection or of a willing server only after its last attempt.
UsesEveryAttempt ==
  (outcome \in {"busy", "transport"} /\ RetryableMethod)
    => attempt = MaxAttempts - 1

\* doWithRetry never leaves its loop at the bottom, where it would return
\* neither a response nor an error and do() would use a nil response.
NeverEmptyHanded == outcome # "nothing"

\* do() returns.
Returns == <>(pc = "done")

-----------------------------------------------------------------------------
(* The inductive invariant behind them, and the contract.                  *)

\* The copies sent so far.
Sent == IF pc = "send" THEN attempt ELSE attempt + 1

\* How the copies sent so far, those on the wire, the current answer and the
\* number of times the request was carried out hang together.
CallInv ==
  /\ applied + Cardinality(wire) <= Sent
  /\ \A a \in wire : a <= attempt
  /\ pc = "send" => attempt \notin wire
  /\ ~RetryableMethod => attempt = 0 /\ pc # "sleep"
  /\ pc = "sleep" => attempt < MaxAttempts - 1
  /\ reply \in {"ok", "cut"} => applied > 0
  /\ pc = "done" <=> outcome # "none"
  /\ outcome \in {"busy", "transport"} /\ RetryableMethod
       => attempt = MaxAttempts - 1
  /\ outcome \in {"ok", "cut"} => applied > 0
  /\ outcome # "nothing"

IInv == TypeOK /\ CallInv

Contract == INSTANCE RestContract
              WITH Limit <- MaxAttempts, Successes <- {"ok", "cut"},
                   Failures <- {"busy", "rejected", "redirect", "transport",
                                "cancelled"},
                   repeatable <- RetryableMethod, open <- pc # "done",
                   acts <- applied, result <- outcome

\* Whatever the network does, the request behaves as RestContract says.
ImplementsContract == Contract!Spec
=============================================================================
