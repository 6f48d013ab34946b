-------------------------- MODULE ModelRuntimeProofs --------------------------
(***************************************************************************)
(* Theorems about ModelRuntime, for any number of calls of every kind, any *)
(* retry bound, limits, seeds and reported usage.                          *)
(***************************************************************************)
EXTENDS ModelRuntime, TLAPS

(***************************************************************************)
(* A count read through max(0, _) is a natural number (record_model).      *)
(***************************************************************************)
LEMMA CountIsNat == \A n \in Int : AtLeastZero(n) \in Nat
  BY DEF AtLeastZero

(***************************************************************************)
(* record_model keeps the ledger a function into the natural numbers.      *)
(***************************************************************************)
LEMMA LedgerTyped ==
  ASSUME NEW input \in Int, NEW output \in Int, NEW cost \in Int,
         snap \in [Dimensions -> Nat], RecordModel(input, output, cost)
  PROVE  snap' \in [Dimensions -> Nat]
  <1>1. /\ AtLeastZero(input) \in Nat /\ AtLeastZero(output) \in Nat
        /\ AtLeastZero(cost) \in Nat
    BY CountIsNat
  <1>2. QED
    BY <1>1 DEF RecordModel, Dimensions

(***************************************************************************)
(* What bounds the attempts of a call: one that has not begun has made     *)
(* none, one that sleeps before a retry has one left and is no write.      *)
(***************************************************************************)
Bounded(c) ==
    /\ attempts[c] <= MaxRetries + 1
    /\ c \in Writes => attempts[c] <= 1
    /\ pc[c] = "idle" => attempts[c] = 0
    /\ pc[c] = "backoff" => attempts[c] <= MaxRetries /\ c \notin Writes

Inv == TypeOK /\ \A c \in Calls : Bounded(c)

LEMMA InitInv == Init => Inv
  <1> SUFFICES ASSUME Init PROVE Inv
    OBVIOUS
  <1>1. snap \in [Dimensions -> Nat]
    <2>1. PICK budget \in Seeds : snap = Tracker(budget)
      BY DEF Init
    <2>2. budget \in [Seeded -> Nat]
      BY RuntimeAssumption
    <2>3. QED
      BY <2>1, <2>2 DEF Tracker
  <1>2. /\ cancelled \in BOOLEAN
        /\ pc \in [Calls -> {"idle", "waiting", "backoff", "sleeping", "returned", "raised"}]
        /\ attempts \in [Calls -> Nat]
    BY DEF Init
  <1>3. error \in [Calls -> {"none", "cancelled", "budget", "model", "validation"}]
    BY DEF Init
  <1>4. ASSUME NEW c \in Calls PROVE Bounded(c)
    <2>1. pc[c] = "idle" /\ attempts[c] = 0
      BY DEF Init
    <2>2. MaxRetries \in Nat
      BY RuntimeAssumption
    <2>3. QED
      BY <2>1, <2>2 DEF Bounded
  <1>5. QED
    BY <1>1, <1>2, <1>3, <1>4 DEF Inv, TypeOK

(***************************************************************************)
(* A step that keeps the ledger typed and moves one call as the code does  *)
(* keeps the invariant.                                                    *)
(***************************************************************************)
Moved(c) ==
    /\ pc' = [pc EXCEPT ![c] = pc'[c]] /\ error' = [error EXCEPT ![c] = error'[c]]
    /\ attempts' = [attempts EXCEPT ![c] = attempts'[c]]
    /\ pc'[c] \in {"waiting", "backoff", "sleeping", "returned", "raised"}
    /\ error'[c] \in {"none", "cancelled", "budget", "model", "validation"}

LEMMA MoveKeeps ==
  ASSUME Inv, NEW c \in Calls, snap' \in [Dimensions -> Nat], cancelled' \in BOOLEAN,
         Moved(c), attempts'[c] \in Nat, Bounded(c)'
  PROVE  Inv'
  <1>1. TypeOK'
    BY DEF Inv, TypeOK, Moved
  <1>2. ASSUME NEW d \in Calls PROVE Bounded(d)'
    <2>1. CASE d = c
      BY <2>1
    <2>2. CASE d # c
      <3>1. pc'[d] = pc[d] /\ attempts'[d] = attempts[d]
        BY <2>2 DEF Inv, TypeOK, Moved
      <3>2. QED
        BY <3>1 DEF Inv, Bounded
    <2>3. QED
      BY <2>1, <2>2
  <1>3. QED
    BY <1>1, <1>2 DEF Inv

LEMMA AttemptKeeps ==
  ASSUME Inv, NEW c \in Calls, Attempt(c), pc[c] \in {"idle", "backoff"},
         UNCHANGED <<snap, cancelled>>
  PROVE  Inv'
  <1>1. Moved(c) /\ attempts'[c] \in Nat
    BY DEF Inv, TypeOK, Moved, Attempt, Raise
  <1>2. Bounded(c)'
    BY RuntimeAssumption DEF Inv, TypeOK, Bounded, Attempt, Raise
  <1>3. QED
    BY <1>1, <1>2, MoveKeeps DEF Inv, TypeOK

LEMMA FailsKeeps ==
  ASSUME Inv, NEW c \in Calls, NEW retryable \in BOOLEAN, Fails(c, retryable)
  PROVE  Inv'
  <1>1. Moved(c) /\ attempts'[c] \in Nat
    BY DEF Inv, TypeOK, Moved, Fails, Raise
  <1>2. Bounded(c)'
    BY RuntimeAssumption DEF Inv, TypeOK, Bounded, Fails, Raise, LastAttempt
  <1>3. QED
    BY <1>1, <1>2, MoveKeeps DEF Inv, TypeOK, Fails

(***************************************************************************)
(* A call that ends, or begins to sleep in _tick, makes no attempt.        *)
(***************************************************************************)
LEMMA EndKeeps ==
  ASSUME Inv, NEW c \in Calls, Moved(c), UNCHANGED <<cancelled, attempts>>,
         snap' \in [Dimensions -> Nat], pc'[c] # "backoff"
  PROVE  Inv'
  <1>1. attempts'[c] \in Nat /\ Bounded(c)'
    BY DEF Inv, TypeOK, Bounded, Moved
  <1>2. QED
    BY <1>1, MoveKeeps DEF Inv, TypeOK

LEMMA AnswersKeeps ==
  ASSUME Inv, NEW c \in Calls, NEW reply, NEW usage \in Usages, Answers(c, reply, usage)
  PROVE  Inv'
  <1>1. usage[1] \in Int /\ usage[2] \in Int /\ usage[1] + 2 * usage[2] \in Int
    BY RuntimeAssumption
  <1>2. snap' \in [Dimensions -> Nat]
    <2>1. CASE snap' = snap
      BY <2>1 DEF Inv, TypeOK
    <2>2. CASE RecordModel(usage[1], usage[2], usage[1] + 2 * usage[2])
      BY <1>1, <2>2, LedgerTyped DEF Inv, TypeOK
    <2>3. QED
      BY <2>1, <2>2 DEF Answers
  <1>3. \/ Return(c)
        \/ \E e \in {"cancelled", "validation", "budget"} : Raise(c, e)
    BY DEF Answers
  <1>4. Moved(c) /\ pc'[c] # "backoff"
    BY <1>3 DEF Answers, Moved, Raise, Return, Inv, TypeOK
  <1>5. QED
    BY <1>2, <1>4, EndKeeps DEF Answers

LEMMA WakesKeeps ==
  ASSUME Inv, NEW c \in Calls, NEW tokens \in Nat, Wakes(c, tokens)
  PROVE  Inv'
  <1>1. tokens \div 2 + 1 \in Int
    OBVIOUS
  <1>2. snap' \in [Dimensions -> Nat]
    <2>1. CASE snap' = snap
      BY <2>1 DEF Inv, TypeOK
    <2>2. CASE RecordModel(tokens, tokens \div 2 + 1, tokens)
      BY <1>1, <2>2, LedgerTyped DEF Inv, TypeOK
    <2>3. QED
      BY <2>1, <2>2 DEF Wakes
  <1>3. Return(c) \/ \E e \in {"cancelled", "budget"} : Raise(c, e)
    BY DEF Wakes
  <1>4. Moved(c) /\ pc'[c] # "backoff"
    BY <1>3 DEF Wakes, Moved, Raise, Return, Inv, TypeOK
  <1>5. QED
    BY <1>2, <1>4, EndKeeps DEF Wakes

LEMMA AdvanceKeeps == ASSUME Inv, NEW d \in Dimensions, Advance(d) PROVE Inv'
  BY DEF Inv, TypeOK, Bounded, Advance

LEMMA FakeTokensNat == \A length \in Nat : FakeTokens(length) \in Nat
  BY DEF FakeTokens

LEMMA CallStepKeeps == ASSUME Inv, NEW c \in Calls, Step(c) PROVE Inv'
  <1>1. CASE Complete(c)
    <2>1. CASE Attempt(c)
      BY <1>1, <2>1, AttemptKeeps DEF Complete
    <2>2. CASE Raise(c, "budget") /\ UNCHANGED attempts
      <3>1. Moved(c) /\ pc'[c] # "backoff"
        BY <2>2 DEF Moved, Raise, Inv, TypeOK
      <3>2. QED
        BY <1>1, <2>2, <3>1, EndKeeps DEF Complete, Inv, TypeOK
    <2>3. QED
      BY <1>1, <2>1, <2>2 DEF Complete
  <1>2. CASE Tick(c)
    <2>1. Moved(c) /\ pc'[c] # "backoff"
      BY <1>2 DEF Tick, Moved, Raise, Inv, TypeOK
    <2>2. QED
      BY <1>2, <2>1, EndKeeps DEF Tick, Inv, TypeOK
  <1>3. CASE Retry(c)
    BY <1>3, AttemptKeeps DEF Retry
  <1>4. CASE TimesOut(c) \/ ProviderFails(c)
    BY <1>4, FailsKeeps DEF TimesOut, ProviderFails
  <1>5. CASE \E length \in Lengths : Wakes(c, FakeTokens(length))
    BY <1>5, WakesKeeps, FakeTokensNat, RuntimeAssumption
  <1>6. CASE Interrupted(c)
    <2>1. Moved(c) /\ pc'[c] # "backoff"
      BY <1>6 DEF Interrupted, Moved, Raise, Inv, TypeOK
    <2>2. QED
      BY <1>6, <2>1, EndKeeps DEF Interrupted, Inv, TypeOK
  <1>7. CASE \E reply \in Replies, usage \in Usages : Answers(c, reply, usage)
    BY <1>7, AnswersKeeps
  <1>8. QED
    BY <1>1, <1>2, <1>3, <1>4, <1>5, <1>6, <1>7 DEF Step, Begin, Resume

LEMMA NextKeeps == Inv /\ [Next]_vars => Inv'
  <1> SUFFICES ASSUME Inv, [Next]_vars PROVE Inv'
    OBVIOUS
  <1>1. CASE \E c \in Calls : Step(c)
    BY <1>1, CallStepKeeps
  <1>2. CASE RecordTool \/ RecordDelegation \/ TimePasses
    BY <1>2, AdvanceKeeps DEF RecordTool, RecordDelegation, TimePasses, Dimensions
  <1>3. CASE Cancel
    BY <1>3 DEF Cancel, Inv, TypeOK, Bounded
  <1>4. CASE UNCHANGED vars
    BY <1>4 DEF vars, Inv, TypeOK, Bounded
  <1>5. QED
    BY <1>1, <1>2, <1>3, <1>4 DEF Next, Rest

(***************************************************************************)
(* The ledger stays non-negative and every call is at a place of its code, *)
(* whatever usage providers report (BudgetTracker.record_model).           *)
(***************************************************************************)
THEOREM RuntimeTyped == Spec => []TypeOK
  <1>1. Inv => TypeOK
    BY DEF Inv
  <1>2. QED
    BY <1>1, InitInv, NextKeeps, PTL DEF Spec

(***************************************************************************)
(* A write reaches the provider at most once, any call at most             *)
(* max_retries + 1 times (call_with_retry).                                *)
(***************************************************************************)
THEOREM RetriesBounded == Spec => []AttemptsBounded
  <1>1. Inv => AttemptsBounded
    BY DEF Inv, Bounded, AttemptsBounded
  <1>2. QED
    BY <1>1, InitInv, NextKeeps, PTL DEF Spec

(***************************************************************************)
(* What a step of a cancelled run may not do: place a call, bill a model   *)
(* call, or let one return.                                                *)
(***************************************************************************)
Quiet ==
    /\ attempts' = attempts
    /\ snap'["model_calls"] = snap["model_calls"]
    /\ \A c \in Fakes \cup Providers : pc'[c] = "returned" => pc[c] = "returned"

LEMMA CancelledStepQuiet ==
  ASSUME TypeOK, cancelled, NEW c \in Calls, Step(c)
  PROVE  Quiet
  <1>1. CASE Complete(c) \/ Retry(c)
    BY <1>1 DEF Quiet, Complete, Retry, Attempt, Raise, TypeOK, Calls
  <1>2. CASE TimesOut(c) \/ ProviderFails(c)
    BY <1>2 DEF Quiet, TimesOut, ProviderFails, Fails, Raise, TypeOK, Calls
  <1>3. CASE \E reply \in Replies, usage \in Usages : Answers(c, reply, usage)
    <2>1. CASE c \in Writes
      <3>1. c \notin Fakes \cup Providers
        BY <2>1, RuntimeAssumption
      <3>2. QED
        BY <1>3, <2>1, <3>1 DEF Quiet, Answers, Return, TypeOK, Calls
    <2>2. CASE c \notin Writes
      BY <1>3, <2>2 DEF Quiet, Answers, Discarded, Raise, TypeOK, Calls
    <2>3. QED
      BY <2>1, <2>2
  <1>4. CASE Tick(c) \/ \E length \in Lengths : Wakes(c, FakeTokens(length))
    BY <1>4 DEF Quiet, Tick, Wakes, Raise, TypeOK, Calls
  <1>5. CASE Interrupted(c)
    BY <1>5 DEF Quiet, Interrupted, Raise, TypeOK, Calls
  <1>6. QED
    BY <1>1, <1>2, <1>3, <1>4, <1>5 DEF Step, Begin, Resume

(***************************************************************************)
(* After the cancellation event is set no call reaches the provider, no    *)
(* model call is billed and none returns (check_cancelled around every     *)
(* await of complete, call_with_retry and _tick).                          *)
(***************************************************************************)
THEOREM CancelledIsFinal == Spec => CancelIsFinal
  <1>1. ASSUME Inv, [Next]_vars, cancelled PROVE Quiet
    <2>1. CASE \E c \in Calls : Step(c)
      BY <1>1, <2>1, CancelledStepQuiet DEF Inv
    <2>2. CASE RecordTool \/ RecordDelegation \/ TimePasses
      BY <1>1, <2>2 DEF RecordTool, RecordDelegation, TimePasses, Advance, Quiet,
                        Inv, TypeOK, Dimensions
    <2>3. CASE Cancel \/ UNCHANGED vars
      BY <2>3 DEF Cancel, vars, Quiet
    <2>4. QED
      BY <1>1, <2>1, <2>2, <2>3 DEF Next, Rest
  <1>2. Inv /\ [Next]_vars => [cancelled => Quiet]_vars
    BY <1>1
  <1>3. QED
    BY <1>2, InitInv, NextKeeps, PTL DEF Spec, CancelIsFinal, Quiet

-----------------------------------------------------------------------------
(***************************************************************************)
(* The ledger only grows, so once a count is beyond its limit it stays so. *)
(***************************************************************************)
Grows == \A d \in Dimensions : snap'[d] >= snap[d]

LEMMA RecordGrows ==
  ASSUME TypeOK, NEW input \in Int, NEW output \in Int, NEW cost \in Int,
         RecordModel(input, output, cost)
  PROVE  Grows
  <1>1. /\ AtLeastZero(input) \in Nat /\ AtLeastZero(output) \in Nat
        /\ AtLeastZero(cost) \in Nat
    BY CountIsNat
  <1>2. QED
    BY <1>1 DEF TypeOK, RecordModel, Dimensions, Grows

LEMMA LedgerGrows ==
  ASSUME TypeOK, [Next]_vars
  PROVE  Grows
  <1>1. CASE UNCHANGED snap
    BY <1>1 DEF TypeOK, Grows
  <1>2. CASE \E c \in Calls : Step(c)
    <2>1. PICK c \in Calls : Step(c)
      BY <1>2
    <2>2. CASE \E reply \in Replies, usage \in Usages : Answers(c, reply, usage)
      <3>1. PICK reply \in Replies, usage \in Usages : Answers(c, reply, usage)
        BY <2>2
      <3>2. UNCHANGED snap \/ RecordModel(usage[1], usage[2], usage[1] + 2 * usage[2])
        BY <3>1 DEF Answers
      <3>3. usage[1] \in Int /\ usage[2] \in Int /\ usage[1] + 2 * usage[2] \in Int
        BY RuntimeAssumption
      <3>4. QED
        BY <1>1, <3>2, <3>3, RecordGrows
    <2>3. CASE \E length \in Lengths : Wakes(c, FakeTokens(length))
      <3>1. PICK length \in Lengths : Wakes(c, FakeTokens(length))
        BY <2>3
      <3>2. FakeTokens(length) \in Nat
        BY FakeTokensNat, RuntimeAssumption
      <3>3. FakeTokens(length) \div 2 + 1 \in Int
        BY <3>2
      <3>4. \/ UNCHANGED snap
            \/ RecordModel(FakeTokens(length), FakeTokens(length) \div 2 + 1, FakeTokens(length))
        BY <3>1 DEF Wakes
      <3>5. QED
        BY <1>1, <3>2, <3>3, <3>4, RecordGrows
    <2>4. CASE Begin(c) \/ Retry(c) \/ TimesOut(c) \/ ProviderFails(c) \/ Interrupted(c)
      BY <1>1, <2>4 DEF Begin, Complete, Tick, Retry, TimesOut, ProviderFails, Fails, Interrupted
    <2>5. QED
      BY <2>1, <2>2, <2>3, <2>4 DEF Step, Resume
  <1>3. CASE RecordTool \/ RecordDelegation \/ TimePasses
    BY <1>3 DEF RecordTool, RecordDelegation, TimePasses, Advance, TypeOK, Grows, Dimensions
  <1>4. CASE Cancel \/ Rest \/ UNCHANGED vars
    BY <1>1, <1>4 DEF Cancel, Rest, vars
  <1>5. QED
    BY <1>2, <1>3, <1>4 DEF Next

(***************************************************************************)
(* A provider call not begun when the ledger is over is refused or never   *)
(* begins.                                                                 *)
(***************************************************************************)
Stopped(c) == Over(snap) /\ attempts[c] = 0 /\ pc[c] \in {"idle", "raised"}

LEMMA StaysStopped ==
  ASSUME NEW c \in Providers, Inv, Stopped(c), [Next]_vars
  PROVE  Stopped(c)'
  <1>1. Over(snap)'
    <2>1. PICK d \in Dimensions : snap[d] > Limit[d]
      BY DEF Stopped, Over
    <2>2. snap'[d] >= snap[d]
      BY LedgerGrows DEF Inv, Grows
    <2>3. snap[d] \in Int /\ snap'[d] \in Int /\ Limit[d] \in Int
      BY NextKeeps, RuntimeAssumption DEF Inv, TypeOK
    <2>4. QED
      BY <2>1, <2>2, <2>3 DEF Over
  <1>2. c \in Calls /\ c \notin Writes /\ c \notin Fakes
    BY RuntimeAssumption DEF Calls
  <1>3. attempts'[c] = 0 /\ pc'[c] \in {"idle", "raised"}
    <2>1. CASE \E e \in Calls : Step(e)
      <3>1. PICK e \in Calls : Step(e)
        BY <2>1
      <3>2. CASE e # c
        <4>1. pc'[c] = pc[c] /\ attempts'[c] = attempts[c]
          <5>1. CASE Complete(e) \/ Retry(e)
            BY <1>2, <3>2, <5>1 DEF Complete, Retry, Attempt, Raise, Inv, TypeOK
          <5>2. CASE Tick(e) \/ Interrupted(e)
            BY <1>2, <3>2, <5>2 DEF Tick, Interrupted, Raise, Inv, TypeOK
          <5>3. CASE TimesOut(e) \/ ProviderFails(e)
            BY <1>2, <3>2, <5>3 DEF TimesOut, ProviderFails, Fails, Raise, Inv, TypeOK
          <5>4. CASE \E length \in Lengths : Wakes(e, FakeTokens(length))
            BY <1>2, <3>2, <5>4 DEF Wakes, Raise, Return, Inv, TypeOK
          <5>5. CASE \E reply \in Replies, usage \in Usages : Answers(e, reply, usage)
            BY <1>2, <3>2, <5>5 DEF Answers, Raise, Return, Inv, TypeOK
          <5>6. QED
            BY <3>1, <5>1, <5>2, <5>3, <5>4, <5>5 DEF Step, Begin, Resume
        <4>2. QED
          BY <4>1 DEF Stopped
      <3>3. CASE e = c
        <4>1. Complete(c)
          BY <1>2, <3>1, <3>3 DEF Step, Begin, Resume, Tick, Retry, TimesOut, ProviderFails,
             Fails, Wakes, Interrupted, Answers, Stopped
        <4>2. pc' = [pc EXCEPT ![c] = "raised"] /\ UNCHANGED attempts
          BY <1>2, <4>1 DEF Complete, Attempt, Raise, Stopped
        <4>3. QED
          BY <1>2, <4>2 DEF Stopped, Inv, TypeOK
      <3>4. QED
        BY <3>2, <3>3
    <2>2. CASE RecordTool \/ RecordDelegation \/ TimePasses \/ Cancel \/ Rest \/ UNCHANGED vars
      BY <2>2 DEF RecordTool, RecordDelegation, TimePasses, Advance, Cancel, Rest, vars, Stopped
    <2>3. QED
      BY <2>1, <2>2 DEF Next
  <1>4. QED
    BY <1>1, <1>3 DEF Stopped

(***************************************************************************)
(* From the moment a count of the ledger is beyond its limit, a provider   *)
(* call that has not begun never reaches the provider, whatever the calls  *)
(* in flight still report (tracker.check at the head of complete).         *)
(***************************************************************************)
THEOREM OverrunIsFinal == Spec => OverrunStopsNewCalls
  <1>1. ASSUME NEW c \in Providers
        PROVE  Spec => [](Over(snap) /\ pc[c] = "idle" => [](attempts[c] = 0))
    <2>1. Inv /\ Over(snap) /\ pc[c] = "idle" => Stopped(c)
      BY DEF Inv, Bounded, Stopped, Calls
    <2>2. Inv /\ Stopped(c) /\ [Next]_vars => Stopped(c)'
      BY StaysStopped
    <2>3. Stopped(c) => attempts[c] = 0
      BY DEF Stopped
    <2>4. QED
      BY <2>1, <2>2, <2>3, InitInv, NextKeeps, PTL DEF Spec
  <1>2. QED
    BY <1>1 DEF OverrunStopsNewCalls
=============================================================================
