----------------------------- MODULE ModelRuntime -----------------------------
(***************************************************************************)
(* The model runtime of one run (apps/orchestrator/runtime.py): calls that *)
(* run as tasks of one event loop and share a BudgetTracker and a          *)
(* cancellation event.  A step is what a task does between two awaits.     *)
(*                                                                         *)
(* Fakes call FakeRuntime, Texts and Objects ProviderRuntime.complete      *)
(* without and with a response_model (summarize; classify, plan,           *)
(* synthesize), Writes call_with_retry with is_write=True.  Which model    *)
(* the router picks and what the texts say is left out.                    *)
(***************************************************************************)
EXTENDS Integers

CONSTANTS
    Fakes, Texts, Objects, Writes,  \* the calls made, by kind
    MaxRetries,                     \* ProviderRuntime.max_retries
    Limit,                          \* BudgetLimits, by dimension
    Seeds,                          \* what Run.budget may say was consumed
    Usages,                         \* <<input, output>> tokens a reply may report
    Lengths,                        \* lengths of the texts given to FakeRuntime
    Horizon                         \* bound: the clock and the other recorders
                                    \* stop this far beyond their limits

Dimensions == {"model_calls", "tool_calls", "input_tokens", "output_tokens",
               "cost_usd", "elapsed_s", "delegation_depth"}
Seeded == {"model_calls", "tool_calls", "cost_usd"}
Providers == Texts \cup Objects
Calls == Fakes \cup Providers \cup Writes

ASSUME RuntimeAssumption ==
    /\ MaxRetries \in Nat /\ Horizon \in Nat
    /\ Limit \in [Dimensions -> Int]
    /\ Seeds \subseteq [Seeded -> Nat]
    /\ Usages \subseteq Int \X Int /\ Lengths \subseteq Nat
    /\ Fakes \cap (Providers \cup Writes) = {}
    /\ Providers \cap Writes = {} /\ Texts \cap Objects = {}

VARIABLES
    snap,       \* BudgetTracker._snap, with the time since _start
    cancelled,  \* the cancellation event is set
    pc,         \* where each call is
    attempts,   \* how often each call has reached the provider
    error       \* the exception a raised call ended with

vars == <<snap, cancelled, pc, attempts, error>>

(***************************************************************************)
(* BudgetTracker.from_budget_dict: the counts of Run.budget are taken      *)
(* over; tokens, time and delegation depth start again at zero.            *)
(***************************************************************************)
Tracker(budget) == [d \in Dimensions |-> IF d \in Seeded THEN budget[d] ELSE 0]

Init ==
    /\ snap \in {Tracker(budget) : budget \in Seeds}
    /\ cancelled = FALSE
    /\ pc = [c \in Calls |-> "idle"]
    /\ attempts = [c \in Calls |-> 0]
    /\ error = [c \in Calls |-> "none"]

(***************************************************************************)
(* BudgetTracker._check: some count is beyond its limit.                   *)
(***************************************************************************)
Over(s) == \E d \in Dimensions : s[d] > Limit[d]

Raise(c, e) == pc' = [pc EXCEPT ![c] = "raised"] /\ error' = [error EXCEPT ![c] = e]

Return(c) == pc' = [pc EXCEPT ![c] = "returned"] /\ UNCHANGED error

AtLeastZero_Raw(n) == n

AtLeastZero(n) == IF n > 0 THEN n ELSE 0

(***************************************************************************)
(* record_model: what is reported is added, then checked.                  *)
(***************************************************************************)
RecordModel(input, output, cost) ==
    snap' = [snap EXCEPT !["model_calls"] = @ + 1,
                         !["input_tokens"] = @ + AtLeastZero(input),
                         !["output_tokens"] = @ + AtLeastZero(output),
                         !["cost_usd"] = @ + AtLeastZero(cost)]

-----------------------------------------------------------------------------
(***************************************************************************)
(* call_with_retry, head of the loop: a cancelled run stops, otherwise the *)
(* next attempt is placed.                                                 *)
(***************************************************************************)
Attempt(c) ==
    IF cancelled
    THEN Raise(c, "cancelled") /\ UNCHANGED attempts
    ELSE /\ pc' = [pc EXCEPT ![c] = "waiting"]
         /\ attempts' = [attempts EXCEPT ![c] = @ + 1]
         /\ UNCHANGED error

(***************************************************************************)
(* complete: check_cancelled, tracker.check, then the first attempt; a     *)
(* write goes straight to call_with_retry.                                 *)
(***************************************************************************)
Complete(c) ==
    /\ c \in Providers \cup Writes /\ pc[c] = "idle"
    /\ IF c \in Providers /\ ~cancelled /\ Over(snap)
       THEN Raise(c, "budget") /\ UNCHANGED attempts
       ELSE Attempt(c)
    /\ UNCHANGED <<snap, cancelled>>

LastAttempt_OffByOne(c) == c \in Writes \/ attempts[c] > MaxRetries + 1

LastAttempt(c) == c \in Writes \/ attempts[c] = MaxRetries + 1

(***************************************************************************)
(* The attempt fails: a retryable failure (_is_retryable: a timeout of     *)
(* run_with_timeout, a rate limit, a lost connection, a server error) of   *)
(* an attempt that is not the last is slept on, any other is raised.       *)
(***************************************************************************)
Fails(c, retryable) ==
    /\ pc[c] = "waiting"
    /\ IF retryable /\ ~LastAttempt(c)
       THEN pc' = [pc EXCEPT ![c] = "backoff"] /\ UNCHANGED error
       ELSE Raise(c, "model")
    /\ UNCHANGED <<snap, cancelled, attempts>>

TimesOut_Unbounded(c) == FALSE

TimesOut(c) == Fails(c, TRUE)

ProviderFails(c) == \E retryable \in BOOLEAN : Fails(c, retryable)

Retry(c) ==
    /\ pc[c] = "backoff"
    /\ Attempt(c)
    /\ UNCHANGED <<snap, cancelled>>

(***************************************************************************)
(* The provider answers.  complete looks at the cancellation again; an     *)
(* unexpected payload is refused unbilled; the usage is recorded, which    *)
(* may exceed the budget; text that is no JSON or does not validate is     *)
(* refused after that.  The cost is in microdollars.                       *)
(***************************************************************************)
Replies == {"good", "bad_payload", "bad_text"}

Discarded_Never == FALSE

Discarded == cancelled

Answers(c, reply, usage) ==
    /\ pc[c] = "waiting"
    /\ IF c \in Writes THEN Return(c) /\ UNCHANGED snap
       ELSE IF Discarded THEN Raise(c, "cancelled") /\ UNCHANGED snap
       ELSE IF reply = "bad_payload" THEN Raise(c, "validation") /\ UNCHANGED snap
       ELSE /\ RecordModel(usage[1], usage[2], usage[1] + 2 * usage[2])
            /\ IF Over(snap') THEN Raise(c, "budget")
               ELSE IF c \in Objects /\ reply = "bad_text" THEN Raise(c, "validation")
               ELSE Return(c)
    /\ UNCHANGED <<cancelled, attempts>>

-----------------------------------------------------------------------------
(***************************************************************************)
(* FakeRuntime._tick: the cancellation is looked at before and after the   *)
(* latency, the metering follows in the same step.                         *)
(***************************************************************************)
Tick(c) ==
    /\ c \in Fakes /\ pc[c] = "idle"
    /\ IF cancelled THEN Raise(c, "cancelled")
       ELSE pc' = [pc EXCEPT ![c] = "sleeping"] /\ UNCHANGED error
    /\ UNCHANGED <<snap, cancelled, attempts>>

FakeTokens(length) == IF length < 4 THEN 1 ELSE length \div 4

Wakes(c, tokens) ==
    /\ pc[c] = "sleeping"
    /\ IF cancelled THEN Raise(c, "cancelled") /\ UNCHANGED snap
       ELSE /\ RecordModel(tokens, tokens \div 2 + 1, tokens)
            /\ IF Over(snap') THEN Raise(c, "budget") ELSE Return(c)
    /\ UNCHANGED <<cancelled, attempts>>

(***************************************************************************)
(* The task that awaits is itself cancelled: no handler takes a            *)
(* CancelledError.                                                         *)
(***************************************************************************)
Interrupted(c) ==
    /\ pc[c] \in {"waiting", "backoff", "sleeping"}
    /\ Raise(c, "cancelled")
    /\ UNCHANGED <<snap, cancelled, attempts>>

-----------------------------------------------------------------------------
(***************************************************************************)
(* record_tool and record_delegation, called inline; the clock; the        *)
(* cancellation.                                                           *)
(***************************************************************************)
Advance(d) ==
    /\ snap[d] < Limit[d] + Horizon
    /\ snap' = [snap EXCEPT ![d] = @ + 1]
    /\ UNCHANGED <<cancelled, pc, attempts, error>>

RecordTool == Advance("tool_calls")

RecordDelegation == Advance("delegation_depth")

TimePasses == Advance("elapsed_s")

Cancel ==
    /\ ~cancelled
    /\ cancelled' = TRUE
    /\ UNCHANGED <<snap, pc, attempts, error>>

Resume(c) ==
    \/ Retry(c) \/ TimesOut(c)
    \/ \E length \in Lengths : Wakes(c, FakeTokens(length))

Begin(c) == Complete(c) \/ Tick(c)

Step(c) ==
    \/ Begin(c) \/ Resume(c) \/ ProviderFails(c) \/ Interrupted(c)
    \/ \E reply \in Replies, usage \in Usages : Answers(c, reply, usage)

Rest == (\A c \in Calls : pc[c] \in {"returned", "raised"}) /\ UNCHANGED vars

Next ==
    \/ \E c \in Calls : Step(c)
    \/ RecordTool \/ RecordDelegation \/ TimePasses \/ Cancel \/ Rest

Spec == Init /\ [][Next]_vars

(***************************************************************************)
(* The event loop wakes a task whose timer has run out (wait_for, sleep);  *)
(* nothing obliges the provider to answer or a caller to call.             *)
(***************************************************************************)
FairSpec == Spec /\ \A c \in Calls : WF_vars(Resume(c))

-----------------------------------------------------------------------------
(***************************************************************************)
(* TypeOK: no count of the ledger is ever negative, whatever usage a       *)
(* provider reports, and every call is at a place of its code.             *)
(***************************************************************************)
TypeOK ==
    /\ snap \in [Dimensions -> Nat]
    /\ cancelled \in BOOLEAN
    /\ pc \in [Calls -> {"idle", "waiting", "backoff", "sleeping", "returned", "raised"}]
    /\ attempts \in [Calls -> Nat]
    /\ error \in [Calls -> {"none", "cancelled", "budget", "model", "validation"}]

(***************************************************************************)
(* AttemptsBounded: "writes are NEVER retried" and "bounded retry for      *)
(* model calls" (runtime.py): a write reaches the provider at most once,   *)
(* any call at most MaxRetries + 1 times, and one that sleeps before a     *)
(* retry has an attempt left (call_with_retry).                            *)
(***************************************************************************)
AttemptsBounded ==
    \A c \in Calls :
        /\ attempts[c] <= MaxRetries + 1
        /\ c \in Writes => attempts[c] <= 1
        /\ pc[c] = "backoff" => attempts[c] <= MaxRetries /\ c \notin Writes

(***************************************************************************)
(* OverrunStopsNewCalls: from the moment a count of the ledger is beyond   *)
(* its limit, a provider call that has not begun never reaches the         *)
(* provider, whatever the calls in flight still report (BudgetTracker and  *)
(* complete).                                                              *)
(***************************************************************************)
OverrunStopsNewCalls ==
    \A c \in Providers : [](Over(snap) /\ pc[c] = "idle" => [](attempts[c] = 0))

(***************************************************************************)
(* CancelIsFinal: once the cancellation event is set, no call reaches the  *)
(* provider again and no model call in flight, even one whose answer is    *)
(* on its way, is billed or returns (check_cancelled before and after      *)
(* every await of complete, call_with_retry and _tick).                    *)
(***************************************************************************)
CancelIsFinal ==
    [][cancelled => /\ attempts' = attempts
                    /\ snap'["model_calls"] = snap["model_calls"]
                    /\ \A c \in Fakes \cup Providers :
                           pc'[c] = "returned" => pc[c] = "returned"]_vars

(***************************************************************************)
(* CallsEnd: a call that has begun ends, even if the provider never        *)
(* answers (run_with_timeout and the bounded retry).                       *)
(***************************************************************************)
CallsEnd ==
    \A c \in Calls : pc[c] \in {"waiting", "backoff", "sleeping"} ~> pc[c] \in {"returned", "raised"}
=============================================================================
