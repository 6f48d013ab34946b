-------------------------- MODULE OrchestratorGraph --------------------------
(***************************************************************************)
(* The bounded investigation graph (apps/orchestrator/graph.py): one run,  *)
(* driven by OrchestratorGraph.run in a worker thread, paused for a human  *)
(* and resumed by resume_after_approval, while another thread may cancel   *)
(* it and the wall clock may pass its deadline.                            *)
(*                                                                         *)
(* Looking at the cancellation flag is a step of the thread, and what it   *)
(* does on the strength of that look (a handler _do_*, one attempt of a    *)
(* read, the delegation, one approved action) is another: a cancel may     *)
(* come in between.  The answers of the model, the tools, the specialist   *)
(* and the policy are chosen freely.                                       *)
(*                                                                         *)
(* The graph writes its state and its events to a store it never reads.    *)
(* What reaches the database, and the gateway's own way to resume a run,   *)
(* are in Gateway.                                                         *)
(*                                                                         *)
(* A definition whose name has a suffix after an underscore and a capital  *)
(* (Retriable_OneMore) is a slip one could make in the definition after    *)
(* it; the specification does not use it.  PROJECT.json pairs it with the  *)
(* property that catches it.                                               *)
(***************************************************************************)
EXTENDS Integers, Sequences, FiniteSets, Functions

CONSTANTS
    MaxModelCalls, MaxToolCalls, MaxDelegations, MaxDelegationDepth,
    MaxCost,             \* max_cost_usd, in cents
    MaxReadRetries,      \* MAX_READ_RETRIES
    Threshold,           \* CIRCUIT_BREAKER_THRESHOLD
    SpecialistOutputs    \* the lists of findings the A2A specialist may return

ModelCost == 5
ToolCost == 1
DelegationCost == 10

(***************************************************************************)
(* Confidences are percentages.                                            *)
(***************************************************************************)
LowConfidence == 50
ConflictCap == 60
SynthesisConfidence_AtThreshold == 50
SynthesisConfidence == 45

(***************************************************************************)
(* A finding that passed _valid_a2a_output: its confidence, whether its    *)
(* title speaks of a deployment, and whether its title, summary or         *)
(* references turn out to be blank once stripped.                          *)
(***************************************************************************)
Finding == [conf : 0..100, deploy : BOOLEAN, blank : BOOLEAN]

ASSUME LimitsAssumption ==
    /\ MaxModelCalls \in Nat /\ MaxToolCalls \in Nat
    /\ MaxDelegations \in Nat /\ MaxDelegationDepth \in Nat /\ MaxCost \in Nat
    /\ MaxReadRetries \in Nat /\ Threshold \in Nat \ {0}

ASSUME OutputsAssumption == SpecialistOutputs \subseteq Seq(Finding)

ReadTools == <<"telemetry.query_metrics", "telemetry.query_logs",
               "service.get_health", "deployment.get_current_release">>
NumReads == 4
ReadNames == {ReadTools[i] : i \in 1..NumReads}
Actions == {"ticket.create", "deployment.rollback"}

WorkflowStates == {"classify", "plan", "resources", "mcp_reads", "a2a_delegate",
                   "correlate", "findings", "propose", "policy", "approval_pause",
                   "execute_approved", "verify", "complete"}
Terminal == {"completed", "failed", "cancelled"}
Statuses == {"created", "running", "waiting_for_approval"} \cup Terminal
Outcomes == {"none", "clarify", "more_info", "denied", "rejected"} \cup Terminal
TerminalEvents == {"run.completed", "run.failed", "run.cancelled"}
Errors == {"none", "BUDGET_EXCEEDED", "INTERNAL_ERROR"}
Decisions == {"approved", "rejected", "expired"}

VARIABLES
    pc,             \* where the thread is: see Places
    cursor,         \* index of the read or of the action being handled
    attempt,        \* retry counter of _mcp_read
    status,         \* state.status as the graph last wrote it
    current_state, outcome, error,
    cancelled,      \* state.cancelled, set by other threads
    marked,         \* cancel_run has overwritten state.status since
    overdue,        \* the clock has passed max_duration_seconds
    usage,          \* state.usage: billed model calls, tool calls, delegations
    calls,          \* calls really placed with a client (for the properties)
    late,           \* those placed after a cancel (for the properties)
    failures,       \* CircuitBreaker.failures; a key is open at Threshold
    evidence,       \* read tools with an entry in state.mcp_evidence
    health,         \* the status service.get_health reported
    a2a_fallback,
    raw,            \* a2a_result["output"]["findings"]
    conflict, findings,
    proposed,       \* state.proposed_actions
    allowed,        \* actions policy_decisions allows
    approvals,      \* decision of each row of state.approvals
    invoked,        \* how often each action was sent to its tool
    log             \* the events the graph appends to the store

threadVars == <<pc, cursor, attempt>>
lifeVars == <<status, marked, current_state, outcome, error>>
inputVars == <<cancelled, overdue>>
billVars == <<usage, calls, late>>
evidenceVars == <<evidence, health, failures>>
specialistVars == <<a2a_fallback, raw, conflict, findings>>
gateVars == <<proposed, allowed, approvals, invoked>>
vars == <<threadVars, lifeVars, inputVars, billVars, evidenceVars,
          specialistVars, gateVars, log>>

(***************************************************************************)
(* Outside run(); at the top of its loop; in a handler; about to begin a   *)
(* read; at the check before an attempt, and past it; past the check       *)
(* before the delegation; at the check before an action, and past it.      *)
(***************************************************************************)
PastCheck == {"handler", "reading", "delegating", "writing"}
Places == {"idle", "loop", "read", "attempt", "action"} \cup PastCheck

Kinds == {"model", "tool", "delegation"}

EventNames == TerminalEvents \cup
              {"run.started", "message.delta", "tool.started", "tool.completed",
               "agent.delegated", "finding.created", "approval.required", "approval.received"}
Subjects == Outcomes \cup Errors \cup Decisions \cup Actions \cup ReadNames \cup {"resource.read"}
EventRecord == [type : EventNames, of : Subjects]
Event(type, of) == [type |-> type, of |-> of]
Approvals == [Actions -> {"none", "pending"} \cup Decisions]

Init ==
    /\ pc = "idle" /\ cursor = 0 /\ attempt = 0
    /\ status = "created" /\ current_state = "classify"
    /\ outcome = "none" /\ error = "none"
    /\ cancelled = FALSE /\ marked = FALSE /\ overdue = FALSE
    /\ usage = [k \in Kinds |-> 0] /\ calls = [k \in Kinds |-> 0] /\ late = 0
    /\ failures = [d \in {"mcp", "a2a"} |-> 0]
    /\ evidence = {} /\ health = "unknown"
    /\ a2a_fallback = FALSE /\ raw = <<>> /\ conflict = FALSE /\ findings = <<>>
    /\ proposed = <<>> /\ allowed = {}
    /\ approvals = [a \in Actions |-> "none"]
    /\ invoked = [a \in Actions |-> 0]
    /\ log = <<>>

-----------------------------------------------------------------------------
(***************************************************************************)
(* Events.                                                                 *)
(***************************************************************************)
Emit(events) == log' = log \o events

(***************************************************************************)
(* The graph assigns state.status, over whatever cancel_run put there.     *)
(***************************************************************************)
SetStatus(s) == status' = s /\ marked' = FALSE

(***************************************************************************)
(* _transition: the new state and its event; the loop goes on.             *)
(***************************************************************************)
Transition(next, events) ==
    /\ current_state' = next
    /\ pc' = "loop"
    /\ Emit(events)
    /\ UNCHANGED <<status, marked, outcome, error>>

(***************************************************************************)
(* run() returns with the run completed.                                   *)
(***************************************************************************)
CompleteAs(out, events) ==
    /\ SetStatus("completed")
    /\ outcome' = out
    /\ current_state' = "complete"
    /\ pc' = "idle"
    /\ Emit(Append(events, Event("run.completed", out)))
    /\ UNCHANGED error

(***************************************************************************)
(* The except clauses of run(): cancelled, or failed with an error.        *)
(***************************************************************************)
StopAs(how, err, events) ==
    /\ SetStatus(how)
    /\ outcome' = how
    /\ error' = err
    /\ pc' = "idle"
    /\ Emit(Append(events, Event(IF how = "cancelled" THEN "run.cancelled" ELSE "run.failed", err)))
    /\ UNCHANGED current_state

(***************************************************************************)
(* The last except clause: an exception of a client, or of the graph's own *)
(* code, that no handler catches.                                          *)
(***************************************************************************)
Raises(events) == StopAs("failed", "INTERNAL_ERROR", events)

-----------------------------------------------------------------------------
(***************************************************************************)
(* Budgets.  The cost is what the billed calls cost.                       *)
(***************************************************************************)
Cost(u) == ModelCost * u["model"] + ToolCost * u["tool"]
           + DelegationCost * u["delegation"]

OverLimit_OffByOne(u) == \/ u["model"] > MaxModelCalls
                         \/ u["tool"] > MaxToolCalls + 1
                         \/ u["delegation"] > MaxDelegations
                         \/ u["delegation"] > MaxDelegationDepth
                         \/ Cost(u) > MaxCost

OverLimit(u) == \/ u["model"] > MaxModelCalls
                \/ u["tool"] > MaxToolCalls
                \/ u["delegation"] > MaxDelegations
                \/ u["delegation"] > MaxDelegationDepth
                \/ Cost(u) > MaxCost

Charge(u, kind) == [u EXCEPT ![kind] = @ + 1]

(***************************************************************************)
(* _spend_* then the call: bill, check the budgets, place the call.        *)
(***************************************************************************)
Spend(kind) ==
    /\ usage' = Charge(usage, kind)
    /\ ~OverLimit(usage') /\ ~overdue
    /\ calls' = Charge(calls, kind)
    /\ late' = IF cancelled THEN late + 1 ELSE late

(***************************************************************************)
(* The top of the loop of run(): _check_cancel and _check_budgets pass.    *)
(***************************************************************************)
PassChecks ==
    /\ pc = "loop"
    /\ ~cancelled
    /\ ~OverLimit(usage) /\ ~overdue
    /\ pc' = "handler"
    /\ UNCHANGED <<cursor, attempt, lifeVars, inputVars, billVars, evidenceVars, specialistVars,
                   gateVars, log>>

(***************************************************************************)
(* The loop calls the handler of state s.                                  *)
(***************************************************************************)
Dispatch(s) == pc = "handler" /\ current_state = s

(***************************************************************************)
(* What the thread, past its check, is about to bill.                      *)
(***************************************************************************)
Billing == CASE pc = "handler" /\ current_state \in {"classify", "plan"} -> {"model"}
             [] pc = "delegating" -> {"delegation"}
             [] pc \in {"reading", "writing"} -> {"tool"}
             [] OTHER -> {}

(***************************************************************************)
(* _check_cancel raises: at the top of the loop, before an attempt of a    *)
(* read, in _delegate, and before an action, when one is left.             *)
(***************************************************************************)
Cancelled ==
    /\ \/ pc \in {"loop", "attempt"}
       \/ Dispatch("a2a_delegate")
       \/ pc = "action" /\ cursor <= Len(proposed)
    /\ cancelled
    /\ UNCHANGED <<cursor, attempt, inputVars, billVars, evidenceVars, specialistVars, gateVars>>
    /\ StopAs("cancelled", "none", <<>>)

(***************************************************************************)
(* _check_budgets raises at the top of the loop.                           *)
(***************************************************************************)
OutOfBudget ==
    /\ pc = "loop"
    /\ ~cancelled
    /\ OverLimit(usage) \/ overdue
    /\ UNCHANGED <<cursor, attempt, inputVars, billVars, evidenceVars, specialistVars, gateVars>>
    /\ StopAs("failed", "BUDGET_EXCEEDED", <<>>)

(***************************************************************************)
(* _check_budgets raises inside _spend_*: the step is billed, the call is  *)
(* not placed.                                                             *)
(***************************************************************************)
CallRefused ==
    /\ \E kind \in Billing : usage' = Charge(usage, kind)
    /\ OverLimit(usage') \/ overdue
    /\ UNCHANGED <<cursor, attempt, inputVars, calls, late, evidenceVars, specialistVars, gateVars>>
    /\ StopAs("failed", "BUDGET_EXCEEDED", <<>>)

-----------------------------------------------------------------------------
(***************************************************************************)
(* The first call of run(): status running and run.started; a run that     *)
(* cancel_run has already marked goes straight to the loop.                *)
(***************************************************************************)
Start ==
    /\ pc = "idle"
    /\ status = "created"
    /\ pc' = "loop"
    /\ IF marked
       THEN UNCHANGED <<lifeVars, log>>
       ELSE /\ SetStatus("running")
            /\ current_state' = "classify"
            /\ Emit(<<Event("run.started", "none")>>)
            /\ UNCHANGED <<outcome, error>>
    /\ UNCHANGED <<cursor, attempt, inputVars, billVars, evidenceVars, specialistVars, gateVars>>

Classify ==
    /\ Dispatch("classify")
    /\ Spend("model")
    /\ UNCHANGED <<cursor, attempt, inputVars, evidenceVars, specialistVars, gateVars>>
    /\ \/ Transition("plan", <<Event("message.delta", "none")>>)
       \/ CompleteAs("clarify", <<Event("message.delta", "none"), Event("message.delta", "none")>>)
       \/ Raises(<<>>)

Plan ==
    /\ Dispatch("plan")
    /\ Spend("model")
    /\ UNCHANGED <<cursor, attempt, inputVars, evidenceVars, specialistVars, gateVars>>
    /\ \/ Transition("resources", <<Event("message.delta", "none")>>)
       \/ Raises(<<>>)

Resources ==
    /\ Dispatch("resources")
    /\ UNCHANGED <<cursor, attempt, inputVars, billVars, evidenceVars, specialistVars, gateVars>>
    /\ Transition("mcp_reads", <<Event("tool.started", "resource.read")>>)

-----------------------------------------------------------------------------
(***************************************************************************)
(* _mcp_read, from _do_mcp_reads (four tools in turn) and from _do_verify. *)
(***************************************************************************)
CurrentRead == IF current_state = "verify" THEN "service.get_health" ELSE ReadTools[cursor]

Open(dependency) == failures[dependency] >= Threshold

EnterReads ==
    /\ Dispatch("mcp_reads") \/ Dispatch("verify")
    /\ pc' = "read"
    /\ cursor' = 1
    /\ UNCHANGED <<attempt, lifeVars, inputVars, billVars, evidenceVars, specialistVars,
                   gateVars, log>>

(***************************************************************************)
(* breaker.guard("mcp") lets the read begin, or its CircuitOpenError       *)
(* reaches the last except clause of run().                                *)
(***************************************************************************)
BeginRead ==
    /\ pc = "read"
    /\ ~Open("mcp")
    /\ pc' = "attempt"
    /\ attempt' = 0
    /\ Emit(<<Event("tool.started", CurrentRead)>>)
    /\ UNCHANGED <<cursor, lifeVars, inputVars, billVars, evidenceVars, specialistVars,
                   gateVars>>

CircuitOpen_Waits ==
    /\ pc = "read"
    /\ Open("mcp")
    /\ UNCHANGED vars

CircuitOpen ==
    /\ pc = "read"
    /\ Open("mcp")
    /\ UNCHANGED <<cursor, attempt, inputVars, billVars, evidenceVars, specialistVars, gateVars>>
    /\ Raises(<<>>)

(***************************************************************************)
(* One read is over: the next one, or the handler's transition.            *)
(***************************************************************************)
EndRead ==
    LET done == Event("tool.completed", CurrentRead) IN
    IF current_state = "verify"
    THEN /\ Transition("complete", <<done, Event("message.delta", "none")>>)
         /\ UNCHANGED cursor
    ELSE IF cursor < NumReads
    THEN /\ pc' = "read"
         /\ cursor' = cursor + 1
         /\ Emit(<<done>>)
         /\ UNCHANGED lifeVars
    ELSE /\ Transition("a2a_delegate", <<done, Event("tool.completed", "none")>>)
         /\ UNCHANGED cursor

Attempting_Uncancellable == pc = "attempt"

Attempting == pc = "attempt" /\ ~cancelled

(***************************************************************************)
(* _check_cancel before an attempt passes.                                 *)
(***************************************************************************)
BeginAttempt ==
    /\ Attempting
    /\ pc' = "reading"
    /\ UNCHANGED <<cursor, attempt, lifeVars, inputVars, billVars, evidenceVars, specialistVars,
                   gateVars, log>>

(***************************************************************************)
(* The answers of the tool: a result (which adds evidence only during      *)
(* mcp_reads), a timeout or lost connection with retries left, or a        *)
(* failure for good: retries used up, or a malformed result.               *)
(***************************************************************************)
ReadSucceeds ==
    /\ pc = "reading"
    /\ Spend("tool")
    /\ failures' = [failures EXCEPT !["mcp"] = 0]
    /\ IF current_state = "verify"
       THEN UNCHANGED <<evidence, health>>
       ELSE /\ evidence' = evidence \cup {CurrentRead}
            /\ IF CurrentRead = "service.get_health"
               THEN health' \in {"healthy", "unhealthy"}
               ELSE UNCHANGED health
    /\ UNCHANGED <<attempt, inputVars, specialistVars, gateVars>>
    /\ EndRead

Retriable_OneMore == attempt <= MaxReadRetries

Retriable == attempt < MaxReadRetries

ReadTimesOut ==
    /\ pc = "reading"
    /\ Spend("tool")
    /\ Retriable
    /\ attempt' = attempt + 1
    /\ pc' = "attempt"
    /\ UNCHANGED <<cursor, lifeVars, inputVars, evidenceVars, specialistVars, gateVars, log>>

ReadFails ==
    /\ pc = "reading"
    /\ Spend("tool")
    /\ failures' = [failures EXCEPT !["mcp"] = @ + 1]
    /\ UNCHANGED <<evidence, health>>
    /\ UNCHANGED <<attempt, inputVars, specialistVars, gateVars>>
    /\ EndRead

-----------------------------------------------------------------------------
(***************************************************************************)
(* _do_delegate and _delegate.  breaker.guard("a2a") never raises: a graph *)
(* object serves one run() and delegates once.  The specialist returns     *)
(* valid findings, or anything else (timeout, error, a status other than   *)
(* completed, an invalid output) sets the fallback flag; a result that is  *)
(* not completed and whose error is null then ends the run, since its      *)
(* message is looked up in it.                                             *)
(***************************************************************************)
BeginDelegation ==
    /\ Dispatch("a2a_delegate")
    /\ ~cancelled
    /\ pc' = "delegating"
    /\ UNCHANGED <<cursor, attempt, lifeVars, inputVars, billVars, evidenceVars, specialistVars,
                   gateVars, log>>

Delegate ==
    LET delegated == Event("agent.delegated", "none") IN
    /\ pc = "delegating"
    /\ Spend("delegation")
    /\ \/ /\ raw' \in SpecialistOutputs
          /\ failures' = [failures EXCEPT !["a2a"] = 0]
          /\ UNCHANGED a2a_fallback
          /\ Transition("correlate", <<delegated, Event("message.delta", "none")>>)
       \/ /\ a2a_fallback' = TRUE
          /\ failures' = [failures EXCEPT !["a2a"] = @ + 1]
          /\ UNCHANGED raw
          /\ \/ Transition("correlate", <<delegated, Event("message.delta", "none")>>)
             \/ Raises(<<delegated>>)
    /\ UNCHANGED <<cursor, attempt, inputVars, evidence, health, conflict, findings, gateVars>>

(***************************************************************************)
(* _avg_conf(findings) > 0.6, without the division.                        *)
(***************************************************************************)
Confident(fs) ==
    SumFunction([i \in DOMAIN fs |-> fs[i].conf]) > ConflictCap * Len(fs)

Capped_Not(f) == f

Capped(f) == [f EXCEPT !.conf = IF @ > ConflictCap THEN ConflictCap ELSE @]

(***************************************************************************)
(* The specialist reports an anomaly the primary health check denies: both *)
(* are kept, the findings of a2a_result are capped in place.               *)
(***************************************************************************)
Correlate ==
    LET contradicts == health = "healthy" /\ raw # <<>> /\ Confident(raw) IN
    /\ Dispatch("correlate")
    /\ conflict' = contradicts
    /\ raw' = IF contradicts THEN [i \in DOMAIN raw |-> Capped(raw[i])] ELSE raw
    /\ UNCHANGED <<cursor, attempt, inputVars, billVars, evidenceVars, a2a_fallback, findings,
                   gateVars>>
    /\ Transition("findings", <<Event("message.delta", "none")>>)

-----------------------------------------------------------------------------
(***************************************************************************)
(* _do_findings: the findings of the specialist that are not blank, each   *)
(* under its index in the specialist's list, or one degraded finding       *)
(* synthesised from the evidence.                                          *)
(***************************************************************************)
Synthesised == <<[conf |-> SynthesisConfidence, deploy |-> FALSE, blank |-> FALSE]>>

Source == IF raw = <<>> /\ evidence # {} THEN Synthesised ELSE raw

Usable == {i \in DOMAIN Source : ~Source[i].blank}

Findings ==
    LET created == [n \in 1..Cardinality(Usable) |-> Event("finding.created", "none")] IN
    /\ Dispatch("findings")
    /\ findings' = [i \in Usable |-> Source[i]]
    /\ UNCHANGED <<cursor, attempt, inputVars, billVars, evidenceVars, a2a_fallback, raw,
                   conflict, gateVars>>
    /\ IF \E i \in Usable : Source[i].conf >= LowConfidence
       THEN Transition("propose", created)
       ELSE CompleteAs("more_info", Append(created, Event("message.delta", "none")))

(***************************************************************************)
(* _do_propose: always a ticket; a dry-run rollback when a finding speaks  *)
(* of a deployment.                                                        *)
(***************************************************************************)
Propose ==
    /\ Dispatch("propose")
    /\ proposed' = IF \E i \in DOMAIN findings : findings[i].deploy
                   THEN <<"ticket.create", "deployment.rollback">>
                   ELSE <<"ticket.create">>
    /\ UNCHANGED <<cursor, attempt, inputVars, billVars, evidenceVars, specialistVars,
                   allowed, approvals, invoked>>
    /\ Transition("policy", <<Event("message.delta", "none")>>)

Proposed == {proposed[i] : i \in DOMAIN proposed}

(***************************************************************************)
(* The policy client decides action by action; one denial ends the run.    *)
(***************************************************************************)
Cleared_InPart(ok) == Proposed \cap ok # {}

Cleared(ok) == Proposed \subseteq ok

Policy ==
    /\ Dispatch("policy")
    /\ UNCHANGED <<cursor, attempt, inputVars, billVars, evidenceVars, specialistVars,
                   proposed, approvals, invoked>>
    /\ \/ /\ allowed' \in SUBSET Proposed
          /\ IF Cleared(allowed')
             THEN Transition("approval_pause", <<>>)
             ELSE CompleteAs("denied", <<Event("message.delta", "none")>>)
       \/ /\ UNCHANGED allowed
          /\ Raises(<<>>)

(***************************************************************************)
(* _do_approval_pause: one pending approval per action; run() returns.     *)
(***************************************************************************)
ApprovalPause ==
    /\ Dispatch("approval_pause")
    /\ SetStatus("waiting_for_approval")
    /\ approvals' = [a \in Actions |-> IF a \in Proposed THEN "pending" ELSE approvals[a]]
    /\ pc' = "idle"
    /\ Emit(<<Event("approval.required", "none")>>)
    /\ UNCHANGED <<current_state, outcome, error>>
    /\ UNCHANGED <<cursor, attempt, inputVars, billVars, evidenceVars, specialistVars,
                   proposed, allowed, invoked>>

-----------------------------------------------------------------------------
(***************************************************************************)
(* resume_after_approval, called on a fresh graph object: its circuit      *)
(* breaker starts closed.                                                  *)
(***************************************************************************)
Awaiting_AnyStatus == pc = "idle" /\ current_state = "approval_pause"

Awaiting == /\ pc = "idle"
            /\ current_state = "approval_pause"
            /\ status = "waiting_for_approval" /\ ~marked

Decided(d) == [a \in Actions |-> IF approvals[a] = "none" THEN "none" ELSE d]

ResumeApproved ==
    /\ Awaiting
    /\ approvals' = Decided("approved")
    /\ Emit(<<Event("approval.received", "approved")>>)
    /\ current_state' = "execute_approved"
    /\ pc' = "loop"
    /\ failures' = [d \in {"mcp", "a2a"} |-> 0]
    /\ UNCHANGED <<cursor, attempt, status, marked, outcome, error, inputVars, billVars,
                   evidence, health, specialistVars, proposed, allowed, invoked>>

ResumeRefused ==
    /\ Awaiting
    /\ UNCHANGED <<cursor, attempt, inputVars, billVars, evidenceVars, specialistVars,
                   proposed, allowed, invoked>>
    /\ \E d \in Decisions \ {"approved"} :
         /\ approvals' = Decided(d)
         /\ CompleteAs("rejected", <<Event("approval.received", d)>>)

-----------------------------------------------------------------------------
(***************************************************************************)
(* _do_execute: every approved action in turn (the others are skipped),    *)
(* billed and sent to its tool once, whatever the tool answers.            *)
(***************************************************************************)
IsApproved(i) == approvals[proposed[i]] = "approved"

NextApproved(i) ==
    CHOOSE j \in i..(Len(proposed) + 1) :
        /\ j <= Len(proposed) => IsApproved(j)
        /\ \A k \in i..(j - 1) : ~IsApproved(k)

EnterExecute ==
    /\ Dispatch("execute_approved")
    /\ \E i \in DOMAIN proposed : IsApproved(i)
    /\ pc' = "action"
    /\ cursor' = NextApproved(1)
    /\ UNCHANGED <<attempt, lifeVars, inputVars, billVars, evidenceVars, specialistVars,
                   gateVars, log>>

AfterWrite_Retrying(ok) == IF ok THEN NextApproved(cursor + 1) ELSE cursor

AfterWrite_GivingUp(ok) == IF ok THEN NextApproved(cursor + 1) ELSE Len(proposed) + 1

AfterWrite(ok) == NextApproved(cursor + 1)

BeginAction ==
    /\ pc = "action"
    /\ cursor <= Len(proposed)
    /\ ~cancelled
    /\ pc' = "writing"
    /\ UNCHANGED <<cursor, attempt, lifeVars, inputVars, billVars, evidenceVars, specialistVars,
                   gateVars, log>>

ExecuteAction ==
    /\ pc = "writing"
    /\ pc' = "action"
    /\ Spend("tool")
    /\ invoked' = [invoked EXCEPT ![proposed[cursor]] = @ + 1]
    /\ \E ok \in BOOLEAN :
         /\ Emit(<<Event("tool.started", proposed[cursor]),
                   Event("tool.completed", proposed[cursor])>>)
         /\ cursor' = AfterWrite(ok)
    /\ UNCHANGED <<attempt, lifeVars, inputVars, evidenceVars, specialistVars, proposed,
                   allowed, approvals>>

EndExecute ==
    /\ pc = "action"
    /\ cursor > Len(proposed)
    /\ SetStatus("running")
    /\ current_state' = "verify"
    /\ pc' = "loop"
    /\ UNCHANGED <<outcome, error, log>>
    /\ UNCHANGED <<cursor, attempt, inputVars, billVars, evidenceVars, specialistVars, gateVars>>

Complete ==
    /\ Dispatch("complete")
    /\ UNCHANGED <<cursor, attempt, inputVars, billVars, evidenceVars, specialistVars, gateVars>>
    /\ CompleteAs(IF outcome = "none" THEN "completed" ELSE outcome, <<>>)

-----------------------------------------------------------------------------
(***************************************************************************)
(* Other threads: cancel_run sets the flag and then the status of the      *)
(* state the graph works on, at any time, even after the run has ended     *)
(* (what it writes to the database is in Gateway); and the clock.          *)
(***************************************************************************)
RequestCancel ==
    /\ ~cancelled
    /\ cancelled' = TRUE
    /\ UNCHANGED <<threadVars, lifeVars, overdue, billVars, evidenceVars, specialistVars,
                   gateVars, log>>

MarkCancelled ==
    /\ cancelled /\ ~marked
    /\ marked' = TRUE
    /\ UNCHANGED <<threadVars, status, current_state, outcome, error, inputVars, billVars,
                   evidenceVars, specialistVars, gateVars, log>>

DeadlinePasses ==
    /\ ~overdue
    /\ overdue' = TRUE
    /\ UNCHANGED <<threadVars, lifeVars, cancelled, billVars, evidenceVars, specialistVars,
                   gateVars, log>>

(***************************************************************************)
(* One step of the thread inside run().                                    *)
(***************************************************************************)
GraphStep == \/ PassChecks \/ Cancelled \/ OutOfBudget \/ CallRefused
             \/ Classify \/ Plan \/ Resources
             \/ EnterReads \/ BeginRead \/ CircuitOpen \/ BeginAttempt
             \/ ReadSucceeds \/ ReadTimesOut \/ ReadFails
             \/ BeginDelegation \/ Delegate \/ Correlate \/ Findings
             \/ Propose \/ Policy \/ ApprovalPause
             \/ EnterExecute \/ BeginAction \/ ExecuteAction \/ EndExecute \/ Complete

(***************************************************************************)
(* Nothing is left to do for a run that has ended, or that was cancelled   *)
(* while it waited: resume_after_approval raises.                          *)
(***************************************************************************)
Ended == /\ pc = "idle"
         /\ status \in Terminal \/ (status = "waiting_for_approval" /\ marked)
         /\ UNCHANGED vars

Next == \/ Start \/ GraphStep \/ ResumeApproved \/ ResumeRefused
        \/ RequestCancel \/ MarkCancelled \/ DeadlinePasses \/ Ended

Spec == Init /\ [][Next]_vars

(***************************************************************************)
(* The worker thread keeps running; nothing obliges the human to decide,   *)
(* a client to cancel or the clock to reach the deadline.                  *)
(***************************************************************************)
FairSpec == Spec /\ WF_vars(GraphStep)

-----------------------------------------------------------------------------
TypeOK ==
    /\ pc \in Places
    /\ cursor \in Nat /\ attempt \in 0..MaxReadRetries
    /\ pc \in {"read", "attempt", "reading"} => cursor \in 1..NumReads
    /\ pc = "action" => cursor \in 1..(Len(proposed) + 1)
    /\ pc = "writing" => cursor \in 1..Len(proposed)
    /\ status \in Statuses /\ current_state \in WorkflowStates
    /\ outcome \in Outcomes /\ error \in Errors
    /\ cancelled \in BOOLEAN /\ marked \in BOOLEAN /\ overdue \in BOOLEAN
    /\ usage \in [Kinds -> Nat] /\ calls \in [Kinds -> Nat] /\ late \in Nat
    /\ failures \in [{"mcp", "a2a"} -> Nat]
    /\ evidence \subseteq ReadNames
    /\ health \in {"unknown", "healthy", "unhealthy"}
    /\ a2a_fallback \in BOOLEAN /\ conflict \in BOOLEAN
    /\ raw \in Seq(Finding)
    /\ DOMAIN findings \subseteq Nat /\ \A i \in DOMAIN findings : findings[i] \in Finding
    /\ proposed \in {<<>>, <<"ticket.create">>, <<"ticket.create", "deployment.rollback">>}
    /\ allowed \subseteq Actions
    /\ approvals \in Approvals
    /\ invoked \in [Actions -> Nat]
    /\ log \in Seq(EventRecord)

-----------------------------------------------------------------------------
(***************************************************************************)
(* ApprovalGate: an action reaches its tool only if the run proposed it,   *)
(* the policy allowed it and a human approved it (_do_policy,              *)
(* resume_after_approval, _do_execute).                                    *)
(***************************************************************************)
ApprovalGate ==
    \A a \in Actions : invoked[a] > 0 =>
        /\ a \in Proposed /\ a \in allowed
        /\ approvals[a] = "approved"

(***************************************************************************)
(* WritesOnce: no action is sent twice, whatever its tool answered: the    *)
(* loop of _do_execute never retries a write.                              *)
(***************************************************************************)
WritesOnce == \A a \in Actions : invoked[a] <= 1

(***************************************************************************)
(* BudgetsHold: the calls really placed stay within every limit and within *)
(* the cost limit over the whole run, pause, retries and verification      *)
(* included, and every placed call was billed; at most the call that was   *)
(* refused is billed without being placed (_spend_*, _check_budgets).      *)
(***************************************************************************)
BudgetsHold ==
    /\ calls["model"] <= MaxModelCalls
    /\ calls["tool"] <= MaxToolCalls
    /\ calls["delegation"] <= MaxDelegations
    /\ Cost(calls) <= MaxCost
    /\ \A k \in Kinds : usage[k] \in calls[k]..(calls[k] + 1)
    /\ \/ usage = calls
       \/ error = "BUDGET_EXCEEDED"

(***************************************************************************)
(* OneTerminalEvent: the graph itself appends a terminal event exactly     *)
(* when it ends the run, only one, and nothing after it, on every way out  *)
(* of run() and of resume_after_approval.  (cancel_run appends a           *)
(* run.cancelled of its own, whatever the graph does: see Gateway.)        *)
(***************************************************************************)
OneTerminalEvent ==
    /\ \A i \in DOMAIN log : log[i].type \in TerminalEvents =>
           i = Len(log) /\ status \in Terminal
    /\ status \in Terminal => log # <<>> /\ log[Len(log)].type \in TerminalEvents

(***************************************************************************)
(* OnlySpecialistLeadsToWrites: actions are proposed only on the strength  *)
(* of a finding of the specialist that is not blank and reaches the        *)
(* confidence threshold; without the specialist the run never gets to the  *)
(* approval gate (_do_findings, _do_propose).                              *)
(***************************************************************************)
OnlySpecialistLeadsToWrites ==
    proposed # <<>> =>
        /\ ~a2a_fallback
        /\ \E i \in DOMAIN raw : raw[i].conf >= LowConfidence /\ ~raw[i].blank

(***************************************************************************)
(* ConflictCapped: once a contradiction with the primary health check is   *)
(* recorded, no published finding is above the cap (_do_correlate changes  *)
(* the very findings _do_findings reads again later).                      *)
(***************************************************************************)
ConflictCapped ==
    conflict => health = "healthy" /\ \A i \in DOMAIN findings : findings[i].conf <= ConflictCap

(***************************************************************************)
(* CancelStopsCalls: after a cancel at most one more call is placed with   *)
(* the model, a tool or the specialist, the one whose check had already    *)
(* passed (_check_cancel before every billable step, and the window from   *)
(* it over the billing and the event to the call), also when the run is    *)
(* paused and resumed afterwards.                                          *)
(***************************************************************************)
CancelStopsCalls == late <= 1

(***************************************************************************)
(* ReturnsFromRun: every call of run() returns: no sequence of failing     *)
(* reads, retries or denials keeps the thread busy forever.                *)
(***************************************************************************)
ReturnsFromRun == (pc # "idle") ~> (pc = "idle")

(***************************************************************************)
(* What the run promises its callers.                                      *)
(***************************************************************************)
ExecutedActions == {a \in Actions : invoked[a] > 0}

Decision == IF Proposed = {} THEN "none" ELSE approvals["ticket.create"]

Contract == INSTANCE RunContract WITH
    status <- status, outcome <- outcome, proposed <- Proposed,
    decision <- Decision, executed <- ExecutedActions, Actions <- Actions

(***************************************************************************)
(* ImplementsContract: the graph implements RunContract.                   *)
(***************************************************************************)
ImplementsContract == Contract!Spec

(***************************************************************************)
(* BreakerDegrades: "circuit-breaker per dependency (opens after N         *)
(* consecutive failures, forces degraded fallback)" (graph.py, module      *)
(* docstring): a read that finds its breaker open does not fail the run.   *)
(***************************************************************************)
BreakerDegrades == [][pc = "read" => status' # "failed"]_vars

(***************************************************************************)
(* EventOnTransition: "emit a canonical AgentEvent (Store.append) on every *)
(* transition" (graph.py, module docstring).                               *)
(***************************************************************************)
EventOnTransition == [][current_state' # current_state => Len(log') > Len(log)]_vars
=============================================================================
