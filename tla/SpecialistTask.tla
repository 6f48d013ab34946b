---------------------------- MODULE SpecialistTask ----------------------------
(***************************************************************************)
(* One task_id at the observability agent                                  *)
(* (apps/a2a_agents/observability/agent.py): deliveries of its create      *)
(* request, possibly duplicated, and cancel requests, over the result      *)
(* cache _TASKS, the set _CANCELLED and the agent_tasks row.               *)
(*                                                                         *)
(* create_task runs on the event loop and gives it up only while           *)
(* correlate_local works in a thread; cancel_task is a plain function that *)
(* runs in a thread of its own, so the loop may run between its read of    *)
(* _TASKS and its write.  All callers belong to the task's tenant.         *)
(***************************************************************************)
EXTENDS Correlation, FiniteSets

CONSTANTS
    Creates, Cancels,       \* the create and cancel requests delivered
    Inputs                  \* the inputs of the skill the request may carry

ASSUME RequestsAssumption == Creates \cap Cancels = {}
ASSUME InputsAssumption == Inputs \subseteq SkillInputs

Requests == Creates \cup Cancels
Results == {"completed", "failed", "timeout", "cancelled"}
Kinds == {"good", "unknown_skill", "bad_inputs"}

VARIABLES
    kind,      \* what the create request asks for; duplicates are equal
    inputs,    \* its skill inputs
    known,     \* the request's run has a row, so agent_tasks accepts the task
    late,      \* the request's deadline has passed
    pc,        \* each request: idle, running | mark, put, answered
    task,      \* status of _TASKS[task_id], or "none"
    output,    \* what correlate_local returned, while the task is completed
    flagged,   \* task_id is in _CANCELLED
    record,    \* status of the agent_tasks row, or "none"
    answer     \* the status each request was answered with

vars == <<kind, inputs, known, late, pc, task, output, flagged, record, answer>>

(* A request that is refused before its inputs are used carries none. *)
NoInputs == [metrics |-> 0, logs |-> 0, deploy |-> "absent", suspicious |-> FALSE]
NoOutput == [findings |-> <<>>, cause |-> "none", unresolved |-> {}]

Init ==
    /\ kind \in Kinds /\ inputs \in (IF kind = "good" THEN Inputs ELSE {NoInputs}) /\ known \in BOOLEAN /\ late = FALSE
    /\ output = NoOutput
    /\ pc = [r \in Requests |-> "idle"]
    /\ task = "none" /\ flagged = FALSE /\ record = "none"
    /\ answer = [r \in Requests |-> "none"]

Answer(r, status) ==
    /\ pc' = [pc EXCEPT ![r] = "answered"]
    /\ answer' = [answer EXCEPT ![r] = status]

(***************************************************************************)
(* _persist_task: save_agent_task refuses a task without a run row and a   *)
(* task it has already; update_agent_task follows only for a result with   *)
(* an output.                                                              *)
(***************************************************************************)
Persisted(status) == IF ~known THEN "none"
                     ELSE IF record = "none" \/ status = "completed" THEN status
                     ELSE record

(***************************************************************************)
(* _store_put with the request: the result is cached and written through.  *)
(***************************************************************************)
StorePut(r, status, result) ==
    /\ task' = status /\ output' = result
    /\ record' = Persisted(status)
    /\ Answer(r, status)
    /\ UNCHANGED <<kind, inputs, known, late, flagged>>

-----------------------------------------------------------------------------
(***************************************************************************)
(* create_task: a stored result is replayed; otherwise _execute_task       *)
(* checks skill, cancellation, deadline and inputs, in this order.         *)
(***************************************************************************)
Replay(r) ==
    /\ r \in Creates /\ pc[r] = "idle"
    /\ task # "none"
    /\ Answer(r, task)
    /\ UNCHANGED <<kind, inputs, known, late, task, output, flagged, record>>

Verdict == CASE kind = "unknown_skill" -> "failed"
             [] flagged -> "cancelled"
             [] late -> "timeout"
             [] kind = "bad_inputs" -> "failed"
             [] OTHER -> "none"

Refuse(r) ==
    /\ r \in Creates /\ pc[r] = "idle"
    /\ task = "none" /\ Verdict # "none"
    /\ StorePut(r, Verdict, NoOutput)

Admit(r) ==
    /\ r \in Creates /\ pc[r] = "idle"
    /\ task = "none" /\ Verdict = "none"
    /\ pc' = [pc EXCEPT ![r] = "running"]
    /\ UNCHANGED <<kind, inputs, known, late, task, output, flagged, record, answer>>

(***************************************************************************)
(* wait_for: the correlation returns, its time is over first, or the task  *)
(* of the event loop is cancelled (asyncio.CancelledError, at a shutdown). *)
(* None of these looks at _CANCELLED again.                                *)
(***************************************************************************)
Correlated(r) ==
    /\ pc[r] = "running"
    /\ \E result \in Outputs(inputs) : StorePut(r, "completed", result)

TimesOut_Ignored(r) == pc[r] = "running" /\ UNCHANGED vars

TimesOut(r) == pc[r] = "running" /\ StorePut(r, "timeout", NoOutput)

Interrupted(r) == pc[r] = "running" /\ StorePut(r, "cancelled", NoOutput)

-----------------------------------------------------------------------------
(***************************************************************************)
(* cancel_task: a completed task is returned as it is; otherwise the task  *)
(* is marked, then its result replaced, without the request and so without *)
(* a write to agent_tasks.                                                 *)
(***************************************************************************)
AlreadyDone_Never == FALSE

AlreadyDone == task = "completed"

CancelRead(r) ==
    /\ r \in Cancels /\ pc[r] = "idle"
    /\ IF AlreadyDone
       THEN Answer(r, task)
       ELSE pc' = [pc EXCEPT ![r] = "mark"] /\ UNCHANGED answer
    /\ UNCHANGED <<kind, inputs, known, late, task, output, flagged, record>>

CancelMark(r) ==
    /\ pc[r] = "mark"
    /\ flagged' = TRUE
    /\ pc' = [pc EXCEPT ![r] = "put"]
    /\ UNCHANGED <<kind, inputs, known, late, task, output, record, answer>>

CancelPut(r) ==
    /\ pc[r] = "put"
    /\ task' = "cancelled" /\ output' = NoOutput
    /\ Answer(r, "cancelled")
    /\ UNCHANGED <<kind, inputs, known, late, flagged, record>>

DeadlinePasses ==
    /\ ~late
    /\ late' = TRUE
    /\ UNCHANGED <<kind, inputs, known, pc, task, output, flagged, record, answer>>

Rest == (\A r \in Requests : pc[r] = "answered") /\ UNCHANGED vars

Handle(r) == \/ Replay(r) \/ Refuse(r) \/ Admit(r) \/ Correlated(r) \/ TimesOut(r) \/ Interrupted(r)
             \/ CancelRead(r) \/ CancelMark(r) \/ CancelPut(r)

Next == (\E r \in Requests : Handle(r)) \/ DeadlinePasses \/ Rest

Spec == Init /\ [][Next]_vars

(***************************************************************************)
(* A request that has begun is carried on by the loop, its timer or its    *)
(* thread; nothing obliges correlate_local to return.                      *)
(***************************************************************************)
FairSpec == Spec /\ \A r \in Requests : WF_vars(TimesOut(r)) /\ WF_vars(CancelMark(r) \/ CancelPut(r))

-----------------------------------------------------------------------------
Quiet == \A r \in Requests : pc[r] \in {"idle", "answered"}

(***************************************************************************)
(* SettledResultStands: once the task is completed or cancelled and no     *)
(* request is in flight, no later delivery or cancel request, alone or     *)
(* racing another, changes the stored result (create_task's replay,        *)
(* cancel_task's no-op).                                                   *)
(***************************************************************************)
SettledResultStands ==
    \A s \in {"completed", "cancelled"} : [](Quiet /\ task = s => [](task = s))

(***************************************************************************)
(* CauseIsSupported: a task says what its references support, whatever the *)
(* hash of the service: a cause is the metric or log finding no other      *)
(* finding outweighs, never a deployment alone; metric references always   *)
(* yield one; every finding quotes references of the request, 16 at most;  *)
(* and a result without a cause says what is missing (correlate_local).    *)
(***************************************************************************)
CauseIsSupported ==
    IF task # "completed" THEN output = NoOutput
    ELSE /\ output.cause = "none" => output.unresolved # {} /\ inputs.metrics = 0
         /\ output.cause # "none" =>
              /\ output.cause \in {"metrics", "logs"} /\ inputs[output.cause] > 0
              /\ \A s \in DOMAIN output.findings :
                   output.findings[s].confidence <= output.findings[output.cause].confidence
         /\ \A s \in DOMAIN output.findings :
              LET e == output.findings[s].evidence IN
                /\ e # {} /\ Cardinality(e) <= 16
                /\ \A x \in e : IF x[1] = "deploy" THEN inputs.deploy = "release" ELSE x[2] <= inputs[x[1]]

(***************************************************************************)
(* RequestsAnswered: a request that has begun is answered, even if the     *)
(* correlation never returns (wait_for in _execute_task).                  *)
(***************************************************************************)
RequestsAnswered ==
    \A r \in Requests : pc[r] \in {"running", "mark", "put"} ~> pc[r] = "answered"

(***************************************************************************)
(* CancelPropagated: "cancellation propagated"                             *)
(* (docs/architecture/a2a-cards.md): once a cancel was answered cancelled, *)
(* the task does not become completed.                                     *)
(***************************************************************************)
CancelPropagated == (\E r \in Cancels : answer[r] = "cancelled") => task # "completed"

(***************************************************************************)
(* RecordAgrees: "every put-through also attempts a best-effort repository *)
(* write" (agent.py): with nothing in flight, the agent_tasks row of a     *)
(* task says what the cache says.                                          *)
(***************************************************************************)
RecordAgrees == Quiet /\ record # "none" => record = task
=============================================================================
