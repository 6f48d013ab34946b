----------------------------- MODULE RunCreation -----------------------------
(***************************************************************************)
(* POST /v1/runs (create_run in apps/api/routes/runs.py) with one          *)
(* Idempotency-Key of one tenant: requests in their own threads, the       *)
(* lookup and the insert of SqlAlchemyRepository.create_run, the first     *)
(* event, the hand-over to the background task, clients that send a        *)
(* request again when it failed, and restarts of the process.              *)
(***************************************************************************)
EXTENDS Integers, FiniteSets

CONSTANTS
    Requests,       \* the requests; the run a request creates bears its name
    MaxFailures,    \* bound on failed appends and restarts
    MaxRetries      \* how often a client sends its request again

ASSUME CreationAssumption == MaxFailures \in Nat /\ MaxRetries \in Nat /\ "none" \notin Requests

VARIABLES
    pc,         \* each request: idle, insert, event, dispatch, answered, failed
    runs,       \* the rows of runs under the key
    queued,     \* runs with a cached RunState and a queued background task
    executed,   \* runs _execute_run was called for
    answer,     \* the run each request was answered with
    failures, retries

vars == <<pc, runs, queued, executed, answer, failures, retries>>

Init ==
    /\ pc = [r \in Requests |-> "idle"]
    /\ runs = {} /\ queued = {} /\ executed = {}
    /\ answer = [r \in Requests |-> "none"]
    /\ failures = 0 /\ retries = [r \in Requests |-> 0]

Goto(r, place) == pc' = [pc EXCEPT ![r] = place]

(***************************************************************************)
(* The SELECT of create_run; of several rows it returns any (no ORDER BY). *)
(***************************************************************************)
Existing_Executed == runs \cap executed

Existing == runs

Lookup(r) ==
    /\ pc[r] = "idle"
    /\ \/ \E x \in Existing : answer' = [answer EXCEPT ![r] = x] /\ Goto(r, "answered")
       \/ Existing = {} /\ Goto(r, "insert") /\ UNCHANGED answer
    /\ UNCHANGED <<runs, queued, executed, failures, retries>>

(***************************************************************************)
(* The INSERT and its commit: the key has no unique constraint.  A retried *)
(* request makes a new run_id, but it gets here only if no row was stored. *)
(***************************************************************************)
Insert(r) ==
    /\ pc[r] = "insert"
    /\ runs' = runs \cup {r}
    /\ Goto(r, "event")
    /\ UNCHANGED <<queued, executed, answer, failures, retries>>

(***************************************************************************)
(* append_next_event(run.started), which may raise: a 500.                 *)
(***************************************************************************)
AppendStarted(r) ==
    /\ pc[r] = "event"
    /\ Goto(r, "dispatch")
    /\ UNCHANGED <<runs, queued, executed, answer, failures, retries>>

AppendFails(r) ==
    /\ pc[r] = "event"
    /\ failures < MaxFailures
    /\ failures' = failures + 1
    /\ Goto(r, "failed")
    /\ UNCHANGED <<runs, queued, executed, answer, retries>>

(***************************************************************************)
(* RUN_STATES[run_id] = state, background.add_task, 202.                   *)
(***************************************************************************)
Dispatch_Unqueued(r) ==
    /\ pc[r] = "dispatch"
    /\ answer' = [answer EXCEPT ![r] = r]
    /\ Goto(r, "answered")
    /\ UNCHANGED <<runs, queued, executed, failures, retries>>

Dispatch(r) ==
    /\ pc[r] = "dispatch"
    /\ queued' = queued \cup {r}
    /\ answer' = [answer EXCEPT ![r] = r]
    /\ Goto(r, "answered")
    /\ UNCHANGED <<runs, executed, failures, retries>>

(***************************************************************************)
(* The background task of a response, _execute_run.                        *)
(***************************************************************************)
ExecuteRun(r) ==
    /\ r \in queued
    /\ queued' = queued \ {r}
    /\ executed' = executed \cup {r}
    /\ UNCHANGED <<pc, runs, answer, failures, retries>>

(***************************************************************************)
(* The client was answered with an error, or not at all: it sends the same *)
(* request again under the same key.                                       *)
(***************************************************************************)
Retry(r) ==
    /\ pc[r] = "failed"
    /\ retries[r] < MaxRetries
    /\ retries' = [retries EXCEPT ![r] = @ + 1]
    /\ Goto(r, "idle")
    /\ UNCHANGED <<runs, queued, executed, answer, failures>>

Restart ==
    /\ failures < MaxFailures
    /\ failures' = failures + 1
    /\ pc' = [r \in Requests |-> IF pc[r] \in {"insert", "event", "dispatch"}
                                 THEN "failed" ELSE pc[r]]
    /\ queued' = {}
    /\ UNCHANGED <<runs, executed, answer, retries>>

Settled == \A r \in Requests : pc[r] = "answered" \/ (pc[r] = "failed" /\ retries[r] = MaxRetries)

Rest == Settled /\ queued = {} /\ UNCHANGED vars

Handle(r) == Lookup(r) \/ Insert(r) \/ AppendStarted(r) \/ AppendFails(r) \/ Dispatch(r)

Next == (\E r \in Requests : Handle(r) \/ ExecuteRun(r) \/ Retry(r)) \/ Restart \/ Rest

Spec == Init /\ [][Next]_vars

(***************************************************************************)
(* Request threads and background tasks keep running.                      *)
(***************************************************************************)
FairSpec == Spec /\ \A r \in Requests : WF_vars(Handle(r)) /\ WF_vars(ExecuteRun(r))

-----------------------------------------------------------------------------
(***************************************************************************)
(* NoRunAfterAnswer: once a request was answered, no request under the     *)
(* same key sets out to create another run, whatever failed, was repeated  *)
(* or was lost with the process in between (the lookup in create_run).     *)
(***************************************************************************)
NoRunAfterAnswer ==
    [][\A r \in Requests : pc[r] = "idle" /\ pc'[r] = "insert"
           => \A q \in Requests : pc[q] # "answered"]_vars

(***************************************************************************)
(* AcceptedIsExecuted: the run a client was given with a 202 is executed,  *)
(* also when it was another request that created it, as long as no append  *)
(* failed and the process was not restarted (background.add_task,          *)
(* _execute_run).                                                          *)
(***************************************************************************)
AcceptedIsExecuted ==
    \A r, x \in Requests : (answer[r] = x) ~> (x \in executed \/ failures > 0)

(***************************************************************************)
(* AlwaysExecuted: "`POST /v1/runs` -> persist `runs` row -> worker        *)
(* executes bounded graph" (docs/architecture/container.md:61), with       *)
(* failures: a repeated request is answered with a run nobody executes.    *)
(***************************************************************************)
AlwaysExecuted ==
    \A r, x \in Requests : (answer[r] = x) ~> (x \in executed)

(***************************************************************************)
(* OneRunPerKey: "Idempotent on (tenant, idempotency_key): return existing *)
(* run." (create_run in repositories.py).                                  *)
(***************************************************************************)
OneRunPerKey == Cardinality(runs) <= 1
=============================================================================
