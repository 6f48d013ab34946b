------------------------------- MODULE Gateway -------------------------------
(***************************************************************************)
(* One run behind the HTTP gateway: the worker thread that runs the graph  *)
(* (apps/api/routes/runs.py), cancel requests (same file), human decisions *)
(* that resume the run in their own thread (apps/api/routes/approvals.py), *)
(* the store they share (apps/api/store.py,                                *)
(* packages/persistence/repositories.py) and restarts of the process.      *)
(*                                                                         *)
(* All threads share one RunState object, mem, through the process-local   *)
(* RUN_STATES; what survives a restart is the run row and the approval     *)
(* rows.  A step is one database transaction or one uninterrupted piece of *)
(* work on mem.  OrchestratorGraph models what a handler computes; here    *)
(* "analysis" stands for classify to policy.                               *)
(***************************************************************************)
EXTENDS Integers, Sequences, FiniteSets

CONSTANTS
    Acts,          \* the write actions the run proposes
    Deciders,      \* decide requests, each with its own Idempotency-Key
    Cancellers,    \* cancel requests
    MaxRestarts,   \* bound on restarts of the process
    Collisions     \* whether two appends may compute the same sequence number

ASSUME GatewayAssumption ==
    /\ IsFiniteSet(Acts) /\ Acts # {}
    /\ MaxRestarts \in Nat /\ Collisions \in BOOLEAN
    /\ Deciders \cap Cancellers = {} /\ "worker" \notin Deciders \cup Cancellers

Threads == {"worker"} \cup Deciders
Actors == Threads \cup Cancellers
Terminal == {"completed", "failed", "cancelled"}
Statuses == {"created", "running", "waiting_for_approval"} \cup Terminal
States == {"created", "analysis", "approval_pause", "execute_approved", "verify", "complete"}
Verdicts == {"approved", "rejected"}
Decisions == {"none", "pending"} \cup Verdicts

VARIABLES
    pc,         \* where each actor is; see the actions
    row,        \* the run row: its status and current_state
    rows,       \* the decision of each action's approval row; "none": no row
    mem,        \* the RunState object shared by the threads
    cached,     \* RUN_STATES holds it
    flag,       \* the run is in CANCEL_FLAGS
    todo,       \* actions a thread in _do_execute has still to send
    req,        \* what each decide request asks for
    ends,       \* the terminal events in the store, in order, and what appended them
    executed,   \* how often each action was sent to its tool
    granted,    \* actions for which an approval was ever committed
    decided,    \* committed decisions per approval row
    expired,    \* expires_at has passed
    restarts

vars == <<pc, row, rows, mem, cached, flag, todo, req, ends, executed, granted, decided,
          expired, restarts>>

NoState == [status |-> "created", state |-> "analysis", cancelled |-> FALSE,
            approvals |-> [a \in Acts |-> "none"]]

(***************************************************************************)
(* create_run has answered 202: the row exists, the RunState is cached and *)
(* the background task is queued.                                          *)
(***************************************************************************)
Init ==
    /\ pc = [x \in Actors |-> IF x = "worker" THEN "start" ELSE "idle"]
    /\ row = [status |-> "created", state |-> "created"]
    /\ rows = [a \in Acts |-> "none"]
    /\ mem = NoState /\ cached = TRUE /\ flag = FALSE
    /\ todo = [t \in Threads |-> {}]
    /\ req \in [Deciders -> [act : Acts, verdict : Verdicts]]
    /\ ends = <<>>
    /\ executed = [a \in Acts |-> 0] /\ granted = {} /\ decided = [a \in Acts |-> 0]
    /\ expired = FALSE /\ restarts = 0

Goto(x, place) == pc' = [pc EXCEPT ![x] = place]

Answered == {"done", "refused", "error", "lost"}
Running(t) == pc[t] \notin {"idle"} \cup Answered

(***************************************************************************)
(* append_next_event of a terminal event by the graph or by a route.       *)
(***************************************************************************)
AppendEnd(type, code) == ends' = Append(ends, [type |-> type, code |-> code])

(***************************************************************************)
(* Another actor is at work, so its append may take the sequence number    *)
(* this one computed: the flush fails, the commit of the failed session    *)
(* raises PendingRollbackError, and the caller sees neither a retry nor a  *)
(* ConflictError.                                                          *)
(***************************************************************************)
MayCollide(x) == Collisions /\ \E y \in Actors \ {x} : Running(y)

(***************************************************************************)
(* RepositoryStore.append swallows that exception: the graph goes on and   *)
(* its terminal event is not in the store.                                 *)
(***************************************************************************)
GraphEnd(t, type, code) ==
    \/ AppendEnd(type, code)
    \/ MayCollide(t) /\ UNCHANGED ends

-----------------------------------------------------------------------------
(***************************************************************************)
(* The graph, in whichever thread runs it.  A step of run() ends with      *)
(* store.save: "save" goes on with the loop, "save_return" returns; a      *)
(* rejecting request saves at "save_reject".                               *)
(***************************************************************************)
quietVars == <<flag, req, granted, decided, expired, restarts, cached>>

Begin(t) ==
    /\ pc[t] = "start"
    /\ IF mem.status = "created"
       THEN /\ mem' = [mem EXCEPT !.status = "running", !.cancelled = @ \/ flag]
            /\ Goto(t, "save")
       ELSE /\ mem' = [mem EXCEPT !.cancelled = @ \/ flag]
            /\ Goto(t, "loop")
    /\ UNCHANGED <<row, rows, todo, ends, executed, quietVars>>

StopCancelled(t) ==
    /\ pc[t] = "loop" \/ (pc[t] = "exec" /\ todo[t] # {})
    /\ mem.cancelled
    /\ mem' = [mem EXCEPT !.status = "cancelled"]
    /\ GraphEnd(t, "run.cancelled", "none")
    /\ Goto(t, "save_return")
    /\ UNCHANGED <<row, rows, todo, executed, quietVars>>

(***************************************************************************)
(* A budget runs out (_check_budgets, at the top of the loop, in a handler *)
(* or before an action), or a handler raises something else, which ends as *)
(* INTERNAL_ERROR.                                                         *)
(***************************************************************************)
FailAs(t, code) ==
    /\ mem' = [mem EXCEPT !.status = "failed"]
    /\ GraphEnd(t, "run.failed", code)
    /\ Goto(t, "save_return")
    /\ UNCHANGED <<row, rows, todo, executed, quietVars>>

Fail(t) ==
    /\ pc[t] = "loop" \/ (pc[t] = "exec" /\ todo[t] # {})
    /\ ~mem.cancelled
    /\ \E code \in {"BUDGET_EXCEEDED", "INTERNAL_ERROR"} : FailAs(t, code)

AtState(t, s) == pc[t] = "loop" /\ ~mem.cancelled /\ mem.state = s

Analyse(t) ==
    /\ AtState(t, "analysis")
    /\ \/ /\ mem' = [mem EXCEPT !.state = "approval_pause"]
          /\ Goto(t, "save")
          /\ UNCHANGED ends
       \/ /\ mem' = [mem EXCEPT !.state = "complete", !.status = "completed"]
          /\ GraphEnd(t, "run.completed", "none")
          /\ Goto(t, "save_return")
    /\ UNCHANGED <<row, rows, todo, executed, quietVars>>

Pause(t) ==
    /\ AtState(t, "approval_pause")
    /\ mem' = [mem EXCEPT !.status = "waiting_for_approval",
                          !.approvals = [a \in Acts |-> "pending"]]
    /\ Goto(t, "save_return")
    /\ UNCHANGED <<row, rows, todo, ends, executed, quietVars>>

Approved == {a \in Acts : mem.approvals[a] = "approved"}

EnterExecute(t) ==
    /\ AtState(t, "execute_approved")
    /\ IF Approved = {}
       THEN FailAs(t, "INTERNAL_ERROR")
       ELSE /\ todo' = [todo EXCEPT ![t] = Approved]
            /\ Goto(t, "exec")
            /\ UNCHANGED <<row, rows, mem, ends, executed, quietVars>>

CheckAction_NoneLeft(t) ==
    /\ pc[t] = "exec"
    /\ ~mem.cancelled
    /\ Goto(t, "invoke")
    /\ UNCHANGED <<row, rows, mem, todo, ends, executed, quietVars>>

(***************************************************************************)
(* _check_cancel has let the action pass; the call itself comes later.     *)
(***************************************************************************)
CheckAction(t) ==
    /\ pc[t] = "exec" /\ todo[t] # {}
    /\ ~mem.cancelled
    /\ Goto(t, "invoke")
    /\ UNCHANGED <<row, rows, mem, todo, ends, executed, quietVars>>

Invoke(t) ==
    LET a == CHOOSE b \in todo[t] : TRUE IN
    /\ pc[t] = "invoke"
    /\ executed' = [executed EXCEPT ![a] = @ + 1]
    /\ todo' = [todo EXCEPT ![t] = @ \ {a}]
    /\ Goto(t, "exec")
    /\ UNCHANGED <<row, rows, mem, ends, quietVars>>

EndExecute(t) ==
    /\ pc[t] = "exec" /\ todo[t] = {}
    /\ mem' = [mem EXCEPT !.state = "verify", !.status = "running"]
    /\ Goto(t, "save")
    /\ UNCHANGED <<row, rows, todo, ends, executed, quietVars>>


Verify(t) ==
    /\ AtState(t, "verify")
    /\ mem' = [mem EXCEPT !.state = "complete"]
    /\ Goto(t, "save")
    /\ UNCHANGED <<row, rows, todo, ends, executed, quietVars>>

Complete(t) ==
    /\ AtState(t, "complete")
    /\ mem' = [mem EXCEPT !.status = "completed"]
    /\ GraphEnd(t, "run.completed", "completed")
    /\ Goto(t, "save_return")
    /\ UNCHANGED <<row, rows, todo, executed, quietVars>>

(***************************************************************************)
(* RepositoryStore.save: update_run, then one create_approval per approval *)
(* that has no row yet, each in its own transaction; where the caller goes *)
(* on afterwards: in the loop, out of run(), or in a rejection.            *)
(***************************************************************************)
Missing == {a \in Acts : mem.approvals[a] # "none" /\ rows[a] = "none"}

Upserting(place) == CASE place = "save" -> "upsert"
                      [] place = "save_return" -> "upsert_return"
                      [] place = "save_reject" -> "upsert_reject"
                      [] OTHER -> place

Returned(place) == CASE Upserting(place) = "upsert" -> "loop"
                     [] Upserting(place) = "upsert_return" -> "done"
                     [] Upserting(place) = "upsert_reject" -> "reject_event"

SaveRow(t) ==
    /\ pc[t] \in {"save", "save_return", "save_reject"}
    /\ row' = [status |-> mem.status, state |-> mem.state]
    /\ Goto(t, IF Missing = {} THEN Returned(pc[t]) ELSE Upserting(pc[t]))
    /\ UNCHANGED <<rows, mem, todo, ends, executed, quietVars>>

UpsertApproval(t) ==
    /\ pc[t] \in {"upsert", "upsert_return", "upsert_reject"}
    /\ IF Missing = {}
       THEN UNCHANGED rows /\ Goto(t, Returned(pc[t]))
       ELSE LET a == CHOOSE b \in Missing : TRUE IN
            /\ rows' = [rows EXCEPT ![a] = mem.approvals[a]]
            /\ Goto(t, IF Missing = {a} THEN Returned(pc[t]) ELSE pc[t])
    /\ UNCHANGED <<row, mem, todo, ends, executed, quietVars>>

Graph(t) == \/ Begin(t) \/ StopCancelled(t) \/ Fail(t) \/ Analyse(t) \/ Pause(t)
            \/ EnterExecute(t) \/ CheckAction(t) \/ Invoke(t) \/ EndExecute(t)
            \/ Verify(t) \/ Complete(t) \/ SaveRow(t) \/ UpsertApproval(t)

-----------------------------------------------------------------------------
(***************************************************************************)
(* cancel_run.  Only the first cancel writes the row and appends the       *)
(* event; every one sets the flags.                                        *)
(***************************************************************************)
cancelQuiet == <<rows, todo, req, executed, granted, decided, expired, restarts, cached>>

CancelRead(c) ==
    /\ pc[c] = "idle"
    /\ Goto(c, IF row.status = "cancelled" THEN "cancel_flag" ELSE "cancel_row")
    /\ UNCHANGED <<row, mem, flag, ends, cancelQuiet>>

CancelRow(c) ==
    /\ pc[c] = "cancel_row"
    /\ row' = [row EXCEPT !.status = "cancelled"]
    /\ Goto(c, "cancel_event")
    /\ UNCHANGED <<mem, flag, ends, cancelQuiet>>

CancelEvent(c) ==
    /\ pc[c] = "cancel_event"
    /\ \/ AppendEnd("run.cancelled", "none") /\ Goto(c, "cancel_flag")
       \/ MayCollide(c) /\ Goto(c, "error") /\ UNCHANGED ends
    /\ UNCHANGED <<row, mem, flag, cancelQuiet>>

CancelFlag_FlagOnly(c) ==
    /\ pc[c] = "cancel_flag"
    /\ flag' = TRUE
    /\ Goto(c, "cancel_status")
    /\ UNCHANGED <<row, mem, ends, cancelQuiet>>

CancelFlag(c) ==
    /\ pc[c] = "cancel_flag"
    /\ flag' = TRUE
    /\ mem' = IF cached THEN [mem EXCEPT !.cancelled = TRUE] ELSE mem
    /\ Goto(c, "cancel_status")
    /\ UNCHANGED <<row, ends, cancelQuiet>>

CancelStatus(c) ==
    /\ pc[c] = "cancel_status"
    /\ mem' = IF cached THEN [mem EXCEPT !.status = "cancelled"] ELSE mem
    /\ Goto(c, "done")
    /\ UNCHANGED <<row, flag, ends, cancelQuiet>>

Cancel(c) == CancelRead(c) \/ CancelRow(c) \/ CancelEvent(c) \/ CancelFlag(c) \/ CancelStatus(c)

-----------------------------------------------------------------------------
(***************************************************************************)
(* decide: the SELECT of decide_approval and its UPDATE are two steps of   *)
(* one transaction that locks nothing; a second request may read between.  *)
(* An expired approval is refused (and, its transaction being rolled back, *)
(* stays pending).                                                         *)
(***************************************************************************)
decideQuiet == <<flag, todo, req, executed, expired, restarts, cached>>

DecideRead(d) ==
    /\ pc[d] = "idle"
    /\ Goto(d, IF rows[req[d].act] = "pending" /\ ~expired THEN "decide" ELSE "refused")
    /\ UNCHANGED <<row, rows, mem, ends, granted, decided, decideQuiet>>

DecideWrite(d) ==
    LET r == req[d] IN
    /\ pc[d] = "decide"
    /\ rows' = [rows EXCEPT ![r.act] = r.verdict]
    /\ decided' = [decided EXCEPT ![r.act] = @ + 1]
    /\ granted' = IF r.verdict = "approved" THEN granted \cup {r.act} ELSE granted
    /\ Goto(d, "received")
    /\ UNCHANGED <<row, mem, ends, decideQuiet>>

(***************************************************************************)
(* The approval.received event; a collision turns the answer into a 500    *)
(* and nobody resumes the run.                                             *)
(***************************************************************************)
DecideEvent(d) ==
    /\ pc[d] = "received"
    /\ \/ Goto(d, "sync")
       \/ MayCollide(d) /\ Goto(d, "error")
    /\ UNCHANGED <<row, rows, mem, ends, granted, decided, decideQuiet>>

(***************************************************************************)
(* _maybe_resume: copy the decisions of the rows into mem, look at the     *)
(* workflow state, then reject or resume.                                  *)
(***************************************************************************)
Synced_All(m, v) == [m EXCEPT !.approvals = [a \in Acts |-> IF @[a] = "none" THEN "none" ELSE v]]


Synced(m, v) == [m EXCEPT !.approvals = [a \in Acts |->
                    IF @[a] = "none" \/ rows[a] = "none" THEN @[a] ELSE rows[a]]]

DecideSync(d) ==
    /\ pc[d] = "sync"
    /\ IF cached
       THEN /\ mem' = Synced(mem, req[d].verdict)
            /\ Goto(d, CASE mem.state # "approval_pause" -> "done"
                         [] req[d].verdict = "rejected" -> "reject"
                         [] OTHER -> "resume")
       ELSE Goto(d, "done") /\ UNCHANGED mem
    /\ UNCHANGED <<row, rows, ends, granted, decided, decideQuiet>>

Reject(d) ==
    /\ pc[d] = "reject"
    /\ mem' = [mem EXCEPT !.status = "completed"]
    /\ Goto(d, "save_reject")
    /\ UNCHANGED <<row, rows, ends, granted, decided, decideQuiet>>

RejectEvent(d) ==
    /\ pc[d] = "reject_event"
    /\ \/ AppendEnd("run.completed", "rejected") /\ Goto(d, "reject_row")
       \/ MayCollide(d) /\ Goto(d, "done") /\ UNCHANGED ends
    /\ UNCHANGED <<row, rows, mem, granted, decided, decideQuiet>>

RejectRow(d) ==
    /\ pc[d] = "reject_row"
    /\ row' = [row EXCEPT !.status = "completed"]
    /\ Goto(d, "done")
    /\ UNCHANGED <<rows, mem, ends, granted, decided, decideQuiet>>

Resume(d) ==
    /\ pc[d] = "resume"
    /\ mem' = [mem EXCEPT !.state = "execute_approved", !.status = "running"]
    /\ Goto(d, "loop")
    /\ UNCHANGED <<row, rows, ends, granted, decided, decideQuiet>>

Decide(d) == \/ DecideRead(d) \/ DecideWrite(d) \/ DecideEvent(d) \/ DecideSync(d)
             \/ Reject(d) \/ RejectEvent(d) \/ RejectRow(d) \/ Resume(d)

-----------------------------------------------------------------------------
Expire ==
    /\ ~expired /\ \E a \in Acts : rows[a] # "none"
    /\ expired' = TRUE
    /\ UNCHANGED <<pc, row, rows, mem, cached, flag, todo, req, ends, executed, granted,
                   decided, restarts>>

(***************************************************************************)
(* The process restarts: threads, caches and flags are gone.  Nothing in   *)
(* apps/api or apps/worker picks a stored run up again.                    *)
(***************************************************************************)
Restart ==
    /\ restarts < MaxRestarts
    /\ restarts' = restarts + 1
    /\ pc' = [x \in Actors |-> IF pc[x] \in {"idle"} \cup Answered THEN pc[x] ELSE "lost"]
    /\ cached' = FALSE /\ flag' = FALSE /\ mem' = NoState
    /\ todo' = [t \in Threads |-> {}]
    /\ UNCHANGED <<row, rows, req, ends, executed, granted, decided, expired>>

(***************************************************************************)
(* Every actor has been answered.                                          *)
(***************************************************************************)
Rest == (\A x \in Actors : pc[x] \in Answered) /\ UNCHANGED vars

Step(x) == \/ x \in Threads /\ Graph(x)
           \/ x \in Cancellers /\ Cancel(x)
           \/ x \in Deciders /\ Decide(x)

Next == (\E x \in Actors : Step(x)) \/ Expire \/ Restart \/ Rest

Spec == Init /\ [][Next]_vars

(***************************************************************************)
(* Threads of the process keep running once they have begun; clients need  *)
(* not send anything.                                                      *)
(***************************************************************************)
Fairness == \A x \in Actors : WF_vars(pc[x] # "idle" /\ Step(x))

FairSpec == Spec /\ Fairness

-----------------------------------------------------------------------------
Places == {"idle", "start", "loop", "exec", "invoke", "save", "save_return", "save_reject",
           "upsert", "upsert_return", "upsert_reject", "cancel_row", "cancel_event", "cancel_flag", "cancel_status",
           "decide", "received", "sync", "reject", "reject_event", "reject_row", "resume"}
          \cup Answered

TypeOK ==
    /\ pc \in [Actors -> Places]
    /\ row \in [status : Statuses, state : States]
    /\ rows \in [Acts -> Decisions]
    /\ mem \in [status : Statuses, state : States, cancelled : BOOLEAN,
                approvals : [Acts -> Decisions]]
    /\ cached \in BOOLEAN /\ flag \in BOOLEAN /\ expired \in BOOLEAN
    /\ todo \in [Threads -> SUBSET Acts]
    /\ \A t \in Threads : pc[t] = "invoke" => todo[t] # {}
    /\ req \in [Deciders -> [act : Acts, verdict : Verdicts]]
    /\ \A i \in DOMAIN ends : ends[i].type \in {"run.completed", "run.failed", "run.cancelled"}
    /\ executed \in [Acts -> Nat] /\ decided \in [Acts -> Nat]
    /\ granted \subseteq Acts
    /\ restarts \in 0..MaxRestarts

(***************************************************************************)
(* WriteNeedsApprovalRow: an action is sent to its tool only if a decide   *)
(* request committed an approval of that very action, whatever the other   *)
(* requests, the worker still writing the rows of the pause, and restarts  *)
(* do (decide, _maybe_resume, RepositoryStore.save).                       *)
(***************************************************************************)
WriteNeedsApprovalRow == \A a \in Acts : executed[a] > 0 => a \in granted

(***************************************************************************)
(* CancelHolds: once a cancel request was answered 202 no thread lets      *)
(* another action pass, in the worker or in a resuming request; at most    *)
(* the calls that had already passed their check go out (cancel_run,       *)
(* request_cancel, _check_cancel).                                         *)
(***************************************************************************)
CancelHolds ==
    [][(\E c \in Cancellers : pc[c] = "done") =>
           \A t \in Threads : pc[t] = "exec" => pc'[t] # "invoke"]_vars

(***************************************************************************)
(* RunsSettle: a stored run does not stay created or running: the threads  *)
(* that work on it end, and the last save is a pause or an end.            *)
(***************************************************************************)
Unsettled == row.status \in {"created", "running"}


(***************************************************************************)
(* DoubleDecideRefused: "double-decide" is answered 409                    *)
(* (docs/architecture/api-contracts.md): one decision per approval row.    *)
(***************************************************************************)
DoubleDecideRefused == \A a \in Acts : decided[a] <= 1

(***************************************************************************)
(* SentOnce: "Never double-propose or double-execute"                      *)
(* (tests/evaluation/dataset.json): no action is sent to its tool twice.   *)
(***************************************************************************)
SentOnce == \A a \in Acts : executed[a] <= 1

(***************************************************************************)
(* RejectedExecutesNothing: "Rejected runs complete with outcome:          *)
(* rejected, executed: false" (docs/tutorials/02-approval-flow.md), stated *)
(* for runs whose approval rows were each decided once.                    *)
(***************************************************************************)
RejectedExecutesNothing ==
    /\ \A a \in Acts : decided[a] <= 1
    /\ \E i \in DOMAIN ends : ends[i].code = "rejected"
    => \A a \in Acts : executed[a] = 0

(***************************************************************************)
(* CancelledRowStays: "DB row is authoritative for terminal cancel"        *)
(* (comment in _run_detail): after the 202 the row says cancelled.         *)
(***************************************************************************)
CancelledRowStays == (\E c \in Cancellers : pc[c] = "done") => row.status = "cancelled"

(***************************************************************************)
(* ApprovedIsExecuted: "approval.required -> human -> execute"             *)
(* (docs/architecture/container.md): when all requests are answered and    *)
(* the run ended once, as completed, every action whose row says approved  *)
(* was sent.                                                               *)
(***************************************************************************)
ApprovedIsExecuted ==
    /\ \A x \in Actors : pc[x] \in Answered
    /\ ends = <<[type |-> "run.completed", code |-> "completed"]>>
    => \A a \in Acts : rows[a] = "approved" => executed[a] > 0
=============================================================================
