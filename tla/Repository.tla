------------------------------ MODULE Repository ------------------------------
(***************************************************************************)
(* The record tables of SqlAlchemyRepository                               *)
(* (packages/persistence/repositories.py, models.py) under concurrent      *)
(* sessions of several tenants.  A session runs one method; a mutating     *)
(* method is one transaction of two steps: what it reads and checks, then  *)
(* the flush and commit, which a unique constraint may refuse.             *)
(*                                                                         *)
(* Elsewhere: sequence assignment by append_next_event (EventStream), what *)
(* a decision sets off (Gateway), idempotent create_run (RunCreation).     *)
(* Columns that only describe a row (titles, models, timestamps, hashes)   *)
(* are left out.                                                           *)
(***************************************************************************)
EXTENDS Naturals, Sequences

CONSTANTS
    Tenants, Runs, Sessions,
    Ids,            \* the identifiers of rows; any caller may pass any of them
    Keys,           \* idempotency keys
    Words,          \* the names that occur as dictionary keys of payloads
    Sensitive,      \* those that _SENSITIVE_KEY_RE matches
    Bodies,         \* the raw payloads callers pass
    Statuses,       \* the statuses updates of invocations and tasks set
    none            \* SQL NULL

Parts == {"input", "output", "error"}
Texts == {"plain", "secret_like", "masked"}
Leaves == [path : Seq(Words), value : Texts \cup {"number"}]

ASSUME RepositoryAssumption ==
    /\ Sensitive \subseteq Words
    /\ none \notin Tenants \cup Runs \cup Keys \cup Ids
    /\ \A body \in Bodies : \A part \in Parts : \A leaf \in body[part] : leaf \in Leaves

Verdicts == {"approved", "rejected"}
Tables == {"run_events", "approvals", "tool_invocations", "findings", "evidence_refs",
           "agent_tasks", "model_calls", "audit_records"}

VARIABLES
    runs,       \* the runs: tenant_id (none before create_run) and status
    rows,       \* the rows of the other tables
    hook,       \* the redaction hook the repository was built with
    pc,         \* each session: idle, insert, update, answered
    tenant,     \* the tenant each session acts for
    draft,      \* the row it is about to write
    loaded,     \* the row an update has read
    answer,     \* the rows it returned
    error,      \* the error it raised
    asked,      \* the event_id an append was called with, none in other methods
    before      \* history: the sessions that were answered when it began

vars == <<runs, rows, hook, pc, tenant, draft, loaded, answer, error, asked, before>>

Init ==
    /\ runs = [r \in Runs |-> [tenant_id |-> none, status |-> "created"]]
    /\ rows = {}
    /\ hook \in {"default", "forgetful"}
    /\ pc = [s \in Sessions |-> "idle"]
    /\ tenant = [s \in Sessions |-> none]
    /\ draft = [s \in Sessions |-> none] /\ loaded = [s \in Sessions |-> none]
    /\ answer = [s \in Sessions |-> {}] /\ error = [s \in Sessions |-> "none"]
    /\ asked = [s \in Sessions |-> none] /\ before = [s \in Sessions |-> {}]

-----------------------------------------------------------------------------
(***************************************************************************)
(* Redaction.  A payload is the set of its leaves, each with the names on  *)
(* its path; lists add none.  _redact_value masks a text under a sensitive *)
(* path or that looks like a secret; what is no text stays as it is.       *)
(***************************************************************************)
SensitivePath(path) == \E i \in DOMAIN path : path[i] \in Sensitive

RedactValue_LastName(leaf) ==
    IF leaf.value \in Texts /\ (leaf.path[Len(leaf.path)] \in Sensitive \/ leaf.value = "secret_like")
    THEN [leaf EXCEPT !.value = "masked"] ELSE leaf

RedactValue(leaf) ==
    IF leaf.value \in Texts /\ (SensitivePath(leaf.path) \/ leaf.value = "secret_like")
    THEN [leaf EXCEPT !.value = "masked"] ELSE leaf

(***************************************************************************)
(* The hook is injectable: default_redact, or one that masks nothing.      *)
(***************************************************************************)
Redact(payload) == IF hook = "default" THEN {RedactValue(leaf) : leaf \in payload} ELSE payload

(***************************************************************************)
(* _contains_bare_secret_marker                                            *)
(***************************************************************************)
BareSecret(payload) ==
    \E leaf \in payload : leaf.value \in Texts \ {"masked"} /\ SensitivePath(leaf.path)

(***************************************************************************)
(* What an insert stores of the payloads: only record_tool_invocation,     *)
(* save_agent_task and write_audit take them through the hook, the first   *)
(* without its error; append_event stores its data as given.               *)
(***************************************************************************)
Stored(table, body) ==
    [part \in Parts |->
        CASE table = "tool_invocations" /\ part # "error" -> Redact(body[part])
          [] table = "tool_invocations" /\ part = "error" -> body[part]
          [] table \in {"agent_tasks", "audit_records"} /\ part = "input" -> Redact(body[part])
          [] table = "run_events" /\ part = "input" -> body[part]
          [] OTHER -> {}]

(***************************************************************************)
(* A new row: mark is the idempotency key of an invocation, the sequence   *)
(* of an event.  Only an audit record may be without a run.                *)
(***************************************************************************)
NewRow(table, t, id, r, mark, body) ==
    [table |-> table, id |-> id, run |-> r, tenant_id |-> t, mark |-> mark,
     status |-> "pending", body |-> Stored(table, body)]

(***************************************************************************)
(* The rows the tables can hold; SQL NULL is none of them.                 *)
(***************************************************************************)
Row == [table : Tables, id : Ids, run : Runs \cup {none}, tenant_id : Tenants,
        mark : Keys \cup {none, 0}, status : Statuses \cup Verdicts \cup {"pending"},
        body : [Parts -> SUBSET Leaves]]

ASSUME NullAssumption == none \notin Row

Marks(table) == CASE table = "tool_invocations" -> Keys \cup {none}
                  [] table = "run_events" -> {0}
                  [] OTHER -> {none}

RunsFor(table) == IF table = "audit_records" THEN Runs \cup {none} ELSE Runs

-----------------------------------------------------------------------------
Answer(s, result) ==
    /\ pc' = [pc EXCEPT ![s] = "answered"]
    /\ answer' = [answer EXCEPT ![s] = result]
    /\ UNCHANGED error

Raise(s, e) ==
    /\ pc' = [pc EXCEPT ![s] = "answered"]
    /\ error' = [error EXCEPT ![s] = e]
    /\ UNCHANGED answer

(***************************************************************************)
(* transaction: a session opens for a caller of the tenant.                *)
(***************************************************************************)
Open(s, t) ==
    /\ pc[s] = "idle"
    /\ tenant' = [tenant EXCEPT ![s] = t]
    /\ before' = [before EXCEPT ![s] = {q \in Sessions : pc[q] = "answered"}]

(***************************************************************************)
(* _get_run_row, and the same test written out in every other method.      *)
(***************************************************************************)
Owned(r, t) == runs[r].tenant_id = t

(***************************************************************************)
(* The rows an insert returns instead: the event with this event_id, of    *)
(* whatever run and tenant, or an invocation of the run with this key.     *)
(***************************************************************************)
Existing_ById(row) ==
    {old \in rows : old.table = row.table /\ old.id = row.id /\ row.table = "run_events"}

Existing(row) ==
    {old \in rows :
        /\ old.table = row.table
        /\ \/ row.table = "run_events" /\ old.id = row.id
           \/ row.table = "tool_invocations" /\ row.mark # none
              /\ old.run = row.run /\ old.mark = row.mark}

Taken(row) == \E old \in rows : old.table = row.table /\ old.id = row.id

(***************************************************************************)
(* The unique constraints of models.py: the identifier in every table and  *)
(* (run_id, sequence) of an event; the idempotency key has none.           *)
(***************************************************************************)
Collides(row) ==
    \/ Taken(row)
    \/ row.table = "run_events" /\ \E old \in rows :
           old.table = row.table /\ old.run = row.run /\ old.mark = row.mark

(***************************************************************************)
(* append_event, create_approval, record_tool_invocation, save_finding,    *)
(* save_evidence_ref, save_agent_task, record_model_call, write_audit: the *)
(* checks, in the order of the code.                                       *)
(***************************************************************************)
Looked == Tables \ {"run_events", "model_calls", "audit_records"}

BeginInsert(s, t, row) ==
    /\ Open(s, t)
    /\ IF row.table = "tool_invocations" /\ BareSecret(row.body["input"])
       THEN Raise(s, "error") /\ UNCHANGED draft
       ELSE IF row.run # none /\ ~Owned(row.run, t)
       THEN Raise(s, "not_found") /\ UNCHANGED draft
       ELSE IF Existing(row) # {}
       THEN (\E first \in Existing(row) : Answer(s, {first})) /\ UNCHANGED draft
       ELSE IF row.table \in Looked /\ Taken(row)
       THEN Raise(s, "conflict") /\ UNCHANGED draft
       ELSE /\ pc' = [pc EXCEPT ![s] = "insert"]
            /\ draft' = [draft EXCEPT ![s] = row]
            /\ UNCHANGED <<answer, error>>
    /\ asked' = [asked EXCEPT ![s] = IF row.table = "run_events" THEN row.id ELSE none]
    /\ UNCHANGED <<runs, rows, hook, loaded>>

FlushInsert_Merge(s) ==
    /\ pc[s] = "insert"
    /\ rows' = {old \in rows : old.table # draft[s].table \/ old.id # draft[s].id} \cup {draft[s]}
    /\ Answer(s, {draft[s]})
    /\ UNCHANGED <<runs, hook, tenant, draft, loaded, asked, before>>

FlushInsert(s) ==
    /\ pc[s] = "insert"
    /\ IF Collides(draft[s])   \* append_event turns the IntegrityError into a conflict
       THEN Raise(s, IF draft[s].table = "run_events" THEN "conflict" ELSE "error") /\ UNCHANGED rows
       ELSE rows' = rows \cup {draft[s]} /\ Answer(s, {draft[s]})
    /\ UNCHANGED <<runs, hook, tenant, draft, loaded, asked, before>>

-----------------------------------------------------------------------------
(***************************************************************************)
(* complete_tool_invocation and update_agent_task: the row of another      *)
(* tenant is not found; the status is set, and the output and the error    *)
(* where one is given.                                                     *)
(***************************************************************************)
Visible(row, t) == row.tenant_id = t

Updated(row, status, body) ==
    [row EXCEPT !.status = status,
                !.body = [part \in Parts |-> IF part # "input" /\ body[part] # {}
                                             THEN Redact(body[part]) ELSE @[part]]]

(***************************************************************************)
(* The row an update has read and means to change.                         *)
(***************************************************************************)
Edit(s, row, new) ==
    /\ pc' = [pc EXCEPT ![s] = "update"]
    /\ loaded' = [loaded EXCEPT ![s] = row]
    /\ draft' = [draft EXCEPT ![s] = new]
    /\ UNCHANGED <<answer, error>>

BeginUpdate(s, t, table, id, status, body) ==
    /\ Open(s, t)
    /\ \/ /\ ~\E row \in rows : row.table = table /\ row.id = id /\ Visible(row, t)
          /\ Raise(s, "not_found")
          /\ UNCHANGED <<draft, loaded>>
       \/ \E row \in rows :
              /\ row.table = table /\ row.id = id /\ Visible(row, t)
              /\ Edit(s, row, Updated(row, status, body))
    /\ UNCHANGED <<runs, rows, hook, asked>>

(***************************************************************************)
(* decide_approval: refused unless the row is pending, or if it has        *)
(* expired (which the rollback undoes, so that it stays pending).  Nothing *)
(* is locked: another session may decide between this read and its flush.  *)
(***************************************************************************)
BeginDecide(s, t, id, verdict) ==
    /\ Open(s, t)
    /\ \/ /\ ~\E row \in rows : row.table = "approvals" /\ row.id = id /\ Visible(row, t)
          /\ Raise(s, "not_found")
          /\ UNCHANGED <<draft, loaded>>
       \/ \E row \in rows :
              /\ row.table = "approvals" /\ row.id = id /\ Visible(row, t)
              /\ \/ Raise(s, "conflict") /\ UNCHANGED <<draft, loaded>>
                 \/ row.status = "pending" /\ Edit(s, row, [row EXCEPT !.status = verdict])
    /\ UNCHANGED <<runs, rows, hook, asked>>

(***************************************************************************)
(* The flush writes the columns whose value differs from the one loaded,   *)
(* whatever another session has written since; the caller gets its copy.   *)
(***************************************************************************)
Merged(row, old, new) ==
    [row EXCEPT !.status = IF new.status # old.status THEN new.status ELSE @,
                !.body = [part \in Parts |-> IF new.body[part] # old.body[part]
                                             THEN new.body[part] ELSE @[part]]]

FlushUpdate(s) ==
    /\ pc[s] = "update"
    /\ \E row \in rows :
           /\ row.table = loaded[s].table /\ row.id = loaded[s].id
           /\ rows' = (rows \ {row}) \cup {Merged(row, loaded[s], draft[s])}
    /\ Answer(s, {draft[s]})
    /\ UNCHANGED <<runs, hook, tenant, draft, loaded, asked, before>>

-----------------------------------------------------------------------------
(***************************************************************************)
(* get_run, list_events, list_approvals: the rows of the run, if it is the *)
(* caller's; get_approval: the row, if it is the caller's.                 *)
(***************************************************************************)
ListRows(s, t, r, table) ==
    /\ Open(s, t)
    /\ IF Owned(r, t) THEN Answer(s, {row \in rows : row.table = table /\ row.run = r})
       ELSE Raise(s, "not_found")
    /\ UNCHANGED <<runs, rows, hook, draft, loaded, asked>>

GetApproval(s, t, id) ==
    LET found == {row \in rows : row.table = "approvals" /\ row.id = id /\ Visible(row, t)} IN
    /\ Open(s, t)
    /\ IF found = {} THEN Raise(s, "not_found") ELSE Answer(s, found)
    /\ UNCHANGED <<runs, rows, hook, draft, loaded, asked>>

(***************************************************************************)
(* create_run makes the row of a run; update_run sets allowed fields only. *)
(***************************************************************************)
CreateRun(r, t) ==
    /\ runs[r].tenant_id = none
    /\ runs' = [runs EXCEPT ![r].tenant_id = t]
    /\ UNCHANGED <<rows, hook, pc, tenant, draft, loaded, answer, error, asked, before>>

Allowed_Tenant == {"status", "tenant_id"}

Allowed == {"status"}

UpdateRun(s, t, r, field, value) ==
    /\ Open(s, t)
    /\ \/ field \notin Allowed /\ Raise(s, "error") /\ UNCHANGED runs
       \/ field \in Allowed /\ ~Owned(r, t) /\ Raise(s, "not_found") /\ UNCHANGED runs
       \/ field \in Allowed /\ Owned(r, t) /\ Answer(s, {}) /\ runs' = [runs EXCEPT ![r][field] = value]
    /\ UNCHANGED <<rows, hook, draft, loaded, asked>>

-----------------------------------------------------------------------------
Insert(s, t) ==
    \E table \in Tables, id \in Ids, body \in Bodies :
        \E r \in RunsFor(table), mark \in Marks(table) :
            BeginInsert(s, t, NewRow(table, t, id, r, mark, body))

Update(s, t) ==
    \E table \in {"tool_invocations", "agent_tasks"}, id \in Ids, status \in Statuses, body \in Bodies :
        BeginUpdate(s, t, table, id, status, body)

Decide(s, t) == \E id \in Ids, verdict \in Verdicts : BeginDecide(s, t, id, verdict)

Read(s, t) ==
    \/ \E r \in Runs, table \in {"approvals", "run_events"} : ListRows(s, t, r, table)
    \/ \E id \in Ids : GetApproval(s, t, id)

RunUpdate(s, t) ==
    \E r \in Runs :
        \/ UpdateRun(s, t, r, "status", "running")
        \/ \E u \in Tenants : UpdateRun(s, t, r, "tenant_id", u)

Rest == (\A s \in Sessions : pc[s] = "answered") /\ UNCHANGED vars

Next ==
    \/ \E s \in Sessions, t \in Tenants :
           Insert(s, t) \/ Update(s, t) \/ Decide(s, t) \/ Read(s, t) \/ RunUpdate(s, t)
    \/ \E s \in Sessions : FlushInsert(s) \/ FlushUpdate(s)
    \/ \E r \in Runs, t \in Tenants : CreateRun(r, t)
    \/ Rest

Spec == Init /\ [][Next]_vars

-----------------------------------------------------------------------------
(***************************************************************************)
(* TenantIsolation: a row belongs to the tenant of its run, for as long as *)
(* both exist, and whatever a method returned to a caller, looked up by    *)
(* run, by identifier or by idempotency key, belongs to the caller's       *)
(* tenant (the module comment of repositories.py).  The one exception is   *)
(* the event an append returns for an event_id already used, which         *)
(* append_event and append_next_event look up by that alone.               *)
(***************************************************************************)
TenantIsolation ==
    /\ \A row \in rows : row.run # none => runs[row.run].tenant_id = row.tenant_id
    /\ \A s \in Sessions : \A row \in answer[s] :
           row.tenant_id = tenant[s] \/ (row.table = "run_events" /\ row.id = asked[s])

(***************************************************************************)
(* NothingSecretStored: with default_redact no invocation, task or audit   *)
(* record holds, in what passed the hook, a text that looks like a secret  *)
(* or stands anywhere below a sensitive name; and no hook lets a text      *)
(* below a sensitive name into the input of an invocation                  *)
(* (_redact_value, _contains_bare_secret_marker).                          *)
(***************************************************************************)
Exposed(leaf) ==
    \/ leaf.value = "secret_like"
    \/ leaf.value = "plain" /\ \E i \in DOMAIN leaf.path : leaf.path[i] \in Sensitive

NothingSecretStored ==
    \A row \in rows :
        /\ hook = "default" /\ row.table # "run_events" =>
               \A part \in {"input", "output"} : \A leaf \in row.body[part] : ~Exposed(leaf)
        /\ row.table = "tool_invocations" => ~BareSecret(row.body["input"])

(***************************************************************************)
(* RowsKept: no method removes a row, moves it to another run, tenant or   *)
(* key or rewrites what it recorded as input; events, findings, evidence,  *)
(* model calls and audit records never change at all ("immutable audit     *)
(* row", models.py); and an approval that was decided, even by two         *)
(* sessions at once, never becomes pending again (decide_approval).        *)
(***************************************************************************)
Changing == {"tool_invocations", "agent_tasks", "approvals"}

SameRow(old, new) ==
    /\ new.table = old.table /\ new.id = old.id /\ new.run = old.run
    /\ new.tenant_id = old.tenant_id /\ new.mark = old.mark
    /\ new.body["input"] = old.body["input"]

Reopened(old, new) ==
    old.table = "approvals" /\ old.status # "pending" /\ new.status = "pending"

RowsKept ==
    [][\A old \in rows : \E new \in rows' :
           /\ SameRow(old, new) /\ ~Reopened(old, new)
           /\ old.table \notin Changing => new = old]_vars

(***************************************************************************)
(* SequentialReplay: a recording that begins after another one with the    *)
(* same run and key was answered with a row adds no row of its own, even   *)
(* if it brings another identifier or two recordings raced before it       *)
(* (record_tool_invocation).  Two that overlap may both insert.            *)
(***************************************************************************)
Recorded(s) == pc[s] = "answered" /\ draft[s] # none /\ draft[s] \in answer[s] /\ loaded[s] = none

SequentialReplay ==
    \A s, q \in Sessions :
        /\ q \in before[s] /\ Recorded(q)
        /\ draft[q].table = "tool_invocations" /\ draft[q].mark # none
        => ~(/\ pc[s] \in {"insert", "answered"} /\ draft[s] # none
             /\ draft[s].table = "tool_invocations"
             /\ draft[s].run = draft[q].run /\ draft[s].mark = draft[q].mark
             /\ loaded[s] = none)

(***************************************************************************)
(* RawNeverStored: "raw payloads are NEVER stored" (repositories.py).      *)
(***************************************************************************)
RawNeverStored ==
    hook = "default" => \A row \in rows : \A part \in Parts : \A leaf \in row.body[part] : ~Exposed(leaf)

(***************************************************************************)
(* ReadsOwnRows: "Tenant isolation" (repositories.py), without exception.  *)
(***************************************************************************)
ReadsOwnRows == \A s \in Sessions : \A row \in answer[s] : row.tenant_id = tenant[s]
=============================================================================
