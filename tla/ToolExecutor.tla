----------------------------- MODULE ToolExecutor -----------------------------
(***************************************************************************)
(* execute_tool of the MCP gateway (apps/mcp_server/executor.py):          *)
(* authorisation, validation, the gate before write tools, the idempotency *)
(* store and the audit log, for calls that interleave on one event loop.   *)
(* The loop is given up only while a handler is awaited: what comes before *)
(* the await is one step, what comes after it another.                     *)
(***************************************************************************)
EXTENDS Integers, FiniteSets

CONSTANTS
    Calls,      \* invocations of tools
    Keys,       \* idempotency keys
    Bodies,     \* arguments other than dry_run
    Redact,     \* what redact makes of them; it may merge different ones
    Requests    \* the requests a call may come with

ReadTools == {"service.get_health"}
WriteTools == {"ticket.create", "deployment.rollback"}
Tools == ReadTools \cup WriteTools
NoKey == "none"

(***************************************************************************)
(* The dry_run argument as the client sent it, if it did: a JSON true or   *)
(* false, or text such as "false" or "0", which the input model reads as   *)
(* False.                                                                  *)
(***************************************************************************)
DryArgs == {"absent", "true", "false", "text"}

Grant == [permitted : BOOLEAN, valid : BOOLEAN, approved : BOOLEAN]
Request == [tool : Tools, body : Bodies, dry : DryArgs, key : Keys \cup {NoKey}, grant : Grant]

ASSUME CallsAssumption == /\ NoKey \notin Keys
                          /\ Redact \in [Bodies -> Bodies]
                          /\ Requests \subseteq Request

Errors == {"forbidden", "validation_error", "approval_required", "conflict", "timeout", "tool_error"}
AuthDecisions == {"allowed", "denied", "requires_approval"}

VARIABLES
    req,        \* the request of each call
    pc,         \* each call: idle, handler, answered
    answer,     \* none, ok, deduplicated or an error code
    store,      \* IDEMPOTENCY_STORE: entries [tool, key, input, acted]
    acted,      \* how often the handler of a call really acted
    audit       \* AUDIT_LOG: records [call, decision, status]

vars == <<req, pc, answer, store, acted, audit>>

Init ==
    /\ req \in [Calls -> Requests]
    /\ pc = [c \in Calls |-> "idle"]
    /\ answer = [c \in Calls |-> "none"]
    /\ store = {} /\ audit = {}
    /\ acted = [c \in Calls |-> 0]

(***************************************************************************)
(* sha256_hex of the redacted arguments: of the texts, what redact leaves  *)
(* (an e-mail address, a phone number, a token or a sensitive key is gone) *)
(* and dry_run as it was sent.                                             *)
(***************************************************************************)
InputHash_NoFlag(r) == <<Redact[r.body], "absent">>

InputHash(r) == <<Redact[r.body], r.dry>>

(***************************************************************************)
(* What the gate takes for a dry run: bool() of what was sent, by default  *)
(* True; a text is true.                                                   *)
(***************************************************************************)
GateDryRun(r) == r.dry # "false"

(***************************************************************************)
(* What the handler takes for one: what the input model made of it, by     *)
(* default False for ticket.create; deployment.rollback never acts.        *)
(***************************************************************************)
HandlerActs(r) == /\ r.tool = "ticket.create"
                  /\ r.dry # "true"

Entries(r) == {e \in store : e.tool = r.tool /\ e.key = r.key}

Answered(c, code, decision, status) ==
    /\ pc' = [pc EXCEPT ![c] = "answered"]
    /\ answer' = [answer EXCEPT ![c] = code]
    /\ audit' = audit \cup {[call |-> c, decision |-> decision, status |-> status]}

-----------------------------------------------------------------------------
(***************************************************************************)
(* The checks, in the order of the code; "none" lets the call pass.        *)
(***************************************************************************)
Gate(r) ==
    CASE ~r.grant.permitted -> "forbidden"
      [] ~r.grant.valid -> "validation_error"
      [] r.tool \in ReadTools -> "none"
      [] ~GateDryRun(r) /\ ~r.grant.approved -> "approval_required"
      [] ~GateDryRun(r) /\ r.key = NoKey -> "validation_error"
      [] OTHER -> "none"

Reject(c) ==
    /\ pc[c] = "idle"
    /\ Gate(req[c]) # "none"
    /\ Answered(c, Gate(req[c]),
                CASE Gate(req[c]) = "forbidden" -> "denied"
                  [] Gate(req[c]) = "approval_required" -> "requires_approval"
                  [] OTHER -> "allowed",
                "failed")
    /\ UNCHANGED <<req, store, acted>>

Keyed(r) == r.tool \in WriteTools /\ r.key # NoKey

(***************************************************************************)
(* An entry for the tool and key: its result again, or a conflict.         *)
(***************************************************************************)
SameInput(e, r) == e.input = InputHash(r)

Deduplicate(c) ==
    /\ pc[c] = "idle"
    /\ Gate(req[c]) = "none"
    /\ Keyed(req[c])
    /\ \E e \in Entries(req[c]) :
         IF SameInput(e, req[c])
         THEN Answered(c, "deduplicated", "allowed", "succeeded")
         ELSE Answered(c, "conflict", "allowed", "failed")
    /\ UNCHANGED <<req, store, acted>>

Begin(c) ==
    /\ pc[c] = "idle"
    /\ Gate(req[c]) = "none"
    /\ Keyed(req[c]) => Entries(req[c]) = {}
    /\ pc' = [pc EXCEPT ![c] = "handler"]
    /\ UNCHANGED <<req, answer, store, acted, audit>>

(***************************************************************************)
(* The handler returns; the first result under a key is kept.              *)
(***************************************************************************)
Stores_DryRunOnly(r) == Keyed(r) /\ Entries(r) = {} /\ r.dry = "true"

Stores(r) == Keyed(r) /\ Entries(r) = {}

Finish(c) ==
    LET r == req[c] IN
    /\ pc[c] = "handler"
    /\ acted' = [acted EXCEPT ![c] = IF HandlerActs(r) THEN @ + 1 ELSE @]
    /\ store' = IF Stores(r)
                THEN store \cup {[tool |-> r.tool, key |-> r.key, input |-> InputHash(r),
                                  acted |-> HandlerActs(r)]}
                ELSE store
    /\ Answered(c, "ok", "allowed", "succeeded")
    /\ UNCHANGED req

(***************************************************************************)
(* wait_for gives up while the handler is suspended, before it has acted.  *)
(***************************************************************************)
TimesOut(c) ==
    /\ pc[c] = "handler"
    /\ Answered(c, "timeout", "allowed", "timeout")
    /\ UNCHANGED <<req, store, acted>>

(***************************************************************************)
(* The result of a read is too large.                                      *)
(***************************************************************************)
Oversize(c) ==
    /\ pc[c] = "handler"
    /\ req[c].tool \in ReadTools
    /\ Answered(c, "tool_error", "allowed", "failed")
    /\ UNCHANGED <<req, store, acted>>

Rest == (\A c \in Calls : pc[c] = "answered") /\ UNCHANGED vars

Next == \/ \E c \in Calls : \/ Reject(c) \/ Deduplicate(c) \/ Begin(c)
                            \/ Finish(c) \/ TimesOut(c) \/ Oversize(c)
        \/ Rest

Spec == Init /\ [][Next]_vars

-----------------------------------------------------------------------------
SameKey(c, d) == Keyed(req[c]) /\ req[c].tool = req[d].tool /\ req[c].key = req[d].key

(***************************************************************************)
(* NoRepeatAfterSuccess: once a write was answered with success under a    *)
(* key, no call with that tool and key reaches the handler any more,       *)
(* whatever calls timed out, conflicted or ran side by side before         *)
(* (execute_tool's idempotency store).                                     *)
(***************************************************************************)
NoRepeatAfterSuccess ==
    [][\A c, d \in Calls : answer[d] = "ok" /\ SameKey(c, d) /\ pc[c] = "idle"
                               => pc'[c] # "handler"]_vars

(***************************************************************************)
(* ReplayIsFaithful: a deduplicated answer repeats what another call with  *)
(* the same tool and key did, whose arguments are the same once redacted;  *)
(* a dry run is never passed off as the real call, nor the other way round *)
(* (execute_tool's hash check).                                            *)
(***************************************************************************)
ReplayIsFaithful ==
    \A c \in Calls : answer[c] = "deduplicated" =>
        \E d \in Calls \ {c} :
            /\ answer[d] = "ok" /\ SameKey(c, d)
            /\ Redact[req[d].body] = Redact[req[c].body]
            /\ acted[d] > 0 <=> HandlerActs(req[c])

(***************************************************************************)
(* ConflictOnOtherInput: "idempotency key already used with different      *)
(* input" (the conflict of execute_tool): a deduplicated answer is for the *)
(* arguments of an earlier call, not for others.                           *)
(***************************************************************************)
ConflictOnOtherInput ==
    \A c \in Calls : answer[c] = "deduplicated" =>
        \E d \in Calls \ {c} : answer[d] = "ok" /\ SameKey(c, d) /\ req[d].body = req[c].body

(***************************************************************************)
(* EffectOncePerKey: "idempotency key" on every write (mcp-catalog.md): a  *)
(* write under one key acts once.                                          *)
(***************************************************************************)
EffectOncePerKey ==
    \A c, d \in Calls : c # d /\ SameKey(c, d) => acted[c] + acted[d] <= 1

(***************************************************************************)
(* EffectNeedsApproval: writes are "never auto", approval "yes"            *)
(* (mcp-catalog.md): a call that acts was approved.                        *)
(***************************************************************************)
EffectNeedsApproval == \A c \in Calls : acted[c] > 0 => req[c].grant.approved
=============================================================================
