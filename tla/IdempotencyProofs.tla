-------------------------- MODULE IdempotencyProofs --------------------------
(***************************************************************************)
(* Proofs about the two places that promise idempotency by key: the store  *)
(* of execute_tool (ToolExecutor), for any number of calls, keys and       *)
(* arguments, and create_run (RunCreation), for any number of requests,    *)
(* retries, failures and restarts.                                         *)
(***************************************************************************)
EXTENDS ToolExecutor, TLAPS

Codes == {"none", "ok", "deduplicated"} \cup Errors
Entry == [tool : Tools, key : Keys \cup {NoKey}, input : Bodies \X DryArgs, acted : BOOLEAN]

Typed == /\ req \in [Calls -> Request]
         /\ pc \in [Calls -> {"idle", "handler", "answered"}]
         /\ answer \in [Calls -> Codes]
         /\ acted \in [Calls -> Nat]
         /\ store \subseteq Entry

(***************************************************************************)
(* A call that is not answered has done nothing yet; one that was answered *)
(* "ok" acted if its handler acts, and left an entry under its key; an     *)
(* entry is the work of a call with the same tool, key and input.          *)
(***************************************************************************)
Unanswered == \A c \in Calls : pc[c] # "answered" => answer[c] = "none" /\ acted[c] = 0
ActedRight == \A d \in Calls : answer[d] = "ok" => (acted[d] > 0 <=> HandlerActs(req[d]))
Kept == \A d \in Calls : answer[d] = "ok" /\ Keyed(req[d]) => Entries(req[d]) # {}
Backed == \A e \in store : \E d \in Calls :
              /\ answer[d] = "ok"
              /\ req[d].tool = e.tool /\ req[d].key = e.key /\ InputHash(req[d]) = e.input

Inv == Typed /\ Unanswered /\ ActedRight /\ Kept /\ Backed /\ ReplayIsFaithful

LEMMA InitInv == Init => Inv
<1> SUFFICES ASSUME Init PROVE Inv
    OBVIOUS
<1>1. Typed
    BY CallsAssumption DEF Init, Typed, Codes
<1> QED
    BY <1>1 DEF Init, Inv, Unanswered, ActedRight, Kept, Backed, ReplayIsFaithful

(***************************************************************************)
(* Whether the handler acts depends on the tool and the hashed input only: *)
(* redaction leaves dry_run as it was sent.                                *)
(***************************************************************************)
LEMMA HashTells ==
    ASSUME NEW r \in Request, NEW q \in Request, r.tool = q.tool, InputHash(r) = InputHash(q)
    PROVE  HandlerActs(r) <=> HandlerActs(q)
BY DEF InputHash, HandlerActs

(***************************************************************************)
(* What a step does to the call that takes it: it is answered, with "ok"   *)
(* only by Finish, and the other calls are left alone.                     *)
(***************************************************************************)
LEMMA AnswerMoves ==
    ASSUME Typed, NEW c \in Calls, NEW code \in Codes, NEW decision, NEW status,
           Answered(c, code, decision, status)
    PROVE  /\ pc' \in [Calls -> {"idle", "handler", "answered"}] /\ pc'[c] = "answered"
           /\ answer' \in [Calls -> Codes] /\ answer'[c] = code
           /\ \A d \in Calls \ {c} : pc'[d] = pc[d] /\ answer'[d] = answer[d]
BY DEF Answered, Typed

LEMMA GateCodes == ASSUME NEW r PROVE Gate(r) \in {"none"} \cup Errors
BY DEF Gate, Errors

(***************************************************************************)
(* A step that answers anything but "ok" and does not touch the store.     *)
(***************************************************************************)
LEMMA PlainAnswer ==
    ASSUME Inv, NEW c \in Calls, NEW code \in Codes \ {"none", "ok"}, NEW decision, NEW status,
           pc[c] # "answered", Answered(c, code, decision, status), UNCHANGED <<req, store, acted>>,
           code = "deduplicated" =>
               \E e \in store : Keyed(req[c]) /\ e.tool = req[c].tool /\ e.key = req[c].key
                                /\ e.input = InputHash(req[c])
    PROVE  Inv'
<1>1. /\ pc' \in [Calls -> {"idle", "handler", "answered"}] /\ pc'[c] = "answered"
      /\ answer' \in [Calls -> Codes] /\ answer'[c] = code
      /\ \A d \in Calls \ {c} : pc'[d] = pc[d] /\ answer'[d] = answer[d]
    BY AnswerMoves DEF Inv
<1>2. answer[c] = "none"
    BY DEF Inv, Unanswered
<1>3. \A d \in Calls : answer'[d] = "ok" <=> answer[d] = "ok"
    BY <1>1, <1>2
<1>4. Typed'
    BY <1>1 DEF Inv, Typed
<1>5. Unanswered' /\ ActedRight'
    BY <1>1, <1>3 DEF Inv, Unanswered, ActedRight
<1>6. Kept' /\ Backed'
    BY <1>1, <1>3 DEF Inv, Kept, Backed, Entries
<1>7. ASSUME code = "deduplicated"
      PROVE  \E d \in Calls \ {c} :
                 /\ answer[d] = "ok" /\ SameKey(c, d)
                 /\ Redact[req[d].body] = Redact[req[c].body]
                 /\ acted[d] > 0 <=> HandlerActs(req[c])
    <2>1. PICK e \in store : Keyed(req[c]) /\ e.tool = req[c].tool /\ e.key = req[c].key
                             /\ e.input = InputHash(req[c])
        BY <1>7
    <2>2. PICK d \in Calls : /\ answer[d] = "ok"
                             /\ req[d].tool = e.tool /\ req[d].key = e.key
                             /\ InputHash(req[d]) = e.input
        BY DEF Inv, Backed
    <2>3. d # c
        BY <1>2, <2>2
    <2>4. HandlerActs(req[d]) <=> HandlerActs(req[c])
        BY <2>1, <2>2, HashTells DEF Inv, Typed
    <2>5. SameKey(c, d) /\ Redact[req[d].body] = Redact[req[c].body]
        BY <2>1, <2>2 DEF SameKey, InputHash
    <2>6. acted[d] > 0 <=> HandlerActs(req[c])
        BY <2>2, <2>4 DEF Inv, ActedRight
    <2> QED
        BY <2>2, <2>3, <2>5, <2>6
<1>8. ReplayIsFaithful'
    <2> SUFFICES ASSUME NEW x \in Calls, answer'[x] = "deduplicated"
                 PROVE  \E d \in Calls \ {x} :
                            /\ answer[d] = "ok" /\ SameKey(x, d)
                            /\ Redact[req[d].body] = Redact[req[x].body]
                            /\ acted[d] > 0 <=> HandlerActs(req[x])
        BY <1>3 DEF ReplayIsFaithful, SameKey
    <2>1. CASE x = c
        BY <1>1, <1>7, <2>1
    <2>2. CASE x # c
        BY <1>1, <2>2 DEF Inv, ReplayIsFaithful
    <2> QED
        BY <2>1, <2>2
<1> QED
    BY <1>4, <1>5, <1>6, <1>8 DEF Inv

LEMMA BeginInv ==
    ASSUME Inv, NEW c \in Calls, Begin(c)
    PROVE  Inv'
<1>1. /\ pc' \in [Calls -> {"idle", "handler", "answered"}]
      /\ \A d \in Calls : pc'[d] = "answered" <=> pc[d] = "answered"
    BY DEF Begin, Inv, Typed
<1>2. UNCHANGED <<req, answer, store, acted>>
    BY DEF Begin
<1>3. Typed' /\ Unanswered' /\ ActedRight'
    BY <1>1, <1>2 DEF Inv, Typed, Unanswered, ActedRight
<1>4. Kept' /\ Backed' /\ ReplayIsFaithful'
    BY <1>2 DEF Inv, Kept, Backed, ReplayIsFaithful, Entries, SameKey
<1> QED
    BY <1>3, <1>4 DEF Inv

LEMMA FinishInv ==
    ASSUME Inv, NEW c \in Calls, Finish(c)
    PROVE  Inv'
<1> DEFINE r == req[c]
           new == [tool |-> r.tool, key |-> r.key, input |-> InputHash(r), acted |-> HandlerActs(r)]
<1>1. /\ pc' \in [Calls -> {"idle", "handler", "answered"}] /\ pc'[c] = "answered"
      /\ answer' \in [Calls -> Codes] /\ answer'[c] = "ok"
      /\ \A d \in Calls \ {c} : pc'[d] = pc[d] /\ answer'[d] = answer[d]
    BY AnswerMoves DEF Inv, Finish, Codes
<1>2. req' = req /\ r \in Request /\ pc[c] = "handler" /\ answer[c] = "none" /\ acted[c] = 0
    BY DEF Finish, Inv, Typed, Unanswered
<1>3. /\ acted' \in [Calls -> Nat]
      /\ acted'[c] > 0 <=> HandlerActs(r)
      /\ \A d \in Calls \ {c} : acted'[d] = acted[d]
    BY <1>2 DEF Finish, Inv, Typed
<1>4. store' = IF Stores(r) THEN store \cup {new} ELSE store
    BY DEF Finish
<1>5. new \in Entry
    BY <1>2, CallsAssumption DEF Entry, Request, InputHash, HandlerActs
<1> HIDE DEF new, r
<1>6. Typed'
    BY <1>1, <1>2, <1>3, <1>4, <1>5 DEF Inv, Typed
<1>7. Unanswered' /\ ActedRight'
    BY <1>1, <1>2, <1>3 DEF Inv, Unanswered, ActedRight, r
<1>8. Kept'
    <2> SUFFICES ASSUME NEW d \in Calls, answer'[d] = "ok", Keyed(req[d])
                 PROVE  Entries(req[d])' # {}
        BY <1>2 DEF Kept
    <2>1. store \subseteq store'
        BY <1>4
    <2>2. CASE d # c
        BY <1>1, <1>2, <2>1, <2>2 DEF Inv, Kept, Entries
    <2>3. CASE d = c /\ Entries(r) # {}
        BY <1>2, <2>1, <2>3 DEF Entries, r
    <2>4. CASE d = c /\ Entries(r) = {}
        <3>1. new \in store'
            BY <1>4, <2>4 DEF Stores, r
        <3>2. new.tool = req[d].tool /\ new.key = req[d].key
            BY <2>4 DEF new, r
        <3> QED
            BY <1>2, <3>1, <3>2 DEF Entries
    <2> QED
        BY <2>2, <2>3, <2>4
<1>9. Backed'
    <2> SUFFICES ASSUME NEW e \in store'
                 PROVE  \E d \in Calls :
                            /\ answer'[d] = "ok"
                            /\ req[d].tool = e.tool /\ req[d].key = e.key
                            /\ InputHash(req[d]) = e.input
        BY <1>2 DEF Backed, InputHash
    <2>1. CASE e \in store
        <3>1. PICK d \in Calls : /\ answer[d] = "ok"
                                 /\ req[d].tool = e.tool /\ req[d].key = e.key
                                 /\ InputHash(req[d]) = e.input
            BY <2>1 DEF Inv, Backed
        <3>2. answer'[d] = "ok"
            BY <1>1, <3>1
        <3> QED
            BY <3>1, <3>2
    <2>2. CASE e = new
        <3>1. req[c].tool = e.tool /\ req[c].key = e.key /\ InputHash(req[c]) = e.input
            BY <2>2 DEF new, r
        <3> QED
            BY <1>1, <3>1
    <2> QED
        BY <1>4, <2>1, <2>2
<1>10. ReplayIsFaithful'
    <2> SUFFICES ASSUME NEW x \in Calls, answer'[x] = "deduplicated"
                 PROVE  \E d \in Calls \ {x} :
                            /\ answer'[d] = "ok" /\ SameKey(x, d)
                            /\ Redact[req[d].body] = Redact[req[x].body]
                            /\ acted'[d] > 0 <=> HandlerActs(req[x])
        BY <1>2 DEF ReplayIsFaithful, SameKey
    <2>1. answer[x] = "deduplicated"
        BY <1>1
    <2>2. PICK d \in Calls \ {x} : /\ answer[d] = "ok" /\ SameKey(x, d)
                                   /\ Redact[req[d].body] = Redact[req[x].body]
                                   /\ acted[d] > 0 <=> HandlerActs(req[x])
        BY <2>1 DEF Inv, ReplayIsFaithful
    <2>3. d # c
        BY <1>2, <2>2
    <2> QED
        BY <1>1, <1>3, <2>2, <2>3
<1> QED
    BY <1>6, <1>7, <1>8, <1>9, <1>10 DEF Inv

LEMMA StepInv ==
    ASSUME Inv, [Next]_vars
    PROVE  Inv'
<1>1. ASSUME NEW c \in Calls, Reject(c) PROVE Inv'
    BY <1>1, GateCodes, PlainAnswer DEF Reject, Codes, Errors
<1>2. ASSUME NEW c \in Calls, Deduplicate(c) PROVE Inv'
    <2>1. PICK e \in Entries(req[c]) :
              IF SameInput(e, req[c])
              THEN Answered(c, "deduplicated", "allowed", "succeeded")
              ELSE Answered(c, "conflict", "allowed", "failed")
        BY <1>2 DEF Deduplicate
    <2>2. pc[c] # "answered" /\ Keyed(req[c]) /\ UNCHANGED <<req, store, acted>>
        BY <1>2 DEF Deduplicate
    <2>3. e \in store /\ e.tool = req[c].tool /\ e.key = req[c].key
        BY DEF Entries
    <2>4. CASE SameInput(e, req[c])
        BY <2>1, <2>2, <2>3, <2>4, PlainAnswer DEF SameInput, Codes
    <2>5. CASE ~SameInput(e, req[c])
        BY <2>1, <2>2, <2>5, PlainAnswer DEF Codes, Errors
    <2> QED
        BY <2>4, <2>5
<1>3. ASSUME NEW c \in Calls, TimesOut(c) PROVE Inv'
    BY <1>3, PlainAnswer DEF TimesOut, Codes, Errors
<1>4. ASSUME NEW c \in Calls, Oversize(c) PROVE Inv'
    BY <1>4, PlainAnswer DEF Oversize, Codes, Errors
<1>5. CASE UNCHANGED vars
    BY <1>5 DEF vars, Inv, Typed, Unanswered, ActedRight, Kept, Backed, ReplayIsFaithful,
                Entries, SameKey
<1> QED
    BY <1>1, <1>2, <1>3, <1>4, <1>5, BeginInv, FinishInv DEF Next, Rest

(***************************************************************************)
(* ReplaysAreFaithful: Spec => []ReplayIsFaithful: whatever calls time     *)
(* out, conflict or run side by side, and whatever redaction merges, a     *)
(* deduplicated answer of execute_tool repeats a call with the same tool   *)
(* and key whose redacted arguments and effect are the same.               *)
(***************************************************************************)
THEOREM ReplaysAreFaithful == Spec => []ReplayIsFaithful
<1>1. Inv /\ [Next]_vars => Inv'
    BY StepInv
<1>2. Inv => ReplayIsFaithful
    BY DEF Inv
<1> QED
    BY <1>1, <1>2, InitInv, PTL DEF Spec

(***************************************************************************)
(* SuccessIsNotRepeated: Spec => NoRepeatAfterSuccess: after a success     *)
(* under a key no call with that tool and key reaches its handler.         *)
(***************************************************************************)
THEOREM SuccessIsNotRepeated == Spec => NoRepeatAfterSuccess
<1> DEFINE NotRepeated == \A c, d \in Calls :
               answer[d] = "ok" /\ SameKey(c, d) /\ pc[c] = "idle" => pc'[c] # "handler"
<1>1. ASSUME Inv, [Next]_vars PROVE NotRepeated
    <2> SUFFICES ASSUME NEW c \in Calls, NEW d \in Calls,
                        answer[d] = "ok", SameKey(c, d), pc[c] = "idle"
                 PROVE  pc'[c] # "handler"
        OBVIOUS
    <2>1. Keyed(req[c]) /\ Entries(req[c]) # {}
        BY <1>1 DEF SameKey, Keyed, Inv, Kept, Entries
    <2>2. pc \in [Calls -> {"idle", "handler", "answered"}]
        BY <1>1 DEF Inv, Typed
    <2>3. ASSUME NEW x \in Calls, Begin(x) PROVE pc'[c] # "handler"
        <3>1. x # c
            BY <2>1, <2>3 DEF Begin
        <3> QED
            BY <2>2, <2>3, <3>1 DEF Begin
    <2>4. ASSUME NEW x \in Calls, pc' = [pc EXCEPT ![x] = "answered"] PROVE pc'[c] # "handler"
        BY <2>2, <2>4
    <2>5. CASE UNCHANGED vars
        BY <2>5 DEF vars
    <2> QED
        BY <1>1, <2>3, <2>4, <2>5
           DEF Next, Reject, Deduplicate, Finish, TimesOut, Oversize, Answered, Rest
<1>2. Inv /\ [Next]_vars => [NotRepeated]_vars
    BY <1>1
<1>3. Inv /\ [Next]_vars => Inv'
    BY StepInv
<1> QED
    BY <1>2, <1>3, InitInv, PTL DEF Spec, NoRepeatAfterSuccess

-----------------------------------------------------------------------------
(***************************************************************************)
(* create_run.  The places and answers of its requests get names of their  *)
(* own here.                                                               *)
(***************************************************************************)
CONSTANTS Creates, MaxFailures, MaxRetries
VARIABLES place, runs, queued, executed, given, failures, retries

Create == INSTANCE RunCreation WITH Requests <- Creates, pc <- place, answer <- given

CreatePlaces == {"idle", "insert", "event", "dispatch", "answered", "failed"}

(***************************************************************************)
(* A request past its INSERT has its row, rows are never deleted, and an   *)
(* answered request found a row or made one.                               *)
(***************************************************************************)
RowFirst ==
    /\ place \in [Creates -> CreatePlaces]
    /\ \A r \in Creates : place[r] \in {"event", "dispatch"} => r \in runs
    /\ \A r \in Creates : place[r] = "answered" => runs # {}

LEMMA RowFirstStep ==
    ASSUME RowFirst, [Create!Next]_Create!vars
    PROVE  RowFirst'
<1> USE DEF CreatePlaces
<1>1. ASSUME NEW r \in Creates, Create!Lookup(r) PROVE RowFirst'
    BY <1>1 DEF RowFirst, Create!Lookup, Create!Existing, Create!Goto
<1>2. ASSUME NEW r \in Creates, Create!Insert(r) PROVE RowFirst'
    BY <1>2 DEF RowFirst, Create!Insert, Create!Goto
<1>3. ASSUME NEW r \in Creates, Create!AppendStarted(r) PROVE RowFirst'
    BY <1>3 DEF RowFirst, Create!AppendStarted, Create!Goto
<1>4. ASSUME NEW r \in Creates, Create!AppendFails(r) PROVE RowFirst'
    BY <1>4 DEF RowFirst, Create!AppendFails, Create!Goto
<1>5. ASSUME NEW r \in Creates, Create!Dispatch(r) PROVE RowFirst'
    BY <1>5 DEF RowFirst, Create!Dispatch, Create!Goto
<1>6. ASSUME NEW r \in Creates, Create!Retry(r) PROVE RowFirst'
    BY <1>6 DEF RowFirst, Create!Retry, Create!Goto
<1>7. ASSUME NEW r \in Creates, Create!ExecuteRun(r) PROVE RowFirst'
    BY <1>7 DEF RowFirst, Create!ExecuteRun
<1>8. CASE Create!Restart
    BY <1>8 DEF RowFirst, Create!Restart
<1>9. CASE UNCHANGED Create!vars
    BY <1>9 DEF RowFirst, Create!vars
<1> QED
    BY <1>1, <1>2, <1>3, <1>4, <1>5, <1>6, <1>7, <1>8, <1>9
       DEF Create!Next, Create!Handle, Create!Rest

(***************************************************************************)
(* NoSecondRun: RunCreation's Spec => NoRunAfterAnswer: after a 202 under  *)
(* a key no request with it sets out to create another run, whatever       *)
(* failed, was repeated or was lost with the process.                      *)
(***************************************************************************)
THEOREM NoSecondRun == Create!Spec => Create!NoRunAfterAnswer
<1> DEFINE NoneAfter == \A r \in Creates :
               place[r] = "idle" /\ place'[r] = "insert"
                   => \A q \in Creates : place[q] # "answered"
<1>1. Create!Init => RowFirst
    BY DEF Create!Init, RowFirst, CreatePlaces
<1>2. RowFirst /\ [Create!Next]_Create!vars => RowFirst'
    BY RowFirstStep
<1>3. ASSUME RowFirst, [Create!Next]_Create!vars PROVE NoneAfter
    <2> SUFFICES ASSUME NEW r \in Creates, place[r] = "idle", place'[r] = "insert"
                 PROVE  runs = {}
        BY <1>3 DEF RowFirst
    <2>1. place \in [Creates -> CreatePlaces]
        BY <1>3 DEF RowFirst
    <2>2. PICK x \in Creates : Create!Lookup(x)
        BY <1>3, <2>1
           DEF CreatePlaces, Create!Next, Create!Handle, Create!Insert, Create!AppendStarted,
               Create!AppendFails, Create!Dispatch, Create!Retry, Create!ExecuteRun,
               Create!Restart, Create!Rest, Create!Goto, Create!vars
    <2> QED
        BY <2>1, <2>2 DEF Create!Lookup, Create!Existing, Create!Goto
<1>4. RowFirst /\ [Create!Next]_Create!vars => [NoneAfter]_Create!vars
    BY <1>3
<1> QED
    BY <1>1, <1>2, <1>4, PTL DEF Create!Spec, Create!NoRunAfterAnswer
=============================================================================
