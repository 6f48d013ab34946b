--------------------------- MODULE RepositoryProofs ---------------------------
(***************************************************************************)
(* Proofs about Repository, for any tenants, runs and payloads and any     *)
(* number of concurrent sessions.                                          *)
(***************************************************************************)
EXTENDS Repository, TLAPS

Typed ==
    /\ runs \in [Runs -> [tenant_id : Tenants \cup {none}, status : {"created", "running"}]]
    /\ rows \subseteq Row
    /\ pc \in [Sessions -> {"idle", "insert", "update", "answered"}]
    /\ tenant \in [Sessions -> Tenants \cup {none}]
    /\ draft \in [Sessions -> Row \cup {none}] /\ loaded \in [Sessions -> Row \cup {none}]
    /\ answer \in [Sessions -> SUBSET Row]
    /\ asked \in [Sessions -> Ids \cup {none}]
    /\ before \in [Sessions -> SUBSET Sessions]

(***************************************************************************)
(* What holds of a row from the moment a session drafts it: only an audit  *)
(* record is without a run, its run belongs to its tenant, and nothing     *)
(* secret is in it.                                                        *)
(***************************************************************************)
Placed(row) == row.table # "audit_records" => row.run # none
OfItsRun(row) == row.run # none => runs[row.run].tenant_id = row.tenant_id
Clean(row) ==
    /\ hook = "default" /\ row.table # "run_events" =>
           \A part \in {"input", "output"} : \A leaf \in row.body[part] : ~Exposed(leaf)
    /\ row.table = "tool_invocations" => ~BareSecret(row.body["input"])
Sound(row) == row \in Row /\ Placed(row) /\ OfItsRun(row) /\ Clean(row)

(***************************************************************************)
(* Redaction.                                                              *)
(***************************************************************************)
LEMMA RedactLeaf ==
    ASSUME NEW leaf \in Leaves
    PROVE  RedactValue(leaf) \in Leaves /\ ~Exposed(RedactValue(leaf))
<1>1. CASE leaf.value \in Texts /\ (SensitivePath(leaf.path) \/ leaf.value = "secret_like")
    <2>1. RedactValue(leaf) = [leaf EXCEPT !.value = "masked"]
        BY <1>1 DEF RedactValue
    <2>2. RedactValue(leaf) \in Leaves /\ RedactValue(leaf).value = "masked"
        BY <2>1 DEF Leaves, Texts
    <2> QED
        BY <2>2 DEF Exposed
<1>2. CASE ~(leaf.value \in Texts /\ (SensitivePath(leaf.path) \/ leaf.value = "secret_like"))
    <2>1. RedactValue(leaf) = leaf
        BY <1>2 DEF RedactValue
    <2>2. ~Exposed(leaf)
        BY <1>2 DEF Exposed, SensitivePath, Texts
    <2> QED
        BY <2>1, <2>2
<1> QED
    BY <1>1, <1>2

LEMMA RedactPayload ==
    ASSUME NEW payload \in SUBSET Leaves
    PROVE  /\ Redact(payload) \subseteq Leaves
           /\ hook = "default" => \A leaf \in Redact(payload) : ~Exposed(leaf)
<1>1. CASE hook = "default"
    <2>1. Redact(payload) = {RedactValue(leaf) : leaf \in payload}
        BY <1>1 DEF Redact
    <2> QED
        BY <2>1, RedactLeaf
<1>2. CASE hook # "default"
    BY <1>2 DEF Redact
<1> QED
    BY <1>1, <1>2

LEMMA StoredBody ==
    ASSUME NEW table \in Tables, NEW body \in Bodies
    PROVE  /\ Stored(table, body) \in [Parts -> SUBSET Leaves]
           /\ hook = "default" /\ table # "run_events" =>
                  \A part \in {"input", "output"} : \A leaf \in Stored(table, body)[part] : ~Exposed(leaf)
<1>1. \A part \in Parts : body[part] \in SUBSET Leaves
    BY RepositoryAssumption
<1>2. \A part \in Parts :
          Stored(table, body)[part] \in {{}, body[part], Redact(body[part])}
    BY DEF Stored
<1>3. \A part \in Parts : Stored(table, body)[part] \in SUBSET Leaves
    BY <1>1, <1>2, RedactPayload
<1>4. Stored(table, body) \in [Parts -> SUBSET Leaves]
    BY <1>3 DEF Stored
<1>5. ASSUME table # "run_events", NEW part \in {"input", "output"}
      PROVE  Stored(table, body)[part] \in {{}, Redact(body[part])}
    BY <1>5 DEF Stored, Parts
<1>6. ASSUME hook = "default", table # "run_events", NEW part \in {"input", "output"},
             NEW leaf \in Stored(table, body)[part]
      PROVE  ~Exposed(leaf)
    BY <1>1, <1>5, <1>6, RedactPayload DEF Parts
<1> QED
    BY <1>4, <1>6

LEMMA NewRowSound ==
    ASSUME NEW table \in Tables, NEW t \in Tenants, NEW id \in Ids, NEW r \in RunsFor(table),
           NEW mark \in Marks(table), NEW body \in Bodies,
           r # none => Owned(r, t),
           table = "tool_invocations" =>
               ~BareSecret(NewRow(table, t, id, r, mark, body).body["input"])
    PROVE  Sound(NewRow(table, t, id, r, mark, body))
<1> DEFINE row == NewRow(table, t, id, r, mark, body)
<1>1. mark \in Keys \cup {none, 0} /\ r \in Runs \cup {none}
    BY DEF Marks, RunsFor
<1>2. /\ row.table = table /\ row.id = id /\ row.run = r /\ row.tenant_id = t
      /\ row.body = Stored(table, body)
    BY DEF NewRow
<1>3. row \in Row
    BY <1>1, StoredBody DEF NewRow, Row
<1>4. Placed(row)
    BY <1>2, RepositoryAssumption DEF Placed, RunsFor
<1>5. OfItsRun(row)
    BY <1>2 DEF OfItsRun, Owned
<1>6. Clean(row)
    BY <1>2, StoredBody DEF Clean
<1> QED
    BY <1>3, <1>4, <1>5, <1>6 DEF Sound

(***************************************************************************)
(* What an update drafts and what its flush writes keep the row what it    *)
(* was, but for its status, output and error.                              *)
(***************************************************************************)
LEMMA UpdatedSound ==
    ASSUME NEW row, Sound(row), NEW status \in Statuses, NEW body \in Bodies
    PROVE  Sound(Updated(row, status, body)) /\ SameRow(row, Updated(row, status, body))
<1> DEFINE new == Updated(row, status, body)
<1>1. row \in Row /\ \A part \in Parts : body[part] \in SUBSET Leaves
    BY RepositoryAssumption DEF Sound
<1>2. row.body \in [Parts -> SUBSET Leaves]
    BY <1>1 DEF Row
<1> DEFINE changed == [part \in Parts |-> IF part # "input" /\ body[part] # {}
                                           THEN Redact(body[part]) ELSE row.body[part]]
<1>3. new = [row EXCEPT !.status = status, !.body = changed]
    BY DEF Updated
<1>4. changed \in [Parts -> SUBSET Leaves]
    BY <1>1, <1>2, RedactPayload
<1>5. changed["input"] = row.body["input"] /\ changed["output"] \in {row.body["output"], Redact(body["output"])}
    BY DEF Parts
<1>6. hook = "default" => \A leaf \in Redact(body["output"]) : ~Exposed(leaf)
    BY <1>1, RedactPayload DEF Parts
<1> HIDE DEF changed, new
<1>7. new \in Row
    BY <1>1, <1>3, <1>4 DEF Row
<1>8. /\ new.table = row.table /\ new.id = row.id /\ new.run = row.run
      /\ new.tenant_id = row.tenant_id /\ new.mark = row.mark /\ new.body = changed
    BY <1>1, <1>3 DEF Row
<1>9. SameRow(row, new)
    BY <1>5, <1>8 DEF SameRow
<1>10. Placed(new) /\ OfItsRun(new)
    BY <1>8 DEF Sound, Placed, OfItsRun
<1>11. Clean(new)
    BY <1>5, <1>6, <1>8 DEF Sound, Clean
<1> QED
    BY <1>7, <1>9, <1>10, <1>11 DEF Sound, new

LEMMA MergedSound ==
    ASSUME NEW row, Sound(row), NEW old, NEW new, Sound(new), SameRow(old, new),
           row.table = old.table
    PROVE  /\ Sound(Merged(row, old, new)) /\ SameRow(row, Merged(row, old, new))
           /\ Merged(row, old, new).status \in {row.status, new.status}
<1> DEFINE written == Merged(row, old, new)
           status == IF new.status # old.status THEN new.status ELSE row.status
           body == [part \in Parts |-> IF new.body[part] # old.body[part]
                                        THEN new.body[part] ELSE row.body[part]]
<1>1. row \in Row /\ new \in Row
    BY DEF Sound
<1>2. written = [row EXCEPT !.status = status, !.body = body]
    BY DEF Merged
<1>3. status \in Statuses \cup Verdicts \cup {"pending"} /\ body \in [Parts -> SUBSET Leaves]
    BY <1>1 DEF Row
<1>4. body["input"] = row.body["input"] /\ body["output"] \in {row.body["output"], new.body["output"]}
    BY DEF Parts, SameRow
<1>11. status \in {row.status, new.status}
    OBVIOUS
<1> HIDE DEF written, status, body
<1>5. written \in Row
    BY <1>1, <1>2, <1>3 DEF Row
<1>6. /\ written.table = row.table /\ written.id = row.id /\ written.run = row.run
      /\ written.tenant_id = row.tenant_id /\ written.mark = row.mark /\ written.body = body
      /\ written.status = status
    BY <1>1, <1>2 DEF Row
<1>7. SameRow(row, written)
    BY <1>4, <1>6 DEF SameRow
<1>8. Placed(written) /\ OfItsRun(written)
    BY <1>6 DEF Sound, Placed, OfItsRun
<1>9. new.table = row.table
    BY DEF SameRow
<1>10. Clean(written)
    BY <1>4, <1>6, <1>9 DEF Sound, Clean
<1> QED
    BY <1>5, <1>6, <1>7, <1>8, <1>10, <1>11 DEF Sound, written

-----------------------------------------------------------------------------
(***************************************************************************)
(* The sessions.  An open session has returned nothing yet; what it is     *)
(* about to write is sound and its own tenant's, and an update writes the  *)
(* row it has read, an approval to a decision; what a session returned is  *)
(* its tenant's or the event an append asked for.                          *)
(***************************************************************************)
OwnOrAsked(row, t, id) == row.tenant_id = t \/ (row.table = "run_events" /\ row.id = id)

SessionOK(s) ==
    /\ pc[s] = "idle" => draft[s] = none /\ loaded[s] = none
    /\ pc[s] # "answered" => answer[s] = {}
    /\ pc[s] \in {"insert", "update"} => Sound(draft[s]) /\ draft[s].tenant_id = tenant[s]
    /\ pc[s] = "update" => /\ loaded[s] \in Row /\ loaded[s].table \in Changing
                           /\ SameRow(loaded[s], draft[s])
                           /\ loaded[s].table = "approvals" => draft[s].status # "pending"
    /\ \A row \in answer[s] : OwnOrAsked(row, tenant[s], asked[s])
    /\ \A q \in before[s] : pc[q] = "answered"

(***************************************************************************)
(* A recorded invocation is found by its run and key from then on.         *)
(***************************************************************************)
KeyedInvocation(row) == row.table = "tool_invocations" /\ row.mark # none

Remembered(q) ==
    Recorded(q) /\ KeyedInvocation(draft[q]) =>
        \E old \in rows : /\ old.table = draft[q].table
                          /\ old.run = draft[q].run /\ old.mark = draft[q].mark

Replayed(s) ==
    \A q \in before[s] :
        Recorded(q) /\ KeyedInvocation(draft[q]) =>
            ~(/\ pc[s] \in {"insert", "answered"} /\ draft[s] # none
              /\ draft[s].table = "tool_invocations"
              /\ draft[s].run = draft[q].run /\ draft[s].mark = draft[q].mark
              /\ loaded[s] = none)

Inv == /\ Typed
       /\ \A row \in rows : Sound(row)
       /\ \A s \in Sessions : SessionOK(s) /\ Remembered(s) /\ Replayed(s)

LEMMA InitInv == Init => Inv
<1> SUFFICES ASSUME Init PROVE Inv
    OBVIOUS
<1>1. Typed
    BY DEF Init, Typed
<1>2. \A s \in Sessions : SessionOK(s)
    BY DEF Init, SessionOK
<1>3. \A s \in Sessions : Remembered(s) /\ Replayed(s)
    BY DEF Init, Remembered, Replayed, Recorded
<1> QED
    BY <1>1, <1>2, <1>3 DEF Inv, Init

(***************************************************************************)
(* A step of session x leaves the others' columns alone; no step takes a   *)
(* run from its tenant, exchanges the hook or loses a row.                 *)
(***************************************************************************)
Frame(x) ==
    \A q \in Sessions \ {x} :
        /\ pc'[q] = pc[q] /\ tenant'[q] = tenant[q] /\ draft'[q] = draft[q]
        /\ loaded'[q] = loaded[q] /\ answer'[q] = answer[q] /\ asked'[q] = asked[q]
        /\ before'[q] = before[q]

AskedBy(x) == /\ asked' \in [Sessions -> Ids \cup {none}]
              /\ \A q \in Sessions \ {x} : asked'[q] = asked[q]

RunsStay == \A r \in Runs : runs[r].tenant_id # none => runs'[r].tenant_id = runs[r].tenant_id

RowsStay == \A old \in rows : \E new \in rows' : SameRow(old, new)

LEMMA SoundKept ==
    ASSUME RunsStay, UNCHANGED hook, NEW row, Sound(row)
    PROVE  Sound(row)'
<1>1. row.run \in Runs \cup {none} /\ row.tenant_id # none
    BY RepositoryAssumption DEF Sound, Row
<1>2. OfItsRun(row)'
    BY <1>1 DEF Sound, OfItsRun, RunsStay
<1>3. Clean(row)'
    BY DEF Sound, Clean
<1> QED
    BY <1>2, <1>3 DEF Sound

LEMMA RememberedKept ==
    ASSUME RowsStay, NEW q \in Sessions, Remembered(q), 
           pc'[q] = pc[q], draft'[q] = draft[q], loaded'[q] = loaded[q], answer'[q] = answer[q]
    PROVE  Remembered(q)'
<1> SUFFICES ASSUME Recorded(q)', KeyedInvocation(draft[q])
             PROVE  \E new \in rows' : /\ new.table = draft[q].table
                                       /\ new.run = draft[q].run /\ new.mark = draft[q].mark
    BY DEF Remembered, KeyedInvocation
<1>1. Recorded(q)
    BY DEF Recorded
<1>2. PICK old \in rows : /\ old.table = draft[q].table
                          /\ old.run = draft[q].run /\ old.mark = draft[q].mark
    BY <1>1 DEF Remembered
<1>3. PICK new \in rows' : SameRow(old, new)
    BY DEF RowsStay
<1> QED
    BY <1>2, <1>3 DEF SameRow

(***************************************************************************)
(* What is left to show of a step of session x.                            *)
(***************************************************************************)
LEMMA SessionStep ==
    ASSUME Inv, Typed', NEW x \in Sessions, pc[x] # "answered", Frame(x),
           RunsStay, RowsStay, UNCHANGED hook,
           \A row \in rows' : Sound(row)',
           SessionOK(x)', Remembered(x)', Replayed(x)'
    PROVE  Inv'
<1> SUFFICES ASSUME NEW q \in Sessions \ {x}
             PROVE  SessionOK(q)' /\ Remembered(q)' /\ Replayed(q)'
    BY DEF Inv
<1>1. /\ pc'[q] = pc[q] /\ tenant'[q] = tenant[q] /\ draft'[q] = draft[q]
      /\ loaded'[q] = loaded[q] /\ answer'[q] = answer[q] /\ asked'[q] = asked[q]
        /\ before'[q] = before[q]
    BY DEF Frame
<1>2. SessionOK(q) /\ Remembered(q) /\ Replayed(q)
    BY DEF Inv
<1>3. \A p \in before[q] : p \in Sessions \ {x} /\ pc[p] = "answered"
    BY <1>2 DEF SessionOK, Inv, Typed
<1>4. SessionOK(q)'
    <2>1. pc[q] \in {"insert", "update"} => Sound(draft[q])'
        <3>1. PICK row : row = draft[q]
            OBVIOUS
        <3>2. pc[q] \in {"insert", "update"} => Sound(row)'
            BY <1>2, <3>1, SoundKept DEF SessionOK
        <3> QED
            BY <1>1, <3>1, <3>2 DEF Sound, Placed, OfItsRun, Clean
    <2>2. \A p \in before'[q] : pc'[p] = "answered"
        BY <1>1, <1>3 DEF Frame
    <2> QED
        BY <1>1, <1>2, <2>1, <2>2 DEF SessionOK, SameRow
<1>5. Remembered(q)'
    BY <1>1, <1>2, RememberedKept
<1>6. Replayed(q)'
    BY <1>1, <1>2, <1>3 DEF Replayed, Recorded, KeyedInvocation, Frame
<1> QED
    BY <1>4, <1>5, <1>6

(***************************************************************************)
(* A session opens.                                                        *)
(***************************************************************************)
LEMMA Opened ==
    ASSUME Inv, NEW x \in Sessions, NEW t \in Tenants, Open(x, t)
    PROVE  /\ pc[x] = "idle" /\ draft[x] = none /\ loaded[x] = none /\ answer[x] = {}
           /\ tenant' \in [Sessions -> Tenants \cup {none}] /\ tenant'[x] = t
           /\ before' \in [Sessions -> SUBSET Sessions]
           /\ \A q \in before'[x] : q \in Sessions \ {x} /\ pc[q] = "answered"
           /\ \A q \in Sessions \ {x} : tenant'[q] = tenant[q] /\ before'[q] = before[q]
<1>1. pc[x] = "idle" /\ draft[x] = none /\ loaded[x] = none /\ answer[x] = {}
    BY DEF Inv, SessionOK, Open
<1>2. tenant' \in [Sessions -> Tenants \cup {none}] /\ tenant'[x] = t
    BY DEF Inv, Typed, Open
<1>3. before' \in [Sessions -> SUBSET Sessions] /\ before'[x] = {q \in Sessions : pc[q] = "answered"}
    BY DEF Inv, Typed, Open
<1>4. \A q \in Sessions \ {x} : tenant'[q] = tenant[q] /\ before'[q] = before[q]
    BY DEF Inv, Typed, Open
<1> QED
    BY <1>1, <1>2, <1>3, <1>4

LEMMA NothingMoves ==
    ASSUME Typed, UNCHANGED <<rows, hook>>
    PROVE  RowsStay /\ (UNCHANGED runs => RunsStay)
BY DEF RowsStay, RunsStay, SameRow

LEMMA NothingAsked ==
    ASSUME Typed, UNCHANGED asked, NEW x \in Sessions
    PROVE  AskedBy(x)
BY DEF Typed, AskedBy

(***************************************************************************)
(* A method that reads, or fails its checks, ends where it began; what it  *)
(* returns must be its tenant's.                                           *)
(***************************************************************************)
LEMMA AnsweredAtOnce ==
    ASSUME Inv, NEW x \in Sessions, NEW t \in Tenants, Open(x, t),
           pc' = [pc EXCEPT ![x] = "answered"],
           AskedBy(x),
           NEW result \in SUBSET Row, \A row \in result : OwnOrAsked(row, t, asked'[x]),
           answer' = answer \/ answer' = [answer EXCEPT ![x] = result],
           runs' \in [Runs -> [tenant_id : Tenants \cup {none}, status : {"created", "running"}]],
           RunsStay, UNCHANGED <<rows, hook, draft, loaded>>
    PROVE  Inv'
<1>1. /\ pc[x] = "idle" /\ draft[x] = none /\ loaded[x] = none /\ answer[x] = {}
      /\ tenant' \in [Sessions -> Tenants \cup {none}] /\ tenant'[x] = t
      /\ before' \in [Sessions -> SUBSET Sessions]
      /\ \A q \in before'[x] : q \in Sessions \ {x} /\ pc[q] = "answered"
      /\ \A q \in Sessions \ {x} : tenant'[q] = tenant[q] /\ before'[q] = before[q]
    BY Opened
<1>2. Typed
    BY DEF Inv
<1>3. /\ pc' \in [Sessions -> {"idle", "insert", "update", "answered"}] /\ pc'[x] = "answered"
      /\ \A q \in Sessions \ {x} : pc'[q] = pc[q]
    BY <1>2 DEF Typed
<1>4. /\ answer' \in [Sessions -> SUBSET Row] /\ answer'[x] \in {{}, result}
      /\ \A q \in Sessions \ {x} : answer'[q] = answer[q]
    BY <1>1, <1>2 DEF Typed
<1>5. Typed' /\ Frame(x)
    BY <1>1, <1>2, <1>3, <1>4 DEF Typed, Frame, AskedBy
<1>6. \A row \in rows' : Sound(row)'
    BY SoundKept DEF Inv
<1>7. SessionOK(x)'
    BY <1>1, <1>3, <1>4 DEF SessionOK
<1>8. Remembered(x)' /\ Replayed(x)'
    BY <1>1 DEF Remembered, Replayed, Recorded
<1>9. RowsStay
    BY <1>2, NothingMoves
<1> QED
    BY <1>1, <1>5, <1>6, <1>7, <1>8, <1>9, SessionStep

LEMMA RaisedAtOnce ==
    ASSUME Inv, NEW x \in Sessions, NEW t \in Tenants, Open(x, t), NEW e, Raise(x, e),
           AskedBy(x), UNCHANGED <<runs, rows, hook, draft, loaded>>
    PROVE  Inv'
<1>1. Typed /\ RunsStay
    BY NothingMoves DEF Inv
<1>2. runs' \in [Runs -> [tenant_id : Tenants \cup {none}, status : {"created", "running"}]]
    BY <1>1 DEF Typed
<1>3. pc' = [pc EXCEPT ![x] = "answered"] /\ answer' = answer
    BY DEF Raise
<1>4. {} \in SUBSET Row /\ \A row \in {} : OwnOrAsked(row, t, asked'[x])
    OBVIOUS
<1> QED
    BY <1>1, <1>2, <1>3, <1>4, AnsweredAtOnce

(***************************************************************************)
(* A mutating method passes its checks: the draft is sound, and the flush  *)
(* comes later.                                                            *)
(***************************************************************************)
LEMMA Drafted ==
    ASSUME Inv, NEW x \in Sessions, NEW t \in Tenants, Open(x, t),
           NEW next \in {"insert", "update"}, pc' = [pc EXCEPT ![x] = next],
           NEW row, Sound(row), row.tenant_id = t, draft' = [draft EXCEPT ![x] = row],
           NEW old, next = "insert" => loaded' = loaded /\ Existing(row) = {},
           next = "update" => /\ loaded' = [loaded EXCEPT ![x] = old]
                              /\ old \in Row /\ old.table \in Changing /\ SameRow(old, row)
                              /\ old.table = "approvals" => row.status # "pending",
           AskedBy(x), UNCHANGED <<runs, rows, hook, answer>>
    PROVE  Inv'
<1>1. /\ pc[x] = "idle" /\ draft[x] = none /\ loaded[x] = none /\ answer[x] = {}
      /\ tenant' \in [Sessions -> Tenants \cup {none}] /\ tenant'[x] = t
      /\ before' \in [Sessions -> SUBSET Sessions]
      /\ \A q \in before'[x] : q \in Sessions \ {x} /\ pc[q] = "answered"
      /\ \A q \in Sessions \ {x} : tenant'[q] = tenant[q] /\ before'[q] = before[q]
    BY Opened
<1>2. Typed
    BY DEF Inv
<1>3. /\ pc' \in [Sessions -> {"idle", "insert", "update", "answered"}] /\ pc'[x] = next
      /\ \A q \in Sessions \ {x} : pc'[q] = pc[q]
    BY <1>2 DEF Typed
<1>4. /\ draft' \in [Sessions -> Row \cup {none}] /\ draft'[x] = row
      /\ \A q \in Sessions \ {x} : draft'[q] = draft[q]
    BY <1>2 DEF Typed, Sound
<1>5. /\ loaded' \in [Sessions -> Row \cup {none}]
      /\ next = "update" => loaded'[x] = old
      /\ \A q \in Sessions \ {x} : loaded'[q] = loaded[q]
    BY <1>2 DEF Typed
<1>6. Typed' /\ Frame(x)
    BY <1>1, <1>2, <1>3, <1>4, <1>5 DEF Typed, Frame, AskedBy
<1>7. RowsStay /\ RunsStay
    BY <1>2, NothingMoves
<1>8. (\A r \in rows' : Sound(r)') /\ Sound(row)'
    BY <1>7, SoundKept DEF Inv
<1>9. SessionOK(x)'
    <2>1. Sound(draft[x])'
        BY <1>4, <1>8 DEF Sound, Placed, OfItsRun, Clean
    <2> QED
        BY <1>1, <1>3, <1>4, <1>5, <2>1 DEF SessionOK, SameRow
<1>10. Remembered(x)'
    BY <1>3 DEF Remembered, Recorded
<1>11. Replayed(x)'
    <2>1. CASE next = "update"
        BY <1>3, <2>1 DEF Replayed
    <2>2. CASE next = "insert"
        <3> SUFFICES ASSUME NEW q \in before'[x], Recorded(q)', KeyedInvocation(draft[q])',
                            row.table = "tool_invocations",
                            row.run = draft[q].run, row.mark = draft[q].mark
                     PROVE  FALSE
            BY <1>1, <1>4 DEF Replayed
        <3>1. q \in Sessions \ {x}
            BY <1>1
        <3>2. Recorded(q) /\ KeyedInvocation(draft[q])
            BY <1>3, <1>4, <1>5, <3>1 DEF Recorded, KeyedInvocation
        <3>3. PICK o \in rows : /\ o.table = draft[q].table
                                /\ o.run = draft[q].run /\ o.mark = draft[q].mark
            BY <3>1, <3>2 DEF Inv, Remembered
        <3>4. o \in Existing(row)
            BY <3>2, <3>3 DEF Existing, KeyedInvocation
        <3> QED
            BY <2>2, <3>4
    <2> QED
        BY <2>1, <2>2
<1> QED
    BY <1>1, <1>6, <1>7, <1>8, <1>9, <1>10, <1>11, SessionStep

LEMMA InsertStep ==
    ASSUME Inv, NEW x \in Sessions, NEW t \in Tenants, Insert(x, t)
    PROVE  Inv'
<1>0. PICK table \in Tables, id \in Ids, body \in Bodies :
          \E r \in RunsFor(table), mark \in Marks(table) :
              BeginInsert(x, t, NewRow(table, t, id, r, mark, body))
    BY DEF Insert
<1>1. PICK r \in RunsFor(table), mark \in Marks(table) :
          BeginInsert(x, t, NewRow(table, t, id, r, mark, body))
    BY <1>0
<1> DEFINE row == NewRow(table, t, id, r, mark, body)
<1>2. row.table = table /\ row.run = r /\ row.tenant_id = t /\ row.id = id
    BY DEF NewRow
<1>3. Open(x, t) /\ UNCHANGED <<runs, rows, hook, loaded>> /\ BeginInsert(x, t, row)
    BY <1>1 DEF BeginInsert
<1>4. Typed /\ RunsStay
    BY <1>3, NothingMoves DEF Inv
<1>10. AskedBy(x) /\ (table = "run_events" => asked'[x] = id)
    BY <1>2, <1>3, <1>4 DEF BeginInsert, AskedBy, Typed
<1>5. runs' \in [Runs -> [tenant_id : Tenants \cup {none}, status : {"created", "running"}]]
    BY <1>3, <1>4 DEF Typed
<1> HIDE DEF row
<1>6. ASSUME NEW e, Raise(x, e), UNCHANGED draft PROVE Inv'
    BY <1>3, <1>6, <1>10, RaisedAtOnce
<1>7. CASE row.table = "tool_invocations" /\ BareSecret(row.body["input"])
    BY <1>3, <1>6, <1>7 DEF BeginInsert
<1>8. CASE row.run # none /\ ~Owned(row.run, t)
    BY <1>3, <1>6, <1>7, <1>8 DEF BeginInsert
<1>9. CASE /\ ~(row.table = "tool_invocations" /\ BareSecret(row.body["input"]))
           /\ ~(row.run # none /\ ~Owned(row.run, t))
    <2>1. Sound(row)
        BY <1>2, <1>9, NewRowSound DEF row
    <2>2. CASE Existing(row) # {}
        <3>1. PICK first \in Existing(row) : Answer(x, {first}) /\ UNCHANGED draft
            BY <1>3, <1>9, <2>2 DEF BeginInsert
        <3>2. first \in rows /\ Sound(first) /\ first \in Row
            BY DEF Existing, Inv, Sound
        <3>3. OwnOrAsked(first, t, asked'[x])
            <4>1. CASE row.table = "run_events"
                BY <1>2, <1>10, <3>2, <4>1 DEF Existing, OwnOrAsked
            <4>2. CASE row.table = "tool_invocations"
                BY <1>2, <1>9, <2>1, <3>2, <4>2
                   DEF Existing, Sound, Placed, OfItsRun, Owned, OwnOrAsked
            <4> QED
                BY <4>1, <4>2 DEF Existing
        <3>4. {first} \in SUBSET Row /\ \A o \in {first} : OwnOrAsked(o, t, asked'[x])
            BY <3>2, <3>3
        <3>5. pc' = [pc EXCEPT ![x] = "answered"] /\ answer' = [answer EXCEPT ![x] = {first}]
            BY <3>1 DEF Answer
        <3> QED
            BY <1>3, <1>4, <1>5, <1>10, <3>1, <3>4, <3>5, AnsweredAtOnce
    <2>3. CASE Existing(row) = {} /\ row.table \in Looked /\ Taken(row)
        BY <1>3, <1>6, <1>9, <2>3 DEF BeginInsert
    <2>4. CASE Existing(row) = {} /\ ~(row.table \in Looked /\ Taken(row))
        <3>1. /\ pc' = [pc EXCEPT ![x] = "insert"]
              /\ draft' = [draft EXCEPT ![x] = row]
              /\ UNCHANGED <<answer, error>>
            BY <1>3, <1>9, <2>4 DEF BeginInsert
        <3> QED
            BY <1>2, <1>3, <1>10, <2>1, <2>4, <3>1, Drafted
    <2> QED
        BY <2>2, <2>3, <2>4
<1> QED
    BY <1>7, <1>8, <1>9

(***************************************************************************)
(* An update or a decision has read a row of its tenant.                   *)
(***************************************************************************)
LEMMA EditStep ==
    ASSUME Inv, NEW x \in Sessions, NEW t \in Tenants, Open(x, t),
           NEW row \in rows, Visible(row, t), row.table \in Changing,
           NEW new, Sound(new), SameRow(row, new),
           row.table = "approvals" => new.status # "pending",
           Edit(x, row, new), UNCHANGED <<runs, rows, hook, asked>>
    PROVE  Inv'
<1>1. row \in Row /\ new.tenant_id = t
    BY DEF Inv, Typed, SameRow, Visible
<1>2. AskedBy(x)
    BY NothingAsked DEF Inv
<1>3. /\ pc' = [pc EXCEPT ![x] = "update"] /\ loaded' = [loaded EXCEPT ![x] = row]
      /\ draft' = [draft EXCEPT ![x] = new] /\ UNCHANGED answer
    BY DEF Edit
<1> QED
    BY <1>1, <1>2, <1>3, Drafted

LEMMA UpdateStep ==
    ASSUME Inv, NEW x \in Sessions, NEW t \in Tenants, Update(x, t)
    PROVE  Inv'
<1>1. PICK table \in {"tool_invocations", "agent_tasks"}, id \in Ids, status \in Statuses, body \in Bodies :
          BeginUpdate(x, t, table, id, status, body)
    BY DEF Update
<1>2. Open(x, t) /\ UNCHANGED <<runs, rows, hook, asked>> /\ AskedBy(x)
    BY <1>1, NothingAsked DEF BeginUpdate, Inv
<1>3. CASE Raise(x, "not_found") /\ UNCHANGED <<draft, loaded>>
    BY <1>2, <1>3, RaisedAtOnce
<1>4. CASE \E row \in rows : /\ row.table = table /\ row.id = id /\ Visible(row, t)
                             /\ Edit(x, row, Updated(row, status, body))
    <2>1. PICK row \in rows : /\ row.table = table /\ Visible(row, t)
                             /\ Edit(x, row, Updated(row, status, body))
        BY <1>4
    <2>2. PICK new : new = Updated(row, status, body)
        OBVIOUS
    <2>3. Sound(new) /\ SameRow(row, new)
        BY <2>2, UpdatedSound DEF Inv
    <2> QED
        BY <1>2, <2>1, <2>2, <2>3, EditStep DEF Changing
<1> QED
    BY <1>1, <1>3, <1>4 DEF BeginUpdate

LEMMA DecidedSound ==
    ASSUME NEW row, Sound(row), NEW verdict \in Verdicts
    PROVE  /\ Sound([row EXCEPT !.status = verdict])
           /\ SameRow(row, [row EXCEPT !.status = verdict])
           /\ [row EXCEPT !.status = verdict].status # "pending"
<1> DEFINE new == [row EXCEPT !.status = verdict]
<1>1. row \in Row
    BY DEF Sound
<1>2. new \in Row
    BY <1>1 DEF Row
<1>3. /\ new.table = row.table /\ new.id = row.id /\ new.run = row.run
      /\ new.tenant_id = row.tenant_id /\ new.mark = row.mark /\ new.body = row.body
      /\ new.status = verdict
    BY <1>1 DEF Row
<1> HIDE DEF new
<1>4. Placed(new) /\ OfItsRun(new) /\ Clean(new)
    BY <1>3 DEF Sound, Placed, OfItsRun, Clean
<1>5. SameRow(row, new) /\ new.status # "pending"
    BY <1>3 DEF SameRow, Verdicts
<1> QED
    BY <1>2, <1>4, <1>5 DEF Sound, new

LEMMA DecideStep ==
    ASSUME Inv, NEW x \in Sessions, NEW t \in Tenants, Decide(x, t)
    PROVE  Inv'
<1>1. PICK id \in Ids, verdict \in Verdicts : BeginDecide(x, t, id, verdict)
    BY DEF Decide
<1>2. Open(x, t) /\ UNCHANGED <<runs, rows, hook, asked>> /\ AskedBy(x)
    BY <1>1, NothingAsked DEF BeginDecide, Inv
<1>3. ASSUME NEW e, Raise(x, e), UNCHANGED <<draft, loaded>> PROVE Inv'
    BY <1>2, <1>3, RaisedAtOnce
<1>4. ASSUME NEW row \in rows, row.table = "approvals", Visible(row, t),
             Edit(x, row, [row EXCEPT !.status = verdict])
      PROVE  Inv'
    <2>1. PICK new : new = [row EXCEPT !.status = verdict]
        OBVIOUS
    <2>2. Sound(new) /\ SameRow(row, new) /\ new.status # "pending"
        BY <2>1, DecidedSound DEF Inv
    <2> QED
        BY <1>2, <1>4, <2>1, <2>2, EditStep DEF Changing
<1> QED
    BY <1>1, <1>3, <1>4 DEF BeginDecide

LEMMA ReadStep ==
    ASSUME Inv, NEW x \in Sessions, NEW t \in Tenants, Read(x, t)
    PROVE  Inv'
<1>1. Open(x, t) /\ UNCHANGED <<runs, rows, hook, draft, loaded, asked>>
    BY DEF Read, ListRows, GetApproval
<1>2. Typed /\ RunsStay /\ AskedBy(x)
    BY <1>1, NothingMoves, NothingAsked DEF Inv
<1>3. ASSUME NEW e, Raise(x, e) PROVE Inv'
    BY <1>1, <1>2, <1>3, RaisedAtOnce
<1>4. ASSUME NEW result \in SUBSET rows, \A row \in result : row.tenant_id = t, Answer(x, result)
      PROVE  Inv'
    <2>1. \A row \in result : OwnOrAsked(row, t, asked'[x])
        BY <1>4 DEF OwnOrAsked
    <2> QED
        BY <1>1, <1>2, <1>4, <2>1, AnsweredAtOnce DEF Answer, Typed
<1>5. ASSUME NEW r \in Runs, NEW table, ListRows(x, t, r, table) PROVE Inv'
    <2>1. CASE Owned(r, t)
        <3>1. \A row \in {row \in rows : row.table = table /\ row.run = r} : row.tenant_id = t
            BY <2>1, RepositoryAssumption DEF Inv, Sound, OfItsRun, Owned
        <3> QED
            BY <1>4, <1>5, <2>1, <3>1 DEF ListRows
    <2>2. CASE ~Owned(r, t)
        BY <1>3, <1>5, <2>2 DEF ListRows
    <2> QED
        BY <2>1, <2>2
<1>6. ASSUME NEW id \in Ids, GetApproval(x, t, id) PROVE Inv'
    BY <1>3, <1>4, <1>6 DEF GetApproval, Visible
<1> QED
    BY <1>5, <1>6 DEF Read

LEMMA RunUpdateStep ==
    ASSUME Inv, NEW x \in Sessions, NEW t \in Tenants, RunUpdate(x, t)
    PROVE  Inv'
<1>1. PICK r \in Runs, field \in {"status", "tenant_id"}, value \in {"running"} \cup Tenants :
          UpdateRun(x, t, r, field, value) /\ (field = "status" => value = "running")
    BY DEF RunUpdate
<1>2. Open(x, t) /\ UNCHANGED <<rows, hook, draft, loaded, asked>> /\ Typed /\ AskedBy(x)
    BY <1>1, NothingAsked DEF UpdateRun, Inv
<1>3. runs' = runs \/ runs' = [runs EXCEPT ![r].status = "running"]
    BY <1>1 DEF UpdateRun, Allowed
<1>4. /\ runs' \in [Runs -> [tenant_id : Tenants \cup {none}, status : {"created", "running"}]]
      /\ RunsStay
    <2>1. CASE runs' = runs
        BY <1>2, <2>1 DEF Typed, RunsStay
    <2>2. CASE runs' = [runs EXCEPT ![r].status = "running"]
        <3>1. runs' = [runs EXCEPT ![r] = [runs[r] EXCEPT !.status = "running"]]
            BY <2>2
        <3>2. [runs[r] EXCEPT !.status = "running"]
                  \in [tenant_id : Tenants \cup {none}, status : {"created", "running"}]
            BY <1>2 DEF Typed
        <3>3. [runs[r] EXCEPT !.status = "running"].tenant_id = runs[r].tenant_id
            BY <1>2 DEF Typed
        <3> QED
            BY <1>2, <3>1, <3>2, <3>3 DEF Typed, RunsStay
    <2> QED
        BY <1>3, <2>1, <2>2
<1>5. pc' = [pc EXCEPT ![x] = "answered"]
    BY <1>1 DEF UpdateRun, Raise, Answer
<1>6. PICK result \in SUBSET Row : result = {}
    OBVIOUS
<1>7. answer' = answer \/ answer' = [answer EXCEPT ![x] = result]
    BY <1>1, <1>6 DEF UpdateRun, Raise, Answer
<1> QED
    BY <1>2, <1>4, <1>5, <1>6, <1>7, AnsweredAtOnce

LEMMA CreateRunStep ==
    ASSUME Inv, NEW r \in Runs, NEW t \in Tenants, CreateRun(r, t)
    PROVE  Inv'
<1>1. UNCHANGED <<rows, hook, pc, tenant, draft, loaded, answer, asked, before>>
    BY DEF CreateRun
<1>2. /\ runs' \in [Runs -> [tenant_id : Tenants \cup {none}, status : {"created", "running"}]]
      /\ RunsStay
    BY DEF CreateRun, Inv, Typed, RunsStay
<1>3. Typed'
    BY <1>1, <1>2 DEF Inv, Typed
<1>4. \A row : Sound(row) => Sound(row)'
    BY <1>1, <1>2, SoundKept
<1>5. \A row \in rows' : Sound(row)'
    BY <1>1, <1>4 DEF Inv
<1>6. ASSUME NEW s \in Sessions PROVE SessionOK(s)' /\ Remembered(s)' /\ Replayed(s)'
    <2>1. PICK row : row = draft[s]
        OBVIOUS
    <2>2. pc[s] \in {"insert", "update"} => Sound(draft[s])'
        <3>1. pc[s] \in {"insert", "update"} => Sound(row)'
            BY <1>4, <2>1 DEF Inv, SessionOK
        <3> QED
            BY <1>1, <2>1, <3>1 DEF Sound, Placed, OfItsRun, Clean
    <2>3. SessionOK(s)'
        BY <1>1, <2>2 DEF Inv, SessionOK, SameRow
    <2>4. Remembered(s)' /\ Replayed(s)'
        BY <1>1 DEF Inv, Remembered, Replayed, Recorded, KeyedInvocation
    <2> QED
        BY <2>3, <2>4
<1> QED
    BY <1>3, <1>5, <1>6 DEF Inv

(***************************************************************************)
(* A flush: the session is answered, and what it returns, if anything, is  *)
(* its draft.                                                              *)
(***************************************************************************)
LEMMA Flushed ==
    ASSUME Inv, NEW x \in Sessions, pc[x] \in {"insert", "update"},
           pc' = [pc EXCEPT ![x] = "answered"],
           answer' = answer \/ answer' = [answer EXCEPT ![x] = {draft[x]}],
           UNCHANGED <<runs, hook, tenant, draft, loaded, asked, before>>,
           rows' \subseteq Row, \A row \in rows' : Sound(row), RowsStay,
           pc[x] = "insert" /\ answer' # answer => draft[x] \in rows'
    PROVE  Inv'
<1>1. Typed /\ SessionOK(x) /\ Replayed(x) /\ draft[x] \in Row /\ RunsStay
    BY DEF Inv, SessionOK, Sound, RunsStay
<1>2. /\ pc' \in [Sessions -> {"idle", "insert", "update", "answered"}] /\ pc'[x] = "answered"
      /\ \A q \in Sessions \ {x} : pc'[q] = pc[q]
    BY <1>1 DEF Typed
<1>3. /\ answer' \in [Sessions -> SUBSET Row] /\ answer'[x] \in {{}, {draft[x]}}
      /\ \A q \in Sessions \ {x} : answer'[q] = answer[q]
    BY <1>1 DEF Typed, SessionOK
<1>4. Typed' /\ Frame(x)
    BY <1>1, <1>2, <1>3 DEF Typed, Frame
<1>5. \A row \in rows' : Sound(row)'
    BY <1>1, SoundKept
<1>6. SessionOK(x)'
    <2>1. \A row \in answer'[x] : OwnOrAsked(row, tenant'[x], asked'[x])
        BY <1>1, <1>3 DEF SessionOK, OwnOrAsked
    <2>2. \A q \in before'[x] : pc'[q] = "answered"
        BY <1>1, <1>2 DEF SessionOK, Typed
    <2> QED
        BY <1>2, <2>1, <2>2 DEF SessionOK
<1>7. Remembered(x)'
    <2> SUFFICES ASSUME Recorded(x)'
                 PROVE  \E old \in rows' : /\ old.table = draft[x].table
                                           /\ old.run = draft[x].run /\ old.mark = draft[x].mark
        BY DEF Remembered
    <2>1. pc[x] = "insert"
        BY <1>1, NullAssumption DEF Recorded, SessionOK
    <2>2. answer' # answer
        BY <1>1, <2>1 DEF Recorded, SessionOK
    <2> QED
        BY <2>1, <2>2
<1>8. Replayed(x)'
    <2> SUFFICES ASSUME NEW q \in before'[x], Recorded(q)', KeyedInvocation(draft[q])',
                        draft[x] # none, draft[x].table = "tool_invocations",
                        draft[x].run = draft[q].run, draft[x].mark = draft[q].mark,
                        loaded[x] = none
                 PROVE  FALSE
        BY DEF Replayed
    <2>1. q \in Sessions \ {x}
        BY <1>1 DEF SessionOK, Typed
    <2>2. Recorded(q) /\ KeyedInvocation(draft[q])
        BY <1>2, <1>3, <2>1 DEF Recorded, KeyedInvocation
    <2>3. pc[x] = "insert"
        BY <1>1, NullAssumption DEF SessionOK
    <2> QED
        BY <1>1, <2>2, <2>3 DEF Replayed
<1> QED
    BY <1>1, <1>4, <1>5, <1>6, <1>7, <1>8, SessionStep

LEMMA FlushInsertStep ==
    ASSUME Inv, NEW x \in Sessions, FlushInsert(x)
    PROVE  Inv' /\ rows \subseteq rows'
<1>1. pc[x] = "insert" /\ UNCHANGED <<runs, hook, tenant, draft, loaded, asked, before>>
    BY DEF FlushInsert
<1>2. Sound(draft[x]) /\ draft[x] \in Row
    BY <1>1 DEF Inv, SessionOK, Sound
<1>3. /\ pc' = [pc EXCEPT ![x] = "answered"]
      /\ \/ rows' = rows /\ answer' = answer
         \/ rows' = rows \cup {draft[x]} /\ answer' = [answer EXCEPT ![x] = {draft[x]}]
    BY DEF FlushInsert, Raise, Answer
<1>4. rows' \subseteq Row /\ rows \subseteq rows' /\ \A row \in rows' : Sound(row)
    BY <1>2, <1>3 DEF Inv, Typed
<1>5. RowsStay
    BY <1>4 DEF RowsStay, SameRow
<1> QED
    BY <1>1, <1>3, <1>4, <1>5, Flushed

LEMMA FlushUpdateStep ==
    ASSUME Inv, NEW x \in Sessions, FlushUpdate(x)
    PROVE  /\ Inv'
           /\ \A old \in rows : \E new \in rows' :
                  /\ SameRow(old, new) /\ ~Reopened(old, new)
                  /\ old.table \notin Changing => new = old
<1>1. pc[x] = "update" /\ UNCHANGED <<runs, hook, tenant, draft, loaded, asked, before>>
    BY DEF FlushUpdate
<1>2. /\ Sound(draft[x]) /\ loaded[x].table \in Changing
      /\ SameRow(loaded[x], draft[x])
      /\ loaded[x].table = "approvals" => draft[x].status # "pending"
    BY <1>1 DEF Inv, SessionOK
<1>3. PICK row \in rows : /\ row.table = loaded[x].table
                          /\ rows' = (rows \ {row}) \cup {Merged(row, loaded[x], draft[x])}
    BY DEF FlushUpdate
<1>4. PICK new : new = Merged(row, loaded[x], draft[x])
    OBVIOUS
<1>5. Sound(new) /\ SameRow(row, new) /\ new.status \in {row.status, draft[x].status}
    BY <1>2, <1>3, <1>4, MergedSound DEF Inv
<1>6. rows' = (rows \ {row}) \cup {new}
    BY <1>3, <1>4
<1>7. rows' \subseteq Row /\ \A r \in rows' : Sound(r)
    BY <1>5, <1>6 DEF Inv, Typed, Sound
<1>8. ASSUME NEW old \in rows
      PROVE  \E r \in rows' : /\ SameRow(old, r) /\ ~Reopened(old, r)
                              /\ old.table \notin Changing => r = old
    <2>1. CASE old = row
        <3>1. ~Reopened(row, new)
            BY <1>2, <1>3, <1>5 DEF Reopened
        <3> QED
            BY <1>2, <1>3, <1>5, <1>6, <2>1, <3>1
    <2>2. CASE old # row
        BY <1>6, <2>2 DEF SameRow, Reopened
    <2> QED
        BY <2>1, <2>2
<1>9. RowsStay
    BY <1>8 DEF RowsStay
<1>10. pc' = [pc EXCEPT ![x] = "answered"] /\ answer' = [answer EXCEPT ![x] = {draft[x]}]
    BY DEF FlushUpdate, Answer
<1> QED
    BY <1>1, <1>7, <1>8, <1>9, <1>10, Flushed

-----------------------------------------------------------------------------
LEMMA StutterStep ==
    ASSUME Inv, UNCHANGED vars
    PROVE  Inv'
BY DEF vars, Inv, Typed, Sound, Placed, OfItsRun, Clean, SessionOK, Remembered, Replayed,
       Recorded, KeyedInvocation

LEMMA Invariance == Spec => []Inv
<1>1. Inv /\ [Next]_vars => Inv'
    BY InsertStep, UpdateStep, DecideStep, ReadStep, RunUpdateStep, CreateRunStep, FlushInsertStep,
       FlushUpdateStep, StutterStep DEF Next, Rest
<1> QED
    BY <1>1, InitInv, PTL DEF Spec

(***************************************************************************)
(* TenantsAreIsolated: Spec => []TenantIsolation, for any number of        *)
(* tenants, runs and concurrent sessions: a row stays with the tenant of   *)
(* its run, and no method returns a row of another tenant than the         *)
(* caller's, except the event whose event_id the caller appended under.    *)
(***************************************************************************)
THEOREM TenantsAreIsolated == Spec => []TenantIsolation
<1>1. Inv => TenantIsolation
    BY DEF Inv, Sound, OfItsRun, SessionOK, OwnOrAsked, TenantIsolation
<1> QED
    BY <1>1, Invariance, PTL

(***************************************************************************)
(* SecretsAreMasked: Spec => []NothingSecretStored, whatever payloads are  *)
(* passed (_redact_value, _contains_bare_secret_marker).                   *)
(***************************************************************************)
THEOREM SecretsAreMasked == Spec => []NothingSecretStored
<1>1. Inv => NothingSecretStored
    BY DEF Inv, Sound, Clean, NothingSecretStored
<1> QED
    BY <1>1, Invariance, PTL

(***************************************************************************)
(* RepeatsAreReplayed: Spec => []SequentialReplay: a recording that begins *)
(* after one with the same run and key was answered adds no row            *)
(* (record_tool_invocation), although no constraint forbids it.            *)
(***************************************************************************)
THEOREM RepeatsAreReplayed == Spec => []SequentialReplay
<1>1. Inv => SequentialReplay
    BY DEF Inv, Replayed, KeyedInvocation, SequentialReplay
<1> QED
    BY <1>1, Invariance, PTL

(***************************************************************************)
(* RowsAreKept: Spec => RowsKept: no step removes a row, moves it or       *)
(* rewrites its input, only invocations, agent tasks and approvals ever    *)
(* change, and no decided approval becomes pending again.                  *)
(***************************************************************************)
THEOREM RowsAreKept == Spec => RowsKept
<1> DEFINE Keeps == \A old \in rows : \E new \in rows' :
               /\ SameRow(old, new) /\ ~Reopened(old, new)
               /\ old.table \notin Changing => new = old
<1>1. ASSUME rows \subseteq rows' PROVE Keeps
    BY <1>1 DEF SameRow, Reopened
<1>2. ASSUME Inv, [Next]_vars PROVE Keeps
    <2>1. ASSUME NEW s \in Sessions, NEW t \in Tenants,
                 Insert(s, t) \/ Update(s, t) \/ Decide(s, t) \/ Read(s, t) \/ RunUpdate(s, t)
          PROVE  rows' = rows
        <3>1. CASE Insert(s, t)
            BY <3>1 DEF Insert, BeginInsert
        <3>2. CASE Update(s, t)
            BY <3>2 DEF Update, BeginUpdate
        <3>3. CASE Read(s, t)
            BY <3>3 DEF Read, ListRows, GetApproval
        <3>4. CASE RunUpdate(s, t)
            BY <3>4 DEF RunUpdate, UpdateRun
        <3>5. CASE Decide(s, t)
            BY <3>5 DEF Decide, BeginDecide
        <3> QED
            BY <2>1, <3>1, <3>2, <3>3, <3>4, <3>5
    <2>2. ASSUME NEW s \in Sessions, FlushInsert(s) PROVE Keeps
        BY <1>1, <1>2, <2>2, FlushInsertStep
    <2>3. ASSUME NEW s \in Sessions, FlushUpdate(s) PROVE Keeps
        BY <1>2, <2>3, FlushUpdateStep
    <2>4. ASSUME NEW r \in Runs, NEW t \in Tenants, CreateRun(r, t) PROVE rows' = rows
        BY <2>4 DEF CreateRun
    <2>5. ASSUME UNCHANGED vars PROVE rows' = rows
        BY <2>5 DEF vars
    <2> QED
        BY <1>1, <1>2, <2>1, <2>2, <2>3, <2>4, <2>5 DEF Next, Rest
<1>3. Inv /\ [Next]_vars => [Keeps]_vars
    BY <1>2
<1> QED
    BY <1>3, Invariance, PTL DEF Spec, RowsKept
=============================================================================
