----------------------------- MODULE EventStream -----------------------------
(***************************************************************************)
(* The events of one run: concurrent writers that append them              *)
(* (SqlAlchemyRepository.append_next_event, from the graph's store and     *)
(* from the routes), the route that lists them (run_events), and the web   *)
(* client that shows them (useRunEvents.ts, streamRunEvents in api.ts).    *)
(*                                                                         *)
(* The route answers an EventSource with the events stored so far, each    *)
(* under its own event name, and ends the response.  The client's          *)
(* onmessage handler is not called for named events, so the stream itself  *)
(* delivers nothing: its end makes the client fetch what is new and open   *)
(* the stream again, and that fetch is what delivers.                      *)
(***************************************************************************)
EXTENDS Integers, Sequences, FiniteSets, FiniteSetsExt

CONSTANTS
    Writers,         \* threads that append events
    Script,          \* the events each writer appends, in order
    MaxRetries,      \* MAX_FETCH_RETRIES
    MaxFailures,     \* bound on failed fetches
    MaxReconnects    \* bound on clicks on Reconnect

(***************************************************************************)
(* An event: does it end the run, and may the UI render it?  Events of the *)
(* graph may be rendered; those the routes append (the first run.started,  *)
(* run.cancelled, run.completed after a rejection) carry the default,      *)
(* safe_for_ui = FALSE.                                                    *)
(***************************************************************************)
Event == [terminal : BOOLEAN, safe : BOOLEAN]

ASSUME StreamAssumption ==
    /\ IsFiniteSet(Writers) /\ Script \in [Writers -> Seq(Event)]
    /\ MaxRetries \in Nat /\ MaxFailures \in Nat /\ MaxReconnects \in Nat

VARIABLES
    rows,        \* the rows of run_events: sequence number and event
    wpc,         \* each writer: "ready", "insert"
    wseq,        \* the sequence number a writer has computed
    wpos,        \* how many events of its script a writer is done with
    failed,      \* appends that raised
    phase,       \* the client: fetch, caught_up, streaming, poll, polled, off
    reply,       \* rows on their way to the client
    shown,       \* bySeq: the rows the client holds
    lastSeq,     \* the sequence number the client resumes from
    conn,        \* what the client displays
    attempts, failures, reconnects

storeVars == <<rows, wpc, wseq, wpos, failed>>
clientVars == <<phase, reply, shown, lastSeq, conn, attempts, failures, reconnects>>
vars == <<storeVars, clientVars>>

Started == [seq |-> 0, ev |-> [terminal |-> FALSE, safe |-> FALSE]]

Init ==
    /\ rows = {Started}
    /\ wpc = [w \in Writers |-> "ready"]
    /\ wseq = [w \in Writers |-> 0]
    /\ wpos = [w \in Writers |-> 0]
    /\ failed = 0
    /\ phase = "fetch" /\ reply = {} /\ shown = {} /\ lastSeq = 0 /\ conn = "connecting"
    /\ attempts = 0 /\ failures = 0 /\ reconnects = 0

Seqs(S) == {r.seq : r \in S}

-----------------------------------------------------------------------------
(***************************************************************************)
(* append_next_event: read the highest sequence number, insert the next.   *)
(* The unique constraint on (run_id, sequence) makes the second of two     *)
(* equal inserts fail; leaving the with block then commits a session that  *)
(* must be rolled back, which raises before the retry loop goes round.     *)
(***************************************************************************)
NextSequence_Skips == Max(Seqs(rows)) + (IF Cardinality(rows) > 2 THEN 2 ELSE 1)

NextSequence == Max(Seqs(rows)) + 1

AppendRead(w) ==
    /\ wpc[w] = "ready"
    /\ wpos[w] < Len(Script[w])
    /\ wseq' = [wseq EXCEPT ![w] = NextSequence]
    /\ wpc' = [wpc EXCEPT ![w] = "insert"]
    /\ UNCHANGED <<rows, wpos, failed, clientVars>>

Insertable_Always(n) == TRUE

Insertable(n) == n \notin Seqs(rows)

AppendInsert(w) ==
    /\ wpc[w] = "insert"
    /\ IF Insertable(wseq[w])
       THEN /\ rows' = rows \cup {[seq |-> wseq[w], ev |-> Script[w][wpos[w] + 1]]}
            /\ UNCHANGED failed
       ELSE failed' = failed + 1 /\ UNCHANGED rows
    /\ wpos' = [wpos EXCEPT ![w] = @ + 1]
    /\ wpc' = [wpc EXCEPT ![w] = "ready"]
    /\ UNCHANGED <<wseq, clientVars>>

(***************************************************************************)
(* The route: the rows after a sequence number that is at least 0.         *)
(***************************************************************************)
ListEvents_OffByOne(after) == {r \in rows : r.seq > after + 1}

ListEvents(after) == {r \in rows : r.seq > after}

-----------------------------------------------------------------------------
(***************************************************************************)
(* useRunEvents: the effect starts with an empty map and a catch-up fetch  *)
(* from 0, retried after a failure.                                        *)
(***************************************************************************)
CatchUp ==
    /\ phase = "fetch"
    /\ reply' = ListEvents(0)
    /\ phase' = "caught_up"
    /\ UNCHANGED <<storeVars, shown, lastSeq, conn, attempts, failures, reconnects>>

CatchUpFails_OneMore ==
    /\ phase = "fetch" /\ failures < MaxFailures
    /\ failures' = failures + 1
    /\ IF attempts <= MaxRetries
       THEN attempts' = attempts + 1 /\ UNCHANGED <<phase, conn>>
       ELSE phase' = "off" /\ conn' = "error" /\ UNCHANGED attempts
    /\ UNCHANGED <<storeVars, reply, shown, lastSeq, reconnects>>

CatchUpFails ==
    /\ phase = "fetch" /\ failures < MaxFailures
    /\ failures' = failures + 1
    /\ IF attempts < MaxRetries
       THEN attempts' = attempts + 1 /\ UNCHANGED <<phase, conn>>
       ELSE phase' = "off" /\ conn' = "error" /\ UNCHANGED attempts
    /\ UNCHANGED <<storeVars, reply, shown, lastSeq, reconnects>>

Higher(S) == Max(Seqs(S) \cup {lastSeq})

(***************************************************************************)
(* The catch-up is ingested whole; the stream opens after it.              *)
(***************************************************************************)
IngestCatchUp ==
    /\ phase = "caught_up"
    /\ shown' = shown \cup reply
    /\ lastSeq' = Higher(reply)
    /\ reply' = {}
    /\ phase' = "streaming" /\ conn' = "live"
    /\ UNCHANGED <<storeVars, attempts, failures, reconnects>>

(***************************************************************************)
(* streamRunEvents: the stream ends or times out, after a delay the client *)
(* fetches what is new; then it connects again, whether or not that fetch  *)
(* succeeded.                                                              *)
(***************************************************************************)
StreamEnds ==
    /\ phase = "streaming"
    /\ phase' = "poll" /\ conn' = "reconnecting"
    /\ UNCHANGED <<storeVars, reply, shown, lastSeq, attempts, failures, reconnects>>

Poll ==
    /\ phase = "poll"
    /\ reply' = ListEvents(lastSeq)
    /\ phase' = "polled"
    /\ UNCHANGED <<storeVars, shown, lastSeq, conn, attempts, failures, reconnects>>

PollFails ==
    /\ phase = "poll" /\ failures < MaxFailures
    /\ failures' = failures + 1
    /\ phase' = "streaming" /\ conn' = "live"
    /\ UNCHANGED <<storeVars, reply, shown, lastSeq, attempts, reconnects>>

(***************************************************************************)
(* onEvent, event by event: a terminal event the UI may render closes the  *)
(* client, the events behind it are dropped.                               *)
(***************************************************************************)
Closing(S) == {r \in S : r.ev.terminal /\ r.ev.safe}

Ingested(S) == IF Closing(S) = {} THEN S ELSE {r \in S : r.seq <= Min(Seqs(Closing(S)))}

IngestPoll ==
    /\ phase = "polled"
    /\ shown' = shown \cup Ingested(reply)
    /\ lastSeq' = Higher(reply)
    /\ reply' = {}
    /\ IF Closing(reply) = {}
       THEN phase' = "streaming" /\ conn' = "live"
       ELSE phase' = "off" /\ conn' = "closed"
    /\ UNCHANGED <<storeVars, attempts, failures, reconnects>>

(***************************************************************************)
(* The user clicks Reconnect: the effect is cleaned up (what is in flight  *)
(* is ignored) and runs again from nothing.                                *)
(***************************************************************************)
Reconnect ==
    /\ reconnects < MaxReconnects
    /\ reconnects' = reconnects + 1
    /\ phase' = "fetch" /\ reply' = {} /\ shown' = {} /\ lastSeq' = 0
    /\ conn' = "connecting" /\ attempts' = 0
    /\ UNCHANGED <<storeVars, failures>>

Writing == \E w \in Writers : AppendRead(w) \/ AppendInsert(w)
Reading == CatchUp \/ CatchUpFails \/ IngestCatchUp \/ StreamEnds \/ Poll \/ PollFails \/ IngestPoll

(***************************************************************************)
(* All events are written and the client has closed or given up.           *)
(***************************************************************************)
Rest == /\ \A w \in Writers : wpos[w] = Len(Script[w])
        /\ phase = "off"
        /\ UNCHANGED vars

Next == Writing \/ Reading \/ Reconnect \/ Rest

Spec == Init /\ [][Next]_vars

(***************************************************************************)
(* Server threads go on; the browser's timers and fetches come back, and   *)
(* not all of them fail (MaxFailures).                                     *)
(***************************************************************************)
FairSpec == /\ Spec
            /\ \A w \in Writers : WF_vars(AppendRead(w) \/ AppendInsert(w))
            /\ WF_vars(Reading)

-----------------------------------------------------------------------------
(***************************************************************************)
(* The appends the scripts hold; the last sequence number if none fails.   *)
(***************************************************************************)
Slots == UNION {{w} \X (1..Len(Script[w])) : w \in Writers}
MaxSeq == Cardinality(Slots)

Row == [seq : 0..MaxSeq, ev : Event]

TypeOK ==
    /\ rows \subseteq Row /\ shown \subseteq Row /\ reply \subseteq Row
    /\ wpc \in [Writers -> {"ready", "insert"}]
    /\ wseq \in [Writers -> 0..MaxSeq]
    /\ \A w \in Writers : wpos[w] \in 0..Len(Script[w])
    /\ failed \in Nat /\ lastSeq \in 0..MaxSeq
    /\ phase \in {"fetch", "caught_up", "streaming", "poll", "polled", "off"}
    /\ conn \in {"connecting", "live", "reconnecting", "closed", "error"}
    /\ attempts \in 0..MaxRetries /\ failures \in 0..MaxFailures
    /\ reconnects \in 0..MaxReconnects

(***************************************************************************)
(* DenseSequences: the sequence numbers of the stored events are 0, 1, 2,  *)
(* ... without a gap or a repetition, although two writers may compute the *)
(* same number (append_next_event; "verify dense sequences",               *)
(* docs/operations/runbooks.md).                                           *)
(***************************************************************************)
DenseSequences == /\ Seqs(rows) = 0..(Cardinality(rows) - 1)
                  /\ \A r, q \in rows : r.seq = q.seq => r = q

(***************************************************************************)
(* NoGapShown: whatever was appended while a fetch was on its way, the     *)
(* client never shows an event while an earlier one (from 1 on) is missing *)
(* (ingest, streamRunEvents): resuming from the last sequence loses none.  *)
(***************************************************************************)
NoGapShown == \A r \in shown : \A n \in 1..r.seq : n \in Seqs(shown)

(***************************************************************************)
(* EventuallyShown: every stored event from 1 on is eventually shown,      *)
(* unless the client closed on a terminal event or gave up fetching.       *)
(***************************************************************************)
EventuallyShown ==
    \A n \in 1..MaxSeq : n \in Seqs(rows) ~> (n \in Seqs(shown) \/ conn \in {"closed", "error"})

(***************************************************************************)
(* TerminalCloses: "Terminal AG-UI event closes the stream"                *)
(* (useRunEvents.ts).                                                      *)
(***************************************************************************)
TerminalCloses == (Closing(shown) # {}) ~> (Closing(shown) = {} \/ conn = "closed")

(***************************************************************************)
(* FullReplay: "after_sequence=0   # full replay"                          *)
(* (docs/tutorials/02-approval-flow.md): a client that has caught up with  *)
(* after_sequence=0 has every event stored before its fetch.               *)
(***************************************************************************)
FullReplay == phase = "streaming" => Started \in shown

(***************************************************************************)
(* CollisionsRetried: "Assign next sequence + insert atomically; retry seq *)
(* collisions" (append_next_event): no append is given up.                 *)
(***************************************************************************)
CollisionsRetried == failed = 0
=============================================================================
