---------------------------- MODULE GatewayProofs ----------------------------
(***************************************************************************)
(* Proofs about Gateway, for any set of write actions, any number of       *)
(* decide and cancel requests and any number of restarts.                  *)
(***************************************************************************)
EXTENDS Gateway, TLAPS

(***************************************************************************)
(* TypeOK says of the terminal events only what they are called; that ends *)
(* is a sequence at all is needed to append to it.                         *)
(***************************************************************************)
EndTypes == {"run.completed", "run.failed", "run.cancelled"}
Codes == {"none", "BUDGET_EXCEEDED", "INTERNAL_ERROR", "completed", "rejected"}
Ended == [type : EndTypes, code : Codes]
Typed == TypeOK /\ ends \in Seq(Ended)

LEMMA NobodyIsTwo ==
    ASSUME NEW c \in Cancellers
    PROVE  c \notin Threads /\ c \in Actors
BY GatewayAssumption DEF Threads, Actors

LEMMA InitTypes == Init => Typed
<1> SUFFICES ASSUME Init PROVE Typed
    OBVIOUS
<1> USE GatewayAssumption
<1>1. pc \in [Actors -> Places]
    BY DEF Init, Places
<1>2. row \in [status : Statuses, state : States]
    BY DEF Init, Statuses, States
<1>3. rows \in [Acts -> Decisions]
    BY DEF Init, Decisions
<1>4. mem \in [status : Statuses, state : States, cancelled : BOOLEAN,
               approvals : [Acts -> Decisions]]
    BY DEF Init, NoState, Statuses, States, Decisions
<1>5. \A t \in Threads : pc[t] = "invoke" => todo[t] # {}
    BY DEF Init, Threads, Actors
<1>6. /\ ends \in Seq(Ended)
      /\ \A i \in DOMAIN ends : ends[i].type \in {"run.completed", "run.failed", "run.cancelled"}
    BY DEF Init
<1>7. /\ cached \in BOOLEAN /\ flag \in BOOLEAN /\ expired \in BOOLEAN
    BY DEF Init
<1>8. /\ todo \in [Threads -> SUBSET Acts]
      /\ req \in [Deciders -> [act : Acts, verdict : Verdicts]]
    BY DEF Init
<1>9. /\ executed \in [Acts -> Nat] /\ decided \in [Acts -> Nat]
      /\ granted \subseteq Acts /\ restarts \in 0..MaxRestarts
    BY DEF Init
<1> QED
    BY <1>1, <1>2, <1>3, <1>4, <1>5, <1>6, <1>7, <1>8, <1>9 DEF Typed, TypeOK

(***************************************************************************)
(* A step moves at most the actor that takes it.                           *)
(***************************************************************************)
LEMMA GotoMoves ==
    ASSUME NEW x \in Actors, NEW place \in Places, pc \in [Actors -> Places], Goto(x, place)
    PROVE  /\ pc' \in [Actors -> Places]
           /\ pc'[x] = place
           /\ \A y \in Actors \ {x} : pc'[y] = pc[y]
BY DEF Goto

LEMMA EndAppended ==
    ASSUME NEW type \in EndTypes, NEW code \in Codes,
           ends \in Seq(Ended), AppendEnd(type, code)
    PROVE  ends' \in Seq(Ended)
BY DEF AppendEnd, Ended

LEMMA GraphEndTyped ==
    ASSUME NEW t, NEW type \in EndTypes, NEW code \in Codes,
           ends \in Seq(Ended), GraphEnd(t, type, code)
    PROVE  ends' \in Seq(Ended)
<1>1. CASE AppendEnd(type, code)
    BY <1>1, EndAppended
<1>2. CASE UNCHANGED ends
    BY <1>2
<1> QED
    BY <1>1, <1>2 DEF GraphEnd

LEMMA EndsNamed ==
    ASSUME NEW e \in Seq(Ended)
    PROVE  \A i \in DOMAIN e : e[i].type \in {"run.completed", "run.failed", "run.cancelled"}
<1> SUFFICES ASSUME NEW i \in DOMAIN e
             PROVE  e[i].type \in EndTypes
    BY DEF EndTypes
<1>1. i \in 1..Len(e)
    OBVIOUS
<1>2. e[i] \in Ended
    BY <1>1
<1> QED
    BY <1>2 DEF Ended

(***************************************************************************)
(* Where RepositoryStore.save goes on.                                     *)
(***************************************************************************)
LEMMA SavePlaces ==
    ASSUME NEW place \in {"save", "save_return", "save_reject",
                          "upsert", "upsert_return", "upsert_reject"}
    PROVE  /\ Upserting(place) \in {"upsert", "upsert_return", "upsert_reject"}
           /\ Returned(place) \in {"loop", "done", "reject_event"}
           /\ place \notin {"save", "upsert"} =>
                 Upserting(place) # "upsert" /\ Returned(place) # "loop"
BY DEF Upserting, Returned

(***************************************************************************)
(* The parts of Typed a step of the graph can disturb; the rest is in      *)
(* quietVars.                                                              *)
(***************************************************************************)
PlacesTyped == /\ pc \in [Actors -> Places]
               /\ todo \in [Threads -> SUBSET Acts]
               /\ \A t \in Threads : pc[t] = "invoke" => todo[t] # {}
RowTyped == row \in [status : Statuses, state : States]
MemTyped == mem \in [status : Statuses, state : States, cancelled : BOOLEAN,
                     approvals : [Acts -> Decisions]]
DataTyped == /\ rows \in [Acts -> Decisions]
             /\ req \in [Deciders -> [act : Acts, verdict : Verdicts]]
             /\ executed \in [Acts -> Nat] /\ decided \in [Acts -> Nat]
             /\ granted \subseteq Acts
FlagsTyped == /\ cached \in BOOLEAN /\ flag \in BOOLEAN /\ expired \in BOOLEAN
              /\ restarts \in 0..MaxRestarts
EndsTyped == ends \in Seq(Ended)

Parts == PlacesTyped /\ RowTyped /\ MemTyped /\ DataTyped /\ FlagsTyped /\ EndsTyped

LEMMA TypedParts == (Typed <=> Parts) /\ (Typed' <=> Parts')
BY EndsNamed DEF Parts, Typed, TypeOK, PlacesTyped, RowTyped, MemTyped, DataTyped, FlagsTyped, EndsTyped

LEMMA MovedTyped ==
    ASSUME PlacesTyped, NEW x \in Actors, NEW place \in Places, Goto(x, place), UNCHANGED todo,
           place = "invoke" => x \in Threads /\ todo[x] # {}
    PROVE  PlacesTyped'
<1>1. pc' \in [Actors -> Places] /\ pc'[x] = place /\ \A y \in Actors \ {x} : pc'[y] = pc[y]
    BY GotoMoves DEF PlacesTyped
<1>2. ASSUME NEW t \in Threads, pc'[t] = "invoke" PROVE todo'[t] # {}
    <2>1. CASE t = x
        BY <1>1, <1>2, <2>1
    <2>2. CASE t # x
        BY <1>1, <1>2, <2>2 DEF PlacesTyped, Actors
    <2> QED
        BY <2>1, <2>2
<1> QED
    BY <1>1, <1>2 DEF PlacesTyped

LEMMA GraphTypes ==
    ASSUME Typed, NEW t \in Threads, Graph(t)
    PROVE  Typed'
<1> t \in Actors
    BY DEF Actors
<1>1. PlacesTyped /\ RowTyped /\ MemTyped /\ DataTyped /\ FlagsTyped /\ EndsTyped
    BY TypedParts DEF Parts
<1>2. ASSUME UNCHANGED quietVars PROVE FlagsTyped'
    BY <1>1, <1>2 DEF FlagsTyped, quietVars
<1>3. ASSUME UNCHANGED <<rows, executed, quietVars>> PROVE DataTyped'
    BY <1>1, <1>3 DEF DataTyped, quietVars
<1>4. ASSUME NEW s \in Statuses, mem' = [mem EXCEPT !.status = s] PROVE MemTyped'
    BY <1>1, <1>4 DEF MemTyped
<1>5. CASE Begin(t)
    <2>1. mem' \in {[mem EXCEPT !.status = "running", !.cancelled = @ \/ flag],
                    [mem EXCEPT !.cancelled = @ \/ flag]}
        BY <1>5 DEF Begin
    <2>2. MemTyped'
        BY <1>1, <2>1 DEF MemTyped, FlagsTyped, Statuses
    <2>3. PlacesTyped'
        BY <1>1, <1>5, MovedTyped DEF Begin, Places
    <2> QED
        BY <1>1, <1>2, <1>3, <1>5, <2>2, <2>3, TypedParts DEF Parts, Begin, RowTyped, EndsTyped
<1>6. CASE StopCancelled(t)
    <2>1. MemTyped'
        BY <1>4, <1>6 DEF StopCancelled, Statuses, Terminal
    <2>2. PlacesTyped'
        BY <1>1, <1>6, MovedTyped DEF StopCancelled, Places
    <2>3. EndsTyped'
        BY <1>1, <1>6, GraphEndTyped DEF StopCancelled, EndsTyped, EndTypes, Codes
    <2> QED
        BY <1>1, <1>2, <1>3, <1>6, <2>1, <2>2, <2>3, TypedParts DEF Parts, StopCancelled, RowTyped
<1>7. ASSUME NEW code \in Codes, FailAs(t, code) PROVE Typed'
    <2>1. MemTyped'
        BY <1>4, <1>7 DEF FailAs, Statuses, Terminal
    <2>2. PlacesTyped'
        BY <1>1, <1>7, MovedTyped DEF FailAs, Places
    <2>3. EndsTyped'
        BY <1>1, <1>7, GraphEndTyped DEF FailAs, EndsTyped, EndTypes
    <2> QED
        BY <1>1, <1>2, <1>3, <1>7, <2>1, <2>2, <2>3, TypedParts DEF Parts, FailAs, RowTyped
<1>8. CASE Fail(t)
    BY <1>7, <1>8 DEF Fail, Codes
<1>9. CASE Analyse(t)
    <2>1. CASE /\ mem' = [mem EXCEPT !.state = "approval_pause"]
               /\ Goto(t, "save") /\ UNCHANGED ends
        <3>1. MemTyped'
            BY <1>1, <2>1 DEF MemTyped, States
        <3>2. PlacesTyped'
            BY <1>1, <1>9, <2>1, MovedTyped DEF Analyse, Places
        <3> QED
            BY <1>1, <1>2, <1>3, <1>9, <2>1, <3>1, <3>2, TypedParts
               DEF Parts, Analyse, RowTyped, EndsTyped
    <2>2. CASE /\ mem' = [mem EXCEPT !.state = "complete", !.status = "completed"]
               /\ GraphEnd(t, "run.completed", "none") /\ Goto(t, "save_return")
        <3>1. MemTyped'
            BY <1>1, <2>2 DEF MemTyped, States, Statuses, Terminal
        <3>2. PlacesTyped'
            BY <1>1, <1>9, <2>2, MovedTyped DEF Analyse, Places
        <3>3. EndsTyped'
            BY <1>1, <2>2, GraphEndTyped DEF EndsTyped, EndTypes, Codes
        <3> QED
            BY <1>1, <1>2, <1>3, <1>9, <3>1, <3>2, <3>3, TypedParts DEF Parts, Analyse, RowTyped
    <2> QED
        BY <1>9, <2>1, <2>2 DEF Analyse
<1>10. CASE Pause(t)
    <2>1. MemTyped'
        BY <1>1, <1>10 DEF Pause, MemTyped, Statuses, Decisions
    <2>2. PlacesTyped'
        BY <1>1, <1>10, MovedTyped DEF Pause, Places
    <2> QED
        BY <1>1, <1>2, <1>3, <1>10, <2>1, <2>2, TypedParts DEF Parts, Pause, RowTyped, EndsTyped
<1>11. CASE EnterExecute(t)
    <2>1. CASE Approved = {}
        BY <1>7, <1>11, <2>1 DEF EnterExecute, Codes
    <2>2. CASE Approved # {}
        <3>1. todo' = [todo EXCEPT ![t] = Approved] /\ Goto(t, "exec")
            BY <1>11, <2>2 DEF EnterExecute
        <3>2. UNCHANGED <<row, rows, mem, ends, executed, quietVars>>
            BY <1>11, <2>2 DEF EnterExecute
        <3>3. PlacesTyped'
            BY <1>1, <3>1 DEF PlacesTyped, Goto, Places, Actors, Approved
        <3> QED
            BY <1>1, <1>2, <1>3, <3>2, <3>3, TypedParts DEF Parts, RowTyped, MemTyped, EndsTyped
    <2> QED
        BY <2>1, <2>2
<1>12. CASE CheckAction(t)
    <2>1. PlacesTyped'
        BY <1>1, <1>12, MovedTyped DEF CheckAction, Places
    <2> QED
        BY <1>1, <1>2, <1>3, <1>12, <2>1, TypedParts DEF Parts, CheckAction, RowTyped, MemTyped, EndsTyped
<1>13. CASE Invoke(t)
    <2>1. PICK a \in Acts : /\ executed' = [executed EXCEPT ![a] = @ + 1]
                            /\ todo' = [todo EXCEPT ![t] = @ \ {a}]
        BY <1>1, <1>13 DEF Invoke, PlacesTyped
    <2>2. Goto(t, "exec") /\ UNCHANGED <<row, rows, mem, ends, quietVars>>
        BY <1>13 DEF Invoke
    <2>3. PlacesTyped'
        BY <1>1, <2>1, <2>2 DEF PlacesTyped, Goto, Places, Actors
    <2>4. DataTyped'
        BY <1>1, <2>1, <2>2 DEF DataTyped, quietVars
    <2> QED
        BY <1>1, <1>2, <2>2, <2>3, <2>4, TypedParts DEF Parts, RowTyped, MemTyped, EndsTyped
<1>14. CASE EndExecute(t)
    <2>1. MemTyped'
        BY <1>1, <1>14 DEF EndExecute, MemTyped, Statuses, States
    <2>2. PlacesTyped'
        BY <1>1, <1>14, MovedTyped DEF EndExecute, Places
    <2> QED
        BY <1>1, <1>2, <1>3, <1>14, <2>1, <2>2, TypedParts DEF Parts, EndExecute, RowTyped, EndsTyped
<1>15. CASE Verify(t)
    <2>1. MemTyped'
        BY <1>1, <1>15 DEF Verify, MemTyped, States
    <2>2. PlacesTyped'
        BY <1>1, <1>15, MovedTyped DEF Verify, Places
    <2> QED
        BY <1>1, <1>2, <1>3, <1>15, <2>1, <2>2, TypedParts DEF Parts, Verify, RowTyped, EndsTyped
<1>16. CASE Complete(t)
    <2>1. MemTyped'
        BY <1>4, <1>16 DEF Complete, Statuses, Terminal
    <2>2. PlacesTyped'
        BY <1>1, <1>16, MovedTyped DEF Complete, Places
    <2>3. EndsTyped'
        BY <1>1, <1>16, GraphEndTyped DEF Complete, EndsTyped, EndTypes, Codes
    <2> QED
        BY <1>1, <1>2, <1>3, <1>16, <2>1, <2>2, <2>3, TypedParts DEF Parts, Complete, RowTyped
<1>17. CASE SaveRow(t)
    <2>1. RowTyped'
        BY <1>1, <1>17 DEF SaveRow, RowTyped, MemTyped
    <2>2. PICK place \in {"upsert", "upsert_return", "upsert_reject", "loop", "done",
                          "reject_event"} : Goto(t, place)
        BY <1>17, SavePlaces DEF SaveRow
    <2>3. PlacesTyped'
        BY <1>1, <1>17, <2>2, MovedTyped DEF SaveRow, Places, Answered
    <2> QED
        BY <1>1, <1>2, <1>3, <1>17, <2>1, <2>3, TypedParts DEF Parts, SaveRow, MemTyped, EndsTyped
<1>18. CASE UpsertApproval(t)
    <2>1. PICK place \in {"upsert", "upsert_return", "upsert_reject", "loop", "done",
                          "reject_event"} : Goto(t, place)
        BY <1>18, SavePlaces DEF UpsertApproval
    <2>2. PlacesTyped'
        BY <1>1, <1>18, <2>1, MovedTyped DEF UpsertApproval, Places, Answered
    <2>3. UNCHANGED rows \/ \E a \in Acts : rows' = [rows EXCEPT ![a] = mem.approvals[a]]
        BY <1>18 DEF UpsertApproval, Missing
    <2>4. rows' \in [Acts -> Decisions]
        BY <1>1, <2>3 DEF DataTyped, MemTyped
    <2>5. DataTyped'
        BY <1>1, <1>18, <2>4 DEF DataTyped, UpsertApproval, quietVars
    <2> QED
        BY <1>1, <1>2, <1>18, <2>2, <2>5, TypedParts
           DEF Parts, UpsertApproval, RowTyped, MemTyped, EndsTyped
<1> QED
    BY <1>5, <1>6, <1>8, <1>9, <1>10, <1>11, <1>12, <1>13, <1>14, <1>15, <1>16, <1>17, <1>18
       DEF Graph

LEMMA CancelTypes ==
    ASSUME Typed, NEW c \in Cancellers, Cancel(c)
    PROVE  Typed'
<1> c \in Actors
    BY NobodyIsTwo
<1>1. PlacesTyped /\ RowTyped /\ MemTyped /\ DataTyped /\ FlagsTyped /\ EndsTyped
    BY TypedParts DEF Parts
<1>2. ASSUME UNCHANGED cancelQuiet PROVE DataTyped' /\ UNCHANGED todo
    BY <1>1, <1>2 DEF DataTyped, cancelQuiet
<1>3. ASSUME UNCHANGED cancelQuiet, flag' \in BOOLEAN PROVE FlagsTyped'
    BY <1>1, <1>3 DEF FlagsTyped, cancelQuiet
<1>4. flag \in BOOLEAN
    BY <1>1 DEF FlagsTyped
<1>5. CASE CancelRead(c)
    <2>1. PlacesTyped'
        BY <1>1, <1>2, <1>5, MovedTyped DEF CancelRead, Places
    <2> QED
        BY <1>1, <1>2, <1>3, <1>4, <1>5, <2>1, TypedParts
           DEF Parts, CancelRead, RowTyped, MemTyped, EndsTyped
<1>6. CASE CancelRow(c)
    <2>1. RowTyped'
        BY <1>1, <1>6 DEF CancelRow, RowTyped, Statuses, Terminal
    <2>2. PlacesTyped'
        BY <1>1, <1>2, <1>6, MovedTyped DEF CancelRow, Places
    <2> QED
        BY <1>1, <1>2, <1>3, <1>4, <1>6, <2>1, <2>2, TypedParts
           DEF Parts, CancelRow, MemTyped, EndsTyped
<1>7. CASE CancelEvent(c)
    <2>1. PlacesTyped'
        BY <1>1, <1>2, <1>7, MovedTyped DEF CancelEvent, Places, Answered
    <2>2. EndsTyped'
        BY <1>1, <1>7, EndAppended DEF CancelEvent, EndsTyped, EndTypes, Codes
    <2> QED
        BY <1>1, <1>2, <1>3, <1>4, <1>7, <2>1, <2>2, TypedParts
           DEF Parts, CancelEvent, RowTyped, MemTyped
<1>8. CASE CancelFlag(c)
    <2>1. MemTyped'
        BY <1>1, <1>8 DEF CancelFlag, MemTyped
    <2>2. PlacesTyped'
        BY <1>1, <1>2, <1>8, MovedTyped DEF CancelFlag, Places
    <2>3. FlagsTyped'
        BY <1>3, <1>8 DEF CancelFlag
    <2> QED
        BY <1>1, <1>2, <1>8, <2>1, <2>2, <2>3, TypedParts
           DEF Parts, CancelFlag, RowTyped, EndsTyped
<1>9. CASE CancelStatus(c)
    <2>1. MemTyped'
        BY <1>1, <1>9 DEF CancelStatus, MemTyped, Statuses, Terminal
    <2>2. PlacesTyped'
        BY <1>1, <1>2, <1>9, MovedTyped DEF CancelStatus, Places, Answered
    <2> QED
        BY <1>1, <1>2, <1>3, <1>4, <1>9, <2>1, <2>2, TypedParts
           DEF Parts, CancelStatus, RowTyped, EndsTyped
<1> QED
    BY <1>5, <1>6, <1>7, <1>8, <1>9 DEF Cancel

LEMMA DecideTypes ==
    ASSUME Typed, NEW d \in Deciders, Decide(d)
    PROVE  Typed'
<1> d \in Actors
    BY DEF Actors, Threads
<1>1. PlacesTyped /\ RowTyped /\ MemTyped /\ DataTyped /\ FlagsTyped /\ EndsTyped
    BY TypedParts DEF Parts
<1>2. ASSUME UNCHANGED decideQuiet PROVE FlagsTyped' /\ UNCHANGED todo
    BY <1>1, <1>2 DEF FlagsTyped, decideQuiet
<1>3. ASSUME UNCHANGED decideQuiet, UNCHANGED <<rows, granted, decided>> PROVE DataTyped'
    BY <1>1, <1>3 DEF DataTyped, decideQuiet
<1>4. CASE DecideRead(d)
    <2>1. PlacesTyped'
        BY <1>1, <1>2, <1>4, MovedTyped DEF DecideRead, Places, Answered
    <2> QED
        BY <1>1, <1>2, <1>3, <1>4, <2>1, TypedParts
           DEF Parts, DecideRead, RowTyped, MemTyped, EndsTyped
<1>5. CASE DecideWrite(d)
    <2>1. PlacesTyped'
        BY <1>1, <1>2, <1>5, MovedTyped DEF DecideWrite, Places
    <2>2. req[d] \in [act : Acts, verdict : Verdicts]
        BY <1>1 DEF DataTyped
    <2>3. DataTyped'
        BY <1>1, <1>5, <2>2 DEF DecideWrite, DataTyped, decideQuiet, Decisions
    <2> QED
        BY <1>1, <1>2, <1>5, <2>1, <2>3, TypedParts
           DEF Parts, DecideWrite, RowTyped, MemTyped, EndsTyped
<1>6. CASE DecideEvent(d)
    <2>1. PlacesTyped'
        BY <1>1, <1>2, <1>6, MovedTyped DEF DecideEvent, Places, Answered
    <2> QED
        BY <1>1, <1>2, <1>3, <1>6, <2>1, TypedParts
           DEF Parts, DecideEvent, RowTyped, MemTyped, EndsTyped
<1>7. CASE DecideSync(d)
    <2>1. MemTyped'
        BY <1>1, <1>7 DEF DecideSync, Synced, MemTyped, DataTyped
    <2>2. PICK place \in {"done", "reject", "resume"} : Goto(d, place)
        BY <1>7 DEF DecideSync
    <2>3. PlacesTyped'
        BY <1>1, <1>2, <1>7, <2>2, MovedTyped DEF DecideSync, Places, Answered
    <2> QED
        BY <1>1, <1>2, <1>3, <1>7, <2>1, <2>3, TypedParts
           DEF Parts, DecideSync, RowTyped, EndsTyped
<1>8. CASE Reject(d)
    <2>1. MemTyped'
        BY <1>1, <1>8 DEF Reject, MemTyped, Statuses, Terminal
    <2>2. PlacesTyped'
        BY <1>1, <1>2, <1>8, MovedTyped DEF Reject, Places
    <2> QED
        BY <1>1, <1>2, <1>3, <1>8, <2>1, <2>2, TypedParts DEF Parts, Reject, RowTyped, EndsTyped
<1>9. CASE RejectEvent(d)
    <2>1. PlacesTyped'
        BY <1>1, <1>2, <1>9, MovedTyped DEF RejectEvent, Places, Answered
    <2>2. EndsTyped'
        BY <1>1, <1>9, EndAppended DEF RejectEvent, EndsTyped, EndTypes, Codes
    <2> QED
        BY <1>1, <1>2, <1>3, <1>9, <2>1, <2>2, TypedParts
           DEF Parts, RejectEvent, RowTyped, MemTyped
<1>10. CASE RejectRow(d)
    <2>1. RowTyped'
        BY <1>1, <1>10 DEF RejectRow, RowTyped, Statuses, Terminal
    <2>2. PlacesTyped'
        BY <1>1, <1>2, <1>10, MovedTyped DEF RejectRow, Places, Answered
    <2> QED
        BY <1>1, <1>2, <1>3, <1>10, <2>1, <2>2, TypedParts
           DEF Parts, RejectRow, MemTyped, EndsTyped
<1>11. CASE Resume(d)
    <2>1. MemTyped'
        BY <1>1, <1>11 DEF Resume, MemTyped, Statuses, States
    <2>2. PlacesTyped'
        BY <1>1, <1>2, <1>11, MovedTyped DEF Resume, Places
    <2> QED
        BY <1>1, <1>2, <1>3, <1>11, <2>1, <2>2, TypedParts DEF Parts, Resume, RowTyped, EndsTyped
<1> QED
    BY <1>4, <1>5, <1>6, <1>7, <1>8, <1>9, <1>10, <1>11 DEF Decide

LEMMA RestartTypes ==
    ASSUME Typed, Restart
    PROVE  Typed'
<1>1. PlacesTyped /\ RowTyped /\ MemTyped /\ DataTyped /\ FlagsTyped /\ EndsTyped
    BY TypedParts DEF Parts
<1>2. PlacesTyped'
    <2>1. pc' \in [Actors -> Places]
        BY <1>1 DEF Restart, PlacesTyped, Places, Answered
    <2>2. \A t \in Threads : pc'[t] # "invoke"
        BY DEF Restart, Actors, Answered
    <2> QED
        BY <2>1, <2>2 DEF PlacesTyped, Restart
<1>3. MemTyped'
    BY DEF Restart, NoState, MemTyped, Statuses, States, Decisions
<1>4. FlagsTyped'
    <2>1. restarts' \in 0..MaxRestarts
        BY <1>1, GatewayAssumption DEF Restart, FlagsTyped
    <2>2. cached' \in BOOLEAN /\ flag' \in BOOLEAN /\ expired' \in BOOLEAN
        BY <1>1 DEF Restart, FlagsTyped
    <2> QED
        BY <2>1, <2>2 DEF FlagsTyped
<1> QED
    BY <1>1, <1>2, <1>3, <1>4, TypedParts DEF Parts, Restart, RowTyped, DataTyped, EndsTyped

LEMMA StutterTypes ==
    ASSUME Typed, Expire \/ UNCHANGED vars
    PROVE  Typed'
<1>1. UNCHANGED <<pc, row, rows, mem, cached, flag, todo, req, ends, executed, granted,
                  decided, restarts>>
    BY DEF Expire, vars
<1>2. expired' \in BOOLEAN
    BY DEF Expire, vars, Typed, TypeOK
<1> QED
    BY <1>1, <1>2 DEF Typed, TypeOK

(***************************************************************************)
(* The steps of the system, by who takes them.                             *)
(***************************************************************************)
LEMMA WhoSteps ==
    ASSUME [Next]_vars
    PROVE  \/ \E t \in Threads : Graph(t)
           \/ \E c \in Cancellers : Cancel(c)
           \/ \E d \in Deciders : Decide(d)
           \/ Restart
           \/ Expire \/ UNCHANGED vars
BY DEF Next, Step, Rest

LEMMA StepTypes ==
    ASSUME Typed, [Next]_vars
    PROVE  Typed'
BY WhoSteps, GraphTypes, CancelTypes, DecideTypes, RestartTypes, StutterTypes

(***************************************************************************)
(* TypeCorrect: Spec => []TypeOK, that no thread is about to send an       *)
(* action (invoke) with nothing left to send (_do_execute) included.       *)
(***************************************************************************)
THEOREM TypeCorrect == Spec => []TypeOK
<1>1. Typed /\ [Next]_vars => Typed'
    BY StepTypes
<1>2. Typed => TypeOK
    BY DEF Typed
<1> QED
    BY <1>1, <1>2, InitTypes, PTL DEF Spec

-----------------------------------------------------------------------------
(***************************************************************************)
(* Approvals.  "approved" is found in the RunState only if it is, or was,  *)
(* in the row, and what a thread has still to send was approved in the     *)
(* RunState: nothing but DecideWrite makes an approval.                    *)
(***************************************************************************)
Genuine == /\ \A a \in Acts : rows[a] = "approved" => a \in granted
           /\ \A a \in Acts : mem.approvals[a] = "approved" => a \in granted
           /\ \A t \in Threads : todo[t] \subseteq granted
           /\ \A a \in Acts : executed[a] > 0 => a \in granted

(***************************************************************************)
(* What most steps leave alone.                                            *)
(***************************************************************************)
LEMMA GenuineKept ==
    ASSUME Genuine, mem'.approvals = mem.approvals, UNCHANGED <<rows, todo, executed, granted>>
    PROVE  Genuine'
BY DEF Genuine

LEMMA GenuineStep ==
    ASSUME Typed, Genuine, [Next]_vars
    PROVE  Genuine'
<1>1. PlacesTyped /\ MemTyped /\ DataTyped
    BY TypedParts DEF Parts
<1>2. ASSUME NEW t \in Threads, Graph(t) PROVE Genuine'
    <2>1. CASE Begin(t)
        <3>1. mem' \in {[mem EXCEPT !.status = "running", !.cancelled = @ \/ flag],
                        [mem EXCEPT !.cancelled = @ \/ flag]}
            BY <2>1 DEF Begin
        <3>2. mem'.approvals = mem.approvals
            BY <1>1, <3>1 DEF MemTyped
        <3> QED
            BY <2>1, <3>2, GenuineKept DEF Begin, quietVars
    <2>2. CASE StopCancelled(t)
        BY <1>1, <2>2, GenuineKept DEF StopCancelled, MemTyped, quietVars
    <2>3. ASSUME NEW code, FailAs(t, code) PROVE Genuine'
        BY <1>1, <2>3, GenuineKept DEF FailAs, MemTyped, quietVars
    <2>4. CASE Fail(t)
        BY <2>3, <2>4 DEF Fail
    <2>5. CASE Analyse(t)
        BY <1>1, <2>5, GenuineKept DEF Analyse, MemTyped, quietVars
    <2>6. CASE Pause(t)
        <3>1. \A a \in Acts : mem'.approvals[a] = "pending"
            BY <1>1, <2>6 DEF Pause, MemTyped
        <3> QED
            BY <2>6, <3>1 DEF Pause, Genuine, quietVars
    <2>7. CASE EnterExecute(t)
        <3>1. CASE Approved = {}
            BY <2>3, <2>7, <3>1 DEF EnterExecute
        <3>2. CASE Approved # {}
            <4>1. todo' = [todo EXCEPT ![t] = Approved]
                BY <2>7, <3>2 DEF EnterExecute
            <4>2. Approved \subseteq granted
                BY DEF Approved, Genuine
            <4>3. \A u \in Threads : todo'[u] \subseteq granted
                BY <1>1, <4>1, <4>2 DEF Genuine, PlacesTyped
            <4> QED
                BY <2>7, <3>2, <4>3 DEF EnterExecute, Genuine, quietVars
        <3> QED
            BY <3>1, <3>2
    <2>8. CASE CheckAction(t)
        BY <2>8, GenuineKept DEF CheckAction, quietVars
    <2>9. CASE Invoke(t)
        <3>1. PICK a \in todo[t] : /\ executed' = [executed EXCEPT ![a] = @ + 1]
                                   /\ todo' = [todo EXCEPT ![t] = @ \ {a}]
            BY <1>1, <2>9 DEF Invoke, PlacesTyped
        <3>2. a \in granted /\ a \in Acts
            BY <1>1 DEF Genuine, PlacesTyped
        <3>3. \A b \in Acts : executed'[b] > 0 => b \in granted
            BY <1>1, <3>1, <3>2 DEF Genuine, DataTyped
        <3>4. \A u \in Threads : todo'[u] \subseteq granted
            BY <1>1, <3>1 DEF Genuine, PlacesTyped
        <3> QED
            BY <2>9, <3>3, <3>4 DEF Invoke, Genuine, quietVars
    <2>10. CASE EndExecute(t)
        BY <1>1, <2>10, GenuineKept DEF EndExecute, MemTyped, quietVars
    <2>11. CASE Verify(t)
        BY <1>1, <2>11, GenuineKept DEF Verify, MemTyped, quietVars
    <2>12. CASE Complete(t)
        BY <1>1, <2>12, GenuineKept DEF Complete, MemTyped, quietVars
    <2>13. CASE SaveRow(t)
        BY <2>13, GenuineKept DEF SaveRow, quietVars
    <2>14. CASE UpsertApproval(t)
        <3>1. UNCHANGED rows \/ \E a \in Acts : rows' = [rows EXCEPT ![a] = mem.approvals[a]]
            BY <2>14 DEF UpsertApproval, Missing
        <3>2. \A b \in Acts : rows'[b] = "approved" => b \in granted
            BY <1>1, <3>1 DEF Genuine, DataTyped
        <3> QED
            BY <2>14, <3>2 DEF UpsertApproval, Genuine, quietVars
    <2> QED
        BY <1>2, <2>1, <2>2, <2>4, <2>5, <2>6, <2>7, <2>8, <2>9, <2>10, <2>11, <2>12, <2>13, <2>14
           DEF Graph
<1>3. ASSUME NEW c \in Cancellers, Cancel(c) PROVE Genuine'
    <2>1. UNCHANGED <<rows, todo, executed, granted>>
        BY <1>3 DEF Cancel, CancelRead, CancelRow, CancelEvent, CancelFlag, CancelStatus, cancelQuiet
    <2>2. mem' \in {mem, [mem EXCEPT !.cancelled = TRUE], [mem EXCEPT !.status = "cancelled"]}
        BY <1>3 DEF Cancel, CancelRead, CancelRow, CancelEvent, CancelFlag, CancelStatus
    <2>3. mem'.approvals = mem.approvals
        BY <1>1, <2>2 DEF MemTyped
    <2> QED
        BY <2>1, <2>3, GenuineKept
<1>4. ASSUME NEW d \in Deciders, Decide(d) PROVE Genuine'
    <2>1. CASE DecideRead(d)
        BY <2>1, GenuineKept DEF DecideRead, decideQuiet
    <2>2. CASE DecideWrite(d)
        <3>1. req[d] \in [act : Acts, verdict : Verdicts]
            BY <1>1 DEF DataTyped
        <3>2. granted \subseteq granted' /\ UNCHANGED <<mem, todo, executed>>
            BY <2>2 DEF DecideWrite, decideQuiet
        <3>3. \A a \in Acts : rows'[a] = "approved" => a \in granted'
            BY <1>1, <2>2, <3>1 DEF DecideWrite, Genuine, DataTyped, Verdicts
        <3> QED
            BY <3>2, <3>3 DEF Genuine
    <2>3. CASE DecideEvent(d)
        BY <2>3, GenuineKept DEF DecideEvent, decideQuiet
    <2>4. CASE DecideSync(d)
        <3>1. \A a \in Acts : mem'.approvals[a] \in {mem.approvals[a], rows[a]}
            BY <1>1, <2>4 DEF DecideSync, Synced, MemTyped
        <3> QED
            BY <2>4, <3>1 DEF DecideSync, Genuine, decideQuiet
    <2>5. CASE Reject(d)
        BY <1>1, <2>5, GenuineKept DEF Reject, MemTyped, decideQuiet
    <2>6. CASE RejectEvent(d)
        BY <2>6, GenuineKept DEF RejectEvent, decideQuiet
    <2>7. CASE RejectRow(d)
        BY <2>7, GenuineKept DEF RejectRow, decideQuiet
    <2>8. CASE Resume(d)
        BY <1>1, <2>8, GenuineKept DEF Resume, MemTyped, decideQuiet
    <2> QED
        BY <1>4, <2>1, <2>2, <2>3, <2>4, <2>5, <2>6, <2>7, <2>8 DEF Decide
<1>5. CASE Restart
    <2>1. \A a \in Acts : mem'.approvals[a] = "none"
        BY <1>5 DEF Restart, NoState
    <2> QED
        BY <1>5, <2>1 DEF Restart, Genuine
<1>6. CASE Expire \/ UNCHANGED vars
    BY <1>6, GenuineKept DEF Expire, vars
<1> QED
    BY <1>2, <1>3, <1>4, <1>5, <1>6, WhoSteps

(***************************************************************************)
(* WritesNeedApprovalRows: Spec => []WriteNeedsApprovalRow, for any number *)
(* of actions, racing decisions, cancels and restarts: what reaches a tool *)
(* was committed as approved by a decide request.                          *)
(***************************************************************************)
THEOREM WritesNeedApprovalRows == Spec => []WriteNeedsApprovalRow
<1>1. Init => Genuine
    BY DEF Init, NoState, Genuine
<1>2. Typed /\ Genuine /\ [Next]_vars => Typed' /\ Genuine'
    BY StepTypes, GenuineStep
<1>3. Genuine => WriteNeedsApprovalRow
    BY DEF Genuine, WriteNeedsApprovalRow
<1> QED
    BY <1>1, <1>2, <1>3, InitTypes, PTL DEF Spec

-----------------------------------------------------------------------------
(***************************************************************************)
(* Cancellation.  A cancel that has set the flag finds the shared RunState *)
(* cancelled for good, or the process was restarted; and a process that    *)
(* lost the RunState has no thread left, and starts none, that could reach *)
(* the loop over the actions.                                              *)
(***************************************************************************)
Working == {"start", "loop", "exec", "invoke", "save", "upsert", "resume"}

Stopped ==
    /\ \A c \in Cancellers : pc[c] \in {"cancel_status", "done"} => mem.cancelled \/ ~cached
    /\ ~cached => \A t \in Threads : pc[t] \notin Working

(***************************************************************************)
(* A thread stays out of the graph unless it is in it or about to resume.  *)
(***************************************************************************)
LEMMA StoppedKept ==
    ASSUME Typed, Stopped, NEW x \in Threads, NEW place \in Places, Goto(x, place),
           place \in Working => pc[x] \in Working \/ cached,
           UNCHANGED cached, mem.cancelled => mem'.cancelled
    PROVE  Stopped'
<1>1. pc \in [Actors -> Places] /\ x \in Actors
    BY DEF Typed, TypeOK, Actors
<1>2. pc'[x] = place /\ \A y \in Actors \ {x} : pc'[y] = pc[y]
    BY <1>1, GotoMoves
<1>3. \A c \in Cancellers : pc'[c] = pc[c]
    BY <1>2, NobodyIsTwo
<1>4. ~cached => \A t \in Threads : pc'[t] \notin Working
    BY <1>2 DEF Stopped, Actors
<1> QED
    BY <1>3, <1>4 DEF Stopped

LEMMA StoppedStep ==
    ASSUME Typed, Stopped, [Next]_vars
    PROVE  Stopped'
<1>1. PlacesTyped /\ MemTyped /\ FlagsTyped
    BY TypedParts DEF Parts
<1>2. ASSUME NEW t \in Threads, Graph(t) PROVE Stopped'
    <2>1. UNCHANGED cached
        BY <1>2 DEF Graph, Begin, StopCancelled, Fail, FailAs, Analyse, Pause, EnterExecute,
                    CheckAction, Invoke, EndExecute, Verify, Complete, SaveRow, UpsertApproval,
                    quietVars
    <2>2. mem.cancelled => mem'.cancelled
        <3>1. CASE Begin(t)
            <4>1. mem' \in {[mem EXCEPT !.status = "running", !.cancelled = @ \/ flag],
                            [mem EXCEPT !.cancelled = @ \/ flag]}
                BY <3>1 DEF Begin
            <4> QED
                BY <1>1, <4>1 DEF MemTyped, FlagsTyped
        <3>2. CASE ~Begin(t)
            BY <1>1, <1>2, <3>2
               DEF Graph, StopCancelled, Fail, FailAs, Analyse, Pause, EnterExecute, CheckAction,
                   Invoke, EndExecute, Verify, Complete, SaveRow, UpsertApproval, MemTyped
        <3> QED
            BY <3>1, <3>2
    <2>3. CASE SaveRow(t) \/ UpsertApproval(t)
        <3>1. PICK place \in {"upsert", "upsert_return", "upsert_reject", "loop", "done",
                              "reject_event"} :
                  Goto(t, place) /\ (place \in Working => pc[t] \in {"save", "upsert"})
            BY <2>3, SavePlaces DEF SaveRow, UpsertApproval, Working
        <3>2. place \in Places /\ {"save", "upsert"} \subseteq Working
            BY DEF Places, Answered, Working
        <3> QED
            BY <2>1, <2>2, <3>1, <3>2, StoppedKept
    <2>4. CASE ~(SaveRow(t) \/ UpsertApproval(t))
        <3>1. PICK place \in {"save", "loop", "save_return", "exec", "invoke"} : Goto(t, place)
            BY <1>2, <2>4
               DEF Graph, Begin, StopCancelled, Fail, FailAs, Analyse, Pause, EnterExecute,
                   CheckAction, Invoke, EndExecute, Verify, Complete
        <3>2. pc[t] \in Working
            BY <1>2, <2>4
               DEF Graph, Begin, StopCancelled, Fail, FailAs, Analyse, Pause, EnterExecute,
                   CheckAction, Invoke, EndExecute, Verify, Complete, AtState, Working
        <3>3. place \in Places
            BY DEF Places
        <3> QED
            BY <2>1, <2>2, <3>1, <3>2, <3>3, StoppedKept
    <2> QED
        BY <2>3, <2>4
<1>3. ASSUME NEW c \in Cancellers, Cancel(c) PROVE Stopped'
    <2>1. c \in Actors /\ c \notin Threads
        BY NobodyIsTwo
    <2>2. PICK place \in {"cancel_flag", "cancel_row", "cancel_event", "error", "cancel_status",
                          "done"} : Goto(c, place)
        BY <1>3 DEF Cancel, CancelRead, CancelRow, CancelEvent, CancelFlag, CancelStatus
    <2>3. pc'[c] = place /\ \A y \in Actors \ {c} : pc'[y] = pc[y]
        <3>1. place \in Places
            BY DEF Places, Answered
        <3> QED
            BY <1>1, <2>1, <2>2, <3>1, GotoMoves DEF PlacesTyped
    <2>4. UNCHANGED cached
        BY <1>3 DEF Cancel, CancelRead, CancelRow, CancelEvent, CancelFlag, CancelStatus, cancelQuiet
    <2>5. \A t \in Threads : pc'[t] = pc[t]
        BY <2>1, <2>3 DEF Actors
    <2>6. mem.cancelled => mem'.cancelled
        BY <1>1, <1>3 DEF MemTyped, Cancel, CancelRead, CancelRow, CancelEvent, CancelFlag,
                          CancelStatus
    <2>7. pc'[c] \in {"cancel_status", "done"} => mem'.cancelled \/ ~cached
        <3>1. CASE CancelFlag(c)
            BY <1>1, <3>1 DEF CancelFlag, MemTyped
        <3>2. CASE CancelStatus(c)
            BY <2>6, <3>2 DEF CancelStatus, Stopped
        <3>3. CASE CancelRead(c) \/ CancelRow(c) \/ CancelEvent(c)
            BY <1>1, <2>1, <3>3 DEF CancelRead, CancelRow, CancelEvent, Goto, PlacesTyped
        <3> QED
            BY <1>3, <3>1, <3>2, <3>3 DEF Cancel
    <2>8. \A y \in Cancellers : pc'[y] \in {"cancel_status", "done"} => mem'.cancelled \/ ~cached
        BY <2>3, <2>6, <2>7 DEF Stopped, Actors
    <2> QED
        BY <2>4, <2>5, <2>8 DEF Stopped
<1>4. ASSUME NEW d \in Deciders, Decide(d) PROVE Stopped'
    <2>1. d \in Threads
        BY DEF Threads
    <2>2. UNCHANGED cached
        BY <1>4 DEF Decide, DecideRead, DecideWrite, DecideEvent, DecideSync, Reject, RejectEvent,
                    RejectRow, Resume, decideQuiet
    <2>3. mem.cancelled => mem'.cancelled
        BY <1>1, <1>4
           DEF Decide, DecideRead, DecideWrite, DecideEvent, DecideSync, Synced, Reject,
               RejectEvent, RejectRow, Resume, MemTyped
    <2>4. PICK place \in {"decide", "refused", "received", "sync", "error", "done", "reject",
                          "resume", "save_reject", "reject_row", "loop"} :
              Goto(d, place) /\ (place \in {"resume", "loop"} => pc[d] = "resume" \/ cached)
        BY <1>4 DEF Decide, DecideRead, DecideWrite, DecideEvent, DecideSync, Reject, RejectEvent,
                    RejectRow, Resume
    <2>5. place \in Places /\ (place \in Working => pc[d] \in Working \/ cached)
        BY <2>4 DEF Places, Answered, Working
    <2> QED
        BY <2>1, <2>2, <2>3, <2>4, <2>5, StoppedKept
<1>5. CASE Restart
    <2>1. \A t \in Threads : pc'[t] \notin Working
        BY <1>5 DEF Restart, Actors, Answered, Working
    <2> QED
        BY <1>5, <2>1 DEF Restart, Stopped
<1>6. CASE Expire \/ UNCHANGED vars
    BY <1>6 DEF Expire, vars, Stopped
<1> QED
    BY <1>2, <1>3, <1>4, <1>5, <1>6, WhoSteps

(***************************************************************************)
(* CancelsHold: Spec => CancelHolds, for any number of requests: after the *)
(* answer to a cancel no thread lets a further action pass _check_cancel.  *)
(***************************************************************************)
THEOREM CancelsHold == Spec => CancelHolds
<1> DEFINE Held == (\E c \in Cancellers : pc[c] = "done") =>
                       \A t \in Threads : pc[t] = "exec" => pc'[t] # "invoke"
<1>1. Init => Stopped
    BY NobodyIsTwo DEF Init, Stopped, Actors
<1>2. Typed /\ Stopped /\ [Next]_vars => Typed' /\ Stopped'
    BY StepTypes, StoppedStep
<1>3. ASSUME Typed, Stopped, [Next]_vars PROVE Held
    <2> SUFFICES ASSUME NEW c \in Cancellers, pc[c] = "done", NEW t \in Threads, pc[t] = "exec"
                 PROVE  pc'[t] # "invoke"
        OBVIOUS
    <2>1. mem.cancelled /\ t \in Actors /\ pc \in [Actors -> Places]
        <3>1. cached
            BY <1>3 DEF Stopped, Working
        <3>2. mem.cancelled
            BY <1>3, <3>1 DEF Stopped
        <3> QED
            BY <1>3, <3>2 DEF Actors, Typed, TypeOK
    <2>2. ASSUME NEW u \in Threads, Graph(u) PROVE pc'[t] # "invoke"
        <3>1. CASE u = t
            <4>1. ~CheckAction(t)
                BY <2>1 DEF CheckAction
            <4>2. CASE StopCancelled(t) \/ Fail(t) \/ EndExecute(t)
                BY <2>1, <4>2 DEF StopCancelled, Fail, FailAs, EndExecute, Goto
            <4> QED
                BY <2>2, <3>1, <4>1, <4>2
                   DEF Graph, Begin, Analyse, Pause, EnterExecute, Invoke, Verify, Complete,
                       SaveRow, UpsertApproval, AtState
        <3>2. CASE u # t
            <4>1. PICK place : Goto(u, place)
                BY <2>2 DEF Graph, Begin, StopCancelled, Fail, FailAs, Analyse, Pause,
                    EnterExecute, CheckAction, Invoke, EndExecute, Verify, Complete, SaveRow,
                    UpsertApproval
            <4> QED
                BY <2>1, <3>2, <4>1 DEF Goto
        <3> QED
            BY <3>1, <3>2
    <2>3. ASSUME NEW y \in Cancellers, Cancel(y) PROVE pc'[t] # "invoke"
        <3>1. PICK place : Goto(y, place)
            BY <2>3 DEF Cancel, CancelRead, CancelRow, CancelEvent, CancelFlag, CancelStatus
        <3>2. y # t
            BY NobodyIsTwo
        <3> QED
            BY <2>1, <3>1, <3>2 DEF Goto
    <2>4. ASSUME NEW d \in Deciders, Decide(d) PROVE pc'[t] # "invoke"
        <3>1. PICK place : Goto(d, place) /\ place # "invoke"
            BY <2>4 DEF Decide, DecideRead, DecideWrite, DecideEvent, DecideSync, Reject,
                        RejectEvent, RejectRow, Resume
        <3> QED
            BY <2>1, <3>1 DEF Goto
    <2>5. CASE Restart
        BY <2>1, <2>5 DEF Restart, Answered
    <2>6. CASE Expire \/ UNCHANGED vars
        BY <2>6 DEF Expire, vars
    <2> QED
        BY <1>3, <2>2, <2>3, <2>4, <2>5, <2>6, WhoSteps
<1>4. Typed /\ Stopped /\ [Next]_vars => [Held]_vars
    BY <1>3
<1> QED
    BY <1>1, <1>2, <1>4, InitTypes, PTL DEF Spec, CancelHolds

=============================================================================
