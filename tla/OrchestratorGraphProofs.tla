----------------------- MODULE OrchestratorGraphProofs -----------------------
(***************************************************************************)
(* Proofs about OrchestratorGraph, for every value of the budgets, of the  *)
(* retry limit, of the breaker threshold and of the specialist's answers.  *)
(***************************************************************************)
EXTENDS OrchestratorGraph, TLAPS, SequenceTheorems, FiniteSetTheorems

-----------------------------------------------------------------------------
(***************************************************************************)
(* EmitTypes: appending event records to the log keeps it a log (_emit).   *)
(***************************************************************************)
LEMMA EmitTypes ==
    ASSUME NEW events \in Seq(EventRecord), log \in Seq(EventRecord), Emit(events)
    PROVE  log' \in Seq(EventRecord)
  BY ConcatProperties DEF Emit

(***************************************************************************)
(* EventTypes: the short event lists of the handlers are event records.    *)
(***************************************************************************)
LEMMA EventTypes ==
    ASSUME NEW t1 \in EventNames, NEW o1 \in Subjects, NEW t2 \in EventNames, NEW o2 \in Subjects
    PROVE  /\ <<>> \in Seq(EventRecord)
           /\ <<Event(t1, o1)>> \in Seq(EventRecord)
           /\ <<Event(t1, o1), Event(t2, o2)>> \in Seq(EventRecord)
  BY DEF Event, EventRecord

LifeTypes ==
    /\ pc \in Places
    /\ status \in Statuses /\ current_state \in WorkflowStates /\ marked \in BOOLEAN
    /\ outcome \in Outcomes /\ error \in Errors
    /\ log \in Seq(EventRecord)

(***************************************************************************)
(* TransitionTypes, CompleteTypes, StopTypes: the three ways a step ends   *)
(* (_transition, the completed returns, the except clauses of run()) keep  *)
(* the lifecycle and the log well typed.                                   *)
(***************************************************************************)
LEMMA TransitionTypes ==
    ASSUME TypeOK, NEW next \in WorkflowStates, NEW events \in Seq(EventRecord),
           Transition(next, events)
    PROVE  LifeTypes'
  BY EmitTypes DEF TypeOK, Transition, LifeTypes, Places

LEMMA CompleteTypes ==
    ASSUME TypeOK, NEW out \in Outcomes, NEW events \in Seq(EventRecord),
           CompleteAs(out, events)
    PROVE  LifeTypes'
  <1>1. Event("run.completed", out) \in EventRecord
    BY DEF Event, EventRecord, EventNames, TerminalEvents, Subjects
  <1>2. log' \in Seq(EventRecord)
    BY <1>1, EmitTypes, AppendProperties DEF TypeOK, CompleteAs
  <1> QED
    BY <1>2 DEF TypeOK, CompleteAs, SetStatus, LifeTypes, Places, Statuses, Terminal, WorkflowStates

LEMMA StopTypes ==
    ASSUME TypeOK, NEW how \in {"failed", "cancelled"}, NEW err \in Errors,
           NEW events \in Seq(EventRecord), StopAs(how, err, events)
    PROVE  LifeTypes' /\ pc' = "idle"
  <1> DEFINE end == Event(IF how = "cancelled" THEN "run.cancelled" ELSE "run.failed", err)
  <1>1. end \in EventRecord
    BY DEF Event, EventRecord, Subjects, EventNames, TerminalEvents
  <1>2. log' \in Seq(EventRecord)
    <2>1. Emit(Append(events, end))
      BY DEF StopAs
    <2> HIDE DEF end
    <2> QED
      BY <1>1, <2>1, EmitTypes, AppendProperties DEF TypeOK
  <1> QED
    BY <1>2 DEF TypeOK, StopAs, SetStatus, LifeTypes, Places, Statuses, Terminal, Outcomes

(***************************************************************************)
(* SpendTypes: billing and placing a call (_spend_model and its like)      *)
(* keeps the counters natural numbers.                                     *)
(***************************************************************************)
LEMMA SpendTypes ==
    ASSUME TypeOK, NEW kind \in Kinds, Spend(kind)
    PROVE  usage' \in [Kinds -> Nat] /\ calls' \in [Kinds -> Nat] /\ late' \in Nat
  BY DEF TypeOK, Spend, Charge

(***************************************************************************)
(* EndReadTypes: the end of one read (_mcp_read) keeps the types.          *)
(***************************************************************************)
LEMMA EndReadTypes ==
    ASSUME TypeOK, pc = "reading", EndRead
    PROVE  /\ LifeTypes'
           /\ cursor' \in Nat
           /\ pc' \in {"read", "attempt", "reading"} => cursor' \in 1..NumReads
           /\ pc' \notin {"action", "writing"}
  <1> DEFINE done == Event("tool.completed", CurrentRead)
  <1>0. CurrentRead \in ReadNames
    BY DEF TypeOK, CurrentRead, ReadNames, ReadTools, NumReads
  <1>1. /\ <<done>> \in Seq(EventRecord)
        /\ <<done, Event("message.delta", "none")>> \in Seq(EventRecord)
        /\ <<done, Event("tool.completed", "none")>> \in Seq(EventRecord)
    BY <1>0, EventTypes DEF Subjects, EventNames, Errors
  <1>2. CASE current_state = "verify"
    <2>1. Transition("complete", <<done, Event("message.delta", "none")>>) /\ UNCHANGED cursor
      BY <1>2 DEF EndRead
    <2>2. pc' = "loop"
      BY <2>1 DEF Transition
    <2> HIDE DEF done
    <2> QED
      BY <1>1, <2>1, <2>2, TransitionTypes DEF TypeOK, WorkflowStates
  <1>3. CASE current_state # "verify" /\ cursor < NumReads
    <2>1. Emit(<<done>>) /\ pc' = "read" /\ cursor' = cursor + 1 /\ UNCHANGED lifeVars
      BY <1>3 DEF EndRead
    <2>2. log' \in Seq(EventRecord)
      <3> HIDE DEF done
      <3> QED
        BY <1>1, <2>1, EmitTypes DEF TypeOK
    <2> QED
      BY <1>3, <2>1, <2>2 DEF TypeOK, LifeTypes, Places, lifeVars, NumReads
  <1>4. CASE current_state # "verify" /\ ~(cursor < NumReads)
    <2>1. Transition("a2a_delegate", <<done, Event("tool.completed", "none")>>) /\ UNCHANGED cursor
      BY <1>4 DEF EndRead
    <2>2. pc' = "loop"
      BY <2>1 DEF Transition
    <2> HIDE DEF done
    <2> QED
      BY <1>1, <2>1, <2>2, TransitionTypes DEF TypeOK, WorkflowStates
  <1> QED
    BY <1>2, <1>3, <1>4

(***************************************************************************)
(* TwoSteps: an index of a list of at most two actions is where the search *)
(* starts, or the one after it.                                            *)
(***************************************************************************)
LEMMA TwoSteps ==
    ASSUME NEW n \in 0..2, NEW i \in 1..(n + 1), NEW k \in i..n
    PROVE  k <= n /\ (k = i \/ k = i + 1)
  OBVIOUS

(***************************************************************************)
(* NextApprovedRange: the search for the next approved action (the loop of *)
(* _do_execute) finds one at or after i, or ends just behind the list.     *)
(***************************************************************************)
LEMMA NextApprovedRange ==
    ASSUME TypeOK, NEW i \in 1..(Len(proposed) + 1)
    PROVE  NextApproved(i) \in i..(Len(proposed) + 1)
  <1> DEFINE Next1(j) == /\ j <= Len(proposed) => IsApproved(j)
                         /\ \A k \in i..(j - 1) : ~IsApproved(k)
  <1>1. Len(proposed) \in 0..2
    BY DEF TypeOK
  <1>2. \E j \in i..(Len(proposed) + 1) : Next1(j)
    <2>1. CASE i <= Len(proposed) /\ IsApproved(i)
      BY <1>1, <2>1
    <2>2. CASE i + 1 <= Len(proposed) /\ ~IsApproved(i) /\ IsApproved(i + 1)
      <3>1. Next1(i + 1)
        BY <1>1, <2>2
      <3> QED
        BY <1>1, <2>2, <3>1
    <2>3. CASE (i <= Len(proposed) => ~IsApproved(i)) /\ (i + 1 <= Len(proposed) => ~IsApproved(i + 1))
      <3>1. ASSUME NEW k \in i..Len(proposed)
            PROVE  ~IsApproved(k)
        <4>1. /\ k <= Len(proposed)
              /\ k = i \/ k = i + 1
          BY <1>1, TwoSteps
        <4> QED
          BY <4>1, <2>3
      <3>2. \A k \in i..Len(proposed) : ~IsApproved(k)
        BY <3>1
      <3>3. Next1(Len(proposed) + 1)
        BY <1>1, <3>2
      <3> QED
        BY <1>1, <3>3
    <2> QED
      BY <2>1, <2>2, <2>3, <1>1
  <1> QED
    BY <1>2 DEF NextApproved

(***************************************************************************)
(* CappedTypes: capping the confidences of the specialist's findings       *)
(* (_do_correlate) leaves a list of findings.                              *)
(***************************************************************************)
LEMMA CappedTypes ==
    ASSUME NEW fs \in Seq(Finding)
    PROVE  [i \in DOMAIN fs |-> Capped(fs[i])] \in Seq(Finding)
  <1>1. /\ Len(fs) \in Nat
        /\ DOMAIN fs = 1..Len(fs)
        /\ \A i \in 1..Len(fs) : fs[i] \in Finding
    BY LenProperties
  <1>2. \A f \in Finding : Capped(f) \in Finding
    BY DEF Finding, Capped, ConflictCap
  <1>3. [i \in DOMAIN fs |-> Capped(fs[i])] \in [1..Len(fs) -> Finding]
    BY <1>1, <1>2
  <1> QED
    BY <1>1, <1>3, SeqDef

(***************************************************************************)
(* FindingsTypes: what _do_findings publishes and announces.               *)
(***************************************************************************)
LEMMA FindingsTypes ==
    ASSUME TypeOK
    PROVE  /\ Usable \subseteq Nat
           /\ \A i \in Usable : Source[i] \in Finding
           /\ [n \in 1..Cardinality(Usable) |-> Event("finding.created", "none")] \in Seq(EventRecord)
  <1>1. Source \in Seq(Finding)
    <2>1. Synthesised \in Seq(Finding)
      BY DEF Synthesised, SynthesisConfidence, Finding
    <2> QED
      BY <2>1 DEF TypeOK, Source
  <1>2. /\ Len(Source) \in Nat
        /\ DOMAIN Source = 1..Len(Source)
        /\ \A i \in 1..Len(Source) : Source[i] \in Finding
    BY <1>1, LenProperties
  <1>3. Usable \in SUBSET (1..Len(Source))
    BY <1>2 DEF Usable
  <1>4. Cardinality(Usable) \in Nat
    <2>1. IsFiniteSet(1..Len(Source))
      BY <1>2, FS_Interval
    <2>2. IsFiniteSet(Usable)
      BY <1>3, <2>1, FS_Subset
    <2> QED
      BY <2>2, FS_CardinalityType
  <1>5. Event("finding.created", "none") \in EventRecord
    BY DEF Event, EventRecord, EventNames, Subjects, Errors
  <1>6. [n \in 1..Cardinality(Usable) |-> Event("finding.created", "none")]
          \in [1..Cardinality(Usable) -> EventRecord]
    BY <1>5
  <1>7. [n \in 1..Cardinality(Usable) |-> Event("finding.created", "none")] \in Seq(EventRecord)
    BY <1>4, <1>6, SeqDef
  <1> QED
    BY <1>2, <1>3, <1>7

(***************************************************************************)
(* InitTypes: a run just created is well typed.                            *)
(***************************************************************************)
LEMMA InitTypes == Init => TypeOK
  <1> SUFFICES ASSUME Init PROVE TypeOK
    OBVIOUS
  <1>1. /\ log \in Seq(EventRecord) /\ raw \in Seq(Finding)
        /\ DOMAIN findings \subseteq Nat /\ \A i \in DOMAIN findings : findings[i] \in Finding
    BY DEF Init
  <1>2. approvals \in Approvals
    BY DEF Init, Approvals
  <1>3. /\ status \in Statuses /\ current_state \in WorkflowStates
        /\ outcome \in Outcomes /\ error \in Errors
    BY DEF Init, Statuses, WorkflowStates, Outcomes, Errors
  <1>5. /\ proposed \in {<<>>, <<"ticket.create">>, <<"ticket.create", "deployment.rollback">>}
        /\ allowed \subseteq Actions /\ evidence \subseteq ReadNames
        /\ cancelled \in BOOLEAN /\ marked \in BOOLEAN /\ overdue \in BOOLEAN
        /\ a2a_fallback \in BOOLEAN /\ conflict \in BOOLEAN
        /\ health \in {"unknown", "healthy", "unhealthy"}
    BY DEF Init
  <1>6. /\ pc = "idle" /\ cursor \in Nat /\ attempt \in 0..MaxReadRetries
        /\ usage \in [Kinds -> Nat] /\ calls \in [Kinds -> Nat] /\ late \in Nat
        /\ failures \in [{"mcp", "a2a"} -> Nat] /\ invoked \in [Actions -> Nat]
    BY LimitsAssumption DEF Init
  <1> QED
    BY <1>1, <1>2, <1>3, <1>5, <1>6 DEF TypeOK, Places

(***************************************************************************)
(* StepTypes: every step of the run, of the human, of a cancelling client  *)
(* and of the clock keeps the types.                                       *)
(***************************************************************************)
LEMMA StepTypes == TypeOK /\ [Next]_vars => TypeOK'
  <1> SUFFICES ASSUME TypeOK, [Next]_vars PROVE TypeOK'
    OBVIOUS
  <1> USE LimitsAssumption
  <1>0. <<>> \in Seq(EventRecord)
    OBVIOUS
  <1>1. CASE Cancelled
    <2>1. approvals' \in Approvals
      BY <1>1 DEF Cancelled, TypeOK, gateVars
    <2>2. LifeTypes' /\ pc' \in {"idle", "loop"}
      BY <1>0, <1>1, StopTypes DEF Cancelled, Errors
    <2> QED
      BY <1>1, <2>1, <2>2
      DEF Cancelled, TypeOK, LifeTypes, inputVars, billVars, evidenceVars, specialistVars, gateVars
  <1>2. CASE OutOfBudget
    <2>1. approvals' \in Approvals
      BY <1>2 DEF OutOfBudget, TypeOK, gateVars
    <2>2. LifeTypes' /\ pc' \in {"idle", "loop"}
      BY <1>0, <1>2, StopTypes DEF OutOfBudget, Errors
    <2> QED
      BY <1>2, <2>1, <2>2
      DEF OutOfBudget, TypeOK, LifeTypes, inputVars, billVars, evidenceVars, specialistVars, gateVars
  <1>3. CASE CallRefused
    <2>1. approvals' \in Approvals
      BY <1>3 DEF CallRefused, TypeOK, gateVars
    <2>2. LifeTypes' /\ pc' \in {"idle", "loop"}
      BY <1>0, <1>3, StopTypes DEF CallRefused, Errors
    <2>3. usage' \in [Kinds -> Nat]
      <3>1. Billing \subseteq Kinds
        BY DEF Billing, Kinds
      <3> QED
        BY <1>3, <3>1 DEF CallRefused, TypeOK, Charge
    <2> QED
      BY <1>3, <2>1, <2>2, <2>3
      DEF CallRefused, TypeOK, LifeTypes, inputVars, evidenceVars, specialistVars, gateVars
  <1>4. CASE CircuitOpen
    <2>1. approvals' \in Approvals
      BY <1>4 DEF CircuitOpen, TypeOK, gateVars
    <2>2. LifeTypes' /\ pc' \in {"idle", "loop"}
      BY <1>0, <1>4, StopTypes DEF CircuitOpen, Raises, Errors
    <2> QED
      BY <1>4, <2>1, <2>2
      DEF CircuitOpen, TypeOK, LifeTypes, inputVars, billVars, evidenceVars, specialistVars, gateVars
  <1>5. CASE Start
    <2>1. log' \in Seq(EventRecord)
      BY <1>5, EmitTypes, EventTypes DEF Start, TypeOK, EventNames, Subjects, Errors
    <2>2. /\ status' \in Statuses /\ current_state' \in WorkflowStates /\ marked' \in BOOLEAN
          /\ outcome' \in Outcomes /\ error' \in Errors
      <3>1. CASE marked
        BY <1>5, <3>1 DEF Start, TypeOK, lifeVars
      <3>2. CASE ~marked
        BY <1>5, <3>2 DEF Start, TypeOK, SetStatus, Statuses, WorkflowStates
      <3> QED
        BY <3>1, <3>2
    <2> QED
      BY <1>5, <2>1, <2>2
      DEF Start, TypeOK, Places, inputVars, billVars, evidenceVars, specialistVars, gateVars
  <1>6. CASE Classify
    <2>1. approvals' \in Approvals
      BY <1>6 DEF Classify, TypeOK, gateVars
    <2>2. /\ <<Event("message.delta", "none")>> \in Seq(EventRecord)
          /\ <<Event("message.delta", "none"), Event("message.delta", "none")>> \in Seq(EventRecord)
      BY EventTypes DEF EventNames, Subjects, Errors
    <2>3. usage' \in [Kinds -> Nat] /\ calls' \in [Kinds -> Nat] /\ late' \in Nat
      BY <1>6, SpendTypes DEF Classify, Kinds
    <2>4. LifeTypes' /\ pc' \in {"idle", "loop"}
      BY <1>0, <1>6, <2>2, TransitionTypes, CompleteTypes, StopTypes
      DEF Classify, Transition, CompleteAs, Raises, WorkflowStates, Outcomes, Errors
    <2> QED
      BY <1>6, <2>1, <2>3, <2>4
      DEF Classify, TypeOK, LifeTypes, inputVars, billVars, evidenceVars, specialistVars, gateVars
  <1>7. CASE Plan
    <2>1. approvals' \in Approvals
      BY <1>7 DEF Plan, TypeOK, gateVars
    <2>2. <<Event("message.delta", "none")>> \in Seq(EventRecord)
      BY EventTypes DEF EventNames, Subjects, Errors
    <2>3. usage' \in [Kinds -> Nat] /\ calls' \in [Kinds -> Nat] /\ late' \in Nat
      BY <1>7, SpendTypes DEF Plan, Kinds
    <2>4. LifeTypes' /\ pc' \in {"idle", "loop"}
      BY <1>0, <1>7, <2>2, TransitionTypes, StopTypes DEF Plan, Transition, Raises, WorkflowStates, Errors
    <2> QED
      BY <1>7, <2>1, <2>3, <2>4
      DEF Plan, TypeOK, LifeTypes, inputVars, billVars, evidenceVars, specialistVars, gateVars
  <1>8. CASE Resources
    <2>1. approvals' \in Approvals
      BY <1>8 DEF Resources, TypeOK, gateVars
    <2>2. <<Event("tool.started", "resource.read")>> \in Seq(EventRecord)
      BY EventTypes DEF EventNames, Subjects, Errors
    <2>4. LifeTypes' /\ pc' \in {"idle", "loop"}
      BY <1>8, <2>1, <2>2, TransitionTypes DEF Resources, Transition, WorkflowStates
    <2> QED
      BY <1>8, <2>1, <2>4
      DEF Resources, TypeOK, LifeTypes, inputVars, billVars, evidenceVars, specialistVars, gateVars
  <1>9. CASE EnterReads
    BY <1>9 DEF EnterReads, TypeOK, Places, NumReads, lifeVars, inputVars, billVars, evidenceVars, specialistVars, gateVars
  <1>10. CASE BeginRead
    <2>1. CurrentRead \in ReadNames
      BY <1>10 DEF BeginRead, TypeOK, CurrentRead, ReadNames, ReadTools, NumReads
    <2>2. log' \in Seq(EventRecord)
      BY <1>10, <2>1, EmitTypes, EventTypes DEF BeginRead, TypeOK, EventNames, Subjects
    <2> QED
      BY <1>10, <2>2 DEF BeginRead, TypeOK, Places, lifeVars, inputVars, billVars, evidenceVars, specialistVars, gateVars
  <1>11. CASE ReadSucceeds
    <2>1. approvals' \in Approvals /\ pc = "reading"
      BY <1>11 DEF ReadSucceeds, TypeOK, gateVars
    <2>2. usage' \in [Kinds -> Nat] /\ calls' \in [Kinds -> Nat] /\ late' \in Nat
      BY <1>11, SpendTypes DEF ReadSucceeds, Kinds
    <2>3. /\ LifeTypes' /\ cursor' \in Nat
          /\ pc' \in {"read", "attempt", "reading"} => cursor' \in 1..NumReads
          /\ pc' \notin {"action", "writing"}
      BY <1>11, <2>1, EndReadTypes DEF ReadSucceeds
    <2>4. CurrentRead \in ReadNames
      BY <2>1 DEF TypeOK, CurrentRead, ReadNames, ReadTools, NumReads
    <2> QED
      BY <1>11, <2>1, <2>2, <2>3, <2>4
      DEF ReadSucceeds, TypeOK, LifeTypes, inputVars, specialistVars, gateVars
  <1>12. CASE ReadFails
    <2>1. approvals' \in Approvals /\ pc = "reading"
      BY <1>12 DEF ReadFails, TypeOK, gateVars
    <2>2. usage' \in [Kinds -> Nat] /\ calls' \in [Kinds -> Nat] /\ late' \in Nat
      BY <1>12, SpendTypes DEF ReadFails, Kinds
    <2>3. /\ LifeTypes' /\ cursor' \in Nat
          /\ pc' \in {"read", "attempt", "reading"} => cursor' \in 1..NumReads
          /\ pc' \notin {"action", "writing"}
      BY <1>12, <2>1, EndReadTypes DEF ReadFails
    <2>4. CurrentRead \in ReadNames
      BY <2>1 DEF TypeOK, CurrentRead, ReadNames, ReadTools, NumReads
    <2> QED
      BY <1>12, <2>1, <2>2, <2>3, <2>4
      DEF ReadFails, TypeOK, LifeTypes, inputVars, specialistVars, gateVars
  <1>13. CASE ReadTimesOut
    <2>1. usage' \in [Kinds -> Nat] /\ calls' \in [Kinds -> Nat] /\ late' \in Nat
      BY <1>13, SpendTypes DEF ReadTimesOut, Kinds
    <2> QED
      BY <1>13, <2>1 DEF ReadTimesOut, Retriable, TypeOK, Places, lifeVars, inputVars, billVars, evidenceVars, specialistVars, gateVars
  <1>14. CASE Delegate
    <2>1. approvals' \in Approvals
      BY <1>14 DEF Delegate, TypeOK, gateVars
    <2>2. /\ <<Event("agent.delegated", "none"), Event("message.delta", "none")>> \in Seq(EventRecord)
          /\ <<Event("agent.delegated", "none")>> \in Seq(EventRecord)
      BY EventTypes DEF EventNames, Subjects, Errors
    <2>3. usage' \in [Kinds -> Nat] /\ calls' \in [Kinds -> Nat] /\ late' \in Nat
      BY <1>14, SpendTypes DEF Delegate, Kinds
    <2>4. LifeTypes' /\ pc' \in {"idle", "loop"}
      <3>1. \/ Transition("correlate", <<Event("agent.delegated", "none"), Event("message.delta", "none")>>)
            \/ Raises(<<Event("agent.delegated", "none")>>)
        BY <1>14, Zenon DEF Delegate
      <3> QED
        BY <3>1, <2>2, TransitionTypes, StopTypes DEF Transition, Raises, WorkflowStates, Errors
    <2>5. raw' \in Seq(Finding)
      BY <1>14, OutputsAssumption DEF Delegate, TypeOK
    <2>6. failures' \in [{"mcp", "a2a"} -> Nat]
      BY <1>14 DEF Delegate, TypeOK
    <2>7. a2a_fallback' \in BOOLEAN
      BY <1>14, Zenon DEF Delegate, TypeOK
    <2> QED
      BY <1>14, <2>1, <2>3, <2>4, <2>5, <2>6, <2>7
      DEF Delegate, TypeOK, LifeTypes, inputVars, gateVars
  <1>15. CASE Correlate
    <2>1. approvals' \in Approvals
      BY <1>15 DEF Correlate, TypeOK, gateVars
    <2>2. <<Event("message.delta", "none")>> \in Seq(EventRecord)
      BY EventTypes DEF EventNames, Subjects, Errors
    <2>4. LifeTypes' /\ pc' \in {"idle", "loop"}
      BY <1>15, <2>1, <2>2, TransitionTypes DEF Correlate, Transition, WorkflowStates
    <2> QED
      BY <1>15, <2>1, <2>4, CappedTypes
      DEF Correlate, TypeOK, LifeTypes, inputVars, billVars, evidenceVars, specialistVars, gateVars
  <1>16. CASE Findings
    <2> DEFINE created == [n \in 1..Cardinality(Usable) |-> Event("finding.created", "none")]
    <2>1. approvals' \in Approvals
      BY <1>16 DEF Findings, TypeOK, gateVars
    <2>2. created \in Seq(EventRecord) /\ Append(created, Event("message.delta", "none")) \in Seq(EventRecord)
      <3>1. Event("message.delta", "none") \in EventRecord
        BY DEF Event, EventRecord, EventNames, Subjects, Errors
      <3> HIDE DEF created
      <3>2. created \in Seq(EventRecord)
        BY FindingsTypes DEF created
      <3> QED
        BY <3>1, <3>2, AppendProperties
    <2>3. \/ Transition("propose", created)
          \/ CompleteAs("more_info", Append(created, Event("message.delta", "none")))
      BY <1>16 DEF Findings
    <2>4. LifeTypes' /\ pc' \in {"idle", "loop"}
      <3> HIDE DEF created
      <3> QED
        BY <2>1, <2>2, <2>3, TransitionTypes, CompleteTypes
        DEF Transition, CompleteAs, WorkflowStates, Outcomes
    <2>5. findings' = [i \in Usable |-> Source[i]]
      BY <1>16 DEF Findings
    <2>6. DOMAIN findings' \subseteq Nat /\ \A i \in DOMAIN findings' : findings'[i] \in Finding
      BY <2>5, FindingsTypes
    <2> QED
      BY <1>16, <2>1, <2>4, <2>6
      DEF Findings, TypeOK, LifeTypes, inputVars, billVars, evidenceVars, gateVars
  <1>17. CASE Propose
    <2>1. approvals' \in Approvals
      BY <1>17 DEF Propose, TypeOK, gateVars
    <2>2. <<Event("message.delta", "none")>> \in Seq(EventRecord)
      BY EventTypes DEF EventNames, Subjects, Errors
    <2>4. LifeTypes' /\ pc' \in {"idle", "loop"}
      BY <1>17, <2>1, <2>2, TransitionTypes DEF Propose, Transition, WorkflowStates
    <2> QED
      BY <1>17, <2>1, <2>4
      DEF Propose, TypeOK, LifeTypes, inputVars, billVars, evidenceVars, specialistVars, gateVars
  <1>18. CASE Policy
    <2>1. approvals' \in Approvals
      BY <1>18 DEF Policy, TypeOK, gateVars
    <2>2. <<Event("message.delta", "none")>> \in Seq(EventRecord)
      BY EventTypes DEF EventNames, Subjects, Errors
    <2>3. <<>> \in Seq(EventRecord)
      OBVIOUS
    <2>4. LifeTypes' /\ pc' \in {"idle", "loop"}
      <3>1. \/ Transition("approval_pause", <<>>)
            \/ CompleteAs("denied", <<Event("message.delta", "none")>>)
            \/ Raises(<<>>)
        BY <1>18, Zenon DEF Policy
      <3> QED
        BY <2>2, <2>3, <3>1, TransitionTypes, CompleteTypes, StopTypes
        DEF Transition, CompleteAs, Raises, WorkflowStates, Outcomes, Errors
    <2>5. allowed' \subseteq Proposed \/ allowed' = allowed
      BY <1>18 DEF Policy
    <2>6. Proposed \subseteq Actions
      <3>1. CASE proposed = <<>>
        BY <3>1 DEF Proposed
      <3>2. CASE proposed = <<"ticket.create">>
        BY <3>2 DEF Proposed, Actions
      <3>3. CASE proposed = <<"ticket.create", "deployment.rollback">>
        BY <3>3 DEF Proposed, Actions
      <3> QED
        BY <3>1, <3>2, <3>3 DEF TypeOK
    <2> QED
      BY <1>18, <2>1, <2>4, <2>5, <2>6
      DEF Policy, TypeOK, LifeTypes, inputVars, billVars, evidenceVars, specialistVars, gateVars
  <1>19. CASE ApprovalPause
    <2>1. approvals' \in Approvals
      BY <1>19 DEF ApprovalPause, TypeOK, Approvals
    <2>2. log' \in Seq(EventRecord)
      BY <1>19, EmitTypes, EventTypes DEF ApprovalPause, TypeOK, EventNames, Subjects, Errors
    <2> QED
      BY <1>19, <2>1, <2>2
      DEF ApprovalPause, TypeOK, SetStatus, Places, Statuses, inputVars, billVars, evidenceVars, specialistVars, gateVars
  <1>20. CASE ResumeApproved
    <2>1. approvals' \in Approvals
      BY <1>20 DEF ResumeApproved, TypeOK, Approvals, Decided, Decisions
    <2>2. log' \in Seq(EventRecord)
      BY <1>20, EmitTypes, EventTypes DEF ResumeApproved, TypeOK, EventNames, Subjects, Decisions
    <2> QED
      BY <1>20, <2>1, <2>2
      DEF ResumeApproved, TypeOK, Places, WorkflowStates, inputVars, billVars, specialistVars
  <1>21. CASE ResumeRefused
    <2>1. PICK d \in {"rejected", "expired"} :
            /\ approvals' = Decided(d)
            /\ CompleteAs("rejected", <<Event("approval.received", d)>>)
      BY <1>21 DEF ResumeRefused, Decisions
    <2>2. approvals' \in Approvals
      BY <2>1 DEF TypeOK, Approvals, Decided, Decisions
    <2>3. <<Event("approval.received", d)>> \in Seq(EventRecord)
      BY EventTypes DEF EventNames, Subjects, Decisions
    <2>4. LifeTypes' /\ pc' = "idle"
      BY <2>1, <2>2, <2>3, CompleteTypes DEF CompleteAs, Outcomes
    <2> QED
      BY <1>21, <2>2, <2>4
      DEF ResumeRefused, TypeOK, LifeTypes, inputVars, billVars, evidenceVars, specialistVars
  <1>22. CASE EnterExecute
    <2>1. NextApproved(1) \in 1..(Len(proposed) + 1)
      BY NextApprovedRange DEF TypeOK
    <2> QED
      BY <1>22, <2>1 DEF EnterExecute, TypeOK, Places, lifeVars, inputVars, billVars, evidenceVars, specialistVars, gateVars
  <1>23. CASE ExecuteAction
    <2>1. usage' \in [Kinds -> Nat] /\ calls' \in [Kinds -> Nat] /\ late' \in Nat
      BY <1>23, SpendTypes DEF ExecuteAction, Kinds
    <2>2. cursor \in 1..Len(proposed) /\ proposed[cursor] \in Actions
      <3>1. cursor \in Nat /\ cursor >= 1 /\ cursor <= Len(proposed)
        BY <1>23 DEF ExecuteAction, TypeOK
      <3>2. CASE proposed = <<"ticket.create">>
        BY <3>1, <3>2 DEF Actions
      <3>3. CASE proposed = <<"ticket.create", "deployment.rollback">>
        <4>1. cursor = 1 \/ cursor = 2
          BY <3>1, <3>3
        <4> QED
          BY <3>1, <3>3, <4>1 DEF Actions
      <3>4. CASE proposed = <<>>
        BY <3>1, <3>4
      <3> QED
        BY <3>2, <3>3, <3>4 DEF TypeOK
    <2>3. log' \in Seq(EventRecord)
      BY <1>23, <2>2, EmitTypes, EventTypes DEF ExecuteAction, TypeOK, EventNames, Subjects
    <2>4. cursor' \in 1..(Len(proposed) + 1)
      <3>1. cursor + 1 \in 1..(Len(proposed) + 1) /\ Len(proposed) \in Nat
        BY <2>2 DEF TypeOK
      <3>2. NextApproved(cursor + 1) \in (cursor + 1)..(Len(proposed) + 1)
        BY <3>1, NextApprovedRange
      <3> QED
        BY <1>23, <2>2, <3>1, <3>2 DEF ExecuteAction, AfterWrite
    <2>5. invoked' \in [Actions -> Nat]
      <3>1. invoked' = [invoked EXCEPT ![proposed[cursor]] = @ + 1]
        BY <1>23 DEF ExecuteAction
      <3> QED
        BY <2>2, <3>1 DEF TypeOK
    <2>6. UNCHANGED <<attempt, lifeVars, inputVars, evidenceVars, specialistVars, proposed,
                      allowed, approvals>>
      BY <1>23 DEF ExecuteAction
    <2>7. UNCHANGED <<attempt, status, marked, current_state, outcome, error, cancelled, overdue,
                      evidence, health, failures, a2a_fallback, raw, conflict, findings,
                      proposed, allowed, approvals>>
      BY <2>6 DEF lifeVars, inputVars, evidenceVars, specialistVars
    <2>8. pc' = "action" /\ cursor' \in Nat
      <3>1. Len(proposed) \in Nat
        BY DEF TypeOK
      <3> QED
        BY <1>23, <2>4, <3>1 DEF ExecuteAction
    <2> QED
      BY <2>1, <2>3, <2>4, <2>5, <2>7, <2>8 DEF TypeOK, Places
  <1>24. CASE EndExecute
    BY <1>24 DEF EndExecute, TypeOK, SetStatus, Places, Statuses, WorkflowStates, inputVars, billVars, evidenceVars, specialistVars, gateVars
  <1>25. CASE Complete
    <2>1. approvals' \in Approvals
      BY <1>25 DEF Complete, TypeOK, gateVars
    <2>2. <<>> \in Seq(EventRecord)
      BY EventTypes DEF EventNames, Subjects, Errors
    <2>4. LifeTypes' /\ pc' \in {"idle", "loop"}
      BY <1>25, <2>1, <2>2, CompleteTypes DEF Complete, CompleteAs, Outcomes, Terminal, TypeOK
    <2> QED
      BY <1>25, <2>1, <2>4
      DEF Complete, TypeOK, LifeTypes, inputVars, billVars, evidenceVars, specialistVars, gateVars
  <1>26. CASE RequestCancel
    BY <1>26 DEF RequestCancel, TypeOK, threadVars, lifeVars, billVars, evidenceVars,
                 specialistVars, gateVars
  <1>27. CASE DeadlinePasses
    BY <1>27 DEF DeadlinePasses, TypeOK, threadVars, lifeVars, billVars, evidenceVars,
                 specialistVars, gateVars
  <1>28. CASE Ended \/ UNCHANGED vars
    BY <1>28 DEF Ended, TypeOK, vars, threadVars, lifeVars, inputVars, billVars,
                 evidenceVars, specialistVars, gateVars
  <1>29. CASE PassChecks
    BY <1>29 DEF PassChecks, TypeOK, Places, PastCheck, lifeVars, inputVars, billVars, evidenceVars,
                 specialistVars, gateVars
  <1>30. CASE BeginAttempt
    BY <1>30 DEF BeginAttempt, Attempting, TypeOK, Places, PastCheck, lifeVars, inputVars, billVars, evidenceVars,
                 specialistVars, gateVars
  <1>31. CASE BeginDelegation
    BY <1>31 DEF BeginDelegation, TypeOK, Places, PastCheck, lifeVars, inputVars, billVars, evidenceVars,
                 specialistVars, gateVars
  <1>32. CASE BeginAction
    BY <1>32 DEF BeginAction, TypeOK, Places, PastCheck, lifeVars, inputVars, billVars, evidenceVars,
                 specialistVars, gateVars
  <1>33. CASE MarkCancelled
    BY <1>33 DEF MarkCancelled, TypeOK, threadVars, inputVars, billVars, evidenceVars,
                 specialistVars, gateVars
  <1> QED
    BY <1>1, <1>2, <1>3, <1>4, <1>5, <1>6, <1>7, <1>8, <1>9, <1>10, <1>11, <1>12, <1>13, <1>14,
       <1>15, <1>16, <1>17, <1>18, <1>19, <1>20, <1>21, <1>22, <1>23, <1>24, <1>25, <1>26,
       <1>27, <1>28, <1>29, <1>30, <1>31, <1>32, <1>33
    DEF Next, GraphStep

(***************************************************************************)
(* TypeCorrect: every state a run can reach is well typed; in particular   *)
(* the retry counter of _mcp_read stays within MAX_READ_RETRIES and the    *)
(* loops over reads and actions stay within their lists.                   *)
(***************************************************************************)
THEOREM TypeCorrect == Spec => []TypeOK
  BY InitTypes, StepTypes, PTL DEF Spec

-----------------------------------------------------------------------------
(***************************************************************************)
(* The safety theorems about OrchestratorGraph.  None of the invariants is *)
(* inductive by itself: that an action was approved before its tool is     *)
(* called rests on which workflow states a thread can be in (Phase) and on *)
(* what is known of the gate in each (Gate).                               *)
(***************************************************************************)

BeforePropose == {"classify", "plan", "resources", "mcp_reads", "a2a_delegate", "correlate",
                  "findings", "propose"}
AfterApproval == {"execute_approved", "verify", "complete"}

(***************************************************************************)
(* Phase: where the thread is decides the status and the workflow state.   *)
(***************************************************************************)
Phase ==
    /\ status = "created" => current_state = "classify"
    /\ status = "created" => pc = "idle" \/ (pc = "loop" /\ cancelled)
    /\ marked => cancelled
    /\ status = "running" => pc # "idle"
    /\ status \in Terminal => pc = "idle"
    /\ status = "waiting_for_approval" =>
           current_state = IF pc = "idle" THEN "approval_pause" ELSE "execute_approved"
    /\ pc \in {"read", "attempt", "reading"} => current_state \in {"mcp_reads", "verify"}
    /\ pc = "delegating" => current_state = "a2a_delegate"
    /\ pc \in {"action", "writing"} => current_state = "execute_approved"
    /\ pc # "idle" /\ current_state = "execute_approved" => status = "waiting_for_approval"
    /\ outcome = "none" <=> status \notin Terminal
    /\ status \notin Terminal => error = "none"

(***************************************************************************)
(* Gate: nothing is decided or sent before the pause; the thread passes    *)
(* the pause only with every proposed action allowed and approved; and the *)
(* action loop has sent exactly the actions behind its cursor.             *)
(***************************************************************************)
Untouched == \A a \in Actions : approvals[a] = "none" /\ invoked[a] = 0

AllApproved == /\ Proposed \subseteq allowed
               /\ approvals = [a \in Actions |-> IF a \in Proposed THEN "approved" ELSE "none"]

Gate ==
    /\ status = "created" => proposed = <<>> /\ Untouched
    /\ pc # "idle" /\ current_state \in BeforePropose => proposed = <<>> /\ Untouched
    /\ pc # "idle" /\ current_state \in {"policy", "approval_pause"} =>
           proposed # <<>> /\ Untouched
    /\ pc # "idle" /\ current_state = "approval_pause" => Proposed \subseteq allowed
    /\ pc = "idle" /\ status = "waiting_for_approval" =>
           /\ proposed # <<>> /\ Proposed \subseteq allowed
           /\ approvals = [a \in Actions |-> IF a \in Proposed THEN "pending" ELSE "none"]
           /\ \A a \in Actions : invoked[a] = 0
    /\ pc # "idle" /\ current_state \in AfterApproval => proposed # <<>> /\ AllApproved
    /\ pc \in {"loop", "handler"} /\ current_state = "execute_approved" =>
           \A a \in Actions : invoked[a] = 0
    /\ pc \in {"action", "writing"} =>
           \A i \in DOMAIN proposed : invoked[proposed[i]] = IF i < cursor THEN 1 ELSE 0
    /\ pc # "idle" /\ current_state \in {"verify", "complete"} =>
           \A i \in DOMAIN proposed : invoked[proposed[i]] = 1
    /\ \A a \in Actions \ Proposed : invoked[a] = 0
    /\ ApprovalGate
    /\ WritesOnce

(***************************************************************************)
(* Ledger: what is billed is what was placed, except for the refused call  *)
(* that ended the run; the placed calls respect every limit.               *)
(***************************************************************************)
Ledger ==
    /\ \/ usage = calls
       \/ error = "BUDGET_EXCEEDED" /\ \E k \in Kinds : usage = Charge(calls, k)
    /\ ~OverLimit(calls)

-----------------------------------------------------------------------------
(***************************************************************************)
(* PhaseStep: every step of the thread and of its environment keeps the    *)
(* status, the workflow state and the thread's position in agreement.      *)
(***************************************************************************)
LEMMA PhaseStep ==
    ASSUME TypeOK, Phase, [Next]_vars
    PROVE  Phase'
  <1> USE DEF Phase, Terminal
  <1>1. CASE Start
    BY <1>1 DEF Start, SetStatus, lifeVars, inputVars
  <1>2. CASE Cancelled
    BY <1>2 DEF Cancelled, StopAs, SetStatus, inputVars
  <1>3. CASE OutOfBudget
    BY <1>3 DEF OutOfBudget, StopAs, SetStatus, inputVars
  <1>4. CASE CallRefused
    BY <1>4 DEF CallRefused, StopAs, SetStatus, inputVars, Billing
  <1>5. CASE Classify
    BY <1>5 DEF Classify, Dispatch, Raises, StopAs, Transition, inputVars, CompleteAs, SetStatus
  <1>6. CASE Plan
    BY <1>6 DEF Plan, Dispatch, Raises, StopAs, SetStatus, Transition, inputVars
  <1>7. CASE Resources
    BY <1>7 DEF Resources, Dispatch, Transition, inputVars
  <1>8. CASE EnterReads
    BY <1>8 DEF EnterReads, Dispatch, lifeVars, inputVars
  <1>9. CASE BeginRead
    BY <1>9 DEF BeginRead, lifeVars, inputVars
  <1>10. CASE CircuitOpen
    BY <1>10 DEF CircuitOpen, Raises, StopAs, SetStatus, inputVars
  <1>11. CASE ReadSucceeds
    BY <1>11 DEF ReadSucceeds, EndRead, Transition, lifeVars, inputVars
  <1>12. CASE ReadFails
    BY <1>12 DEF ReadFails, EndRead, Transition, lifeVars, inputVars
  <1>13. CASE ReadTimesOut
    BY <1>13 DEF ReadTimesOut, lifeVars, inputVars
  <1>14. CASE Delegate
    BY <1>14 DEF Delegate, Raises, StopAs, SetStatus, Transition, inputVars
  <1>15. CASE Correlate
    BY <1>15 DEF Correlate, Dispatch, Transition, inputVars
  <1>16. CASE Findings
    BY <1>16 DEF Findings, Dispatch, Transition, CompleteAs, SetStatus, inputVars
  <1>17. CASE Propose
    BY <1>17 DEF Propose, Dispatch, Transition, inputVars
  <1>18. CASE Policy
    BY <1>18 DEF Policy, Dispatch, Raises, StopAs, Transition, inputVars, CompleteAs, SetStatus
  <1>19. CASE ApprovalPause
    BY <1>19 DEF ApprovalPause, SetStatus, Dispatch, inputVars
  <1>20. CASE ResumeApproved
    BY <1>20 DEF ResumeApproved, Awaiting, inputVars
  <1>21. CASE ResumeRefused
    BY <1>21 DEF ResumeRefused, Awaiting, CompleteAs, SetStatus, Decisions, inputVars
  <1>22. CASE EnterExecute
    BY <1>22 DEF EnterExecute, Dispatch, lifeVars, inputVars
  <1>23. CASE ExecuteAction
    BY <1>23 DEF ExecuteAction, lifeVars, inputVars
  <1>24. CASE EndExecute
    BY <1>24 DEF EndExecute, SetStatus, inputVars
  <1>25. CASE Complete
    BY <1>25 DEF Complete, Dispatch, CompleteAs, SetStatus, inputVars
  <1>26. CASE RequestCancel
    BY <1>26 DEF RequestCancel, threadVars, lifeVars
  <1>27. CASE DeadlinePasses
    BY <1>27 DEF DeadlinePasses, threadVars, lifeVars
  <1>28. CASE Ended \/ UNCHANGED vars
    BY <1>28 DEF Ended, vars, threadVars, lifeVars, inputVars
  <1>29. CASE PassChecks
    BY <1>29 DEF PassChecks, lifeVars, inputVars
  <1>30. CASE BeginAttempt
    BY <1>30 DEF BeginAttempt, Attempting, Dispatch, threadVars, lifeVars, inputVars
  <1>31. CASE BeginDelegation
    BY <1>31 DEF BeginDelegation, Attempting, Dispatch, threadVars, lifeVars, inputVars
  <1>32. CASE BeginAction
    BY <1>32 DEF BeginAction, Attempting, Dispatch, threadVars, lifeVars, inputVars
  <1>33. CASE MarkCancelled
    BY <1>33 DEF MarkCancelled, threadVars, inputVars
  <1> QED
    BY <1>1, <1>2, <1>3, <1>4, <1>5, <1>6, <1>7, <1>8, <1>9, <1>10, <1>11, <1>12, <1>13, <1>14, <1>15, <1>16, <1>17, <1>18, <1>19, <1>20, <1>21, <1>22, <1>23, <1>24, <1>25, <1>26, <1>27, <1>28,
       <1>29, <1>30, <1>31, <1>32, <1>33
    DEF Next, GraphStep

(***************************************************************************)
(* SpendLedger: a call that is billed and placed while the books agree     *)
(* leaves them in agreement and within the limits.                         *)
(***************************************************************************)
LEMMA SpendLedger ==
    ASSUME NEW kind \in Kinds, usage = calls, Spend(kind)
    PROVE  Ledger'
  BY DEF Ledger, Spend, OverLimit, Cost

(***************************************************************************)
(* LedgerStep: the books agree until a refused call ends the run.          *)
(***************************************************************************)
LEMMA LedgerStep ==
    ASSUME TypeOK, Phase, Ledger, [Next]_vars
    PROVE  Ledger'
  <1> USE DEF Ledger, OverLimit, Cost, Phase, Terminal
  <1>1. CASE Start
    BY <1>1 DEF Start, SetStatus, billVars, lifeVars
  <1>2. CASE Cancelled
    BY <1>2 DEF Cancelled, Dispatch, billVars, StopAs, SetStatus
  <1>3. CASE OutOfBudget
    BY <1>3 DEF OutOfBudget, billVars, StopAs, SetStatus
  <1>4. CASE CallRefused
    BY <1>4 DEF CallRefused, StopAs, SetStatus, Billing, Kinds
  <1>5. CASE Classify
    BY <1>5, SpendLedger DEF Classify, Dispatch, Kinds
  <1>6. CASE Plan
    BY <1>6, SpendLedger DEF Plan, Dispatch, Kinds
  <1>7. CASE Resources
    BY <1>7 DEF Resources, billVars, Transition
  <1>8. CASE EnterReads
    BY <1>8 DEF EnterReads, billVars, lifeVars
  <1>9. CASE BeginRead
    BY <1>9 DEF BeginRead, billVars, lifeVars
  <1>10. CASE CircuitOpen
    BY <1>10 DEF CircuitOpen, Raises, billVars, StopAs, SetStatus
  <1>11. CASE ReadSucceeds
    BY <1>11, SpendLedger DEF ReadSucceeds, Kinds
  <1>12. CASE ReadFails
    BY <1>12, SpendLedger DEF ReadFails, Kinds
  <1>13. CASE ReadTimesOut
    BY <1>13, SpendLedger DEF ReadTimesOut, Kinds
  <1>14. CASE Delegate
    BY <1>14, SpendLedger DEF Delegate, Dispatch, Kinds
  <1>15. CASE Correlate
    BY <1>15 DEF Correlate, billVars, Transition
  <1>16. CASE Findings
    BY <1>16 DEF Findings, billVars, Transition, CompleteAs, SetStatus
  <1>17. CASE Propose
    BY <1>17 DEF Propose, billVars, Transition
  <1>18. CASE Policy
    BY <1>18 DEF Policy, Dispatch, Raises, StopAs, billVars, Transition, CompleteAs, SetStatus
  <1>19. CASE ApprovalPause
    BY <1>19 DEF ApprovalPause, SetStatus, billVars
  <1>20. CASE ResumeApproved
    BY <1>20 DEF ResumeApproved, billVars
  <1>21. CASE ResumeRefused
    BY <1>21 DEF ResumeRefused, billVars, CompleteAs, SetStatus
  <1>22. CASE EnterExecute
    BY <1>22 DEF EnterExecute, billVars, lifeVars
  <1>23. CASE ExecuteAction
    BY <1>23, SpendLedger DEF ExecuteAction, Kinds
  <1>24. CASE EndExecute
    BY <1>24 DEF EndExecute, SetStatus, billVars
  <1>25. CASE Complete
    BY <1>25 DEF Complete, billVars, CompleteAs, SetStatus
  <1>26. CASE RequestCancel
    BY <1>26 DEF RequestCancel, billVars, lifeVars
  <1>27. CASE DeadlinePasses
    BY <1>27 DEF DeadlinePasses, billVars, lifeVars
  <1>28. CASE Ended \/ UNCHANGED vars
    BY <1>28 DEF Ended, vars, billVars, lifeVars
  <1>29. CASE PassChecks
    BY <1>29 DEF PassChecks, billVars, lifeVars
  <1>30. CASE BeginAttempt
    BY <1>30 DEF BeginAttempt, billVars, lifeVars
  <1>31. CASE BeginDelegation
    BY <1>31 DEF BeginDelegation, billVars, lifeVars
  <1>32. CASE BeginAction
    BY <1>32 DEF BeginAction, billVars, lifeVars
  <1>33. CASE MarkCancelled
    BY <1>33 DEF MarkCancelled, billVars, lifeVars
  <1> QED
    BY <1>1, <1>2, <1>3, <1>4, <1>5, <1>6, <1>7, <1>8, <1>9, <1>10, <1>11, <1>12, <1>13, <1>14, <1>15, <1>16,
       <1>17, <1>18, <1>19, <1>20, <1>21, <1>22, <1>23, <1>24, <1>25, <1>26, <1>27, <1>28,
       <1>29, <1>30, <1>31, <1>32, <1>33
    DEF Next, GraphStep

(***************************************************************************)
(* ProposedDistinct: _do_propose never lists an action twice.              *)
(***************************************************************************)
LEMMA ProposedDistinct ==
    ASSUME TypeOK
    PROVE  /\ \A i, j \in DOMAIN proposed : proposed[i] = proposed[j] => i = j
           /\ \A i \in DOMAIN proposed : proposed[i] \in Actions
  <1>1. CASE proposed = <<>>
    BY <1>1
  <1>2. CASE proposed = <<"ticket.create">>
    BY <1>2 DEF Actions
  <1>3. CASE proposed = <<"ticket.create", "deployment.rollback">>
    BY <1>3 DEF Actions
  <1> QED
    BY <1>1, <1>2, <1>3 DEF TypeOK

(***************************************************************************)
(* NextApprovedAll: when every proposed action is approved, the loop of    *)
(* _do_execute skips none.                                                 *)
(***************************************************************************)
LEMMA NextApprovedAll ==
    ASSUME TypeOK, AllApproved, NEW i \in 1..(Len(proposed) + 1)
    PROVE  NextApproved(i) = i
  <1> DEFINE P(j) == /\ j <= Len(proposed) => IsApproved(j)
                     /\ \A k \in i..(j - 1) : ~IsApproved(k)
             S == i..(Len(proposed) + 1)
  <1>1. Len(proposed) \in 0..2 /\ DOMAIN proposed = 1..Len(proposed)
    BY DEF TypeOK
  <1>2. \A k \in 1..Len(proposed) : IsApproved(k)
    <2>1. \A k \in DOMAIN proposed : proposed[k] \in Actions
      BY ProposedDistinct
    <2>2. \A k \in DOMAIN proposed : proposed[k] \in Proposed
      BY DEF Proposed
    <2> QED
      BY <1>1, <2>1, <2>2 DEF AllApproved, IsApproved
  <1> HIDE DEF IsApproved
  <1>3. i \in S /\ P(i)
    BY <1>1, <1>2
  <1>4. \A j \in S : P(j) => j = i
    BY <1>1, <1>2
  <1>5. NextApproved(i) = CHOOSE j \in S : P(j)
    BY DEF NextApproved
  <1> HIDE DEF P, S
  <1> QED
    BY <1>3, <1>4, <1>5

(***************************************************************************)
(* GateStep: every step keeps the approval gate shut except for actions    *)
(* that are allowed and approved.                                          *)
(***************************************************************************)
LEMMA GateStep ==
    ASSUME TypeOK, Phase, Gate, [Next]_vars
    PROVE  Gate'
  <1> USE DEF Gate, Phase, Terminal, TypeOK, BeforePropose, AfterApproval, Untouched, AllApproved, ApprovalGate, WritesOnce, Proposed, Actions
  <1>1. CASE Start
    BY <1>1 DEF Start, SetStatus, lifeVars, gateVars
  <1>2. CASE Cancelled
    BY <1>2 DEF Cancelled, StopAs, SetStatus, gateVars
  <1>3. CASE OutOfBudget
    BY <1>3 DEF OutOfBudget, StopAs, SetStatus, gateVars
  <1>4. CASE CallRefused
    BY <1>4 DEF CallRefused, StopAs, SetStatus, gateVars
  <1>5. CASE Classify
    BY <1>5 DEF Classify, Dispatch, Raises, StopAs, Transition, CompleteAs, SetStatus, gateVars
  <1>6. CASE Plan
    BY <1>6 DEF Plan, Dispatch, Raises, StopAs, SetStatus, Transition, gateVars
  <1>7. CASE Resources
    BY <1>7 DEF Resources, Dispatch, Transition, gateVars
  <1>8. CASE EnterReads
    BY <1>8 DEF EnterReads, Dispatch, lifeVars, gateVars
  <1>9. CASE BeginRead
    BY <1>9 DEF BeginRead, lifeVars, gateVars
  <1>10. CASE CircuitOpen
    BY <1>10 DEF CircuitOpen, Raises, StopAs, SetStatus, gateVars
  <1>11. CASE ReadSucceeds
    BY <1>11 DEF ReadSucceeds, EndRead, Transition, lifeVars, gateVars
  <1>12. CASE ReadFails
    BY <1>12 DEF ReadFails, EndRead, Transition, lifeVars, gateVars
  <1>13. CASE ReadTimesOut
    BY <1>13 DEF ReadTimesOut, lifeVars, gateVars
  <1>14. CASE Delegate
    BY <1>14 DEF Delegate, Raises, StopAs, SetStatus, Transition, gateVars
  <1>15. CASE Correlate
    BY <1>15 DEF Correlate, Dispatch, Transition, gateVars
  <1>16. CASE Findings
    BY <1>16 DEF Findings, Dispatch, Transition, CompleteAs, SetStatus, gateVars
  <1>17. CASE Propose
    BY <1>17 DEF Propose, Dispatch, Transition, gateVars
  <1>18. CASE Policy
    BY <1>18 DEF Policy, Cleared, Dispatch, Raises, StopAs, Transition, CompleteAs, SetStatus, gateVars
  <1>19. CASE ApprovalPause
    BY <1>19 DEF ApprovalPause, SetStatus, Dispatch, gateVars
  <1>20. CASE ResumeApproved
    BY <1>20 DEF ResumeApproved, Awaiting, Decided
  <1>21. CASE ResumeRefused
    BY <1>21 DEF ResumeRefused, Dispatch, Awaiting, Decided, CompleteAs, SetStatus, gateVars
  <1>22. CASE EnterExecute
    <2>1. cursor' = 1
      BY <1>22, NextApprovedAll DEF EnterExecute, Dispatch
    <2> QED
      BY <1>22, <2>1 DEF EnterExecute, Dispatch, lifeVars, gateVars
  <1>23. CASE ExecuteAction
    <2>1. AllApproved /\ cursor' = NextApproved(cursor + 1)
      BY <1>23 DEF ExecuteAction, AfterWrite
    <2>2. /\ Len(proposed) \in Nat /\ DOMAIN proposed = 1..Len(proposed)
          /\ cursor \in 1..(Len(proposed) + 1) /\ cursor <= Len(proposed)
      BY <1>23 DEF ExecuteAction
    <2>3. cursor' = cursor + 1 /\ cursor \in DOMAIN proposed
      <3> HIDE DEF TypeOK, AllApproved
      <3> QED
        BY <2>1, <2>2, NextApprovedAll
    <2>4. \A i \in DOMAIN proposed : invoked[proposed[i]] = IF i < cursor THEN 1 ELSE 0
      BY <1>23 DEF ExecuteAction
    <2>5. invoked[proposed[cursor]] = 0
      <3> HIDE DEF Gate, Phase, TypeOK
      <3> QED
        BY <2>2, <2>3, <2>4
    <2>6. /\ \A i, j \in DOMAIN proposed : proposed[i] = proposed[j] => i = j
          /\ \A i \in DOMAIN proposed : proposed[i] \in Actions
      BY ProposedDistinct
    <2>7. /\ invoked' = [invoked EXCEPT ![proposed[cursor]] = 1]
          /\ pc' = "action" /\ current_state' = "execute_approved"
          /\ UNCHANGED <<status, proposed, allowed, approvals>>
      BY <1>23, <2>5 DEF ExecuteAction, lifeVars
    <2>8. \A i \in DOMAIN proposed : invoked'[proposed[i]] = IF i < cursor' THEN 1 ELSE 0
      <3> HIDE DEF Gate, Phase
      <3> QED
        BY <2>2, <2>3, <2>4, <2>6, <2>7
    <2>9. \A a \in Actions \ Proposed : invoked'[a] = 0
      BY <2>3, <2>7
    <2>10. WritesOnce'
      <3> HIDE DEF Gate, Phase, TypeOK, Actions
      <3> QED
        BY <2>7, <2>8, <2>9
    <2>11. ApprovalGate'
      <3> HIDE DEF Gate, Phase, TypeOK, Actions
      <3> QED
        BY <2>1, <2>7, <2>9
    <2>12. /\ AllApproved' /\ proposed # <<>> /\ status' = "waiting_for_approval"
           /\ Proposed' = Proposed
      BY <1>23, <2>1, <2>7 DEF ExecuteAction
    <2> QED
      <3> HIDE DEF TypeOK, Phase, Actions, AllApproved, Untouched, ApprovalGate, WritesOnce, Proposed
      <3> QED
        BY <2>7, <2>8, <2>9, <2>10, <2>11, <2>12
  <1>24. CASE EndExecute
    BY <1>24 DEF EndExecute, SetStatus, Dispatch, gateVars
  <1>25. CASE Complete
    BY <1>25 DEF Complete, Dispatch, Awaiting, Decided, CompleteAs, SetStatus, gateVars
  <1>26. CASE RequestCancel
    BY <1>26 DEF RequestCancel, threadVars, lifeVars, gateVars
  <1>27. CASE DeadlinePasses
    BY <1>27 DEF DeadlinePasses, threadVars, lifeVars, gateVars
  <1>28. CASE Ended \/ UNCHANGED vars
    <2>1. UNCHANGED <<pc, cursor, status, current_state, proposed, allowed, approvals, invoked>>
      BY <1>28 DEF Ended, vars, threadVars, lifeVars, gateVars
    <2> QED
      BY <2>1
  <1>29. CASE PassChecks
    BY <1>29 DEF PassChecks, lifeVars, gateVars
  <1>30. CASE BeginAttempt
    BY <1>30 DEF BeginAttempt, Attempting, Dispatch, threadVars, lifeVars, gateVars
  <1>31. CASE BeginDelegation
    BY <1>31 DEF BeginDelegation, Attempting, Dispatch, threadVars, lifeVars, gateVars
  <1>32. CASE BeginAction
    BY <1>32 DEF BeginAction, Attempting, Dispatch, threadVars, lifeVars, gateVars
  <1>33. CASE MarkCancelled
    BY <1>33 DEF MarkCancelled, threadVars, gateVars
  <1> QED
    BY <1>1, <1>2, <1>3, <1>4, <1>5, <1>6, <1>7, <1>8, <1>9, <1>10, <1>11, <1>12, <1>13, <1>14, <1>15, <1>16,
       <1>17, <1>18, <1>19, <1>20, <1>21, <1>22, <1>23, <1>24, <1>25, <1>26, <1>27, <1>28,
       <1>29, <1>30, <1>31, <1>32, <1>33
    DEF Next, GraphStep

-----------------------------------------------------------------------------
Inv == TypeOK /\ Phase /\ Gate /\ Ledger

(***************************************************************************)
(* Invariance: the inductive invariant holds throughout every run.         *)
(***************************************************************************)
LEMMA Invariance == Spec => []Inv
  <1>1. Init => Inv
    <2> SUFFICES ASSUME Init PROVE Inv
      OBVIOUS
    <2>1. TypeOK
      BY InitTypes
    <2>2. Phase
      BY DEF Init, Phase, Terminal
    <2>3. Gate
      BY DEF Init, Gate, Untouched, ApprovalGate, WritesOnce, Proposed
    <2>4. Ledger
      BY LimitsAssumption DEF Init, Ledger, OverLimit, Cost, Kinds, ModelCost, ToolCost, DelegationCost
    <2> QED
      BY <2>1, <2>2, <2>3, <2>4 DEF Inv
  <1>2. Inv /\ [Next]_vars => Inv'
    BY StepTypes, PhaseStep, GateStep, LedgerStep DEF Inv
  <1> QED
    BY <1>1, <1>2, PTL DEF Spec

(***************************************************************************)
(* GateIsShut: in every run, an action reaches its tool only once it is    *)
(* proposed, allowed and approved (ApprovalGate).                          *)
(***************************************************************************)
THEOREM GateIsShut == Spec => []ApprovalGate
  <1>1. Inv => ApprovalGate
    BY DEF Inv, Gate
  <1> QED
    BY <1>1, Invariance, PTL

(***************************************************************************)
(* NoSecondWrite: in every run, no action is sent twice (WritesOnce).      *)
(***************************************************************************)
THEOREM NoSecondWrite == Spec => []WritesOnce
  <1>1. Inv => WritesOnce
    BY DEF Inv, Gate
  <1> QED
    BY <1>1, Invariance, PTL

(***************************************************************************)
(* WithinBudget: in every run and for every limit, the placed calls stay   *)
(* within the budgets and are billed (BudgetsHold).                        *)
(***************************************************************************)
THEOREM WithinBudget == Spec => []BudgetsHold
  <1>1. Inv => BudgetsHold
    <2> SUFFICES ASSUME TypeOK, Ledger PROVE BudgetsHold
      BY DEF Inv
    <2>0. calls["model"] \in Nat /\ calls["tool"] \in Nat /\ calls["delegation"] \in Nat
      BY DEF TypeOK, Kinds
    <2>1. /\ calls["model"] <= MaxModelCalls /\ calls["tool"] <= MaxToolCalls
          /\ calls["delegation"] <= MaxDelegations /\ Cost(calls) <= MaxCost
      BY <2>0, LimitsAssumption DEF Ledger, OverLimit, Cost, ModelCost, ToolCost, DelegationCost
    <2>2. \A k \in Kinds : usage[k] \in calls[k]..(calls[k] + 1)
      <3>1. calls \in [Kinds -> Nat]
        BY DEF TypeOK
      <3>2. CASE usage = calls
        BY <3>1, <3>2
      <3>3. CASE \E k \in Kinds : usage = Charge(calls, k)
        BY <3>1, <3>3 DEF Charge
      <3> QED
        BY <3>2, <3>3 DEF Ledger
    <2> QED
      BY <2>1, <2>2 DEF Ledger, BudgetsHold
  <1> QED
    BY <1>1, Invariance, PTL

-----------------------------------------------------------------------------
(***************************************************************************)
(* OneLate: a call placed after a cancel leaves the thread before a check, *)
(* and a cancelled run passes none.                                        *)
(***************************************************************************)
OneLate == late \in {0, 1} /\ (late = 1 => cancelled /\ pc \notin PastCheck)

(***************************************************************************)
(* SpendLate: a call placed from past a check keeps OneLate when it leaves *)
(* the thread before the next one (_spend_* and what follows it).          *)
(***************************************************************************)
LEMMA SpendLate ==
    ASSUME OneLate, pc \in PastCheck, NEW kind, Spend(kind), UNCHANGED cancelled,
           pc' \notin PastCheck
    PROVE  OneLate'
  BY DEF OneLate, Spend

(***************************************************************************)
(* LateStep: no step of the run or of its environment places a second call *)
(* after a cancel.                                                         *)
(***************************************************************************)
LEMMA LateStep ==
    ASSUME OneLate, [Next]_vars
    PROVE  OneLate'
  <1> USE DEF PastCheck
  <1>1. CASE Classify \/ Plan
    <2>1. /\ pc \in PastCheck /\ Spend("model") /\ UNCHANGED cancelled
          /\ pc' \in {"loop", "idle"}
      BY <1>1 DEF Classify, Plan, Dispatch, Transition, CompleteAs, Raises, StopAs, inputVars
    <2> QED
      BY <2>1, SpendLate
  <1>2. CASE ReadSucceeds \/ ReadTimesOut \/ ReadFails
    <2>1. /\ pc \in PastCheck /\ Spend("tool") /\ UNCHANGED cancelled
          /\ pc' \in {"loop", "read", "attempt"}
      BY <1>2 DEF ReadSucceeds, ReadTimesOut, ReadFails, EndRead, Transition, inputVars
    <2> QED
      BY <2>1, SpendLate
  <1>3. CASE Delegate
    <2>1. /\ pc \in PastCheck /\ Spend("delegation") /\ UNCHANGED cancelled
          /\ pc' \in {"loop", "idle"}
      BY <1>3 DEF Delegate, Transition, Raises, StopAs, inputVars
    <2> QED
      BY <2>1, SpendLate
  <1>4. CASE ExecuteAction
    <2>1. /\ pc \in PastCheck /\ Spend("tool") /\ UNCHANGED cancelled
          /\ pc' = "action"
      BY <1>4 DEF ExecuteAction, inputVars
    <2> QED
      BY <2>1, SpendLate
  <1>5. CASE PassChecks \/ BeginAttempt \/ BeginDelegation \/ BeginAction
    BY <1>5 DEF PassChecks, BeginAttempt, Attempting, BeginDelegation, BeginAction, OneLate,
                inputVars, billVars
  <1>6. CASE Cancelled \/ OutOfBudget \/ CallRefused \/ CircuitOpen
    BY <1>6 DEF Cancelled, OutOfBudget, CallRefused, CircuitOpen, Raises, StopAs, OneLate,
                inputVars, billVars
  <1>7. CASE Resources \/ Correlate \/ Findings \/ Propose \/ Policy \/ Complete
    <2>1. UNCHANGED <<late, cancelled>> /\ pc' \in {"loop", "idle"}
      BY <1>7 DEF Resources, Correlate, Findings, Propose, Policy, Complete, Transition, CompleteAs,
                  Raises, StopAs, inputVars, billVars
    <2> QED
      BY <2>1 DEF OneLate
  <1>8. CASE Start \/ EnterReads \/ BeginRead \/ ApprovalPause \/ EnterExecute \/ EndExecute
    BY <1>8 DEF Start, EnterReads, BeginRead, ApprovalPause, EnterExecute, EndExecute, OneLate,
                inputVars, billVars
  <1>9. CASE ResumeApproved \/ ResumeRefused
    BY <1>9 DEF ResumeApproved, ResumeRefused, CompleteAs, OneLate, inputVars, billVars
  <1>10. CASE RequestCancel \/ MarkCancelled \/ DeadlinePasses
    BY <1>10 DEF RequestCancel, MarkCancelled, DeadlinePasses, OneLate, threadVars, inputVars,
                 billVars
  <1>11. CASE Ended \/ UNCHANGED vars
    BY <1>11 DEF Ended, vars, OneLate, threadVars, inputVars, billVars
  <1> QED
    BY <1>1, <1>2, <1>3, <1>4, <1>5, <1>6, <1>7, <1>8, <1>9, <1>10, <1>11 DEF Next, GraphStep

(***************************************************************************)
(* CallsRespectCancel: in every run, at most one call is placed after a    *)
(* cancel, the one already past its check (CancelStopsCalls;               *)
(* _check_cancel).                                                         *)
(***************************************************************************)
THEOREM CallsRespectCancel == Spec => []CancelStopsCalls
  <1>1. Init => OneLate
    BY DEF Init, OneLate
  <1>2. OneLate => CancelStopsCalls
    BY DEF OneLate, CancelStopsCalls
  <1> QED
    BY <1>1, <1>2, LateStep, PTL DEF Spec

-----------------------------------------------------------------------------
(***************************************************************************)
(* What the findings rest on.  Until the specialist has answered nothing   *)
(* is known of it; a failed specialist leaves no findings; a recorded      *)
(* conflict has capped both what it returned and what was published; and a *)
(* run that gets to propose has a strong finding of the specialist.        *)
(***************************************************************************)
BeforeDelegate == {"classify", "plan", "resources", "mcp_reads", "a2a_delegate"}

Unasked == raw = <<>> /\ ~a2a_fallback
Unpublished == ~conflict /\ findings = <<>>
Supported == \E i \in DOMAIN raw : raw[i].conf >= LowConfidence /\ ~raw[i].blank
CappedAll(fs) == \A i \in DOMAIN fs : fs[i].conf <= ConflictCap

Grounds ==
    /\ status = "created" => Unasked /\ Unpublished
    /\ pc # "idle" /\ current_state \in BeforeDelegate => Unasked /\ Unpublished
    /\ pc # "idle" /\ current_state = "correlate" => Unpublished
    /\ a2a_fallback => raw = <<>>
    /\ conflict => health = "healthy" /\ raw # <<>> /\ CappedAll(raw) /\ CappedAll(findings)
    /\ pc # "idle" /\ current_state = "propose" => Supported
    /\ proposed # <<>> => Supported

(***************************************************************************)
(* CorrelateGrounds: a conflict caps every finding of the specialist, and  *)
(* none is published yet.                                                  *)
(***************************************************************************)
LEMMA CorrelateGrounds ==
    ASSUME Inv, Grounds, Correlate
    PROVE  Grounds'
  <1> DEFINE contradicts == health = "healthy" /\ raw # <<>> /\ Confident(raw)
  <1>1. /\ pc = "handler" /\ current_state = "correlate" /\ current_state' = "findings"
        /\ pc' = "loop" /\ conflict' = contradicts
        /\ raw' = IF contradicts THEN [i \in DOMAIN raw |-> Capped(raw[i])] ELSE raw
        /\ UNCHANGED <<status, a2a_fallback, findings, health, proposed>>
    BY DEF Correlate, Dispatch, Transition, evidenceVars, gateVars
  <1>2. findings = <<>> /\ ~conflict /\ proposed = <<>>
    BY <1>1 DEF Grounds, Unpublished, Inv, Gate, BeforePropose
  <1>3. raw \in Seq(Finding) /\ DOMAIN raw = 1..Len(raw) /\ \A i \in DOMAIN raw : raw[i] \in Finding
    BY LenProperties DEF Inv, TypeOK
  <1>4. status # "created"
    BY <1>1 DEF Inv, Phase
  <1>5. CASE contradicts
    <2>1. \A f \in Finding : Capped(f).conf <= ConflictCap
      BY DEF Finding, Capped, ConflictCap
    <2>2. CappedAll(raw') /\ DOMAIN raw' = DOMAIN raw
      BY <1>1, <1>3, <1>5, <2>1 DEF CappedAll
    <2>3. raw' # <<>>
      BY <1>3, <1>5, <2>2
    <2>4. CappedAll(findings')
      BY <1>1, <1>2 DEF CappedAll
    <2>5. ~a2a_fallback
      BY <1>5 DEF Grounds
    <2> QED
      BY <1>1, <1>2, <1>4, <1>5, <2>2, <2>3, <2>4, <2>5 DEF Grounds, BeforeDelegate
  <1>6. CASE ~contradicts
    BY <1>1, <1>2, <1>4, <1>6 DEF Grounds, BeforeDelegate
  <1> QED
    BY <1>5, <1>6

(***************************************************************************)
(* FindingsGrounds: only a finding of the specialist reaches the threshold *)
(* (the synthesised one is below it), and what is published is capped if   *)
(* what the specialist returned is.                                        *)
(***************************************************************************)
LEMMA FindingsGrounds ==
    ASSUME Inv, Grounds, Findings
    PROVE  Grounds'
  <1>1. /\ pc = "handler" /\ current_state = "findings"
        /\ findings' = [i \in Usable |-> Source[i]]
        /\ UNCHANGED <<a2a_fallback, raw, conflict, health, proposed>>
        /\ status' # "created"
        /\ current_state' \in {"propose", "complete"}
    BY DEF Findings, Dispatch, Transition, CompleteAs, SetStatus, evidenceVars, gateVars, Inv, Phase
  <1>2. proposed = <<>>
    BY <1>1 DEF Inv, Gate, BeforePropose
  <1>3. ASSUME conflict PROVE CappedAll(findings')
    <2>1. Source = raw /\ CappedAll(raw)
      BY <1>3 DEF Grounds, Source
    <2> QED
      BY <1>1, <2>1 DEF CappedAll, Usable
  <1>4. ASSUME pc' # "idle" PROVE Supported'
    <2>1. \E i \in Usable : Source[i].conf >= LowConfidence
      BY <1>4 DEF Findings, CompleteAs
    <2>2. Source # Synthesised
      BY <2>1 DEF Synthesised, SynthesisConfidence, LowConfidence, Usable
    <2>3. Source = raw
      BY <2>2 DEF Source
    <2> QED
      BY <1>1, <2>1, <2>3 DEF Usable, Supported
  <1> QED
    BY <1>1, <1>2, <1>3, <1>4 DEF Grounds, BeforeDelegate, CappedAll

(***************************************************************************)
(* DelegateGrounds: the specialist's answer, or the fallback without one.  *)
(***************************************************************************)
LEMMA DelegateGrounds ==
    ASSUME Inv, Grounds, Delegate
    PROVE  Grounds'
  <1>1. /\ pc = "delegating" /\ current_state = "a2a_delegate"
        /\ status' = status \/ status' = "failed"
        /\ pc' = "idle" \/ current_state' = "correlate"
        /\ UNCHANGED <<conflict, findings, health, proposed>>
        /\ UNCHANGED a2a_fallback \/ UNCHANGED raw
    BY DEF Delegate, Transition, Raises, StopAs, SetStatus, gateVars, Inv, Phase
  <1>2. proposed = <<>> /\ status # "created"
    BY <1>1 DEF Inv, Gate, Phase, BeforePropose
  <1>3. Unasked /\ Unpublished
    BY <1>1 DEF Grounds, BeforeDelegate
  <1> QED
    BY <1>1, <1>2, <1>3 DEF Grounds, Unasked, Unpublished, BeforeDelegate

(***************************************************************************)
(* StillGrounded: a step that leaves what the specialist said alone, and   *)
(* the thread where it was, at a later handler or idle, keeps the grounds. *)
(***************************************************************************)
LEMMA StillGrounded ==
    ASSUME Grounds, UNCHANGED specialistVars, conflict => UNCHANGED health,
           status' # "created" \/ UNCHANGED status,
           pc' # "idle" /\ current_state' \in BeforeDelegate =>
               status = "created" \/ (pc # "idle" /\ current_state \in BeforeDelegate),
           pc' # "idle" /\ current_state' \in {"correlate", "propose"} =>
               pc # "idle" /\ UNCHANGED current_state,
           proposed' # <<>> => proposed # <<>> \/ Supported
    PROVE  Grounds'
  BY DEF Grounds, Unasked, Unpublished, Supported, CappedAll, specialistVars, BeforeDelegate

LEMMA GroundsStep ==
    ASSUME Inv, Grounds, [Next]_vars
    PROVE  Grounds'
  <1> USE DEF BeforeDelegate
  <1>1. CASE Start
    <2>1. /\ UNCHANGED <<specialistVars, health, proposed>> /\ status = "created"
          /\ status' # "created" \/ UNCHANGED status
          /\ current_state' = "classify"
      BY <1>1 DEF Start, SetStatus, lifeVars, evidenceVars, gateVars, Inv, Phase
    <2> QED
      BY <2>1, StillGrounded
  <1>2. CASE Cancelled \/ OutOfBudget \/ CallRefused \/ CircuitOpen
    BY <1>2, StillGrounded DEF Cancelled, OutOfBudget, CallRefused, CircuitOpen, Raises, StopAs, SetStatus, evidenceVars, gateVars
  <1>3. CASE Classify \/ Plan \/ Resources
    BY <1>3, StillGrounded DEF Classify, Plan, Resources, Dispatch, Transition, CompleteAs,
                           Raises, StopAs, SetStatus, evidenceVars, gateVars
  <1>4. CASE EnterReads \/ BeginRead
    BY <1>4, StillGrounded DEF EnterReads, BeginRead, Dispatch, lifeVars, evidenceVars, gateVars
  <1>5. CASE ReadSucceeds \/ ReadFails
    <2>1. /\ UNCHANGED <<specialistVars, proposed, status>> /\ pc # "idle"
          /\ current_state' = current_state \/ current_state' \in {"complete", "a2a_delegate"}
          /\ current_state = "verify" => current_state' = "complete" /\ UNCHANGED health
      BY <1>5 DEF ReadSucceeds, ReadFails, EndRead, Transition, lifeVars, gateVars
    <2>2. current_state \in {"mcp_reads", "verify"}
      BY <1>5 DEF ReadSucceeds, ReadFails, Inv, Phase
    <2>3. current_state = "mcp_reads" => ~conflict
      BY <2>1, <2>2 DEF Grounds, Unpublished
    <2> QED
      BY <2>1, <2>2, <2>3, StillGrounded
  <1>6. CASE ReadTimesOut
    BY <1>6, StillGrounded DEF ReadTimesOut, lifeVars, evidenceVars, gateVars
  <1>7. CASE Delegate
    BY <1>7, DelegateGrounds
  <1>8. CASE Correlate
    BY <1>8, CorrelateGrounds
  <1>9. CASE Findings
    BY <1>9, FindingsGrounds
  <1>10. CASE Propose
    <2>1. Supported
      BY <1>10 DEF Propose, Dispatch, Grounds
    <2> QED
      BY <1>10, <2>1, StillGrounded DEF Propose, Dispatch, Transition, evidenceVars
  <1>11. CASE Policy \/ ApprovalPause
    BY <1>11, StillGrounded DEF Policy, ApprovalPause, Dispatch, Transition, CompleteAs,
                            Raises, StopAs, SetStatus, evidenceVars
  <1>12. CASE ResumeApproved \/ ResumeRefused
    BY <1>12, StillGrounded DEF ResumeApproved, ResumeRefused, CompleteAs, SetStatus, evidenceVars
  <1>13. CASE EnterExecute \/ ExecuteAction
    BY <1>13, StillGrounded DEF EnterExecute, ExecuteAction, Dispatch, lifeVars, evidenceVars, gateVars
  <1>14. CASE EndExecute \/ Complete
    BY <1>14, StillGrounded DEF EndExecute, Complete, CompleteAs, SetStatus, Dispatch, evidenceVars, gateVars
  <1>15. CASE RequestCancel \/ MarkCancelled \/ DeadlinePasses
    BY <1>15, StillGrounded DEF RequestCancel, MarkCancelled, DeadlinePasses, threadVars, lifeVars, evidenceVars, gateVars
  <1>16. CASE Ended \/ UNCHANGED vars
    BY <1>16, StillGrounded DEF Ended, vars, threadVars, lifeVars, evidenceVars, gateVars
  <1>17. CASE PassChecks \/ BeginAttempt \/ BeginDelegation \/ BeginAction
    BY <1>17, StillGrounded DEF PassChecks, BeginAttempt, Attempting, BeginDelegation, Dispatch,
                            BeginAction, lifeVars, evidenceVars, gateVars
  <1> QED
    BY <1>1, <1>2, <1>3, <1>4, <1>5, <1>6, <1>7, <1>8, <1>9, <1>10, <1>11, <1>12, <1>13, <1>14,
       <1>15, <1>16, <1>17
    DEF Next, GraphStep

LEMMA Grounded == Spec => []Grounds
  <1>1. Init => Grounds
    BY DEF Init, Grounds, Unasked, Unpublished
  <1> QED
    BY <1>1, GroundsStep, Invariance, PTL DEF Spec

(***************************************************************************)
(* WritesNeedTheSpecialist: in every run, actions are proposed only on the *)
(* strength of a finding of the specialist (OnlySpecialistLeadsToWrites;   *)
(* _do_findings, _do_propose).                                             *)
(***************************************************************************)
THEOREM WritesNeedTheSpecialist == Spec => []OnlySpecialistLeadsToWrites
  <1>1. Grounds => OnlySpecialistLeadsToWrites
    BY DEF Grounds, Supported, OnlySpecialistLeadsToWrites
  <1> QED
    BY <1>1, Grounded, PTL

(***************************************************************************)
(* ContradictionsAreCapped: in every run, once a contradiction with the    *)
(* health check is recorded no published finding is above the cap          *)
(* (ConflictCapped; _do_correlate).                                        *)
(***************************************************************************)
THEOREM ContradictionsAreCapped == Spec => []ConflictCapped
  <1>1. Grounds => ConflictCapped
    BY DEF Grounds, CappedAll, ConflictCapped
  <1> QED
    BY <1>1, Grounded, PTL

-----------------------------------------------------------------------------
(***************************************************************************)
(* The event log.  A step of a run that has not ended appends events that  *)
(* are not terminal, and behind them one that is exactly when it ends the  *)
(* run.                                                                    *)
(***************************************************************************)
NoneTerminal(es) == \A i \in DOMAIN es : es[i].type \notin TerminalEvents

LEMMA GoesOn ==
    ASSUME TypeOK, OneTerminalEvent, status \notin Terminal, status' \notin Terminal,
           NEW es \in Seq(EventRecord), NoneTerminal(es), Emit(es)
    PROVE  OneTerminalEvent'
  <1>1. /\ log \in Seq(EventRecord) /\ NoneTerminal(log)
        /\ log' = log \o es
    BY DEF TypeOK, OneTerminalEvent, NoneTerminal, Emit
  <1>2. \A i \in DOMAIN log' : log'[i].type \notin TerminalEvents
    BY <1>1 DEF NoneTerminal
  <1> QED
    BY <1>2 DEF OneTerminalEvent

LEMMA Ends ==
    ASSUME TypeOK, OneTerminalEvent, status \notin Terminal, status' \in Terminal,
           NEW es \in Seq(EventRecord), NoneTerminal(es),
           NEW e \in EventRecord, e.type \in TerminalEvents, Emit(Append(es, e))
    PROVE  OneTerminalEvent'
  <1>1. /\ log \in Seq(EventRecord) /\ NoneTerminal(log)
        /\ log' = log \o Append(es, e)
    BY DEF TypeOK, OneTerminalEvent, NoneTerminal, Emit
  <1>2. Append(es, e) \in Seq(EventRecord) /\ Len(Append(es, e)) = Len(es) + 1
    BY AppendProperties
  <1>3. log' \in Seq(EventRecord) /\ Len(log') = Len(log) + Len(es) + 1
    BY <1>1, <1>2, ConcatProperties
  <1>4. ASSUME NEW i \in DOMAIN log', i # Len(log') PROVE log'[i].type \notin TerminalEvents
    <2>1. Len(log) \in Nat /\ Len(es) \in Nat /\ i \in 1..(Len(log) + Len(es))
      BY <1>1, <1>3, <1>4, LenProperties
    <2>2. CASE i <= Len(log)
      <3>1. i \in DOMAIN log /\ log'[i] = log[i]
        BY <1>1, <1>2, <2>1, <2>2
      <3> QED
        BY <1>1, <3>1 DEF NoneTerminal
    <2>3. CASE i > Len(log)
      <3>1. i - Len(log) \in DOMAIN es /\ log'[i] = es[i - Len(log)]
        BY <1>1, <1>2, <2>1, <2>3
      <3> QED
        BY <3>1 DEF NoneTerminal
    <2> QED
      BY <2>1, <2>2, <2>3
  <1>5. log' # <<>> /\ log'[Len(log')] = e
    BY <1>1, <1>3
  <1> QED
    BY <1>4, <1>5 DEF OneTerminalEvent

LEMMA Plain ==
    ASSUME NEW t1 \in EventNames \ TerminalEvents, NEW o1 \in Subjects,
           NEW t2 \in EventNames \ TerminalEvents, NEW o2 \in Subjects
    PROVE  /\ <<>> \in Seq(EventRecord) /\ NoneTerminal(<<>>)
           /\ <<Event(t1, o1)>> \in Seq(EventRecord) /\ NoneTerminal(<<Event(t1, o1)>>)
           /\ <<Event(t1, o1), Event(t2, o2)>> \in Seq(EventRecord)
           /\ NoneTerminal(<<Event(t1, o1), Event(t2, o2)>>)
  <1>1. Event(t1, o1).type = t1 /\ Event(t2, o2).type = t2
    BY DEF Event
  <1>2. NoneTerminal(<<>>) /\ NoneTerminal(<<Event(t1, o1)>>)
    BY <1>1 DEF NoneTerminal
  <1>3. NoneTerminal(<<Event(t1, o1), Event(t2, o2)>>)
    BY <1>1 DEF NoneTerminal
  <1> QED
    BY <1>2, <1>3, EventTypes

LEMMA PlainOne ==
    ASSUME NEW t \in EventNames \ TerminalEvents, NEW o \in Subjects
    PROVE  <<Event(t, o)>> \in Seq(EventRecord) /\ NoneTerminal(<<Event(t, o)>>)
  BY Plain

LEMMA TransitionGoesOn ==
    ASSUME TypeOK, OneTerminalEvent, status \notin Terminal, NEW next,
           NEW es \in Seq(EventRecord), NoneTerminal(es), Transition(next, es)
    PROVE  OneTerminalEvent'
  BY GoesOn DEF Transition

LEMMA CompleteEnds ==
    ASSUME TypeOK, OneTerminalEvent, status \notin Terminal, NEW out \in Outcomes,
           NEW es \in Seq(EventRecord), NoneTerminal(es), CompleteAs(out, es)
    PROVE  OneTerminalEvent'
  <1>1. /\ Event("run.completed", out) \in EventRecord
        /\ Event("run.completed", out).type \in TerminalEvents
    BY DEF Event, EventRecord, EventNames, TerminalEvents, Subjects
  <1>2. Emit(Append(es, Event("run.completed", out))) /\ status' \in Terminal
    BY DEF CompleteAs, SetStatus, Terminal
  <1> QED
    BY <1>1, <1>2, Ends

LEMMA StopEnds ==
    ASSUME TypeOK, OneTerminalEvent, status \notin Terminal,
           NEW how \in {"failed", "cancelled"}, NEW err \in Errors,
           NEW es \in Seq(EventRecord), NoneTerminal(es), StopAs(how, err, es)
    PROVE  OneTerminalEvent'
  <1> DEFINE e == Event(IF how = "cancelled" THEN "run.cancelled" ELSE "run.failed", err)
  <1>1. e \in EventRecord /\ e.type \in TerminalEvents
    BY DEF Event, EventRecord, EventNames, TerminalEvents, Subjects
  <1>2. Emit(Append(es, e)) /\ status' \in Terminal
    BY DEF StopAs, SetStatus, Terminal
  <1> HIDE DEF e
  <1> QED
    BY <1>1, <1>2, Ends

(***************************************************************************)
(* LogStep: a run that has ended appends nothing; of the others, only the  *)
(* steps that end it append a terminal event.                              *)
(***************************************************************************)
LEMMA LogStep ==
    ASSUME Inv, OneTerminalEvent, [Next]_vars
    PROVE  OneTerminalEvent'
  <1>1. CASE UNCHANGED <<status, log>>
    BY <1>1 DEF OneTerminalEvent
  <1>2. TypeOK /\ Phase
    BY DEF Inv
  <1>3. "message.delta" \in EventNames \ TerminalEvents /\ "none" \in Subjects
    BY DEF EventNames, TerminalEvents, Subjects, Errors
  <1>4. CASE Start \/ ResumeApproved \/ ResumeRefused
    <2>1. status \notin Terminal
      BY <1>4 DEF Start, ResumeApproved, ResumeRefused, Awaiting, Terminal
    <2>2. CASE Start \/ ResumeApproved
      <3>1. /\ <<Event("run.started", "none")>> \in Seq(EventRecord)
            /\ NoneTerminal(<<Event("run.started", "none")>>)
        <4>1. "run.started" \in EventNames \ TerminalEvents
          BY DEF EventNames, TerminalEvents
        <4> QED
          BY <1>3, <4>1, PlainOne
      <3>2. /\ <<Event("approval.received", "approved")>> \in Seq(EventRecord)
            /\ NoneTerminal(<<Event("approval.received", "approved")>>)
        <4>1. "approval.received" \in EventNames \ TerminalEvents /\ "approved" \in Subjects
          BY DEF EventNames, TerminalEvents, Subjects, Decisions
        <4> QED
          BY <4>1, PlainOne
      <3>3. status' \notin Terminal
        BY <2>1, <2>2 DEF Start, SetStatus, lifeVars, ResumeApproved, Terminal
      <3>4. CASE Start
        <4>1. Emit(<<Event("run.started", "none")>>) \/ UNCHANGED <<status, log>>
          BY <3>4 DEF Start, lifeVars
        <4> QED
          BY <1>1, <1>2, <2>1, <3>1, <3>3, <4>1, GoesOn
      <3>5. CASE ResumeApproved
        BY <1>2, <2>1, <3>2, <3>3, <3>5, GoesOn DEF ResumeApproved
      <3> QED
        BY <2>2, <3>4, <3>5
    <2>3. CASE ResumeRefused
      <3>1. PICK d \in Decisions : CompleteAs("rejected", <<Event("approval.received", d)>>)
        BY <2>3 DEF ResumeRefused
      <3>2. /\ <<Event("approval.received", d)>> \in Seq(EventRecord)
            /\ NoneTerminal(<<Event("approval.received", d)>>)
        <4>1. "approval.received" \in EventNames \ TerminalEvents /\ d \in Subjects
          BY DEF EventNames, TerminalEvents, Subjects
        <4> QED
          BY <4>1, PlainOne
      <3> QED
        BY <1>2, <2>1, <3>1, <3>2, CompleteEnds DEF Outcomes
    <2> QED
      BY <1>4, <2>2, <2>3
  <1>5. ASSUME pc # "idle" PROVE status \notin Terminal
    BY <1>2, <1>5 DEF Phase
  <1>6. CASE Cancelled \/ OutOfBudget \/ CallRefused \/ CircuitOpen
    <2>1. pc # "idle"
      BY <1>6 DEF Cancelled, Dispatch, OutOfBudget, CallRefused, CircuitOpen, Billing
    <2>2. \E how \in {"failed", "cancelled"}, err \in Errors : StopAs(how, err, <<>>)
      BY <1>6 DEF Cancelled, OutOfBudget, CallRefused, CircuitOpen, Raises, Errors
    <2>3. <<>> \in Seq(EventRecord) /\ NoneTerminal(<<>>)
      BY <1>3, Plain
    <2> QED
      BY <1>2, <1>5, <2>1, <2>2, <2>3, StopEnds
  <1>7. CASE Classify \/ Plan \/ Resources \/ Correlate \/ Propose
    <2>1. pc # "idle"
      BY <1>7 DEF Classify, Plan, Resources, Correlate, Propose, Dispatch
    <2>2. /\ <<Event("message.delta", "none")>> \in Seq(EventRecord)
          /\ NoneTerminal(<<Event("message.delta", "none")>>)
          /\ <<Event("message.delta", "none"), Event("message.delta", "none")>> \in Seq(EventRecord)
          /\ NoneTerminal(<<Event("message.delta", "none"), Event("message.delta", "none")>>)
          /\ <<>> \in Seq(EventRecord) /\ NoneTerminal(<<>>)
      BY <1>3, Plain
    <2>3. /\ <<Event("tool.started", "resource.read")>> \in Seq(EventRecord)
          /\ NoneTerminal(<<Event("tool.started", "resource.read")>>)
      <3>1. "tool.started" \in EventNames \ TerminalEvents /\ "resource.read" \in Subjects
        BY DEF EventNames, TerminalEvents, Subjects
      <3> QED
        BY <3>1, PlainOne
    <2> QED
      BY <1>2, <1>5, <1>7, <2>1, <2>2, <2>3, TransitionGoesOn, CompleteEnds, StopEnds
      DEF Classify, Plan, Resources, Correlate, Propose, Raises, Outcomes, Errors
  <1>8. CASE BeginRead \/ ReadSucceeds \/ ReadFails
    <2>1. pc \in {"read", "reading"}
      BY <1>8 DEF BeginRead, ReadSucceeds, ReadFails
    <2>2. CurrentRead \in Subjects
      BY <1>2, <2>1 DEF TypeOK, CurrentRead, ReadNames, ReadTools, NumReads, Subjects
    <2>3. /\ "tool.started" \in EventNames \ TerminalEvents
          /\ "tool.completed" \in EventNames \ TerminalEvents
      BY DEF EventNames, TerminalEvents
    <2> DEFINE done == Event("tool.completed", CurrentRead)
    <2>4. /\ <<Event("tool.started", CurrentRead)>> \in Seq(EventRecord)
          /\ NoneTerminal(<<Event("tool.started", CurrentRead)>>)
          /\ <<done>> \in Seq(EventRecord) /\ NoneTerminal(<<done>>)
          /\ <<done, Event("message.delta", "none")>> \in Seq(EventRecord)
          /\ NoneTerminal(<<done, Event("message.delta", "none")>>)
          /\ <<done, Event("tool.completed", "none")>> \in Seq(EventRecord)
          /\ NoneTerminal(<<done, Event("tool.completed", "none")>>)
      BY <1>3, <2>2, <2>3, Plain
    <2>5. CASE BeginRead
      BY <1>2, <1>5, <2>1, <2>4, <2>5, GoesOn DEF BeginRead, lifeVars
    <2>6. CASE EndRead
      <3>1. \/ Transition("complete", <<done, Event("message.delta", "none")>>)
            \/ Transition("a2a_delegate", <<done, Event("tool.completed", "none")>>)
            \/ Emit(<<done>>) /\ UNCHANGED status
        BY <2>6 DEF EndRead, lifeVars
      <3> HIDE DEF done
      <3> QED
        BY <1>2, <1>5, <2>1, <2>4, <3>1, GoesOn, TransitionGoesOn
    <2> QED
      BY <1>8, <2>5, <2>6 DEF ReadSucceeds, ReadFails
  <1>9. CASE Delegate
    <2>1. /\ <<Event("agent.delegated", "none"), Event("message.delta", "none")>> \in Seq(EventRecord)
          /\ NoneTerminal(<<Event("agent.delegated", "none"), Event("message.delta", "none")>>)
          /\ <<Event("agent.delegated", "none")>> \in Seq(EventRecord)
          /\ NoneTerminal(<<Event("agent.delegated", "none")>>)
      BY <1>3, Plain DEF EventNames, TerminalEvents
    <2>2. \/ Transition("correlate", <<Event("agent.delegated", "none"), Event("message.delta", "none")>>)
          \/ StopAs("failed", "INTERNAL_ERROR", <<Event("agent.delegated", "none")>>)
      BY <1>9, Zenon DEF Delegate, Raises
    <2>3. pc # "idle"
      BY <1>9 DEF Delegate
    <2> QED
      BY <1>2, <1>5, <2>1, <2>2, <2>3, TransitionGoesOn, StopEnds DEF Errors
  <1>10. CASE Findings
    <2> DEFINE e == Event("finding.created", "none")
               f == Event("message.delta", "none")
               created == [n \in 1..Cardinality(Usable) |-> e]
    <2>1. created \in Seq(EventRecord)
      BY <1>2, FindingsTypes
    <2>2. e.type \notin TerminalEvents /\ f.type \notin TerminalEvents /\ f \in EventRecord
      BY <1>3 DEF Event, EventRecord, TerminalEvents
    <2>3. Transition("propose", created) \/ CompleteAs("more_info", Append(created, f))
      BY <1>10 DEF Findings
    <2> HIDE DEF e, f
    <2>4. NoneTerminal(created)
      BY <2>2 DEF NoneTerminal
    <2> HIDE DEF created
    <2>5. Append(created, f) \in Seq(EventRecord) /\ NoneTerminal(Append(created, f))
      <3>1. \A i \in 1..(Len(created) + 1) : Append(created, f)[i] = IF i <= Len(created) THEN created[i] ELSE f
        BY <2>1, <2>2
      <3>2. DOMAIN Append(created, f) = 1..(Len(created) + 1) /\ Append(created, f) \in Seq(EventRecord)
        BY <2>1, <2>2
      <3>3. DOMAIN created = 1..Len(created) /\ Len(created) \in Nat
        BY <2>1
      <3> QED
        BY <2>2, <2>4, <3>1, <3>2, <3>3 DEF NoneTerminal
    <2>6. pc # "idle"
      BY <1>10 DEF Findings, Dispatch
    <2> QED
      BY <1>2, <1>5, <2>1, <2>3, <2>4, <2>5, <2>6, TransitionGoesOn, CompleteEnds DEF Outcomes
  <1>11. CASE Policy
    <2>1. /\ <<Event("message.delta", "none")>> \in Seq(EventRecord)
          /\ NoneTerminal(<<Event("message.delta", "none")>>)
          /\ <<>> \in Seq(EventRecord) /\ NoneTerminal(<<>>)
      BY <1>3, Plain
    <2> QED
      BY <1>2, <1>5, <1>11, <2>1, TransitionGoesOn, CompleteEnds, StopEnds
      DEF Policy, Dispatch, Raises, Outcomes, Errors
  <1>12. CASE ApprovalPause
    <2>1. /\ <<Event("approval.required", "none")>> \in Seq(EventRecord)
          /\ NoneTerminal(<<Event("approval.required", "none")>>)
      BY <1>3, Plain DEF EventNames, TerminalEvents
    <2> QED
      BY <1>2, <1>5, <1>12, <2>1, GoesOn DEF ApprovalPause, SetStatus, Dispatch, Terminal
  <1>13. CASE ExecuteAction
    <2>1. proposed[cursor] \in Subjects
      <3>1. cursor \in DOMAIN proposed
        BY <1>2, <1>13 DEF ExecuteAction, TypeOK
      <3> QED
        BY <1>2, <3>1, ProposedDistinct DEF Subjects
    <2> DEFINE es == <<Event("tool.started", proposed[cursor]), Event("tool.completed", proposed[cursor])>>
    <2>2. es \in Seq(EventRecord) /\ NoneTerminal(es)
      BY <2>1, Plain DEF EventNames, TerminalEvents
    <2>3. Emit(es) /\ UNCHANGED status /\ pc # "idle"
      BY <1>13 DEF ExecuteAction, lifeVars
    <2> HIDE DEF es
    <2> QED
      BY <1>2, <1>5, <2>2, <2>3, GoesOn
  <1>14. CASE EndExecute
    <2>1. status \notin Terminal /\ status' \notin Terminal /\ UNCHANGED log
      BY <1>2, <1>14 DEF EndExecute, SetStatus, Phase, Terminal
    <2> QED
      BY <2>1 DEF OneTerminalEvent
  <1>15. CASE Complete
    <2>1. (IF outcome = "none" THEN "completed" ELSE outcome) \in Outcomes
      BY <1>2 DEF TypeOK, Outcomes, Terminal
    <2>2. <<>> \in Seq(EventRecord) /\ NoneTerminal(<<>>)
      BY <1>3, Plain
    <2> QED
      BY <1>2, <1>5, <1>15, <2>1, <2>2, CompleteEnds DEF Complete, Dispatch
  <1>16. CASE \/ PassChecks \/ EnterReads \/ BeginAttempt \/ ReadTimesOut \/ BeginDelegation
              \/ EnterExecute \/ BeginAction \/ RequestCancel \/ MarkCancelled \/ DeadlinePasses
              \/ Ended \/ UNCHANGED vars
    <2>1. UNCHANGED <<status, log>>
      BY <1>16 DEF PassChecks, EnterReads, BeginAttempt, ReadTimesOut, BeginDelegation, EnterExecute,
                   BeginAction, RequestCancel, MarkCancelled, DeadlinePasses, Ended, vars, lifeVars
    <2> QED
      BY <1>1, <2>1
  <1> QED
    BY <1>4, <1>6, <1>7, <1>8, <1>9, <1>10, <1>11, <1>12, <1>13, <1>14, <1>15, <1>16
    DEF Next, GraphStep

(***************************************************************************)
(* TheEndIsTheLastEvent: in every run, the graph appends a terminal event  *)
(* exactly when it ends the run, one only, and nothing after it            *)
(* (OneTerminalEvent; _emit on every way out of run()).                    *)
(***************************************************************************)
THEOREM TheEndIsTheLastEvent == Spec => []OneTerminalEvent
  <1>1. Init => OneTerminalEvent
    BY DEF Init, OneTerminalEvent, Terminal
  <1> QED
    BY <1>1, LogStep, Invariance, PTL DEF Spec

-----------------------------------------------------------------------------
(***************************************************************************)
(* The graph implements RunContract: every step of the thread is a step of *)
(* the contract or leaves everything the contract speaks of alone.         *)
(***************************************************************************)

(***************************************************************************)
(* Quiet: a step that changes neither the lifecycle nor the gate is        *)
(* invisible to the contract.                                              *)
(***************************************************************************)
LEMMA Quiet ==
    ASSUME UNCHANGED <<status, outcome, proposed, approvals, invoked>>
    PROVE  UNCHANGED Contract!cvars
  BY DEF Contract!cvars, Proposed, Decision, ExecutedActions

(***************************************************************************)
(* StopRefines: whatever ends a thread at work is a Stop of the contract,  *)
(* and a cancel before the run began is its Abandon.                       *)
(***************************************************************************)
LEMMA StopRefines ==
    ASSUME Inv, pc # "idle", NEW how \in {"failed", "cancelled"}, NEW err, NEW events,
           StopAs(how, err, events), status = "created" => how = "cancelled", UNCHANGED gateVars
    PROVE  Contract!Stop \/ Contract!Abandon
  <1>1. status \in {"created", "running", "waiting_for_approval"}
    BY DEF Inv, TypeOK, Phase, Statuses
  <1>2. status = "waiting_for_approval" => Decision = "approved"
    <2> SUFFICES ASSUME status = "waiting_for_approval" PROVE Decision = "approved"
      OBVIOUS
    <2>1. proposed # <<>> /\ AllApproved
      BY DEF Inv, Phase, Gate, AfterApproval
    <2>2. "ticket.create" \in Proposed
      BY <2>1 DEF Inv, TypeOK, Proposed
    <2> QED
      BY <2>1, <2>2 DEF AllApproved, Decision, Actions
  <1>3. UNCHANGED <<Proposed, Decision, ExecutedActions>>
    BY DEF gateVars, Proposed, Decision, ExecutedActions
  <1> QED
    BY <1>1, <1>2, <1>3 DEF Contract!Stop, Contract!Abandon, Contract!AtWork, StopAs, SetStatus

(***************************************************************************)
(* TicketProposed: whatever is proposed, a ticket is (_do_propose).        *)
(***************************************************************************)
LEMMA TicketProposed ==
    ASSUME TypeOK
    PROVE  /\ proposed = <<>> => Proposed = {}
           /\ proposed # <<>> => "ticket.create" \in Proposed
           /\ Proposed \subseteq Actions
  <1>1. CASE proposed = <<>>
    BY <1>1 DEF Proposed
  <1>2. CASE proposed = <<"ticket.create">>
    BY <1>2 DEF Proposed, Actions
  <1>3. CASE proposed = <<"ticket.create", "deployment.rollback">>
    BY <1>3 DEF Proposed, Actions
  <1> QED
    BY <1>1, <1>2, <1>3 DEF TypeOK

(***************************************************************************)
(* StepRefines: a step of the graph is a step of the contract or a stutter.*)
(***************************************************************************)
LEMMA StepRefines ==
    ASSUME Inv, [Next]_vars
    PROVE  [Contract!Next]_(Contract!cvars)
  <1> USE DEF Contract!Next
  <1>1. CASE Start
    <2>1. CASE marked
      BY <1>1, <2>1, Quiet DEF Start, lifeVars, gateVars
    <2>2. CASE ~marked
      BY <1>1, <2>2 DEF Start, SetStatus, gateVars, Contract!Start, Proposed, Decision, ExecutedActions
    <2> QED
      BY <2>1, <2>2
  <1>2. CASE Cancelled
    BY <1>2, StopRefines DEF Cancelled, Dispatch
  <1>3. CASE OutOfBudget
    BY <1>3, StopRefines DEF OutOfBudget, Inv, Phase
  <1>4. CASE CallRefused
    BY <1>4, StopRefines DEF CallRefused, Billing, Inv, Phase
  <1>5. CASE Classify
    <2>1. status = "running" /\ proposed = <<>>
      BY <1>5 DEF Classify, Dispatch, Inv, TypeOK, Statuses, Phase, Gate, BeforePropose
    <2>2. UNCHANGED <<Proposed, Decision, ExecutedActions>>
      BY <1>5 DEF Classify, gateVars, Proposed, Decision, ExecutedActions
    <2>3. CASE Transition("plan", <<Event("message.delta", "none")>>)
      BY <1>5, <2>3, Quiet DEF Classify, Transition, gateVars
    <2>4. CASE CompleteAs("clarify", <<Event("message.delta", "none"), Event("message.delta", "none")>>)
      BY <2>1, <2>2, <2>4, TicketProposed DEF Inv, CompleteAs, SetStatus, Contract!Complete
    <2>5. CASE Raises(<<>>)
      BY <1>5, <2>1, <2>5, StopRefines DEF Classify, Dispatch, Raises
    <2> QED
      BY <1>5, <2>3, <2>4, <2>5 DEF Classify
  <1>6. CASE Plan
    <2>1. CASE Raises(<<>>)
      BY <1>6, <2>1, StopRefines DEF Plan, Dispatch, Raises, Inv, Phase
    <2>2. CASE UNCHANGED <<status, outcome>>
      BY <1>6, <2>2, Quiet DEF Plan, gateVars
    <2> QED
      BY <1>6, <2>1, <2>2 DEF Plan, Transition
  <1>7. CASE Resources
    BY <1>7, Quiet DEF Resources, Transition, gateVars
  <1>8. CASE EnterReads
    BY <1>8, Quiet DEF EnterReads, lifeVars, gateVars
  <1>9. CASE BeginRead
    BY <1>9, Quiet DEF BeginRead, lifeVars, gateVars
  <1>10. CASE CircuitOpen
    BY <1>10, StopRefines DEF CircuitOpen, Raises, Inv, Phase
  <1>11. CASE ReadSucceeds
    BY <1>11, Quiet DEF ReadSucceeds, EndRead, Transition, lifeVars, gateVars
  <1>12. CASE ReadFails
    BY <1>12, Quiet DEF ReadFails, EndRead, Transition, lifeVars, gateVars
  <1>13. CASE ReadTimesOut
    BY <1>13, Quiet DEF ReadTimesOut, lifeVars, gateVars
  <1>14. CASE Delegate
    <2>1. CASE Raises(<<Event("agent.delegated", "none")>>)
      BY <1>14, <2>1, StopRefines DEF Delegate, Raises, Inv, Phase
    <2>2. CASE UNCHANGED <<status, outcome>>
      BY <1>14, <2>2, Quiet DEF Delegate, gateVars
    <2> QED
      BY <1>14, <2>1, <2>2 DEF Delegate, Transition
  <1>15. CASE Correlate
    BY <1>15, Quiet DEF Correlate, Transition, gateVars
  <1>16. CASE Findings
    <2>1. status = "running" /\ proposed = <<>>
      BY <1>16 DEF Findings, Dispatch, Inv, TypeOK, Statuses, Phase, Gate, BeforePropose
    <2>2. UNCHANGED <<Proposed, Decision, ExecutedActions>>
      BY <1>16 DEF Findings, gateVars, Proposed, Decision, ExecutedActions
    <2>3. CASE UNCHANGED <<status, outcome>>
      BY <1>16, <2>3, Quiet DEF Findings, gateVars
    <2>4. CASE status' = "completed" /\ outcome' = "more_info"
      BY <2>1, <2>2, <2>4, TicketProposed DEF Inv, Contract!Complete
    <2> QED
      BY <1>16, <2>3, <2>4 DEF Findings, Transition, CompleteAs, SetStatus
  <1>17. CASE Propose
    <2>1. status = "running" /\ proposed = <<>> /\ Untouched
      BY <1>17 DEF Propose, Dispatch, Inv, TypeOK, Statuses, Phase, Gate, BeforePropose
    <2>2. UNCHANGED <<status, outcome, approvals, invoked>>
      BY <1>17 DEF Propose, Transition
    <2>3. Proposed' \in (SUBSET Actions) \ {{}}
      <3>1. proposed' \in {<<"ticket.create">>, <<"ticket.create", "deployment.rollback">>}
        BY <1>17 DEF Propose
      <3>2. \A i \in DOMAIN proposed' : proposed'[i] \in Actions
        BY <3>1 DEF Actions
      <3>3. 1 \in DOMAIN proposed'
        BY <3>1
      <3>4. proposed'[1] \in Proposed' /\ Proposed' \subseteq Actions
        BY <3>2, <3>3 DEF Proposed
      <3>5. Proposed' # {}
        BY <3>4
      <3> HIDE DEF Proposed
      <3> QED
        BY <3>4, <3>5, Zenon
    <2>4. Proposed = {} /\ Decision = "none" /\ Decision' = "none" /\ UNCHANGED ExecutedActions
      BY <2>1, <2>2, TicketProposed DEF Inv, Decision, Untouched, Actions, ExecutedActions
    <2> QED
      BY <2>1, <2>2, <2>3, <2>4 DEF Contract!Propose
  <1>18. CASE Policy
    <2>1. status = "running" /\ proposed # <<>> /\ Untouched
      BY <1>18 DEF Policy, Dispatch, Inv, TypeOK, Statuses, Phase, Gate
    <2>2. UNCHANGED <<Proposed, Decision, ExecutedActions>>
      BY <1>18 DEF Policy, Proposed, Decision, ExecutedActions
    <2>3. Proposed # {} /\ Decision = "none"
      BY <2>1, TicketProposed DEF Inv, Decision, Untouched, Actions
    <2>4. CASE UNCHANGED <<status, outcome>>
      BY <1>18, <2>4, Quiet DEF Policy
    <2>5. CASE status' = "completed" /\ outcome' = "denied"
      BY <2>1, <2>2, <2>3, <2>5 DEF Contract!Complete
    <2>6. CASE Raises(<<>>) /\ UNCHANGED allowed
      BY <1>18, <2>1, <2>6, StopRefines DEF Policy, Dispatch, Raises, gateVars
    <2> QED
      BY <1>18, <2>4, <2>5, <2>6 DEF Policy, Transition, CompleteAs, SetStatus
  <1>19. CASE ApprovalPause
    <2>1. status = "running" /\ proposed # <<>> /\ Untouched
      BY <1>19 DEF ApprovalPause, Dispatch, Inv, TypeOK, Statuses, Phase, Gate
    <2>2. UNCHANGED <<Proposed, ExecutedActions>>
      BY <1>19 DEF ApprovalPause, Proposed, ExecutedActions
    <2>3. Proposed # {} /\ Decision = "none" /\ Decision' = "pending"
      BY <1>19, <2>1, <2>2, TicketProposed DEF ApprovalPause, Inv, Decision, Untouched, Actions
    <2> QED
      BY <1>19, <2>1, <2>2, <2>3 DEF ApprovalPause, SetStatus, Contract!AskHuman
  <1>20. CASE ResumeApproved
    <2>1. UNCHANGED <<Proposed, ExecutedActions>>
      BY <1>20 DEF ResumeApproved, Proposed, ExecutedActions
    <2>2. Decision = "pending" /\ Decision' = "approved"
      BY <1>20, <2>1, TicketProposed
      DEF ResumeApproved, Awaiting, Decided, Inv, Gate, Decision, Actions
    <2> QED
      BY <1>20, <2>1, <2>2 DEF ResumeApproved, Awaiting, Contract!Approve
  <1>21. CASE ResumeRefused
    <2>1. UNCHANGED <<Proposed, ExecutedActions>>
      BY <1>21 DEF ResumeRefused, Proposed, ExecutedActions
    <2>2. Decision = "pending" /\ Decision' \in {"rejected", "expired"}
      BY <1>21, <2>1, TicketProposed
      DEF ResumeRefused, Awaiting, Decided, Decisions, Inv, Gate, Decision, Actions
    <2> QED
      BY <1>21, <2>1, <2>2 DEF ResumeRefused, CompleteAs, SetStatus, Awaiting, Contract!Refuse
  <1>22. CASE EnterExecute
    BY <1>22, Quiet DEF EnterExecute, lifeVars, gateVars
  <1>23. CASE ExecuteAction
    <2>1. /\ status = "waiting_for_approval" /\ proposed # <<>> /\ AllApproved
          /\ UNCHANGED <<status, outcome, proposed, approvals>>
      BY <1>23 DEF ExecuteAction, Inv, Phase, Gate, AfterApproval, lifeVars
    <2>2. UNCHANGED <<Proposed, Decision>> /\ Decision = "approved"
      BY <2>1, TicketProposed DEF Inv, Proposed, Decision, AllApproved, Actions
    <2>3. cursor \in DOMAIN proposed
      BY <1>23 DEF ExecuteAction, Inv, TypeOK
    <2>4. /\ proposed[cursor] \in Actions /\ proposed[cursor] \in Proposed
          /\ invoked[proposed[cursor]] = 0
      BY <1>23, <2>3, TicketProposed DEF ExecuteAction, Inv, TypeOK, Gate, Proposed
    <2>5. invoked' = [invoked EXCEPT ![proposed[cursor]] = 1] /\ invoked \in [Actions -> Nat]
      BY <1>23, <2>4 DEF ExecuteAction, Inv, TypeOK
    <2>6. ExecutedActions' = ExecutedActions \cup {proposed[cursor]}
      BY <2>4, <2>5 DEF ExecutedActions
    <2>7. proposed[cursor] \in Proposed \ ExecutedActions
      BY <2>4 DEF ExecutedActions
    <2> QED
      BY <2>1, <2>2, <2>6, <2>7 DEF Contract!Execute
  <1>24. CASE EndExecute
    <2>1. /\ status = "waiting_for_approval" /\ proposed # <<>> /\ AllApproved
      BY <1>24 DEF EndExecute, Inv, Phase, Gate, AfterApproval
    <2>2. UNCHANGED <<Proposed, Decision, ExecutedActions>> /\ Decision = "approved"
      BY <1>24, <2>1, TicketProposed
      DEF EndExecute, Inv, gateVars, Proposed, Decision, ExecutedActions, AllApproved, Actions
    <2>3. \A i \in DOMAIN proposed : i < cursor
      BY <1>24 DEF EndExecute, Inv, TypeOK
    <2>4. ExecutedActions = Proposed
      BY <1>24, <2>3, TicketProposed DEF EndExecute, Inv, Gate, ExecutedActions, Proposed
    <2> QED
      BY <1>24, <2>1, <2>2, <2>4 DEF EndExecute, SetStatus, Contract!Resume
  <1>25. CASE Complete
    <2>1. /\ status = "running" /\ outcome = "none" /\ proposed # <<>> /\ AllApproved
      BY <1>25 DEF Complete, Dispatch, Inv, TypeOK, Statuses, Phase, Gate, AfterApproval
    <2>2. UNCHANGED <<Proposed, Decision, ExecutedActions>> /\ Decision = "approved"
      BY <1>25, <2>1, TicketProposed
      DEF Complete, Inv, gateVars, Proposed, Decision, ExecutedActions, AllApproved, Actions
    <2>3. ExecutedActions = Proposed
      BY <1>25, TicketProposed DEF Complete, Dispatch, Inv, Gate, ExecutedActions, Proposed
    <2> QED
      BY <1>25, <2>1, <2>2, <2>3 DEF Complete, CompleteAs, SetStatus, Contract!Complete
  <1>26. CASE RequestCancel
    BY <1>26, Quiet DEF RequestCancel, lifeVars, gateVars
  <1>27. CASE DeadlinePasses
    BY <1>27, Quiet DEF DeadlinePasses, lifeVars, gateVars
  <1>28. CASE Ended \/ UNCHANGED vars
    BY <1>28, Quiet DEF Ended, vars, lifeVars, gateVars
  <1>29. CASE PassChecks
    BY <1>29, Quiet DEF PassChecks, lifeVars, gateVars
  <1>30. CASE BeginAttempt
    BY <1>30, Quiet DEF BeginAttempt, lifeVars, gateVars
  <1>31. CASE BeginDelegation
    BY <1>31, Quiet DEF BeginDelegation, lifeVars, gateVars
  <1>32. CASE BeginAction
    BY <1>32, Quiet DEF BeginAction, lifeVars, gateVars
  <1>33. CASE MarkCancelled
    BY <1>33, Quiet DEF MarkCancelled, lifeVars, gateVars
  <1> QED
    BY <1>1, <1>2, <1>3, <1>4, <1>5, <1>6, <1>7, <1>8, <1>9, <1>10, <1>11, <1>12, <1>13, <1>14, <1>15, <1>16,
       <1>17, <1>18, <1>19, <1>20, <1>21, <1>22, <1>23, <1>24, <1>25, <1>26, <1>27, <1>28,
       <1>29, <1>30, <1>31, <1>32, <1>33
    DEF Next, GraphStep

(***************************************************************************)
(* Implements: the graph implements RunContract, for every value of the    *)
(* budgets, the retry limit, the breaker threshold and the specialist's    *)
(* answers (ImplementsContract).                                           *)
(***************************************************************************)
THEOREM Implements == Spec => ImplementsContract
  <1>1. Init => Contract!Init
    BY DEF Init, Contract!Init, Proposed, Decision, ExecutedActions
  <1>2. Inv /\ [Next]_vars => [Contract!Next]_(Contract!cvars)
    BY StepRefines
  <1> QED
    BY <1>1, <1>2, Invariance, PTL DEF Spec, ImplementsContract, Contract!Spec
=============================================================================
