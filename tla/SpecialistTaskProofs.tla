------------------------- MODULE SpecialistTaskProofs -------------------------
(***************************************************************************)
(* Proofs about SpecialistTask and the correlation it runs: for any number *)
(* of references, any hash of the service, any way the rounding falls and  *)
(* any interleaving of the requests, a task says what its references       *)
(* support.                                                                *)
(***************************************************************************)
EXTENDS SpecialistTask, FiniteSetTheorems, TLAPS

-----------------------------------------------------------------------------
(***************************************************************************)
(* Confidences.  The hash moves a confidence by 0.03 at most, so a         *)
(* deployment alone stays below 0.60 and metrics alone do not.             *)
(***************************************************************************)
LEMMA RoundsNear ==
    ASSUME NEW v \in Int, NEW c \in Rounds(v)
    PROVE  c \in Int /\ v - 500 <= 1000 * c /\ 1000 * c <= v + 500
<1>1. v \div 1000 \in Int
    OBVIOUS
<1>2. c \in Int /\ 1000 * c - v \in -500..500
    BY <1>1 DEF Rounds
<1> QED
    BY <1>2

LEMMA JitterSmall ==
    ASSUME NEW i \in SkillInputs, NEW s \in {"metrics", "logs", "deploy"}
    PROVE  Jitter(i, s) \in Int /\ Jitter(i, s) + 3000 >= 0 /\ Jitter(i, s) <= 2994
<1>1. i.hash \in [{"metrics", "logs", "deploy"} -> Hashes]
    BY DEF SkillInputs
<1>2. i.hash[s] \in Hashes
    BY <1>1
<1>3. \A h \in Hashes : 6 * (h - 500) \in Int /\ 6 * (h - 500) + 3000 >= 0 /\ 6 * (h - 500) <= 2994
    BY DEF Hashes
<1> QED
    BY <1>2, <1>3 DEF Jitter

LEMMA BaseRange ==
    ASSUME NEW i \in SkillInputs
    PROVE  /\ Base(i, "metrics") \in Int /\ Base(i, "logs") \in Int /\ Base(i, "deploy") = 55000
           /\ i.metrics > 0 => Base(i, "metrics") >= 65000
BY DEF Base, Least, SkillInputs

LEMMA ConfidenceRange ==
    ASSUME NEW i \in SkillInputs
    PROVE  /\ \A s \in {"metrics", "logs", "deploy"} : Confidences(i, s) \subseteq Int
           /\ i.metrics > 0 => \A c \in Confidences(i, "metrics") : c >= 60
           /\ \A c \in Confidences(i, "deploy") : c < 60
<1>1. ASSUME NEW s \in {"metrics", "logs", "deploy"}, NEW c \in Confidences(i, s)
      PROVE  /\ c \in Int
             /\ s = "metrics" /\ i.metrics > 0 => c >= 60
             /\ s = "deploy" => c < 60
    <2> DEFINE v == Base(i, s) + Jitter(i, s)
    <2>1. Jitter(i, s) \in Int /\ Jitter(i, s) + 3000 >= 0 /\ Jitter(i, s) <= 2994 /\ Base(i, s) \in Int
        BY JitterSmall, BaseRange
    <2>2. v \in Int
        BY <2>1
    <2>3. PICK d \in Rounds(v) : c = Least(95, d)
        <3>1. c \in {Least(95, d) : d \in Rounds(v)}
            BY <1>1 DEF Confidences
        <3> QED
            BY <3>1, Zenon
    <2>4. d \in Int /\ v - 500 <= 1000 * d /\ 1000 * d <= v + 500
        BY <2>2, <2>3, RoundsNear
    <2>5. c \in Int /\ c <= 95 /\ (c = d \/ c = 95) /\ c <= d
        BY <2>3, <2>4 DEF Least
    <2>6. CASE s = "metrics"
        <3>1. i.metrics > 0 => v >= 62000
            <4>1. i.metrics > 0 => Base(i, s) >= 65000
                BY <2>6, BaseRange
            <4> QED
                BY <2>1, <4>1
        <3> HIDE DEF v
        <3> QED
            BY <2>2, <2>4, <2>5, <2>6, <3>1
    <2>7. CASE s = "deploy"
        <3>1. v <= 57994
            BY <2>1, <2>7, BaseRange
        <3> HIDE DEF v
        <3> QED
            BY <2>2, <2>4, <2>5, <2>7, <3>1
    <2> QED
        BY <2>5, <2>6, <2>7
<1> QED
    BY <1>1

-----------------------------------------------------------------------------
(***************************************************************************)
(* The confidences a run of the correlation settles on, one per finding.   *)
(***************************************************************************)
Settles(i, conf) ==
    /\ DOMAIN conf = Found(i)
    /\ \A s \in Found(i) : conf[s] \in Confidences(i, s)

LEMMA FoundIs ==
    ASSUME NEW i \in SkillInputs
    PROVE  /\ Found(i) = {s \in {"metrics", "logs", "deploy"} : Speaks(i, s)}
           /\ DOMAIN Sources = 1..3
           /\ Sources[1] = "metrics" /\ Sources[2] = "logs" /\ Sources[3] = "deploy"
BY DEF Found, Sources

LEMMA OutputIs ==
    ASSUME NEW i \in SkillInputs, NEW out \in Outputs(i)
    PROVE  \E conf : /\ Settles(i, conf)
                     /\ out = [findings |-> [s \in Found(i) |-> [evidence |-> Evidence(i, s),
                                                               confidence |-> conf[s]]],
                               cause |-> Cause(i, conf), unresolved |-> Unresolved(i, conf)]
<1> DEFINE F(m, l, d) == [s \in Found(i) |-> CASE s = "metrics" -> m [] s = "logs" -> l [] OTHER -> d]
<1>1. PICK m \in Confidences(i, "metrics"), l \in Confidences(i, "logs"),
           d \in Confidences(i, "deploy") :
           out = [findings |-> [s \in Found(i) |-> [evidence |-> Evidence(i, s),
                                                    confidence |-> F(m, l, d)[s]]],
                  cause |-> Cause(i, F(m, l, d)), unresolved |-> Unresolved(i, F(m, l, d))]
    BY DEF Outputs
<1>2. Settles(i, F(m, l, d))
    BY FoundIs DEF Settles
<1> HIDE DEF F
<1> QED
    BY <1>1, <1>2

(***************************************************************************)
(* BestIs: among the findings there is a first of the most confident ones  *)
(* (max with a key).                                                       *)
(***************************************************************************)
LEMMA BestIs ==
    ASSUME NEW i \in SkillInputs, NEW conf, Settles(i, conf), Found(i) # {}
    PROVE  LET b == Sources[Best(i, conf)] IN
           b \in Found(i) /\ \A s \in Found(i) : conf[s] <= conf[b]
<1> DEFINE P(b) == /\ Speaks(i, Sources[b])
                   /\ \A j \in DOMAIN Sources : Speaks(i, Sources[j]) =>
                        /\ conf[Sources[j]] <= conf[Sources[b]]
                        /\ conf[Sources[j]] = conf[Sources[b]] => b <= j
<1>1. \A s \in Found(i) : conf[s] \in Int
    BY FoundIs, ConfidenceRange DEF Settles
<1>2. \E b \in DOMAIN Sources : P(b)
    <2> DEFINE S(n) == Speaks(i, Sources[n])
               C(n) == conf[Sources[n]]
    <2>1. \A n \in 1..3 : S(n) => C(n) \in Int
        BY <1>1, FoundIs
    <2>2. S(1) \/ S(2) \/ S(3)
        BY FoundIs
    <2> HIDE DEF S, C
    <2>3. \E b \in 1..3 : S(b) /\ \A j \in 1..3 : S(j) => C(j) <= C(b) /\ (C(j) = C(b) => b <= j)
        BY <2>1, <2>2
    <2> QED
        BY <2>3, FoundIs DEF S, C
<1>3. Best(i, conf) \in DOMAIN Sources /\ P(Best(i, conf))
    BY <1>2 DEF Best
<1> QED
    BY <1>3, FoundIs

(***************************************************************************)
(* EvidenceIs: a finding quotes references there are, 16 at most.          *)
(***************************************************************************)
LEMMA SomeOf ==
    ASSUME NEW n \in Nat, n > 0, NEW k
    PROVE  LET e == {<<k, j>> : j \in 1..Least(n, 16)} IN
           /\ e # {} /\ Cardinality(e) <= 16
           /\ \A x \in e : x[1] = k /\ x[2] <= n
<1> DEFINE N == Least(n, 16)
           e == {<<k, j>> : j \in 1..N}
           f == [j \in 1..N |-> <<k, j>>]
<1>1. N \in Nat /\ 1 <= N /\ N <= n /\ N <= 16
    BY DEF Least
<1> HIDE DEF N
<1>2. e # {} /\ \A x \in e : x[1] = k /\ x[2] <= n
    <2>1. 1 \in 1..N
        BY <1>1
    <2>2. <<k, 1>> \in e
        BY <2>1
    <2>3. ASSUME NEW x \in e PROVE x[1] = k /\ x[2] <= n
        <3>1. PICK j \in 1..N : x = <<k, j>>
            BY <2>3
        <3> QED
            BY <1>1, <3>1
    <2> QED
        BY <2>2, <2>3
<1>3. IsFiniteSet(1..N) /\ Cardinality(1..N) = N
    BY <1>1, FS_Interval
<1>4. f \in Surjection(1..N, e)
    BY DEF Surjection
<1>5. Cardinality(e) <= N
    BY <1>3, <1>4, FS_Surjection
<1>6. Cardinality(e) \in Nat
    BY <1>3, <1>4, FS_Surjection, FS_CardinalityType
<1> QED
    BY <1>1, <1>2, <1>5, <1>6 DEF N

LEMMA EvidenceIs ==
    ASSUME NEW i \in SkillInputs, NEW s \in Found(i)
    PROVE  /\ Evidence(i, s) # {} /\ Cardinality(Evidence(i, s)) <= 16
           /\ \A x \in Evidence(i, s) :
                IF x[1] = "deploy" THEN i.deploy = "release" ELSE x[2] <= i[x[1]]
<1>1. i.metrics \in Nat /\ i.logs \in Nat
    BY DEF SkillInputs
<1>2. CASE s = "metrics"
    <2>1. Evidence(i, s) = {<<"metrics", j>> : j \in 1..Least(i.metrics, 16)} /\ i.metrics > 0
        BY <1>2, FoundIs DEF Evidence, Speaks
    <2>2. /\ Evidence(i, s) # {} /\ Cardinality(Evidence(i, s)) <= 16
          /\ \A x \in Evidence(i, s) : x[1] = "metrics" /\ x[2] <= i.metrics
        BY <1>1, <2>1, SomeOf
    <2> QED
        BY <2>2
<1>3. CASE s = "logs"
    <2>1. Evidence(i, s) = {<<"logs", j>> : j \in 1..Least(i.logs, 16)} /\ i.logs > 0
        BY <1>3, FoundIs DEF Evidence, Speaks
    <2>2. /\ Evidence(i, s) # {} /\ Cardinality(Evidence(i, s)) <= 16
          /\ \A x \in Evidence(i, s) : x[1] = "logs" /\ x[2] <= i.logs
        BY <1>1, <2>1, SomeOf
    <2> QED
        BY <2>2
<1>4. CASE s = "deploy"
    <2> DEFINE x == IF i.metrics > 0 THEN <<"metrics", 1>> ELSE <<"deploy", 1>>
    <2>1. Evidence(i, s) = {x} /\ i.deploy = "release"
        BY <1>4, FoundIs DEF Evidence, Speaks
    <2>2. Cardinality({x}) = 1
        BY FS_Singleton
    <2>3. IF x[1] = "deploy" THEN i.deploy = "release" ELSE x[2] <= i[x[1]]
        BY <1>1, <2>1
    <2> HIDE DEF x
    <2> QED
        BY <2>1, <2>2, <2>3
<1> QED
    BY <1>2, <1>3, <1>4, FoundIs

(***************************************************************************)
(* CauseIs: the cause is a metric or a log finding no other outweighs, and *)
(* there is one whenever there are metrics.                                *)
(***************************************************************************)
LEMMA CauseIs ==
    ASSUME NEW i \in SkillInputs, NEW conf, Settles(i, conf)
    PROVE  /\ Cause(i, conf) = "none" => Unresolved(i, conf) # {} /\ i.metrics = 0
           /\ Cause(i, conf) # "none" =>
                /\ Cause(i, conf) \in {"metrics", "logs"} /\ i[Cause(i, conf)] > 0
                /\ \A s \in Found(i) : conf[s] <= conf[Cause(i, conf)]
<1> DEFINE b == Sources[Best(i, conf)]
<1>1. Cause(i, conf) = IF Found(i) # {} /\ conf[b] >= 60 THEN b ELSE "none"
    BY DEF Cause
<1>2. Found(i) # {} => b \in Found(i) /\ \A s \in Found(i) : conf[s] <= conf[b]
    BY BestIs
<1> HIDE DEF b
<1>3. \A s \in Found(i) : /\ conf[s] \in Int /\ s \in {"metrics", "logs", "deploy"}
                          /\ s = "deploy" => conf[s] < 60
                          /\ s = "metrics" => conf[s] >= 60 /\ i.metrics > 0
                          /\ s = "logs" => i.logs > 0
    BY FoundIs, ConfidenceRange DEF Settles, Speaks
<1>4. i.metrics > 0 => "metrics" \in Found(i)
    BY FoundIs DEF Speaks
<1>5. ASSUME Cause(i, conf) = "none" PROVE Unresolved(i, conf) # {} /\ i.metrics = 0
    <2>1. i.metrics = 0
        <3>1. ASSUME i.metrics > 0 PROVE FALSE
            <4>1. "metrics" \in Found(i) /\ b \in Found(i) /\ conf["metrics"] <= conf[b]
                BY <1>2, <1>4, <3>1
            <4>2. conf[b] >= 60 /\ b # "none"
                BY <1>3, <4>1
            <4> QED
                BY <1>1, <1>5, <4>1, <4>2
        <3> QED
            BY <3>1 DEF SkillInputs
    <2> DEFINE A == IF i.suspicious THEN {"instruction_like"} ELSE {}
               B == CASE i.deploy = "release" -> {}
                      [] i.deploy = "other" -> {"no_release_marker"}
                      [] OTHER -> {"deploy_state_absent"}
               C == IF i.metrics = 0 /\ i.logs = 0 THEN {"no_telemetry"} ELSE {}
               D == IF Found(i) # {} /\ Cause(i, conf) = "none" THEN {"below_threshold"} ELSE {}
    <2>2. Unresolved(i, conf) = A \cup B \cup C \cup D
        BY DEF Unresolved
    <2>3. CASE Found(i) # {}
        <3>1. D # {}
            BY <1>5, <2>3
        <3> HIDE DEF A, B, C, D
        <3> QED
            BY <2>1, <2>2, <3>1
    <2>4. CASE Found(i) = {}
        <3>1. i.deploy # "release"
            BY <2>4, FoundIs DEF Speaks
        <3>2. B # {}
            BY <3>1
        <3> HIDE DEF A, B, C, D
        <3> QED
            BY <2>1, <2>2, <3>2
    <2> QED
        BY <2>3, <2>4
<1>6. ASSUME Cause(i, conf) # "none"
      PROVE  /\ Cause(i, conf) \in {"metrics", "logs"} /\ i[Cause(i, conf)] > 0
             /\ \A s \in Found(i) : conf[s] <= conf[Cause(i, conf)]
    <2>1. Found(i) # {} /\ conf[b] >= 60 /\ Cause(i, conf) = b
        BY <1>1, <1>6
    <2>2. b \in Found(i) /\ b \in {"metrics", "logs"}
        BY <1>2, <1>3, <2>1
    <2>3. i[b] > 0
        BY <1>3, <2>2
    <2> QED
        BY <1>2, <2>1, <2>2, <2>3
<1> QED
    BY <1>5, <1>6

-----------------------------------------------------------------------------
(***************************************************************************)
(* The task.  Its output is one of the correlation's exactly while it is   *)
(* completed; only a request with valid inputs gets as far as correlating. *)
(***************************************************************************)
FromInputs ==
    /\ DOMAIN pc = Requests /\ kind \in Kinds
    /\ kind = "good" => inputs \in SkillInputs
    /\ \A r \in Requests : pc[r] = "running" => kind = "good"
    /\ IF task = "completed" THEN kind = "good" /\ output \in Outputs(inputs)
       ELSE output = NoOutput

LEMMA FromInputsInit == Init => FromInputs
BY InputsAssumption DEF Init, FromInputs

LEMMA PutOK ==
    ASSUME FromInputs, NEW r \in Requests, NEW status, NEW result, StorePut(r, status, result),
           IF status = "completed" THEN kind = "good" /\ result \in Outputs(inputs)
           ELSE result = NoOutput
    PROVE  FromInputs'
<1>1. /\ task' = status /\ output' = result /\ UNCHANGED <<kind, inputs>>
      /\ pc' = [pc EXCEPT ![r] = "answered"]
    BY DEF StorePut, Answer
<1>2. DOMAIN pc' = Requests /\ \A q \in Requests : pc'[q] = "running" => pc[q] = "running"
    BY <1>1 DEF FromInputs
<1> QED
    BY <1>1, <1>2 DEF FromInputs

LEMMA KeepOK ==
    ASSUME FromInputs, UNCHANGED <<kind, inputs, task, output>>, DOMAIN pc' = Requests,
           \A q \in Requests : pc'[q] = "running" => kind = "good"
    PROVE  FromInputs'
BY DEF FromInputs

LEMMA FromInputsStep == FromInputs /\ [Next]_vars => FromInputs'
<1> SUFFICES ASSUME FromInputs, [Next]_vars PROVE FromInputs'
    OBVIOUS
<1>1. ASSUME NEW r \in Requests, Replay(r) \/ CancelRead(r) \/ CancelMark(r)
      PROVE  FromInputs'
    <2>1. /\ UNCHANGED <<kind, inputs, task, output>>
          /\ \/ UNCHANGED pc
             \/ \E p \in {"answered", "mark", "put"} : pc' = [pc EXCEPT ![r] = p]
        BY <1>1 DEF Replay, CancelRead, CancelMark, Answer
    <2>2. DOMAIN pc' = Requests /\ \A q \in Requests : pc'[q] = "running" => pc[q] = "running"
        BY <2>1 DEF FromInputs
    <2> QED
        BY <2>1, <2>2, KeepOK DEF FromInputs
<1>2. ASSUME NEW r \in Requests, Refuse(r) PROVE FromInputs'
    <2>1. Verdict # "completed" /\ StorePut(r, Verdict, NoOutput)
        BY <1>2 DEF Refuse, Verdict
    <2> QED
        BY <2>1, PutOK
<1>3. ASSUME NEW r \in Requests, Admit(r) PROVE FromInputs'
    <2>1. kind = "good"
        <3>1. kind \notin {"unknown_skill", "bad_inputs"}
            BY <1>3 DEF Admit, Verdict
        <3> QED
            BY <3>1 DEF FromInputs, Kinds
    <2>2. UNCHANGED <<kind, inputs, task, output>> /\ DOMAIN pc' = Requests
        BY <1>3 DEF Admit, FromInputs
    <2> QED
        BY <2>1, <2>2, KeepOK
<1>4. ASSUME NEW r \in Requests, Correlated(r) PROVE FromInputs'
    <2>1. PICK result \in Outputs(inputs) : StorePut(r, "completed", result)
        BY <1>4 DEF Correlated
    <2>2. kind = "good"
        BY <1>4 DEF Correlated, FromInputs
    <2> QED
        BY <2>1, <2>2, PutOK
<1>5. ASSUME NEW r \in Requests, TimesOut(r) \/ Interrupted(r) PROVE FromInputs'
    BY <1>5, PutOK DEF TimesOut, Interrupted
<1>6. ASSUME NEW r \in Requests, CancelPut(r) PROVE FromInputs'
    <2>1. /\ task' = "cancelled" /\ output' = NoOutput /\ UNCHANGED <<kind, inputs>>
          /\ pc' = [pc EXCEPT ![r] = "answered"]
        BY <1>6 DEF CancelPut, Answer
    <2>2. DOMAIN pc' = Requests /\ \A q \in Requests : pc'[q] = "running" => pc[q] = "running"
        BY <2>1 DEF FromInputs
    <2> QED
        BY <2>1, <2>2 DEF FromInputs
<1>7. CASE DeadlinePasses \/ Rest \/ UNCHANGED vars
    BY <1>7, KeepOK DEF DeadlinePasses, Rest, vars, FromInputs
<1> QED
    BY <1>1, <1>2, <1>3, <1>4, <1>5, <1>6, <1>7 DEF Next, Handle

(***************************************************************************)
(* CauseIsSupported (correlate_local, _execute_task): whatever the hash,   *)
(* the rounding and the races of the requests, a completed task names a    *)
(* cause its own references support, and says what is missing if it names  *)
(* none; a task that is not completed says nothing.                        *)
(***************************************************************************)
THEOREM CausesAreSupported == Spec => []CauseIsSupported
<1>1. ASSUME FromInputs PROVE CauseIsSupported
    <2>1. CASE task # "completed"
        BY <1>1, <2>1 DEF FromInputs, CauseIsSupported
    <2>2. CASE task = "completed"
        <3>1. inputs \in SkillInputs /\ output \in Outputs(inputs)
            BY <1>1, <2>2 DEF FromInputs
        <3>2. PICK conf : /\ Settles(inputs, conf)
                          /\ output = [findings |-> [s \in Found(inputs) |-> [evidence |-> Evidence(inputs, s),
                                                                             confidence |-> conf[s]]],
                                       cause |-> Cause(inputs, conf), unresolved |-> Unresolved(inputs, conf)]
            BY <3>1, OutputIs
        <3>3. /\ output.cause = Cause(inputs, conf) /\ output.unresolved = Unresolved(inputs, conf)
              /\ DOMAIN output.findings = Found(inputs)
              /\ \A s \in Found(inputs) : /\ output.findings[s].evidence = Evidence(inputs, s)
                                          /\ output.findings[s].confidence = conf[s]
            BY <3>2
        <3>4. /\ output.cause = "none" => output.unresolved # {} /\ inputs.metrics = 0
              /\ output.cause # "none" =>
                   /\ output.cause \in {"metrics", "logs"} /\ inputs[output.cause] > 0
                   /\ \A s \in Found(inputs) : conf[s] <= conf[output.cause]
            BY <3>1, <3>2, <3>3, CauseIs
        <3>5. output.cause # "none" => output.cause \in Found(inputs)
            BY <3>1, <3>4, FoundIs DEF Speaks
        <3>6. ASSUME output.cause # "none", NEW s \in DOMAIN output.findings
              PROVE  output.findings[s].confidence <= output.findings[output.cause].confidence
            BY <3>3, <3>4, <3>5, <3>6
        <3>7. ASSUME NEW s \in DOMAIN output.findings
              PROVE  LET e == output.findings[s].evidence IN
                       /\ e # {} /\ Cardinality(e) <= 16
                       /\ \A x \in e : IF x[1] = "deploy" THEN inputs.deploy = "release"
                                       ELSE x[2] <= inputs[x[1]]
            BY <3>1, <3>3, EvidenceIs
        <3> QED
            BY <2>2, <3>4, <3>6, <3>7 DEF CauseIsSupported
    <2> QED
        BY <2>1, <2>2
<1> QED
    BY <1>1, FromInputsInit, FromInputsStep, PTL DEF Spec

-----------------------------------------------------------------------------
(***************************************************************************)
(* A settled task.  Nothing that could still replace its result is in      *)
(* flight: no correlation, and for a completed task no cancel request past *)
(* its read.                                                               *)
(***************************************************************************)
Held(s) ==
    /\ task = s /\ s \in {"completed", "cancelled"}
    /\ \A r \in Requests : pc[r] # "running" /\ (s = "completed" => pc[r] \notin {"mark", "put"})

LEMMA HeldStep ==
    ASSUME NEW s, Held(s), FromInputs, [Next]_vars
    PROVE  Held(s)'
<1>1. DOMAIN pc = Requests /\ task = s /\ task # "none"
    BY DEF FromInputs, Held
<1>2. ASSUME NEW r \in Requests, Handle(r) PROVE Held(s)'
    <2>1. Replay(r) \/ CancelRead(r) \/ CancelMark(r) \/ CancelPut(r)
        BY <1>1, <1>2 DEF Handle, Refuse, Admit, Correlated, TimesOut, Interrupted, Held
    <2>2. task' = s
        BY <1>1, <2>1 DEF Replay, CancelRead, CancelMark, CancelPut, Held
    <2>3. PICK p \in {"answered", "mark", "put"} : /\ pc' = [pc EXCEPT ![r] = p]
                                                   /\ s = "completed" => p = "answered"
        BY <1>1, <2>1 DEF Replay, CancelRead, CancelMark, CancelPut, Answer, AlreadyDone, Held
    <2> QED
        BY <1>1, <2>2, <2>3 DEF Held
<1>3. CASE DeadlinePasses \/ Rest \/ UNCHANGED vars
    BY <1>3 DEF DeadlinePasses, Rest, vars, Held
<1> QED
    BY <1>2, <1>3 DEF Next

(***************************************************************************)
(* SettledResultStands (create_task's replay, cancel_task's no-op): once a *)
(* task is completed or cancelled and no request is in flight, no later    *)
(* delivery or cancel request changes the stored result.                   *)
(***************************************************************************)
THEOREM SettledStays == Spec => SettledResultStands
<1>1. ASSUME NEW s \in {"completed", "cancelled"}
      PROVE  Spec => [](Quiet /\ task = s => [](task = s))
    <2>1. Quiet /\ task = s => Held(s)
        BY DEF Quiet, Held
    <2>2. Held(s) /\ FromInputs /\ [Next]_vars => Held(s)'
        BY HeldStep
    <2>3. Held(s) => task = s
        BY DEF Held
    <2>4. Spec => []FromInputs
        BY FromInputsInit, FromInputsStep, PTL DEF Spec
    <2> QED
        BY <2>1, <2>2, <2>3, <2>4, PTL DEF Spec
<1> QED
    BY <1>1 DEF SettledResultStands
===============================================================================
