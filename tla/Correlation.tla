------------------------------ MODULE Correlation ------------------------------
(***************************************************************************)
(* correlate_local of the observability agent                              *)
(* (apps/a2a_agents/observability/agent.py): what it finds in the metric   *)
(* and log references and the deployment state of a request, and whether   *)
(* it names a probable cause.                                              *)
(*                                                                         *)
(* Inputs hold how many references there are, what the deployment state    *)
(* says, whether some text looks like an instruction, and for each source  *)
(* the number below 1000 that the service's hash gives.  Confidences are   *)
(* computed in units of 0.00001 and kept in hundredths.                    *)
(***************************************************************************)
EXTENDS Integers

Sources == <<"metrics", "logs", "deploy">>
Hashes == 0..999

(* What CorrelateInput accepts; its cap of 64 references does not matter.  *)
SkillInputs == [metrics : Nat, logs : Nat, deploy : {"absent", "other", "release"},
                suspicious : BOOLEAN, hash : [{"metrics", "logs", "deploy"} -> Hashes]]

Least(a, b) == IF a <= b THEN a ELSE b

(* Where a source counts as evidence, and the confidence it starts from.   *)
Speaks(inputs, s) == CASE s = "metrics" -> inputs.metrics > 0
                       [] s = "logs" -> inputs.logs > 0
                       [] OTHER -> inputs.deploy = "release"

Base(inputs, s) == CASE s = "metrics" -> 55000 + 10000 * Least(inputs.metrics, 2)
                     [] s = "logs" -> 50000 + 10000 * Least(inputs.logs, 2)
                     [] OTHER -> 55000

(* _deterministic_confidence: at most 0.03 up or down. *)
Jitter(inputs, s) == 6 * (inputs.hash[s] - 500)

(* round(_, 2): the nearest hundredth, either one half way between two,    *)
(* where the binary fraction decides.                                      *)
Rounds(v) == {c \in (v \div 1000)..(v \div 1000 + 1) : 1000 * c - v \in -500..500}

Confidences_Deploy(inputs, s) == {Least(95, c + IF s = "deploy" THEN 10 ELSE 0) : c \in Rounds(Base(inputs, s) + Jitter(inputs, s))}

Confidences(inputs, s) == {Least(95, c) : c \in Rounds(Base(inputs, s) + Jitter(inputs, s))}

(* The references a finding quotes: at most 16 of its own; the deployment  *)
(* finding quotes the first metric, or the deployment state itself.        *)
Evidence(inputs, s) ==
    CASE s = "metrics" -> {<<"metrics", i>> : i \in 1..Least(inputs.metrics, 16)}
      [] s = "logs" -> {<<"logs", i>> : i \in 1..Least(inputs.logs, 16)}
      [] OTHER -> {IF inputs.metrics > 0 THEN <<"metrics", 1>> ELSE <<"deploy", 1>>}

(* max(findings, key=confidence): the first of the most confident ones.    *)
Best(inputs, conf) ==
    CHOOSE i \in DOMAIN Sources :
        /\ Speaks(inputs, Sources[i])
        /\ \A j \in DOMAIN Sources : Speaks(inputs, Sources[j]) =>
             /\ conf[Sources[j]] <= conf[Sources[i]]
             /\ conf[Sources[j]] = conf[Sources[i]] => i <= j

Found(inputs) == {s \in {Sources[i] : i \in DOMAIN Sources} : Speaks(inputs, s)}

Cause(inputs, conf) ==
    IF Found(inputs) # {} /\ conf[Sources[Best(inputs, conf)]] >= 60
    THEN Sources[Best(inputs, conf)] ELSE "none"

Unresolved(inputs, conf) ==
    (IF inputs.suspicious THEN {"instruction_like"} ELSE {})
    \cup (CASE inputs.deploy = "release" -> {}
            [] inputs.deploy = "other" -> {"no_release_marker"}
            [] OTHER -> {"deploy_state_absent"})
    \cup (IF inputs.metrics = 0 /\ inputs.logs = 0 THEN {"no_telemetry"} ELSE {})
    \cup (IF Found(inputs) # {} /\ Cause(inputs, conf) = "none" THEN {"below_threshold"} ELSE {})

(* The outputs correlate_local may return for the inputs. *)
Outputs(inputs) ==
    {[findings |-> [s \in Found(inputs) |-> [evidence |-> Evidence(inputs, s), confidence |-> conf[s]]],
      cause |-> Cause(inputs, conf), unresolved |-> Unresolved(inputs, conf)] :
     conf \in {[s \in Found(inputs) |->
                  CASE s = "metrics" -> m [] s = "logs" -> l [] OTHER -> d] :
               m \in Confidences(inputs, "metrics"), l \in Confidences(inputs, "logs"),
               d \in Confidences(inputs, "deploy")}}
=============================================================================
