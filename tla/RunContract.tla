---------------------------- MODULE RunContract ----------------------------
(***************************************************************************)
(* What a run of the investigation workflow promises, whatever the clients *)
(* it calls answer: the abstract specification that OrchestratorGraph      *)
(* implements.                                                             *)
(*                                                                         *)
(*   created -> running -> waiting_for_approval -> running -> completed    *)
(*       |                                         | failed | cancelled    *)
(*       +-> cancelled                                                     *)
(*                                                                         *)
(* A run proposes a set of write actions at most once, the policy clears   *)
(* all of them or the run ends without a write, a human decides once, each *)
(* approved action is attempted at most once, and a run that reports the   *)
(* outcome "completed" has attempted every action it proposed.             *)
(***************************************************************************)
CONSTANT Actions          \* the write actions a run may propose

VARIABLES status,         \* lifecycle status shown to clients
          outcome,        \* why the run ended; "none" until it has
          proposed,       \* the set of proposed actions
          decision,       \* the human decision on them
          executed        \* the actions that were sent to a tool

cvars == <<status, outcome, proposed, decision, executed>>

Terminal == {"completed", "failed", "cancelled"}

(***************************************************************************)
(* The thread is at work: before the pause, or after an approval.          *)
(***************************************************************************)
AtWork == \/ status = "running"
          \/ status = "waiting_for_approval" /\ decision = "approved"

Init == /\ status = "created"
        /\ outcome = "none"
        /\ proposed = {}
        /\ decision = "none"
        /\ executed = {}

Start == /\ status = "created"
         /\ status' = "running"
         /\ UNCHANGED <<outcome, proposed, decision, executed>>

Propose == /\ status = "running"
           /\ proposed = {}
           /\ \E S \in (SUBSET Actions) \ {{}} : proposed' = S
           /\ UNCHANGED <<status, outcome, decision, executed>>

AskHuman == /\ status = "running"
            /\ proposed # {}
            /\ decision = "none"
            /\ decision' = "pending"
            /\ status' = "waiting_for_approval"
            /\ UNCHANGED <<outcome, proposed, executed>>

Approve == /\ status = "waiting_for_approval"
           /\ decision = "pending"
           /\ decision' = "approved"
           /\ UNCHANGED <<status, outcome, proposed, executed>>

Refuse == /\ status = "waiting_for_approval"
          /\ decision = "pending"
          /\ decision' \in {"rejected", "expired"}
          /\ status' = "completed"
          /\ outcome' = "rejected"
          /\ UNCHANGED <<proposed, executed>>

Execute == /\ status = "waiting_for_approval"
           /\ decision = "approved"
           /\ \E a \in proposed \ executed : executed' = executed \cup {a}
           /\ UNCHANGED <<status, outcome, proposed, decision>>

Resume == /\ status = "waiting_for_approval"
          /\ decision = "approved"
          /\ executed = proposed
          /\ status' = "running"
          /\ UNCHANGED <<outcome, proposed, decision, executed>>

(***************************************************************************)
(* The four ways to complete besides a refusal.                            *)
(***************************************************************************)
Complete == /\ status = "running"
            /\ status' = "completed"
            /\ \/ outcome' \in {"clarify", "more_info"} /\ proposed = {}
               \/ outcome' = "denied" /\ proposed # {} /\ decision = "none"
               \/ outcome' = "completed" /\ decision = "approved" /\ executed = proposed
            /\ UNCHANGED <<proposed, decision, executed>>

Stop == /\ AtWork
        /\ \E s \in {"failed", "cancelled"} : status' = s /\ outcome' = s
        /\ UNCHANGED <<proposed, decision, executed>>

(***************************************************************************)
(* Cancelled before it began.                                              *)
(***************************************************************************)
Abandon == /\ status = "created"
           /\ status' = "cancelled" /\ outcome' = "cancelled"
           /\ UNCHANGED <<proposed, decision, executed>>

Next == \/ Start \/ Abandon \/ Propose \/ AskHuman \/ Approve \/ Refuse
        \/ Execute \/ Resume \/ Complete \/ Stop

Spec == Init /\ [][Next]_cvars
=============================================================================
