---------------------------- MODULE MCToolExecutor ----------------------------
(***************************************************************************)
(* Instances of ToolExecutor for TLC.                                      *)
(***************************************************************************)
EXTENDS ToolExecutor, TLC

CONSTANTS b1, b2, b3

(***************************************************************************)
(* b1 and b2 differ in an e-mail address only, b3 in what redact leaves.   *)
(***************************************************************************)
MCBodies == {b1, b2, b3}
MCRedact == [b \in MCBodies |-> IF b = b2 THEN b1 ELSE b]

Allowed == [permitted |-> TRUE, valid |-> TRUE, approved |-> TRUE]

(***************************************************************************)
(* Every allowed request for a ticket; rollbacks, a read and refused       *)
(* requests where their arguments make no further difference.  A call is   *)
(* refused for one reason at a time: the checks come in order.             *)
(***************************************************************************)
MCRequests ==
    {r \in Request :
        \/ r.tool = "ticket.create" /\ r.grant = Allowed
        \/ r.tool = "deployment.rollback" /\ r.grant = Allowed /\ r.body = b1 /\ r.key # NoKey
        \/ /\ r.tool = "service.get_health" /\ r.grant = Allowed
           /\ r.body = b1 /\ r.key = NoKey /\ r.dry = "absent"
        \/ /\ r.tool = "ticket.create" /\ r.body = b1 /\ r.dry = "false" /\ r.key # NoKey
           /\ r.grant \in {[Allowed EXCEPT !.permitted = FALSE], [Allowed EXCEPT !.valid = FALSE],
                           [Allowed EXCEPT !.approved = FALSE]}}

AllRequests == Request

(***************************************************************************)
(* Calls differ by nothing but their requests.                             *)
(***************************************************************************)
CallSymmetry == Permutations(Calls)
=============================================================================
