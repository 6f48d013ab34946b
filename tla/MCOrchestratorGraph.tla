------------------------ MODULE MCOrchestratorGraph ------------------------
(***************************************************************************)
(* Instances of OrchestratorGraph for TLC.                                 *)
(***************************************************************************)
EXTENDS OrchestratorGraph

F(c, d, b) == [conf |-> c, deploy |-> d, blank |-> b]

(***************************************************************************)
(* Specialist answers: none; weak; strong with and without a deployment    *)
(* finding; a strong one that is blank; strong and weak whose average is   *)
(* on either side of the cap.                                              *)
(***************************************************************************)
MCOutputs == { <<>>,
               <<F(40, FALSE, FALSE)>>,
               <<F(90, TRUE, FALSE)>>,
               <<F(90, FALSE, TRUE)>>,
               <<F(90, FALSE, FALSE), F(40, TRUE, FALSE)>>,
               <<F(75, FALSE, FALSE), F(40, FALSE, FALSE)>> }
=============================================================================
