------------------------------ MODULE MCGateway ------------------------------
(***************************************************************************)
(* Instances of Gateway for TLC.  The decide requests are interchangeable  *)
(* (no operator chooses among them).                                       *)
(***************************************************************************)
EXTENDS Gateway, TLC

RequestSymmetry == Permutations(Deciders)

(***************************************************************************)
(* For liveness, which symmetry would spoil: the requests decide different *)
(* rows, and one of them approves the first action.                        *)
(***************************************************************************)
LiveRequests ==
    /\ \A d, e \in Deciders : d # e => req[d].act # req[e].act
    /\ req[CHOOSE d \in Deciders : TRUE] =
           [act |-> CHOOSE a \in Acts : TRUE, verdict |-> "approved"]

LiveInit == Init /\ LiveRequests

LiveSpec == LiveInit /\ [][Next]_vars /\ Fairness
=============================================================================
