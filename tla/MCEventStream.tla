---------------------------- MODULE MCEventStream ----------------------------
(***************************************************************************)
(* Instances of EventStream for TLC: the graph ends with a terminal event  *)
(* the UI may render, a route appends one it may not.                      *)
(***************************************************************************)
EXTENDS EventStream

E(t, s) == [terminal |-> t, safe |-> s]

MCWriters == {"graph", "route"}
MCScript == [w \in MCWriters |->
    IF w = "graph" THEN <<E(FALSE, TRUE), E(FALSE, TRUE), E(TRUE, TRUE)>>
                   ELSE <<E(FALSE, FALSE), E(TRUE, FALSE)>>]

GraphOnly == {"graph"}
GraphScript == [w \in GraphOnly |-> <<E(FALSE, TRUE), E(TRUE, TRUE)>>]
=============================================================================
