---------------------------- MODULE MCModelRuntime ----------------------------
(***************************************************************************)
(* Instances of ModelRuntime for TLC: limits that one or two calls reach,  *)
(* a ledger that starts empty, full or beyond its limit, and a provider    *)
(* that may report negative usage.                                         *)
(***************************************************************************)
EXTENDS ModelRuntime

MCLimit == [model_calls |-> 2, tool_calls |-> 0, input_tokens |-> 1, output_tokens |-> 2,
            cost_usd |-> 4, elapsed_s |-> 0, delegation_depth |-> 0]

MCSeeds == {[model_calls |-> n, tool_calls |-> 0, cost_usd |-> 0] : n \in {0, 3}}

MCUsages == {<<1, 1>>, <<-4, 0>>}

MCLengths == {8}
=============================================================================
