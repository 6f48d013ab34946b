---------------------------- MODULE MCRepository ----------------------------
(***************************************************************************)
(* Instances of Repository for TLC: payloads with a text below a sensitive *)
(* name that is not the last on its path, a secret-like text, a number.    *)
(***************************************************************************)
EXTENDS Repository, TLC

Leaf(path, value) == [path |-> path, value |-> value]

MCBodies ==
    {[input |-> {Leaf(<<"auth", "user">>, "plain"), Leaf(<<"service">>, "plain")},
      output |-> {Leaf(<<"service">>, "secret_like"), Leaf(<<"auth">>, "number")},
      error |-> {Leaf(<<"service", "auth">>, "plain")}]}

MCWords == {"auth", "user", "service"}
MCSensitive == {"auth"}

(***************************************************************************)
(* Sessions, tenants, runs and identifiers are interchangeable.            *)
(***************************************************************************)
Symmetry == {p @@ q @@ r @@ i : p \in Permutations(Sessions), q \in Permutations(Tenants),
                                r \in Permutations(Runs), i \in Permutations(Ids)}
=============================================================================
