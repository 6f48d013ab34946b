------------------------------- MODULE MCAccess -------------------------------
(***************************************************************************)
(* Instances of Access for TLC.  Each token differs from the good one in   *)
(* one respect; each process from a well configured one likewise.          *)
(***************************************************************************)
EXTENDS Access, TLC

CONSTANTS t1, t2

Good == [kind |-> "jwt", alg |-> "RS256", kid |-> "k1", key |-> "k1", tenant |-> t1,
         scopes |-> {"admin"}, iss |-> "ours", aud |-> "ours", exp |-> 1]

MCTokens ==
    {Good,
     [Good EXCEPT !.alg = "ES256", !.kid = "k2", !.key = "k2", !.scopes = {}, !.exp = 2],
     [Good EXCEPT !.key = "k2"],
     [Good EXCEPT !.kid = none, !.scopes = {"*"}],
     [Good EXCEPT !.alg = "none"],
     [Good EXCEPT !.alg = "HS256"],
     [Good EXCEPT !.aud = "other"],
     [Good EXCEPT !.iss = "absent", !.exp = none],
     [Good EXCEPT !.kind = "local", !.tenant = t2]}

Process(p) == [process |-> p, auth_mode |-> "oidc", app_env |-> "prod", library |-> TRUE,
               issuer |-> TRUE, audience |-> TRUE, jwks |-> "url"]

MCConfigs ==
    UNION {{Process(p),
            [Process(p) EXCEPT !.auth_mode = "OIDC", !.jwks = "inline", !.app_env = "local"],
            [Process(p) EXCEPT !.jwks = "unset"],
            [Process(p) EXCEPT !.library = FALSE],
            [Process(p) EXCEPT !.audience = FALSE],
            [Process(p) EXCEPT !.auth_mode = "other"],
            [Process(p) EXCEPT !.auth_mode = "mock", !.app_env = "local", !.jwks = "unset"],
            [Process(p) EXCEPT !.auth_mode = "mock", !.jwks = "unset"],
            [Process(p) EXCEPT !.auth_mode = "mock", !.audience = FALSE]} : p \in {"api", "tools"}}

MCHeaders == {[tenant |-> none, scopes |-> {}], [tenant |-> t2, scopes |-> {"*"}]}

MCGenerations == <<<<"k1">>, <<"k2", "k1">>, <<"k2">>>>
MCInlineKeys == <<"k1">>

Symmetry == Permutations(Requests)
=============================================================================
