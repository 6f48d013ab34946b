-------------------------------- MODULE Access --------------------------------
(***************************************************************************)
(* Who a request acts for: identity of bearer tokens                       *)
(* (packages/security/identity.py) with its process-wide cache of signing  *)
(* keys, and the two servers that use it, the API gateway                  *)
(* (OIDCAuthMiddleware, apps/api/dependencies.py) and the tool gateway     *)
(* (apps/mcp_server/server.py, security.py).                               *)
(*                                                                         *)
(* A request is resolved by a middleware, then, after an await, handled;   *)
(* the REST routes of the tool gateway resolve it a second time there.     *)
(* Claims, texts and user names that decide nothing are left out; the sub  *)
(* claim is treated as the tenant claim is.                                *)
(***************************************************************************)
EXTENDS Naturals, Sequences, FiniteSets

CONSTANTS
    Requests,
    Tokens,         \* the bearer tokens requests may carry
    Tenants,
    Scopes,
    Headers,        \* what the X-Tenant-ID and X-Scopes headers may say
    Configs,        \* the processes: which server, in which environment
    MockTenant,     \* MOCK_TENANT_ID
    Generations,    \* the key sets the identity provider publishes, in order
    InlineKeys,     \* the key set of OIDC_JWKS_JSON
    MaxTime,        \* bound of the clock
    MaxSessions,    \* bound of the MCP sessions
    none            \* absent

Algorithms == {"RS256", "ES256", "HS256", "none"}

ASSUME AccessAssumption ==
    /\ Generations # <<>> /\ MaxTime \in Nat /\ MaxSessions \in Nat /\ MockTenant \in Tenants
    /\ \A h \in Headers : h.tenant \in Tenants \cup {none} /\ h.scopes \subseteq Scopes
    /\ \A c \in Configs : /\ c.process \in {"api", "tools"} /\ c.library \in BOOLEAN
                          /\ c.auth_mode \in {"mock", "oidc", "OIDC", "other"}
                          /\ c.app_env \in {"local", "prod"}
                          /\ c.issuer \in BOOLEAN /\ c.audience \in BOOLEAN
                          /\ c.jwks \in {"unset", "inline", "url"}
    /\ \A t \in Tokens : /\ t.kind \in {"jwt", "local"} /\ t.alg \in Algorithms
                         /\ t.tenant \in Tenants \cup {none}
                         /\ t.iss \in {"ours", "other", "absent"}
                         /\ t.aud \in {"ours", "other", "absent"}
                         /\ t.exp \in Nat \cup {none} /\ t.scopes \subseteq Scopes

VARIABLES
    config,         \* the environment variables of the process
    up,             \* boot, serving, failed
    generation,     \* the key set published now
    cache,          \* _JWKS_CACHE, or none
    now,
    pc,             \* each request: idle, routed, granted, unauthorized, forbidden
    req,            \* the request: its route, token and headers
    ident,          \* the identity the handler will find, or none
    grant,          \* the context the handler runs with, or none
    sessions,       \* _current_auth in the open MCP sessions
    arrived         \* history: when the request arrived, and whether another
                    \* request had its token accepted by then

vars == <<config, up, generation, cache, now, pc, req, ident, grant, sessions, arrived>>

Init ==
    /\ config \in Configs
    /\ up = "boot"
    /\ generation = 1 /\ cache = none /\ now = 0 /\ sessions = {}
    /\ pc = [r \in Requests |-> "idle"]
    /\ req = [r \in Requests |-> none] /\ ident = [r \in Requests |-> none]
    /\ grant = [r \in Requests |-> none] /\ arrived = [r \in Requests |-> none]

(***************************************************************************)
(* AUTH_MODE as most of the code reads it, stripped and in lower case; the *)
(* rest compares the raw value.                                            *)
(***************************************************************************)
Mode == IF config.auth_mode = "OIDC" THEN "oidc" ELSE config.auth_mode

(***************************************************************************)
(* validate_auth_config, called by create_app of every server.             *)
(***************************************************************************)
Startup ==
    /\ up = "boot"
    /\ up' = IF Mode = "mock" \/ (Mode = "oidc" /\ config.issuer /\ config.audience)
             THEN "serving" ELSE "failed"
    /\ UNCHANGED <<config, generation, cache, now, pc, req, ident, grant, sessions, arrived>>

-----------------------------------------------------------------------------
(***************************************************************************)
(* _load_jwks: the inline keys, the cached ones, or the ones fetched now,  *)
(* which are cached for good; none when nothing is configured or the fetch *)
(* fails.                                                                  *)
(***************************************************************************)
Fetches(fetched) == config.jwks = "url" /\ cache = none /\ fetched

LoadJwks(fetched) ==
    CASE config.jwks = "inline" -> InlineKeys
      [] config.jwks = "url" /\ cache # none -> cache
      [] Fetches(fetched) -> Generations[generation]
      [] OTHER -> none

Cached_Never(fetched) == cache

Cached(fetched) == IF Fetches(fetched) THEN Generations[generation] ELSE cache

(***************************************************************************)
(* _default_verify_signature: the key the kid names, or the first one; the *)
(* signature, issuer, audience and expiry as PyJWT checks them: a token    *)
(* with an audience is refused when none is expected.  PyJWT is not among  *)
(* the declared dependencies; without it nothing verifies.                 *)
(***************************************************************************)
Verifies(t, keys) ==
    /\ keys # <<>>
    /\ config.library
    /\ \E i \in DOMAIN keys :
         keys[i] = t.key /\ (IF t.kid = none THEN i = 1 ELSE keys[i] = t.kid)
    /\ t.alg \in {"RS256", "ES256"}
    /\ config.issuer => t.iss = "ours"
    /\ config.audience /\ t.aud = "ours"
    /\ t.exp # none /\ t.exp > now /\ t.iss # "absent" /\ t.aud # "absent"

(***************************************************************************)
(* _enforce_signature: without a key set only the mock mode lets a token   *)
(* pass unverified.                                                        *)
(***************************************************************************)
SignatureOK_MockToo(t, fetched) ==
    /\ t.alg # "none"
    /\ IF config.jwks = "unset" THEN TRUE
       ELSE LoadJwks(fetched) # none /\ Verifies(t, LoadJwks(fetched))

SignatureOK(t, fetched) ==
    /\ t.alg # "none"
    /\ IF config.jwks = "unset" THEN Mode # "oidc"
       ELSE LoadJwks(fetched) # none /\ Verifies(t, LoadJwks(fetched))

(***************************************************************************)
(* The claims parse_bearer_identity looks at, strictly in the oidc mode.   *)
(***************************************************************************)
ClaimsOK(t) ==
    /\ t.tenant # none
    /\ t.exp # none => t.exp >= now
    /\ IF Mode = "oidc"
       THEN config.issuer /\ config.audience /\ t.iss = "ours" /\ t.aud = "ours" /\ t.exp # none
       ELSE /\ config.issuer => t.iss \in {"ours", "absent"}
            /\ config.audience => t.aud \in {"ours", "absent"}

TokenIdentity(t) ==
    [tenant |-> t.tenant, scopes |-> IF t.scopes = {} THEN {"case.read"} ELSE t.scopes, mode |-> "oidc"]

(***************************************************************************)
(* local_dev_identity: only for AUTH_MODE=mock, as written, in a local or  *)
(* test environment.                                                       *)
(***************************************************************************)
MockAllowed == config.app_env = "local" /\ config.auth_mode = "mock"

MockScopes == Scopes \ {"admin", "*"}

MockIdentity(tenant, scopes) ==
    [tenant |-> IF tenant = none THEN MockTenant ELSE tenant,
     scopes |-> IF scopes = {} THEN MockScopes ELSE scopes, mode |-> "mock"]

(***************************************************************************)
(* resolve_identity: a local: token or no Authorization header gives the   *)
(* mock identity; a header that does not parse fails as alg=none does.     *)
(***************************************************************************)
Resolve(t, fetched) ==
    CASE t = none ->
           IF MockAllowed THEN MockIdentity(none, {}) ELSE none
      [] t # none /\ t.kind = "local" ->
           IF MockAllowed THEN MockIdentity(t.tenant, t.scopes) ELSE none
      [] OTHER ->
           IF SignatureOK(t, fetched) /\ ClaimsOK(t) THEN TokenIdentity(t) ELSE none

(* What resolving the token does to the cache of keys.                     *)
CacheAfter(t, fetched) ==
    IF t # none /\ t.kind = "jwt" /\ t.alg # "none" THEN Cached(fetched) ELSE cache

-----------------------------------------------------------------------------
(***************************************************************************)
(* The middleware.  OIDCAuthMiddleware answers 401 when the identity does  *)
(* not resolve; _origin_and_auth of the tool gateway goes on without one.  *)
(* The origin check is left out.                                           *)
(*                                                                         *)
(* For /mcp the identity goes into a context variable, and the tool runs   *)
(* in a task of the MCP library, with the context of the request that      *)
(* opened its session: this one, or an earlier one.                        *)
(***************************************************************************)
Routes == IF config.process = "api" THEN {"api"} ELSE {"tools", "mcp"}

AcceptedBefore(t) ==
    \E s \in Requests : ident[s] # none /\ req[s].token = t /\ req[s].route # "mcp"

Opens(id) == Cardinality(sessions \cup {id}) <= MaxSessions

Middleware(r) ==
    /\ up = "serving" /\ pc[r] = "idle"
    /\ \E t \in Tokens \cup {none}, route \in Routes, fetched \in BOOLEAN, h \in Headers \cup {none} :
         LET id == Resolve(t, fetched) IN
           /\ route = "tools" <=> h # none        \* the others read no header
           /\ req' = [req EXCEPT ![r] = [route |-> route, token |-> t, header |-> h]]
           /\ arrived' = [arrived EXCEPT ![r] = [at |-> now, known |-> AcceptedBefore(t)]]
           /\ cache' = CacheAfter(t, fetched)
           /\ \/ /\ route # "mcp" /\ ident' = [ident EXCEPT ![r] = id] /\ sessions' = sessions
              \/ /\ route = "mcp" /\ Opens(id)
                 /\ ident' = [ident EXCEPT ![r] = id] /\ sessions' = sessions \cup {id}
              \/ /\ route = "mcp" /\ sessions' = sessions
                 /\ \E held \in sessions : ident' = [ident EXCEPT ![r] = held]
           /\ pc' = [pc EXCEPT ![r] = IF route = "api" /\ id = none THEN "unauthorized" ELSE "routed"]
    /\ UNCHANGED <<config, up, generation, now, grant>>

(* require_scopes and AuthContext.require_scope: "*" stands for any scope. *)
HasScope(id, need) == id.scopes \cap {"*", need} # {}

(* from_headers: X-Tenant-ID may only repeat the tenant.                   *)
SameTenant_Unchecked(h, id) == TRUE

SameTenant(h, id) == h.tenant \in {none, id.tenant}

(***************************************************************************)
(* How a route ends: with a context when the tenant header is in order and *)
(* the identity holds the scope the route or the tool needs.               *)
(***************************************************************************)
Decide(r, id, tenantOK) ==
    \E need \in Scopes \ {"*"} :
      LET ok == id # none /\ tenantOK /\ HasScope(id, need) IN
        /\ pc' = [pc EXCEPT ![r] = CASE id = none -> "unauthorized"
                                     [] ok -> "granted"
                                     [] OTHER -> "forbidden"]
        /\ grant' = [grant EXCEPT ![r] = IF ok THEN id ELSE none]

(***************************************************************************)
(* The API gateway's routes (get_identity) and the /mcp tools (_req_auth). *)
(* Neither looks at X-Tenant-ID: get_tenant_id is not used.                *)
(***************************************************************************)
HandleResolved(r) ==
    /\ pc[r] = "routed" /\ req[r].route \in {"api", "mcp"}
    /\ Decide(r, ident[r], TRUE)
    /\ UNCHANGED <<config, up, generation, cache, now, req, ident, sessions, arrived>>

(***************************************************************************)
(* invoke_tool: _auth_or_401 resolves the request again, the middleware    *)
(* having attached nothing to it.  Without a token the mock mode lets the  *)
(* headers choose the tenant and the scopes.                               *)
(***************************************************************************)
HandleInvoke(r) ==
    /\ pc[r] = "routed" /\ req[r].route = "tools"
    /\ LET t == req[r].token  h == req[r].header IN
         IF t # none
         THEN \E fetched \in BOOLEAN :
                LET id == Resolve(t, fetched) IN
                  /\ Decide(r, id, id # none /\ SameTenant(h, id))
                  /\ cache' = CacheAfter(t, fetched)
         ELSE /\ Decide(r, IF MockAllowed /\ h.tenant # none
                           THEN MockIdentity(h.tenant, h.scopes) ELSE none, TRUE)
              /\ UNCHANGED cache
    /\ UNCHANGED <<config, up, generation, now, req, ident, sessions, arrived>>

(* The request is answered; its slot takes the next one. *)
Done(r) ==
    /\ pc[r] \in {"granted", "unauthorized", "forbidden"}
    /\ pc' = [pc EXCEPT ![r] = "idle"]
    /\ req' = [req EXCEPT ![r] = none] /\ ident' = [ident EXCEPT ![r] = none]
    /\ grant' = [grant EXCEPT ![r] = none] /\ arrived' = [arrived EXCEPT ![r] = none]
    /\ UNCHANGED <<config, up, generation, cache, now, sessions>>

(* The identity provider publishes its next key set. *)
Rotate ==
    /\ generation < Len(Generations) /\ generation' = generation + 1
    /\ UNCHANGED <<config, up, cache, now, pc, req, ident, grant, sessions, arrived>>

TimePasses ==
    /\ now < MaxTime /\ now' = now + 1
    /\ UNCHANGED <<config, up, generation, cache, pc, req, ident, grant, sessions, arrived>>

Next ==
    \/ Startup \/ Rotate \/ TimePasses
    \/ \E r \in Requests : Middleware(r) \/ HandleResolved(r) \/ HandleInvoke(r) \/ Done(r)

Spec == Init /\ [][Next]_vars

-----------------------------------------------------------------------------
Granted(r) == pc[r] = "granted"

KeysOf(keys) == {keys[i] : i \in DOMAIN keys}

PublishedKeys ==
    CASE config.jwks = "inline" -> KeysOf(InlineKeys)
      [] config.jwks = "url" -> UNION {KeysOf(Generations[g]) : g \in 1..generation}
      [] OTHER -> {}

(***************************************************************************)
(* A token a key the provider published signed, made for this service.     *)
(***************************************************************************)
Genuine(t) ==
    /\ t # none /\ t.kind = "jwt" /\ t.alg \in {"RS256", "ES256"}
    /\ t.key \in PublishedKeys
    /\ t.iss = "ours" /\ t.aud = "ours" /\ t.exp # none

(***************************************************************************)
(* In the oidc mode a handler runs with the tenant and the scopes of a     *)
(* genuine token, whatever the headers say and whatever rotated or expired *)
(* between the middleware and the handler: on the REST routes that of the  *)
(* request itself, not expired when it arrived, and on invoke_tool one     *)
(* whose tenant X-Tenant-ID does not contradict; on /mcp that of some      *)
(* token, perhaps of an earlier request of the session and expired by now  *)
(* (identity.py parse_bearer_identity, security.py from_headers).          *)
(***************************************************************************)
GrantIsGenuine ==
    \A r \in Requests : Granted(r) /\ Mode = "oidc" =>
        \E t \in Tokens :
          /\ Genuine(t) /\ grant[r] = TokenIdentity(t)
          /\ req[r].route # "mcp" => t = req[r].token /\ t.exp > arrived[r].at
          /\ req[r].route = "tools" => req[r].header.tenant \in {none, t.tenant}

(***************************************************************************)
(* What a badly configured process does not serve: nothing in an unknown   *)
(* mode; in the oidc mode nothing without an issuer, an audience, a key    *)
(* set and a library, and no mock identity; a mock identity only for       *)
(* AUTH_MODE=mock, as written, in a local or test environment; no token    *)
(* when a key set is configured that cannot be used                        *)
(* (validate_auth_config, _enforce_signature, local_dev_identity).  It     *)
(* says nothing of bearer tokens in the mock mode without a key set, which *)
(* are accepted unverified in every environment: see                       *)
(* MockServesOnlyLocally.                                                  *)
(***************************************************************************)
FailClosed ==
    \A r \in Requests : Granted(r) =>
        /\ Mode \in {"mock", "oidc"}
        /\ Mode = "oidc" => grant[r].mode = "oidc" /\ config.issuer /\ config.jwks # "unset"
        /\ grant[r].mode = "mock" => config.auth_mode = "mock" /\ config.app_env = "local"
        /\ grant[r].mode = "oidc" /\ config.jwks # "unset" => config.library /\ config.audience

(***************************************************************************)
(* "Production (APP_ENV not in {local,test}) with AUTH_MODE=mock refuses   *)
(* to resolve identity (fail-closed)" (identity.py, lines 5-6).  It does   *)
(* not hold: only local_dev_identity looks at APP_ENV, and                 *)
(* parse_bearer_identity accepts tokens there, unverified when no key set  *)
(* is configured (lines 217-228, 303).                                     *)
(***************************************************************************)
MockServesOnlyLocally ==
    \A r \in Requests : Granted(r) /\ Mode = "mock" => config.app_env = "local"

(***************************************************************************)
(* A token the process accepted is not refused on a REST route while it is *)
(* valid: neither a rotation nor a failed fetch of the keys, before a      *)
(* later request or between the two resolutions of one request, turns it   *)
(* away (_load_jwks keeps what it fetched).                                *)
(***************************************************************************)
AcceptedStaysAccepted ==
    [][\A r \in Requests :
          /\ pc[r] # pc'[r] /\ pc'[r] = "unauthorized"
          /\ req'[r].route # "mcp" /\ req'[r].token # none
          /\ arrived'[r].known \/ ident[r] # none
          => req'[r].token.exp # none /\ req'[r].token.exp <= now]_vars
=============================================================================
