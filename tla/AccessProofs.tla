----------------------------- MODULE AccessProofs -----------------------------
(***************************************************************************)
(* Theorems about Access, for any number of requests, any tokens, headers, *)
(* processes, key sets and any clock.                                      *)
(***************************************************************************)
EXTENDS Access, TLAPS

(***************************************************************************)
(* What an identity that resolves says of the process: the conjuncts of    *)
(* FailClosed.                                                             *)
(***************************************************************************)
ModeOf(c) == IF c.auth_mode = "OIDC" THEN "oidc" ELSE c.auth_mode

Closed(c, id) ==
    /\ ModeOf(c) \in {"mock", "oidc"}
    /\ ModeOf(c) = "oidc" => id.mode = "oidc" /\ c.issuer /\ c.jwks # "unset"
    /\ id.mode = "mock" => c.auth_mode = "mock" /\ c.app_env = "local"
    /\ id.mode = "oidc" /\ c.jwks # "unset" => c.library /\ c.audience

(***************************************************************************)
(* What it says in the oidc mode: that it is of a genuine token, and, when *)
(* it was resolved for a request, that the token is the request's and had  *)
(* not expired at that time.  keys are the keys published so far.          *)
(***************************************************************************)
SignedWith(keys, t) ==
    /\ t # none /\ t.kind = "jwt" /\ t.alg \in {"RS256", "ES256"}
    /\ t.key \in keys
    /\ t.iss = "ours" /\ t.aud = "ours" /\ t.exp # none

Held(c, keys, id) ==
    /\ Closed(c, id)
    /\ ModeOf(c) = "oidc" => \E t \in Tokens : SignedWith(keys, t) /\ id = TokenIdentity(t)

TokenOK(keys, t, at) == t \in Tokens /\ SignedWith(keys, t) /\ t.exp \in Nat /\ t.exp > at

Resolved(c, keys, id, t, at) ==
    /\ Closed(c, id)
    /\ ModeOf(c) = "oidc" => TokenOK(keys, t, at) /\ id = TokenIdentity(t)

Entitled(c, keys, id, route, t, at) ==
    Held(c, keys, id) /\ (route # "mcp" => Resolved(c, keys, id, t, at))

LEMMA ModeIs == Mode = ModeOf(config)
  BY DEF Mode, ModeOf

(***************************************************************************)
(* A rotation only adds to the keys published, so nothing said of an       *)
(* identity is lost.                                                       *)
(***************************************************************************)
LEMMA MoreKeys ==
  ASSUME NEW c, NEW keys, NEW more, keys \subseteq more
  PROVE  /\ \A id : Held(c, keys, id) => Held(c, more, id)
         /\ \A id, route, t, at :
              Entitled(c, keys, id, route, t, at) => Entitled(c, more, id, route, t, at)
  <1>1. \A t : SignedWith(keys, t) => SignedWith(more, t)
    BY DEF SignedWith
  <1>2. \A t, at : TokenOK(keys, t, at) => TokenOK(more, t, at)
    BY <1>1 DEF TokenOK
  <1>3. \A id : Held(c, keys, id) => Held(c, more, id)
    BY <1>1 DEF Held
  <1>4. QED
    BY <1>2, <1>3 DEF Entitled, Resolved

(***************************************************************************)
(* The inductive invariant.  A request is only read by a process that      *)
(* started; the cached keys were published; the identities the MCP         *)
(* sessions hold were resolved; what the handler will find is still good   *)
(* when it uses it.                                                        *)
(***************************************************************************)
Typed ==
    /\ config \in Configs /\ now \in Nat /\ generation \in Nat \ {0}
    /\ pc \in [Requests -> {"idle", "routed", "granted", "unauthorized", "forbidden"}]
    /\ req = [r \in Requests |-> req[r]] /\ ident = [r \in Requests |-> ident[r]]
    /\ grant = [r \in Requests |-> grant[r]] /\ arrived = [r \in Requests |-> arrived[r]]

CacheKnown == cache # none => \E g \in 1..generation : cache = Generations[g]

Started == up = "serving" => Mode \in {"mock", "oidc"}

SessionsOK == \A id \in sessions : id # none => Held(config, PublishedKeys, id)

RequestOK(r) ==
    pc[r] # "idle" =>
        /\ up = "serving"
        /\ req[r].token \in Tokens \cup {none}
        /\ req[r].route \in {"api", "tools", "mcp"}
        /\ arrived[r].at \in Nat /\ arrived[r].at <= now
        /\ pc[r] = "routed" /\ ident[r] # none
             => Entitled(config, PublishedKeys, ident[r], req[r].route, req[r].token, arrived[r].at)
        /\ pc[r] = "granted"
             => /\ Entitled(config, PublishedKeys, grant[r], req[r].route, req[r].token, arrived[r].at)
                /\ Mode = "oidc" /\ req[r].route = "tools"
                     => SameTenant(req[r].header, grant[r])

Inv == Typed /\ CacheKnown /\ Started /\ SessionsOK /\ \A r \in Requests : RequestOK(r)

LEMMA InitInv == Init => Inv
  BY DEF Init, Inv, Typed, CacheKnown, Started, SessionsOK, RequestOK

(***************************************************************************)
(* A key that verified a token was published (_load_jwks).                 *)
(***************************************************************************)
LEMMA VerifiedKeyPublished ==
  ASSUME Inv, NEW t \in Tokens, NEW fetched \in BOOLEAN, config.jwks # "unset",
         LoadJwks(fetched) # none, Verifies(t, LoadJwks(fetched))
  PROVE  t.key \in PublishedKeys
  <1>1. t.key \in KeysOf(LoadJwks(fetched))
    BY DEF Verifies, KeysOf
  <1>2. CASE config.jwks = "inline"
    <2>1. config.jwks # "url"
      BY <1>2
    <2>2. LoadJwks(fetched) = InlineKeys
      BY <1>2, <2>1 DEF LoadJwks, Fetches
    <2>3. PublishedKeys = KeysOf(InlineKeys)
      BY <1>2, <2>1 DEF PublishedKeys
    <2>4. QED
      BY <1>1, <2>2, <2>3
  <1>3. CASE config.jwks = "url"
    <2>1. \E g \in 1..generation : LoadJwks(fetched) = Generations[g]
      BY <1>3 DEF LoadJwks, Fetches, Inv, Typed, CacheKnown
    <2>2. QED
      BY <1>1, <1>3, <2>1 DEF PublishedKeys
  <1>4. QED
    BY <1>2, <1>3, AccessAssumption DEF Inv, Typed

(***************************************************************************)
(* resolve_identity gives an identity only to a request that may have it.  *)
(***************************************************************************)
LEMMA ResolveGenuine ==
  ASSUME Inv, up = "serving", NEW t \in Tokens \cup {none}, NEW fetched \in BOOLEAN,
         Resolve(t, fetched) # none
  PROVE  Resolved(config, PublishedKeys, Resolve(t, fetched), t, now)
  <1>1. Mode \in {"mock", "oidc"} /\ ModeOf(config) = Mode
    BY ModeIs DEF Inv, Started
  <1>2. CASE t = none \/ t.kind = "local"
    <2>1. MockAllowed /\ Mode = "mock"
      BY <1>2 DEF Resolve, MockAllowed, Mode
    <2>2. Resolve(t, fetched).mode = "mock"
      BY <1>2, <2>1 DEF Resolve, MockIdentity
    <2>3. QED
      BY <1>1, <2>1, <2>2 DEF Resolved, Closed, MockAllowed
  <1>3. CASE t # none /\ t.kind # "local"
    <2>1. t \in Tokens /\ t.kind = "jwt" /\ t.exp \in Nat \cup {none}
      BY <1>3, AccessAssumption
    <2>2. /\ SignatureOK(t, fetched) /\ ClaimsOK(t)
          /\ Resolve(t, fetched) = TokenIdentity(t)
      BY <1>3 DEF Resolve
    <2>3. TokenIdentity(t).mode = "oidc"
      BY DEF TokenIdentity
    <2>4. CASE Mode = "oidc"
      <3>1. /\ config.jwks # "unset" /\ LoadJwks(fetched) # none
            /\ Verifies(t, LoadJwks(fetched))
        BY <2>2, <2>4 DEF SignatureOK
      <3>2. t.key \in PublishedKeys
        BY <2>1, <3>1, VerifiedKeyPublished
      <3>3. /\ config.issuer /\ config.audience /\ config.library
            /\ t.iss = "ours" /\ t.aud = "ours" /\ t.alg \in {"RS256", "ES256"}
            /\ t.exp # none /\ t.exp > now
        BY <2>2, <2>4, <3>1 DEF ClaimsOK, Verifies
      <3>4. QED
        BY <1>1, <1>3, <2>1, <2>2, <2>3, <2>4, <3>1, <3>2, <3>3 DEF Resolved, Closed, TokenOK, SignedWith
    <2>5. CASE Mode = "mock"
      <3>1. config.jwks # "unset" => config.library /\ config.audience
        BY <2>2 DEF SignatureOK, Verifies
      <3>2. QED
        BY <1>1, <2>2, <2>3, <2>5, <3>1 DEF Resolved, Closed
    <2>6. QED
      BY <1>1, <2>4, <2>5
  <1>4. QED
    BY <1>2, <1>3

LEMMA ResolvedIsHeld == 
  ASSUME NEW c, NEW keys, NEW id, NEW t, NEW at, Resolved(c, keys, id, t, at)
  PROVE  Held(c, keys, id)
  BY DEF Resolved, Held, TokenOK

(***************************************************************************)
(* Resolving a token leaves only published keys in the cache.              *)
(***************************************************************************)
LEMMA CacheStaysKnown ==
  ASSUME Inv, NEW t, NEW fetched \in BOOLEAN, cache' = CacheAfter(t, fetched),
         UNCHANGED generation
  PROVE  CacheKnown'
  BY DEF Inv, Typed, CacheKnown, CacheAfter, Cached, Fetches

(***************************************************************************)
(* A step that changes one request, and neither configuration, start, key  *)
(* sets nor clock, keeps the invariant when the request is as it should.   *)
(***************************************************************************)
Frame(r) ==
    /\ UNCHANGED <<config, up, generation, now>>
    /\ pc' = [pc EXCEPT ![r] = pc'[r]] /\ req' = [req EXCEPT ![r] = req'[r]]
    /\ ident' = [ident EXCEPT ![r] = ident'[r]] /\ grant' = [grant EXCEPT ![r] = grant'[r]]
    /\ arrived' = [arrived EXCEPT ![r] = arrived'[r]]
    /\ pc'[r] \in {"idle", "routed", "granted", "unauthorized", "forbidden"}

LEMMA FrameKeeps ==
  ASSUME Inv, NEW r \in Requests, Frame(r), CacheKnown', SessionsOK', RequestOK(r)'
  PROVE  Inv'
  <1>1. Typed'
    BY DEF Inv, Typed, Frame
  <1>2. Started'
    BY DEF Inv, Started, Frame, Mode
  <1>3. ASSUME NEW s \in Requests, s # r PROVE RequestOK(s)'
    <2>1. /\ pc'[s] = pc[s] /\ req'[s] = req[s] /\ ident'[s] = ident[s]
          /\ grant'[s] = grant[s] /\ arrived'[s] = arrived[s]
      BY <1>3 DEF Inv, Typed, Frame
    <2>2. UNCHANGED <<config, up, generation, now>>
      BY DEF Frame
    <2>3. RequestOK(s)
      BY DEF Inv
    <2>4. PublishedKeys' = PublishedKeys /\ Mode' = Mode
      BY <2>2 DEF PublishedKeys, Mode
    <2>5. QED
      BY <2>1, <2>2, <2>3, <2>4 DEF RequestOK, SameTenant
  <1>4. QED
    BY <1>1, <1>2, <1>3 DEF Inv

(***************************************************************************)
(* The middleware: what it attaches to the request is resolved now.        *)
(***************************************************************************)
MiddlewareStep(r, t, route, h, fetched) ==
    /\ req' = [req EXCEPT ![r] = [route |-> route, token |-> t, header |-> h]]
    /\ arrived' = [arrived EXCEPT ![r] = [at |-> now, known |-> AcceptedBefore(t)]]
    /\ cache' = CacheAfter(t, fetched)
    /\ \E held \in sessions \cup {Resolve(t, fetched)} :
         /\ ident' = [ident EXCEPT ![r] = held]
         /\ route # "mcp" => held = Resolve(t, fetched)
    /\ sessions' \subseteq sessions \cup {Resolve(t, fetched)}
    /\ pc' = [pc EXCEPT ![r] = IF route = "api" /\ Resolve(t, fetched) = none
                               THEN "unauthorized" ELSE "routed"]

LEMMA MiddlewareIsStep ==
  ASSUME NEW r \in Requests, Middleware(r)
  PROVE  \E t \in Tokens \cup {none}, route \in Routes, h \in Headers \cup {none},
            fetched \in BOOLEAN : MiddlewareStep(r, t, route, h, fetched)
  <1>1. PICK t \in Tokens \cup {none}, route \in Routes, fetched \in BOOLEAN,
             h \in Headers \cup {none} :
          LET id == Resolve(t, fetched) IN
            /\ route = "tools" <=> h # none
            /\ req' = [req EXCEPT ![r] = [route |-> route, token |-> t, header |-> h]]
            /\ arrived' = [arrived EXCEPT ![r] = [at |-> now, known |-> AcceptedBefore(t)]]
            /\ cache' = CacheAfter(t, fetched)
            /\ \/ /\ route # "mcp" /\ ident' = [ident EXCEPT ![r] = id] /\ sessions' = sessions
               \/ /\ route = "mcp" /\ Opens(id)
                  /\ ident' = [ident EXCEPT ![r] = id] /\ sessions' = sessions \cup {id}
               \/ /\ route = "mcp" /\ sessions' = sessions
                  /\ \E held \in sessions : ident' = [ident EXCEPT ![r] = held]
            /\ pc' = [pc EXCEPT ![r] = IF route = "api" /\ id = none
                                       THEN "unauthorized" ELSE "routed"]
    BY DEF Middleware
  <1>2. \E held \in sessions \cup {Resolve(t, fetched)} :
          /\ ident' = [ident EXCEPT ![r] = held]
          /\ route # "mcp" => held = Resolve(t, fetched)
    BY <1>1
  <1>3. sessions' \subseteq sessions \cup {Resolve(t, fetched)}
    BY <1>1
  <1>4. MiddlewareStep(r, t, route, h, fetched)
    BY <1>1, <1>2, <1>3 DEF MiddlewareStep
  <1>5. QED
    BY <1>4

LEMMA MiddlewareKeeps == ASSUME Inv, NEW r \in Requests, Middleware(r) PROVE Inv'
  <1>1. PICK t \in Tokens \cup {none}, route \in Routes, h \in Headers \cup {none},
             fetched \in BOOLEAN : MiddlewareStep(r, t, route, h, fetched)
    BY MiddlewareIsStep
  <1>2. up = "serving" /\ UNCHANGED <<config, up, generation, now, grant>>
    BY DEF Middleware
  <1>3. CacheKnown'
    BY <1>1, <1>2, CacheStaysKnown DEF MiddlewareStep
  <1>4. PICK held \in sessions \cup {Resolve(t, fetched)} :
          /\ ident' = [ident EXCEPT ![r] = held]
          /\ route # "mcp" => held = Resolve(t, fetched)
    BY <1>1 DEF MiddlewareStep
  <1>5. req'[r] = [route |-> route, token |-> t, header |-> h] /\ ident'[r] = held
    BY <1>1, <1>4 DEF MiddlewareStep, Inv, Typed
  <1>6. arrived'[r].at = now /\ pc'[r] \in {"unauthorized", "routed"}
    BY <1>1 DEF MiddlewareStep, Inv, Typed
  <1>7. Frame(r)
    <2>1. /\ pc' = [pc EXCEPT ![r] = pc'[r]] /\ req' = [req EXCEPT ![r] = req'[r]]
          /\ ident' = [ident EXCEPT ![r] = ident'[r]]
      BY <1>1, <1>4, <1>5 DEF MiddlewareStep, Inv, Typed
    <2>2. arrived' = [arrived EXCEPT ![r] = arrived'[r]]
      BY <1>1 DEF MiddlewareStep, Inv, Typed
    <2>3. grant' = [grant EXCEPT ![r] = grant'[r]]
      BY <1>2 DEF Inv, Typed
    <2>4. QED
      BY <1>2, <1>6, <2>1, <2>2, <2>3 DEF Frame
  <1>8. route \in {"api", "tools", "mcp"}
    BY DEF Routes
  <1>9. Resolve(t, fetched) # none => Resolved(config, PublishedKeys, Resolve(t, fetched), t, now)
    BY <1>2, ResolveGenuine
  <1>10. \A id \in sessions \cup {Resolve(t, fetched)} : id # none => Held(config, PublishedKeys, id)
    BY <1>9, ResolvedIsHeld DEF Inv, SessionsOK
  <1>11. PublishedKeys' = PublishedKeys
    BY <1>2 DEF PublishedKeys
  <1>12. SessionsOK'
    BY <1>1, <1>2, <1>10, <1>11 DEF MiddlewareStep, SessionsOK
  <1>13. held # none => Entitled(config, PublishedKeys, held, route, t, now)
    BY <1>4, <1>9, <1>10 DEF Entitled
  <1>14. held # none
           => Entitled(config, PublishedKeys, ident[r], req[r].route, req[r].token, arrived[r].at)'
    BY <1>2, <1>5, <1>6, <1>11, <1>13
  <1>15. RequestOK(r)'
    BY <1>2, <1>5, <1>6, <1>8, <1>14 DEF RequestOK, Inv, Typed
  <1>16. QED
    BY <1>3, <1>7, <1>12, <1>15, FrameKeeps

(***************************************************************************)
(* The end of a route with an identity that was rightly resolved.          *)
(***************************************************************************)
LEMMA DecideKeeps ==
  ASSUME Inv, NEW r \in Requests, NEW id, NEW tenantOK \in BOOLEAN, pc[r] = "routed",
         id # none => Entitled(config, PublishedKeys, id, req[r].route, req[r].token, arrived[r].at),
         Mode = "oidc" /\ req[r].route = "tools" /\ tenantOK => SameTenant(req[r].header, id),
         Decide(r, id, tenantOK), CacheKnown',
         UNCHANGED <<config, up, generation, now, req, ident, sessions, arrived>>
  PROVE  Inv'
  <1>1. PICK ok \in BOOLEAN :
          /\ ok => id # none /\ tenantOK
          /\ pc' = [pc EXCEPT ![r] = pc'[r]] /\ pc'[r] \in {"unauthorized", "granted", "forbidden"}
          /\ pc'[r] = "granted" => ok
          /\ grant' = [grant EXCEPT ![r] = IF ok THEN id ELSE none]
    <2>1. PICK need \in Scopes \ {"*"} :
            LET ok == id # none /\ tenantOK /\ HasScope(id, need) IN
              /\ pc' = [pc EXCEPT ![r] = CASE id = none -> "unauthorized"
                                           [] ok -> "granted"
                                           [] OTHER -> "forbidden"]
              /\ grant' = [grant EXCEPT ![r] = IF ok THEN id ELSE none]
      BY DEF Decide
    <2>2. DEFINE ok == id # none /\ tenantOK /\ HasScope(id, need)
    <2>3. pc' = [pc EXCEPT ![r] = pc'[r]]
      BY <2>1 DEF Inv, Typed
    <2>4. pc'[r] = CASE id = none -> "unauthorized" [] ok -> "granted" [] OTHER -> "forbidden"
      BY <2>1 DEF Inv, Typed
    <2>5. pc'[r] \in {"unauthorized", "granted", "forbidden"} /\ (pc'[r] = "granted" => ok)
      BY <2>4
    <2>6. QED
      BY <2>1, <2>3, <2>5
  <1>2. grant'[r] = IF ok THEN id ELSE none
    BY <1>1 DEF Inv, Typed
  <1>3. Frame(r)
    <2>1. grant' = [grant EXCEPT ![r] = grant'[r]]
      BY <1>1, <1>2
    <2>2. /\ req' = [req EXCEPT ![r] = req'[r]] /\ ident' = [ident EXCEPT ![r] = ident'[r]]
          /\ arrived' = [arrived EXCEPT ![r] = arrived'[r]]
      BY DEF Inv, Typed
    <2>3. QED
      BY <1>1, <2>1, <2>2 DEF Frame
  <1>4. ok => Entitled(config, PublishedKeys, grant[r], req[r].route, req[r].token, arrived[r].at)'
    BY <1>1, <1>2 DEF PublishedKeys
  <1>5. ok => (Mode = "oidc" /\ req[r].route = "tools" => SameTenant(req[r].header, grant[r]))'
    BY <1>1, <1>2 DEF Mode, SameTenant
  <1>6. RequestOK(r)
    BY DEF Inv
  <1>7. RequestOK(r)'
    BY <1>1, <1>4, <1>5, <1>6 DEF RequestOK
  <1>8. SessionsOK'
    BY DEF Inv, SessionsOK, PublishedKeys
  <1>9. QED
    BY <1>3, <1>7, <1>8, FrameKeeps

LEMMA HandleResolvedKeeps == ASSUME Inv, NEW r \in Requests, HandleResolved(r) PROVE Inv'
  <1>1. /\ pc[r] = "routed" /\ req[r].route # "tools" /\ Decide(r, ident[r], TRUE)
        /\ UNCHANGED <<config, up, generation, cache, now, req, ident, sessions, arrived>>
    BY DEF HandleResolved
  <1>2. ident[r] # none => Entitled(config, PublishedKeys, ident[r], req[r].route, req[r].token, arrived[r].at)
    BY <1>1 DEF Inv, RequestOK
  <1>3. CacheKnown'
    BY <1>1 DEF Inv, CacheKnown
  <1>4. QED
    BY <1>1, <1>2, <1>3, DecideKeeps

(***************************************************************************)
(* A token resolved again by the handler is good now, hence was when the   *)
(* request arrived.                                                        *)
(***************************************************************************)
LEMMA HandleInvokeKeeps == ASSUME Inv, NEW r \in Requests, HandleInvoke(r) PROVE Inv'
  <1> DEFINE t == req[r].token
             h == req[r].header
             header == IF MockAllowed /\ h.tenant # none
                       THEN MockIdentity(h.tenant, h.scopes) ELSE none
  <1>1. /\ pc[r] = "routed"
        /\ UNCHANGED <<config, up, generation, now, req, ident, sessions, arrived>>
    BY DEF HandleInvoke
  <1>2. /\ up = "serving" /\ t \in Tokens \cup {none}
        /\ now \in Nat /\ arrived[r].at \in Nat /\ arrived[r].at <= now
    BY <1>1 DEF Inv, RequestOK, Typed
  <1>3. CASE \E fetched \in BOOLEAN :
               LET id == Resolve(t, fetched) IN
                 /\ Decide(r, id, id # none /\ SameTenant(h, id))
                 /\ cache' = CacheAfter(t, fetched)
    <2>1. PICK fetched \in BOOLEAN :
            LET id == Resolve(t, fetched) IN
              /\ Decide(r, id, id # none /\ SameTenant(h, id))
              /\ cache' = CacheAfter(t, fetched)
      BY <1>3
    <2> DEFINE id == Resolve(t, fetched)
               tenantOK == id # none /\ SameTenant(h, id)
    <2>2. Decide(r, id, tenantOK) /\ cache' = CacheAfter(t, fetched)
      BY <2>1
    <2>3. CacheKnown'
      BY <1>1, <2>2, CacheStaysKnown
    <2>4. id # none => Resolved(config, PublishedKeys, id, t, now)
      BY <1>2, ResolveGenuine
    <2>5. id # none => Entitled(config, PublishedKeys, id, req[r].route, t, arrived[r].at)
      BY <1>2, <2>4, ResolvedIsHeld DEF Entitled, Resolved, TokenOK
    <2>6. tenantOK \in BOOLEAN /\ (tenantOK => SameTenant(h, id))
      BY DEF SameTenant
    <2> HIDE DEF id, tenantOK
    <2>7. QED
      BY <1>1, <2>2, <2>3, <2>5, <2>6, DecideKeeps
  <1>4. CASE Decide(r, header, TRUE) /\ UNCHANGED cache
    <2>1. header # none => MockAllowed /\ Mode = "mock" /\ header.mode = "mock"
      BY DEF MockAllowed, Mode, MockIdentity
    <2>2. header # none => Entitled(config, PublishedKeys, header, req[r].route, t, arrived[r].at)
      BY <2>1, ModeIs DEF Entitled, Held, Resolved, Closed, MockAllowed
    <2>3. CASE header = none
      <3>1. /\ pc' = [pc EXCEPT ![r] = "unauthorized"]
            /\ grant' = [grant EXCEPT ![r] = none]
        BY <1>4, <2>3 DEF Decide
      <3>2. pc'[r] = "unauthorized"
        BY <3>1 DEF Inv, Typed
      <3>3. Frame(r)
        <4>1. grant' = [grant EXCEPT ![r] = grant'[r]] /\ pc' = [pc EXCEPT ![r] = pc'[r]]
          BY <3>1 DEF Inv, Typed
        <4>2. /\ req' = [req EXCEPT ![r] = req'[r]] /\ ident' = [ident EXCEPT ![r] = ident'[r]]
              /\ arrived' = [arrived EXCEPT ![r] = arrived'[r]]
          BY <1>1 DEF Inv, Typed
        <4>3. QED
          BY <1>1, <3>2, <4>1, <4>2 DEF Frame
      <3>4. CacheKnown' /\ RequestOK(r)'
        BY <1>1, <1>4, <3>2 DEF Inv, CacheKnown, RequestOK
      <3>5. SessionsOK'
        BY <1>1 DEF Inv, SessionsOK, PublishedKeys
      <3>6. QED
        BY <3>3, <3>4, <3>5, FrameKeeps
    <2>4. CASE header # none
      <3>1. Mode # "oidc"
        BY <2>1, <2>4
      <3>2. CacheKnown'
        BY <1>1, <1>4 DEF Inv, CacheKnown
      <3> HIDE DEF header
      <3>3. QED
        BY <1>1, <1>4, <2>2, <3>1, <3>2, DecideKeeps
    <2>5. QED
      BY <2>3, <2>4
  <1>5. QED
    BY <1>3, <1>4 DEF HandleInvoke

LEMMA DoneKeeps == ASSUME Inv, NEW r \in Requests, Done(r) PROVE Inv'
  <1>1. UNCHANGED <<config, up, generation, cache, now, sessions>> /\ pc'[r] = "idle"
    BY DEF Done, Inv, Typed
  <1>2. /\ pc' = [pc EXCEPT ![r] = pc'[r]] /\ req' = [req EXCEPT ![r] = req'[r]]
        /\ ident' = [ident EXCEPT ![r] = ident'[r]] /\ grant' = [grant EXCEPT ![r] = grant'[r]]
        /\ arrived' = [arrived EXCEPT ![r] = arrived'[r]]
    BY DEF Done, Inv, Typed
  <1>3. Frame(r) /\ CacheKnown' /\ RequestOK(r)'
    BY <1>1, <1>2 DEF Frame, Inv, CacheKnown, RequestOK
  <1>4. SessionsOK'
    BY <1>1 DEF Inv, SessionsOK, PublishedKeys
  <1>5. QED
    BY <1>3, <1>4, FrameKeeps

(***************************************************************************)
(* A rotation only adds to what was published; time only moves on.         *)
(***************************************************************************)
LEMMA WorldKeeps == ASSUME Inv, Startup \/ Rotate \/ TimePasses \/ UNCHANGED vars PROVE Inv'
  <1>1. UNCHANGED <<config, pc, req, ident, grant, sessions, arrived, cache>>
    BY DEF Startup, Rotate, TimePasses, vars
  <1>2. generation' \in Nat \ {0} /\ generation' >= generation /\ now' \in Nat /\ now' >= now
    BY DEF Startup, Rotate, TimePasses, vars, Inv, Typed
  <1>3. Started' /\ (up = "serving" => up' = "serving")
    BY <1>1 DEF Startup, Rotate, TimePasses, vars, Inv, Started, Mode
  <1>4. Typed'
    BY <1>1, <1>2 DEF Inv, Typed
  <1>5. 1..generation \subseteq 1..generation'
    BY <1>2 DEF Inv, Typed
  <1>6. CacheKnown'
    BY <1>1, <1>5 DEF Inv, CacheKnown
  <1>7. PublishedKeys \subseteq PublishedKeys'
    <2>1. CASE config.jwks = "url"
      <3>1. /\ PublishedKeys = UNION {KeysOf(Generations[g]) : g \in 1..generation}
            /\ PublishedKeys' = UNION {KeysOf(Generations[g]) : g \in 1..generation'}
        BY <1>1, <2>1 DEF PublishedKeys, KeysOf
      <3>2. QED
        BY <1>5, <3>1
    <2>2. CASE config.jwks # "url"
      BY <1>1, <2>2 DEF PublishedKeys, KeysOf
    <2>3. QED
      BY <2>1, <2>2
  <1>8. SessionsOK'
    BY <1>1, <1>7, MoreKeys DEF Inv, SessionsOK
  <1>9. ASSUME NEW r \in Requests PROVE RequestOK(r)'
    <2>1. RequestOK(r) /\ now \in Nat
      BY DEF Inv, Typed
    <2>2. ASSUME NEW id, NEW route, NEW t, NEW at, Entitled(config, PublishedKeys, id, route, t, at)
          PROVE  Entitled(config, PublishedKeys', id, route, t, at)
      BY <1>7, <2>2, MoreKeys
    <2>3. Mode' = Mode /\ SameTenant(req[r].header, grant[r])' = SameTenant(req[r].header, grant[r])
      BY <1>1 DEF Mode, SameTenant
    <2>4. QED
      BY <1>1, <1>2, <1>3, <2>1, <2>2, <2>3 DEF RequestOK
  <1>10. QED
    BY <1>3, <1>4, <1>6, <1>8, <1>9 DEF Inv

LEMMA NextKeeps == Inv /\ [Next]_vars => Inv'
  BY MiddlewareKeeps, HandleResolvedKeeps, HandleInvokeKeeps, DoneKeeps, WorldKeeps DEF Next

(***************************************************************************)
(* In the oidc mode a handler acts as the tenant of a token signed with a  *)
(* published key and made for this service; on the REST routes it is the   *)
(* request's own, not expired on arrival, and invoke_tool refuses an       *)
(* X-Tenant-ID that contradicts it (parse_bearer_identity, from_headers).  *)
(***************************************************************************)
THEOREM GrantsAreGenuine == Spec => []GrantIsGenuine
  <1>1. ASSUME Inv, NEW r \in Requests, Granted(r), Mode = "oidc"
        PROVE  \E t \in Tokens :
                 /\ Genuine(t) /\ grant[r] = TokenIdentity(t)
                 /\ req[r].route # "mcp" => t = req[r].token /\ t.exp > arrived[r].at
                 /\ req[r].route = "tools" => req[r].header.tenant \in {none, t.tenant}
    <2>1. Entitled(config, PublishedKeys, grant[r], req[r].route, req[r].token, arrived[r].at)
      BY <1>1 DEF Inv, RequestOK, Granted
    <2>2. req[r].route = "tools" => SameTenant(req[r].header, grant[r])
      BY <1>1 DEF Inv, RequestOK, Granted
    <2>3. CASE req[r].route = "mcp"
      BY <1>1, <2>1, <2>3, ModeIs DEF Entitled, Held, SignedWith, Genuine
    <2>4. CASE req[r].route # "mcp"
      <3>1. /\ TokenOK(PublishedKeys, req[r].token, arrived[r].at)
            /\ grant[r] = TokenIdentity(req[r].token)
        BY <1>1, <2>1, <2>4, ModeIs DEF Entitled, Resolved
      <3>2. grant[r].tenant = req[r].token.tenant
        BY <3>1 DEF TokenIdentity
      <3>3. QED
        BY <2>2, <2>4, <3>1, <3>2 DEF TokenOK, SignedWith, Genuine, SameTenant
    <2>5. QED
      BY <2>3, <2>4
  <1>2. Inv => GrantIsGenuine
    BY <1>1 DEF GrantIsGenuine
  <1>3. QED
    BY <1>2, InitInv, NextKeeps, PTL DEF Spec

(***************************************************************************)
(* A process in no known mode serves nobody; one in the oidc mode without  *)
(* issuer, audience, key set and library neither; a mock identity is only  *)
(* served locally; no token passes a key set that cannot be used           *)
(* (validate_auth_config, _enforce_signature, local_dev_identity).         *)
(***************************************************************************)
THEOREM ClosedOnFailure == Spec => []FailClosed
  <1>1. Inv => FailClosed
    BY ModeIs DEF Inv, RequestOK, Entitled, Held, Closed, FailClosed, Granted
  <1>2. QED
    BY <1>1, InitInv, NextKeeps, PTL DEF Spec
-----------------------------------------------------------------------------
(***************************************************************************)
(* What a token keeps once it was accepted: everything resolve_identity    *)
(* asks of it except the expiry, against the keys that stay in the cache.  *)
(***************************************************************************)
Identity(t) ==
    CASE t = none -> MockIdentity(none, {})
      [] t # none /\ t.kind = "local" -> MockIdentity(t.tenant, t.scopes)
      [] OTHER -> TokenIdentity(t)

Keys == IF config.jwks = "inline" THEN InlineKeys ELSE cache

Signed(t, keys) ==
    /\ keys # <<>> /\ config.library /\ config.audience
    /\ \E i \in DOMAIN keys :
         keys[i] = t.key /\ (IF t.kid = none THEN i = 1 ELSE keys[i] = t.kid)
    /\ t.alg \in {"RS256", "ES256"} /\ t.aud = "ours" /\ t.iss # "absent" /\ t.exp # none
    /\ config.issuer => t.iss = "ours"

Claimed(t) ==
    /\ t.tenant # none
    /\ IF Mode = "oidc"
       THEN config.issuer /\ config.audience /\ t.iss = "ours" /\ t.aud = "ours" /\ t.exp # none
       ELSE /\ config.issuer => t.iss \in {"ours", "absent"}
            /\ config.audience => t.aud \in {"ours", "absent"}

Welcome(t) ==
    /\ Identity(t) # none
    /\ IF t = none \/ t.kind = "local" THEN MockAllowed
       ELSE /\ t.alg # "none" /\ Claimed(t)
            /\ IF config.jwks = "unset" THEN Mode # "oidc"
               ELSE Keys # none /\ Signed(t, Keys)

Expired(t) == t.exp # none /\ t.exp <= now

(***************************************************************************)
(* The further invariant: the token of a request that was accepted, or     *)
(* that repeats an accepted one, is welcome; one that was not accepted     *)
(* although it was has expired.                                            *)
(***************************************************************************)
Lasting(r) ==
    /\ ident[r] # none => pc[r] # "idle" /\ (req[r].route # "mcp" => Welcome(req[r].token))
    /\ pc[r] = "routed" /\ arrived[r].known
         => /\ Welcome(req[r].token)
            /\ req[r].route # "mcp" /\ ident[r] = none /\ req[r].token # none
                 => Expired(req[r].token)

Lasts == \A r \in Requests : Lasting(r)

LEMMA InitLasts == Init => Lasts
  BY DEF Init, Lasts, Lasting

(***************************************************************************)
(* A token that resolves is welcome from then on: the keys that verified   *)
(* it are in the cache, or inline.                                         *)
(***************************************************************************)
LEMMA AcceptedIsWelcome ==
  ASSUME Inv, NEW t \in Tokens \cup {none}, NEW fetched \in BOOLEAN,
         Resolve(t, fetched) # none, cache' = CacheAfter(t, fetched), UNCHANGED config
  PROVE  Welcome(t)'
  <1>1. Identity(t)' # none
    BY DEF Identity, Resolve, MockIdentity, TokenIdentity
  <1>2. CASE t = none \/ t.kind = "local"
    BY <1>1, <1>2 DEF Welcome, Resolve, MockAllowed
  <1>3. CASE t # none /\ t.kind # "local"
    <2>1. t \in Tokens /\ t.kind = "jwt"
      BY <1>3, AccessAssumption
    <2>2. SignatureOK(t, fetched) /\ ClaimsOK(t)
      BY <1>3 DEF Resolve
    <2>3. Claimed(t)'
      BY <2>2 DEF ClaimsOK, Claimed, Mode
    <2>4. CASE config.jwks = "unset"
      BY <1>1, <1>3, <2>2, <2>3, <2>4 DEF Welcome, SignatureOK, Mode
    <2>5. CASE config.jwks # "unset"
      <3>1. t.alg # "none" /\ LoadJwks(fetched) # none /\ Verifies(t, LoadJwks(fetched))
        BY <2>2, <2>5 DEF SignatureOK
      <3>2. config.jwks \in {"inline", "url"}
        BY <2>5, AccessAssumption DEF Inv, Typed
      <3>3. cache' = Cached(fetched)
        BY <1>3, <2>1, <3>1 DEF CacheAfter
      <3>4. Keys' = LoadJwks(fetched)
        BY <3>1, <3>2, <3>3 DEF Keys, LoadJwks, Cached, Fetches
      <3>5. PICK keys : keys = LoadJwks(fetched)
        OBVIOUS
      <3>6. Signed(t, keys)
        BY <3>1, <3>5 DEF Verifies, Signed
      <3>7. Signed(t, keys)'
        BY <3>6 DEF Signed
      <3>8. QED
        BY <1>1, <1>3, <2>3, <2>5, <3>1, <3>4, <3>5, <3>7 DEF Welcome
    <2>6. QED
      BY <2>4, <2>5
  <1>4. QED
    BY <1>2, <1>3

(***************************************************************************)
(* A welcome token is only refused when it has expired, whether or not the *)
(* keys could be fetched again.                                            *)
(***************************************************************************)
LEMMA OnlyExpiryRefuses ==
  ASSUME Inv, NEW t \in Tokens, NEW fetched \in BOOLEAN, Welcome(t), Resolve(t, fetched) = none
  PROVE  t # none => Expired(t)
  <1> SUFFICES ASSUME t # none PROVE Expired(t)
    OBVIOUS
  <1>1. t.kind # "local"
    BY DEF Welcome, Identity, Resolve
  <1>2. ~ (SignatureOK(t, fetched) /\ ClaimsOK(t))
    BY <1>1 DEF Welcome, Identity, Resolve
  <1>3. t.exp \in Nat \cup {none} /\ now \in Nat
    BY AccessAssumption DEF Inv, Typed
  <1>4. t.alg # "none" /\ Claimed(t)
    BY <1>1 DEF Welcome
  <1>5. SUFFICES ASSUME t.exp # none => t.exp > now PROVE FALSE
    BY <1>3 DEF Expired
  <1>6. ClaimsOK(t)
    BY <1>3, <1>4, <1>5 DEF ClaimsOK, Claimed
  <1>7. CASE config.jwks = "unset"
    BY <1>1, <1>2, <1>6, <1>7 DEF Welcome, SignatureOK
  <1>8. CASE config.jwks # "unset"
    <2>1. Keys # none /\ Signed(t, Keys)
      BY <1>1, <1>8 DEF Welcome
    <2>2. config.jwks \in {"inline", "url"}
      BY <1>8, AccessAssumption DEF Inv, Typed
    <2>3. LoadJwks(fetched) = Keys
      BY <2>1, <2>2 DEF Keys, LoadJwks, Fetches
    <2>4. Verifies(t, Keys)
      BY <1>5, <2>1 DEF Verifies, Signed
    <2>5. QED
      BY <1>2, <1>4, <1>6, <1>8, <2>1, <2>3, <2>4 DEF SignatureOK
  <1>9. QED
    BY <1>7, <1>8

(***************************************************************************)
(* Keys once cached are never replaced, so a welcome token stays so.       *)
(***************************************************************************)
LEMMA StaysWelcome ==
  ASSUME NEW t, Welcome(t), UNCHANGED config, cache # none => cache' = cache
  PROVE  Welcome(t)'
  <1>1. Identity(t)' = Identity(t)
    BY DEF Identity, MockIdentity, TokenIdentity
  <1>2. Claimed(t) => Claimed(t)'
    BY DEF Claimed, Mode
  <1>3. config.jwks # "unset" /\ Keys # none => Keys' = Keys
    BY DEF Keys
  <1>4. ASSUME NEW keys, Signed(t, keys) PROVE Signed(t, keys)'
    BY <1>4 DEF Signed
  <1>5. QED
    BY <1>1, <1>2, <1>3, <1>4 DEF Welcome, MockAllowed, Mode

(***************************************************************************)
(* Only the middleware and invoke_tool touch the cache.                    *)
(***************************************************************************)
LEMMA CacheStays == ASSUME [Next]_vars, cache # none PROVE cache' = cache
  <1>1. ASSUME NEW t, NEW fetched, cache' = CacheAfter(t, fetched) PROVE cache' = cache
    BY <1>1 DEF CacheAfter, Cached, Fetches
  <1>2. ASSUME NEW r \in Requests, Middleware(r) PROVE cache' = cache
    BY <1>1, <1>2 DEF Middleware
  <1>3. ASSUME NEW r \in Requests, HandleInvoke(r) PROVE cache' = cache
    BY <1>1, <1>3 DEF HandleInvoke
  <1>4. QED
    BY <1>2, <1>3 DEF Next, Startup, Rotate, TimePasses, HandleResolved, Done, vars

(***************************************************************************)
(* The step of the property, for one request.                              *)
(***************************************************************************)
KeepsFaith(r) ==
    /\ pc[r] # pc'[r] /\ pc'[r] = "unauthorized"
    /\ req'[r].route # "mcp" /\ req'[r].token # none
    /\ arrived'[r].known \/ ident[r] # none
    => req'[r].token.exp # none /\ req'[r].token.exp <= now

(***************************************************************************)
(* A request that a step leaves alone.                                     *)
(***************************************************************************)
LEMMA OthersLast ==
  ASSUME Inv, Lasts, [Next]_vars, NEW r \in Requests,
         pc'[r] = pc[r], req'[r] = req[r], ident'[r] = ident[r], arrived'[r] = arrived[r]
  PROVE  Lasting(r)' /\ KeepsFaith(r)
  <1>1. config' = config
    BY DEF Next, Startup, Rotate, TimePasses, Middleware, HandleResolved, HandleInvoke, Done, vars
  <1>2. now' \in Nat /\ now' >= now /\ now \in Nat
    <2>1. now' = now \/ now' = now + 1
      BY DEF Next, Startup, Rotate, TimePasses, Middleware, HandleResolved, HandleInvoke, Done, vars
    <2>2. now \in Nat
      BY DEF Inv, Typed
    <2>3. QED
      BY <2>1, <2>2
  <1>3. Welcome(req[r].token) => Welcome(req[r].token)'
    <2>1. PICK t : t = req[r].token
      OBVIOUS
    <2>2. Welcome(t) => Welcome(t)'
      BY <1>1, CacheStays, StaysWelcome
    <2>3. QED
      BY <2>1, <2>2
  <1>4. pc[r] # "idle" /\ req[r].token # none /\ Expired(req[r].token) => Expired(req[r].token)'
    <2>1. pc[r] # "idle" => req[r].token \in Tokens \cup {none}
      BY DEF Inv, RequestOK
    <2>2. pc[r] # "idle" /\ req[r].token # none => req[r].token.exp \in Nat \cup {none}
      BY <2>1, AccessAssumption
    <2>3. QED
      BY <1>2, <2>2 DEF Expired
  <1>5. Lasting(r)
    BY DEF Lasts
  <1>6. QED
    BY <1>3, <1>4, <1>5 DEF Lasting, KeepsFaith

LEMMA MiddlewareLasts ==
  ASSUME Inv, Lasts, NEW r \in Requests, Middleware(r)
  PROVE  Lasting(r)' /\ KeepsFaith(r)
  <1>1. PICK t \in Tokens \cup {none}, route \in Routes, h \in Headers \cup {none},
             fetched \in BOOLEAN : MiddlewareStep(r, t, route, h, fetched)
    BY MiddlewareIsStep
  <1>2. UNCHANGED <<config, now>> /\ pc[r] = "idle" /\ ident[r] = none
    BY DEF Middleware, Lasts, Lasting
  <1>3. req'[r].token = t /\ req'[r].route = route
    BY <1>1 DEF MiddlewareStep, Inv, Typed
  <1>4. arrived'[r].known = AcceptedBefore(t)
    BY <1>1 DEF MiddlewareStep, Inv, Typed
  <1>5. /\ route # "mcp" => ident'[r] = Resolve(t, fetched)
        /\ pc'[r] \in {"unauthorized", "routed"}
        /\ pc'[r] = "unauthorized" => Resolve(t, fetched) = none
    BY <1>1 DEF MiddlewareStep, Inv, Typed
  <1>6. AcceptedBefore(t) => Welcome(t)
    BY DEF AcceptedBefore, Lasts, Lasting
  <1>7. cache # none => cache' = cache
    BY <1>1 DEF MiddlewareStep, CacheAfter, Cached, Fetches
  <1>8. AcceptedBefore(t) => Welcome(t)'
    BY <1>2, <1>6, <1>7, StaysWelcome
  <1>9. Resolve(t, fetched) # none => Welcome(t)'
    BY <1>1, <1>2, AcceptedIsWelcome DEF MiddlewareStep
  <1>10. AcceptedBefore(t) /\ Resolve(t, fetched) = none /\ t # none => Expired(t)
    <2>1. t # none => t \in Tokens
      OBVIOUS
    <2>2. QED
      BY <1>6, <2>1, OnlyExpiryRefuses
  <1>11. KeepsFaith(r)
    BY <1>2, <1>3, <1>4, <1>5, <1>10 DEF KeepsFaith, Expired
  <1>12. Lasting(r)'
    BY <1>2, <1>3, <1>4, <1>5, <1>8, <1>9, <1>10 DEF Lasting, Expired
  <1>13. QED
    BY <1>11, <1>12

LEMMA HandlersLast ==
  ASSUME Inv, Lasts, NEW r \in Requests, HandleResolved(r) \/ HandleInvoke(r)
  PROVE  Lasting(r)' /\ KeepsFaith(r)
  <1>1. pc[r] = "routed" /\ UNCHANGED <<config, now, req, ident, arrived>>
    BY DEF HandleResolved, HandleInvoke
  <1>2. cache # none => cache' = cache
    BY DEF HandleResolved, HandleInvoke, CacheAfter, Cached, Fetches
  <1>3. ASSUME NEW id, NEW tenantOK \in BOOLEAN, Decide(r, id, tenantOK)
        PROVE  /\ pc'[r] \in {"unauthorized", "granted", "forbidden"}
               /\ pc'[r] = "unauthorized" => id = none
    BY <1>3 DEF Decide, Inv, Typed
  <1>4. Lasting(r) /\ RequestOK(r)
    BY DEF Lasts, Inv
  <1>5. pc'[r] \in {"unauthorized", "granted", "forbidden"} => Lasting(r)'
    <2>1. PICK t : t = req[r].token
      OBVIOUS
    <2>2. Welcome(t) => Welcome(t)'
      BY <1>1, <1>2, StaysWelcome
    <2>3. QED
      BY <1>1, <1>4, <2>1, <2>2 DEF Lasting
  <1>6. CASE HandleResolved(r)
    <2>1. /\ pc'[r] \in {"unauthorized", "granted", "forbidden"}
          /\ pc'[r] = "unauthorized" => ident[r] = none
      BY <1>3, <1>6 DEF HandleResolved, SameTenant
    <2>2. KeepsFaith(r)
      BY <1>1, <1>4, <2>1 DEF KeepsFaith, Lasting, Expired
    <2>3. QED
      BY <1>5, <2>1, <2>2
  <1>7. CASE HandleInvoke(r)
    <2>1. PICK t : t = req[r].token
      OBVIOUS
    <2>2. /\ pc'[r] \in {"unauthorized", "granted", "forbidden"}
          /\ t # none /\ pc'[r] = "unauthorized" => \E fetched \in BOOLEAN : Resolve(t, fetched) = none
      <3>1. CASE t # none
        <4>1. PICK fetched \in BOOLEAN :
                Decide(r, Resolve(t, fetched), Resolve(t, fetched) # none
                                                 /\ SameTenant(req[r].header, Resolve(t, fetched)))
          BY <1>7, <2>1, <3>1 DEF HandleInvoke
        <4>2. QED
          BY <1>3, <4>1 DEF SameTenant
      <3>2. CASE t = none
        <4>1. PICK id : Decide(r, id, TRUE)
          BY <1>7, <2>1, <3>2 DEF HandleInvoke
        <4>2. QED
          BY <1>3, <3>2, <4>1
      <3>3. QED
        BY <3>1, <3>2
    <2>3. arrived[r].known \/ ident[r] # none => Welcome(t)
      BY <1>1, <1>4, <1>7, <2>1 DEF Lasting, HandleInvoke
    <2>4. t # none => t \in Tokens
      BY <1>1, <1>4, <2>1 DEF RequestOK
    <2>5. KeepsFaith(r)
      <3>1. SUFFICES ASSUME pc'[r] = "unauthorized", t # none,
                            arrived[r].known \/ ident[r] # none
                     PROVE  Expired(t)
        BY <1>1, <2>1 DEF KeepsFaith, Expired
      <3>2. PICK fetched \in BOOLEAN : Resolve(t, fetched) = none
        BY <2>2, <3>1
      <3>3. QED
        BY <2>3, <2>4, <3>1, <3>2, OnlyExpiryRefuses
    <2>6. QED
      BY <1>5, <2>2, <2>5
  <1>8. QED
    BY <1>6, <1>7

LEMMA DoneLasts ==
  ASSUME Inv, Lasts, NEW r \in Requests, Done(r)
  PROVE  Lasting(r)' /\ KeepsFaith(r)
  <1>1. pc'[r] = "idle" /\ ident'[r] = none
    BY DEF Done, Inv, Typed
  <1>2. QED
    BY <1>1 DEF Lasting, KeepsFaith

LEMMA NextLasts ==
  ASSUME Inv, Lasts, [Next]_vars
  PROVE  Lasts' /\ \A r \in Requests : KeepsFaith(r)
  <1> SUFFICES ASSUME NEW s \in Requests PROVE Lasting(s)' /\ KeepsFaith(s)
    BY DEF Lasts
  <1>1. CASE Startup \/ Rotate \/ TimePasses \/ UNCHANGED vars
    BY <1>1, OthersLast DEF Startup, Rotate, TimePasses, vars
  <1>2. ASSUME NEW r \in Requests, Middleware(r) \/ HandleResolved(r) \/ HandleInvoke(r) \/ Done(r)
        PROVE  Lasting(s)' /\ KeepsFaith(s)
    <2>1. CASE s = r
      BY <1>2, <2>1, MiddlewareLasts, HandlersLast, DoneLasts
    <2>2. CASE s # r
      <3>1. pc'[s] = pc[s] /\ req'[s] = req[s] /\ ident'[s] = ident[s] /\ arrived'[s] = arrived[s]
        <4>1. CASE Middleware(r) \/ Done(r)
          BY <2>2, <4>1 DEF Middleware, Done, Inv, Typed
        <4>2. CASE HandleResolved(r) \/ HandleInvoke(r)
          BY <2>2, <4>2 DEF HandleResolved, HandleInvoke, Decide, Inv, Typed
        <4>3. QED
          BY <1>2, <4>1, <4>2
      <3>2. QED
        BY <3>1, OthersLast
    <2>3. QED
      BY <2>1, <2>2
  <1>3. QED
    BY <1>1, <1>2 DEF Next

(***************************************************************************)
(* A token the process accepted is refused only once it has expired: no    *)
(* rotation and no failed fetch of the keys turns it away (_load_jwks      *)
(* keeps what it fetched).                                                 *)
(***************************************************************************)
THEOREM AcceptanceLasts == Spec => AcceptedStaysAccepted
  <1>1. Inv /\ Lasts /\ [Next]_vars
          => [\A r \in Requests : KeepsFaith(r)]_vars
    BY NextLasts
  <1>2. Inv /\ Lasts /\ [Next]_vars => Lasts'
    BY NextLasts
  <1>3. QED
    BY <1>1, <1>2, InitInv, NextKeeps, InitLasts, PTL
       DEF Spec, AcceptedStaysAccepted, KeepsFaith
=============================================================================
