-------------------------- MODULE RequestAdmission --------------------------
(***************************************************************************)
(* What stands between a caller and a handler: the sliding-window rate     *)
(* limiter every service installs (packages/rate-limit), the credential    *)
(* checks of packages/auth-policy, the tenant middleware of the platform   *)
(* and the route table of the api-gateway.  Everything here is a function  *)
(* of the request and of the state it is given; the state itself belongs   *)
(* to the modules that use it.                                             *)
(***************************************************************************)
EXTENDS Integers, Sequences, FiniteSets

CONSTANT None       \* an absent header, token, user or tenant

-----------------------------------------------------------------------------
(* Rate limits.  A log is the sequence of the admission times of one key.  *)

\* Mutant: the event at the very start of the window is dropped.
TrimmedShort(backend, log, cutoff) ==
    IF backend = "memory" THEN SelectSeq(log, LAMBDA t : t > cutoff) ELSE log

\* The event log of a key after a trim: the memory backend drops the events older than
\* the cutoff, the Redis backend's trim does nothing.
Trimmed(backend, log, cutoff) ==
    IF backend = "memory" THEN SelectSeq(log, LAMBDA t : t >= cutoff) ELSE log

\* Only Redis bounds the list it keeps.
Recorded(backend, log, now, maxEntries) ==
    LET longer == Append(log, now) IN
    IF backend = "redis" /\ Len(longer) > maxEntries THEN Tail(longer) ELSE longer

\* SlidingWindowLimiter.allow: the decision and the log it leaves behind.
Allow(backend, log, now, window, limit, maxEntries) ==
    LET kept == Trimmed(backend, log, now - window)
    IN  [allowed |-> Len(kept) < limit,
         log     |-> IF Len(kept) < limit THEN Recorded(backend, kept, now, maxEntries)
                     ELSE kept]

KeyForRequest(sub, host) ==
    CASE sub # None -> <<"sub", sub>> [] sub = None /\ host # None -> <<"ip", host>>
      [] OTHER -> <<"ip", "unknown">>

\* The Authorization header itself stands in for a missing X-User-Id.
KeyByUser(req, host) ==
    KeyForRequest(IF req.user # None THEN req.user ELSE req.bearer, host)

KeyByTenant(req, host) ==
    IF req.tenant.header # None THEN <<"tenant", req.tenant.header>>
    ELSE KeyForRequest(None, host)

KeyByEndpoint(req, host) == <<"ep", req.path, IF host = None THEN "unknown" ELSE host>>

KeyByTool(req, host) ==
    IF req.tool # None
    THEN <<"tool", req.tool, IF req.user = None THEN "anon" ELSE req.user>>
    ELSE KeyByUser(req, host)

BucketOf(keyFunction, req, host) ==
    CASE keyFunction = "user"     -> KeyByUser(req, host)
      [] keyFunction = "tenant"   -> KeyByTenant(req, host)
      [] keyFunction = "endpoint" -> KeyByEndpoint(req, host)
      [] keyFunction = "tool"     -> KeyByTool(req, host)

-----------------------------------------------------------------------------
(* Roles, scopes and permissions.                                          *)

RolePermissions ==
    [viewer   |-> {"knowledge:read", "rca:read"},
     operator |-> {"knowledge:read", "knowledge:write", "rca:read", "rca:write",
                   "agent:run", "tool:invoke", "inspect:run"},
     reviewer |-> {"knowledge:read", "rca:read", "rca:write", "rca:approve",
                   "agent:approve"},
     admin    |-> {"*"}]

PermissionsFor(roles, scopes) ==
    IF "*" \in scopes THEN {"*"}
    ELSE scopes \cup UNION {RolePermissions[r] : r \in roles \cap DOMAIN RolePermissions}

CanAny(roles, scopes, permissions) ==
    LET granted == PermissionsFor(roles, scopes)
    IN  permissions = {} \/ "*" \in granted \/ permissions \cap granted # {}

-----------------------------------------------------------------------------
(* Credentials.  A bearer token is None or a record [alg, key, fresh,      *)
(* claims, roles, scopes]: what signed it, whether it is unexpired and     *)
(* whether its issuer and audience are the expected ones.  An idp is       *)
(* [up, keys]; settings are [oidc, strict].                                *)

Raises(code) == [status |-> code, by |-> None]
Grants(kind) == [status |-> 200, by |-> kind]

\* verify_token: PyJWT with the shared secret and HS256 only.
HsValid(token) == token.alg = "HS256" /\ token.key = "secret" /\ token.claims /\ token.fresh

\* RemoteJwksClient.fetch: what is cached, [keys, at], serves until its time is up unless the
\* token's kid is missing from it.  Only called while the identity provider answers.
FetchedKeys(cache, kid, idp, now, ttl) ==
    IF cache # None /\ now - cache.at < ttl /\ (kid = None \/ kid \in cache.keys)
    THEN cache.keys ELSE idp.keys

KidOf(token) == IF token.alg = "HS256" THEN None ELSE token.key

\* verify_oidc_token against the keys fetched for the token's kid.
OidcValid(token, keys) ==
    /\ token.key \in keys
    /\ token.alg \in {"RS256", "RS384", "RS512"}
    /\ token.claims
    /\ token.fresh

InternalTokenOk(req) == req.internal = "shared secret"

\* The permission check of the dependency; an internal token carries no roles and is
\* trusted.
Enforced(kind, roles, scopes, permissions) ==
    IF CanAny(roles, scopes, permissions) THEN Grants(kind) ELSE Raises(403)

\* A verifier, and with it an empty key cache, is built for every request; a key set that
\* cannot be fetched is an exception nobody maps: 500.
OidcBranch(req, permissions, idp) ==
    CASE ~idp.up -> Raises(500)
      [] idp.up /\ OidcValid(req.bearer, FetchedKeys(None, KidOf(req.bearer), idp, 0, 0)) ->
            Enforced("oidc", req.bearer.roles, {}, permissions)
      [] OTHER -> Raises(401)

JwtBranch(req, permissions) ==
    IF HsValid(req.bearer)
    THEN Enforced("jwt", req.bearer.roles, req.bearer.scopes, permissions)
    ELSE Raises(401)

RequireOidcOrInternal(req, permissions, settings, idp) ==
    CASE req.bearer # None /\ settings.oidc  -> OidcBranch(req, permissions, idp)
      [] req.bearer # None /\ ~settings.oidc -> JwtBranch(req, permissions)
      [] req.bearer = None /\ ~settings.strict /\ InternalTokenOk(req) -> Grants("internal")
      [] OTHER -> Raises(401)

RequireInternalOrJwt(req, permissions, settings) ==
    CASE req.bearer # None -> JwtBranch(req, permissions)
      [] req.bearer = None /\ ~settings.strict /\ InternalTokenOk(req) -> Grants("internal")
      [] OTHER -> Raises(401)

\* The gateway's own gate: the HS256 path or the internal token, whatever the roles.
GatewayAuthenticates(req, required) ==
    \/ ~required
    \/ IF req.bearer # None THEN HsValid(req.bearer) ELSE InternalTokenOk(req)

-----------------------------------------------------------------------------
(* Tenants.  req.tenant is [explicit, header, subject]; a subject is None  *)
(* or [tenant, user], its tenant None where it has no prefix.              *)

ValidTenant(t) == t # "not a tenant id"

TenantFromSubject(subject) ==
    IF subject = None \/ subject.tenant = None THEN "public" ELSE subject.tenant

ResolveTenant(req) ==
    LET q == req.tenant
        t == CASE q.explicit # None -> [id |-> q.explicit, source |-> "query"]
               [] q.explicit = None /\ q.header # None -> [id |-> q.header, source |-> "header"]
               [] OTHER -> [id |-> TenantFromSubject(q.subject),
                            source |-> IF TenantFromSubject(q.subject) = "public"
                                       THEN "default" ELSE "subject"]
    IN  IF ValidTenant(t.id) THEN t ELSE [id |-> None, source |-> "rejected"]

-----------------------------------------------------------------------------
(* The api-gateway's route table and what it forwards: the request line it *)
(* builds for the backend has a path and no query.                         *)

RouteTable ==
    [knowledge |-> "knowledge-api", rca |-> "rca-agent", platform |-> "agent-platform-api",
     tools |-> "tool-registry", approvals |-> "approval-service", mcp |-> "mcp-gateway"]

MatchBackend(prefix) == IF prefix \in DOMAIN RouteTable THEN RouteTable[prefix] ELSE None

Forwarded(req) == [req EXCEPT !.query = None, !.tenant.explicit = None]
=============================================================================
