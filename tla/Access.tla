------------------------------- MODULE Access -------------------------------
(***************************************************************************)
(* Who may change what: authMiddleware and resolveActor                    *)
(* (internal/server/auth.go, oidc.go), the scope checks of the handlers    *)
(* that write, API keys (internal/store/apikeys.go, admin_keys_handler.go, *)
(* cmd/cmd_apikey.go), and the audit log written behind them.              *)
(*                                                                         *)
(* A request is authenticated once, its scope is looked up later, and it   *)
(* writes later still, while keys are revoked and expire, groups change    *)
(* and other processes create keys in the same store.                      *)
(***************************************************************************)
EXTENDS Naturals, FiniteSets

CONSTANTS
    Keys,               \* ids of API keys
    Roles,              \* Roles[k]: the role of key k
    Scopes,             \* Scopes[k]: entries of its cluster_scope
    AccessClusters,     \* clusters, and Fleet for fleet-wide findings
    Fleet,
    Group,              \* the scope entry "group:<name>"
    Calls,              \* slots of requests in flight
    KeyRecheckInterval, \* keyRecheckInterval
    KeyTTL,             \* lifetime of a key created with a ttl
    MaxNow,             \* bound on the clock
    MaxGroupEdits       \* bound on the edits of the group

Wildcard == "*"
allRoles == {"admin", "operator", "viewer"}
Never == 0 - 1

ASSUME AccessAssumption ==
    /\ Roles \in [Keys -> allRoles]
    /\ \A k \in Keys : Scopes[k] # {} /\ Scopes[k] \subseteq AccessClusters \cup {Wildcard, Group}
    /\ Fleet \in AccessClusters
    /\ Keys \cap {"", "token", "session"} = {}     \* a key is no other credential
    /\ {KeyRecheckInterval, KeyTTL, MaxNow, MaxGroupEdits} \subseteq Nat

VARIABLES
    auth,           \* how the server was started: insecure, token, oidc, none
    clock,          \* seconds
    keys,           \* api_keys: [created, expires, revoked] or absent
    keysSeen,       \* Server.keysSeen
    keyCheckedAt,   \* Server.keyCheckedAt
    members,        \* clusters of the group; a missing group has none
    groupEdits,
    call            \* the requests

accessVars == <<auth, clock, keys, keysSeen, keyCheckedAt, members, groupEdits, call>>

NoKey == [created |-> Never, expires |-> Never, revoked |-> FALSE]
Exists(k) == keys[k].created # Never
Expired(k) == keys[k].expires # Never /\ clock > keys[k].expires
Live(k) == Exists(k) /\ ~keys[k].revoked /\ ~Expired(k)

-----------------------------------------------------------------------------
(* Actors and what they may do.                                            *)

Actor(id, role, scope) == [id |-> id, role |-> role, scope |-> scope]
Anonymous == Actor("", "viewer", {})
Admin(id) == Actor(id, "admin", {Wildcard})

HasWildcardScope(a) == Wildcard \in a.scope
CanManageGroups(a) == a.role = "admin"

\* ms is what groupLookup found: a failed lookup resolves to no members.
AllowsCluster(a, c, ms) ==
    HasWildcardScope(a) \/ c \in a.scope \/ (Group \in a.scope /\ c \in ms)

FilterClusters(a, cs, ms) == {c \in cs : AllowsCluster(a, c, ms)}

\* A fleet-wide finding spans every cluster.
allowsAckCluster(a, c, ms) == IF c = Fleet THEN HasWildcardScope(a) ELSE AllowsCluster(a, c, ms)

roleAllowsWrite(role) == role \in {"admin", "operator"}

\* The routes by what middleware and handler ask for.
ClusterRoute == "cluster"           \* set and delete a tag or a location
handleCreateAck == "ack"            \* handleAckAlert, handleDeleteAck
handleTriggerScan == "scan"
handleWhatIf == "whatif"
handleCreateGroup == "group"        \* and handleDeleteGroup
handleAdminCreateKey == "createKey"
handleAdminRevokeKey == "revokeKey"
handleAdminListKeys == "admin"      \* and the other reads under /admin/
ReadRoute == "read"                 \* every other GET
ClusterRoutes == {ClusterRoute, handleCreateAck, handleTriggerScan}
apiRoutes == ClusterRoutes \cup {handleWhatIf, handleCreateGroup, handleAdminCreateKey,
                                 handleAdminRevokeKey, handleAdminListKeys, ReadRoute}

mutates(route) == route \notin {handleWhatIf, handleAdminListKeys, ReadRoute}
pathIsAdmin(route) == route \in {handleAdminCreateKey, handleAdminRevokeKey, handleAdminListKeys}

\* authMiddleware, once the actor is known.
Admitted(a, route) ==
    /\ mutates(route) => a.id # "" /\ (roleAllowsWrite(a.role) \/ pathIsAdmin(route))
    /\ pathIsAdmin(route) => a.id # "" /\ a.role = "admin"

\* The handler's own check, with the cluster the request is about.
InScope(a, route, c, ms) ==
    CASE route \in {ClusterRoute, handleWhatIf} -> AllowsCluster(a, c, ms)
      [] route = handleCreateAck -> allowsAckCluster(a, c, ms)
      [] route = handleTriggerScan -> FilterClusters(a, {c}, ms) # {}
      [] route = handleCreateGroup -> CanManageGroups(a)
      [] OTHER -> TRUE

-----------------------------------------------------------------------------
(* Requests.                                                               *)

\* "" is no credential, "token" the bootstrap token, "session" a session cookie
\* that decodeSession accepts, with any role (actorFromSessionCookie).
Credentials == {"", "token", "session"} \cup Keys

IdleCall == [pc |-> "idle", actor |-> Anonymous, route |-> ReadRoute, cluster |-> Fleet,
         alive |-> TRUE, reach |-> {}]

\* The request is admitted as actor a, or refused. alive and reach are history:
\* was its key live, and which clusters did the group list at some moment since.
Resolved(r, cred, a, route, c) ==
    call' = [call EXCEPT ![r] = IF Admitted(a, route)
        THEN [pc |-> "scope", actor |-> a, route |-> route, cluster |-> c,
              alive |-> (cred \in Keys => Live(cred)), reach |-> members]
        ELSE IdleCall]

Refuse(r) == call' = [call EXCEPT ![r] = IdleCall]

\* holdsCredential: with a failed lookup the server refuses.
CheckedLately == keyCheckedAt # Never /\ clock - keyCheckedAt < KeyRecheckInterval

\* (mutant) The result of the check is kept for ever.
AnonymousAllowedForever(ok) ==
    /\ auth \notin {"token", "oidc"}
    /\ ~keysSeen
    /\ keyCheckedAt # Never \/ (ok /\ \A k \in Keys : ~Exists(k))

AnonymousAllowed(ok) ==
    /\ auth \notin {"token", "oidc"}
    /\ ~keysSeen
    /\ CheckedLately \/ (ok /\ \A k \in Keys : ~Exists(k))

\* (mutant) A key is looked up by hash only, revoked or not.
ResolvesAnyKey(k) == Exists(k)

Resolves(k) == Live(k)

\* resolveActor for a request without a bearer token; the session cookie counts
\* only on a server with OIDC.
AuthenticateAnonymous(r, cred, route, c, ok) ==
    LET session == cred = "session" /\ auth = "oidc"
        asked == auth = "none" /\ ~keysSeen /\ ~CheckedLately /\ ok
        some == \E k \in Keys : Exists(k)
    IN  /\ call[r].pc = "idle"
        /\ cred \in {"", "session"}
        /\ CASE auth = "insecure" -> Resolved(r, cred, Admin("anonymous"), route, c)
             [] session -> \E role \in allRoles : Resolved(r, cred, Actor("oidc", role, {Wildcard}), route, c)
             [] auth # "insecure" /\ ~session /\ AnonymousAllowed(ok)
                    -> Resolved(r, cred, Anonymous, route, c)
             [] OTHER -> Refuse(r)
        /\ keysSeen' = (keysSeen \/ (asked /\ some))
        /\ keyCheckedAt' = IF asked /\ ~some THEN clock ELSE keyCheckedAt
        /\ UNCHANGED <<auth, clock, keys, members, groupEdits>>

\* resolveActor for a bearer token; a failed lookup of the key refuses.
AuthenticateBearer(r, cred, route, c, ok) ==
    /\ call[r].pc = "idle"
    /\ cred \notin {"", "session"}
    /\ CASE auth = "insecure" -> Resolved(r, cred, Admin("anonymous"), route, c)
         [] auth = "token" /\ cred = "token" -> Resolved(r, cred, Admin("bootstrap"), route, c)
         [] auth # "insecure" /\ cred \in Keys /\ ok /\ Resolves(cred)
                -> Resolved(r, cred, Actor(cred, Roles[cred], Scopes[cred]), route, c)
         [] OTHER -> Refuse(r)
    /\ UNCHANGED <<auth, clock, keys, keysSeen, keyCheckedAt, members, groupEdits>>

\* The handler checks the scope; the lookup of the group may fail.
CheckScope(r, ok) ==
    LET q == call[r] IN
    /\ q.pc = "scope"
    /\ IF ~InScope(q.actor, q.route, q.cluster, IF ok THEN members ELSE {}) \/ ~mutates(q.route)
       THEN Refuse(r)
       ELSE call' = [call EXCEPT ![r].pc = "write"]
    /\ UNCHANGED <<auth, clock, keys, keysSeen, keyCheckedAt, members, groupEdits>>

\* auditMiddleware saves its entry after the handler, whatever it answered.
Written(r) == [call EXCEPT ![r] = IdleCall]

\* A write about one cluster: a tag, a location, an ack or a scan.
WriteCluster(r) ==
    /\ call[r].pc = "write"
    /\ call[r].route \in ClusterRoutes
    /\ call' = Written(r)
    /\ UNCHANGED <<auth, clock, keys, keysSeen, keyCheckedAt, members, groupEdits>>

\* SaveGroup or DeleteGroup: every request in flight may see the new members.
SetMembers(ms, cl) ==
    /\ members' = ms
    /\ call' = [r \in Calls |-> [cl[r] EXCEPT !.reach = @ \cup ms]]

WriteGroup(r, ms) ==
    /\ call[r].pc = "write"
    /\ call[r].route = handleCreateGroup
    /\ SetMembers(ms, Written(r))
    /\ UNCHANGED <<auth, clock, keys, keysSeen, keyCheckedAt, groupEdits>>

NewKey(ttl) == [created |-> clock, expires |-> IF ttl THEN clock + KeyTTL ELSE Never,
                revoked |-> FALSE]

WriteKey(r, k, ttl) ==
    /\ call[r].pc = "write"
    /\ call[r].route = handleAdminCreateKey
    /\ ~Exists(k)
    /\ keys' = [keys EXCEPT ![k] = NewKey(ttl)]
    /\ call' = Written(r)
    /\ UNCHANGED <<auth, clock, keysSeen, keyCheckedAt, members, groupEdits>>

\* RevokeAPIKey: a key that is missing or already revoked is ErrNotFound.
RevokeKey(r, k) ==
    /\ call[r].pc = "write"
    /\ call[r].route = handleAdminRevokeKey
    /\ Exists(k) /\ ~keys[k].revoked
    /\ keys' = [keys EXCEPT ![k].revoked = TRUE]
    /\ call' = Written(r)
    /\ UNCHANGED <<auth, clock, keysSeen, keyCheckedAt, members, groupEdits>>

\* The store refuses the write, or there is nothing to write.
WriteFails(r) ==
    /\ call[r].pc = "write"
    /\ call' = Written(r)
    /\ UNCHANGED <<auth, clock, keys, keysSeen, keyCheckedAt, members, groupEdits>>

-----------------------------------------------------------------------------
(* Everything else that touches this state.                                *)

\* fleetsweeper apikey create, against the same store.
CLICreateKey(k, ttl) ==
    /\ ~Exists(k)
    /\ keys' = [keys EXCEPT ![k] = NewKey(ttl)]
    /\ UNCHANGED <<auth, clock, keysSeen, keyCheckedAt, members, groupEdits, call>>

\* fleetsweeper apikey revoke.
CLIRevokeKey(k) ==
    /\ Exists(k) /\ ~keys[k].revoked
    /\ keys' = [keys EXCEPT ![k].revoked = TRUE]
    /\ UNCHANGED <<auth, clock, keysSeen, keyCheckedAt, members, groupEdits, call>>

\* fleetsweeper group, against the same store.
CLIEditGroup(ms) ==
    /\ groupEdits < MaxGroupEdits
    /\ groupEdits' = groupEdits + 1
    /\ SetMembers(ms, call)
    /\ UNCHANGED <<auth, clock, keys, keysSeen, keyCheckedAt>>

\* The server restarts: requests in flight end, what it remembered is gone.
RestartServer ==
    /\ keysSeen \/ keyCheckedAt # Never
    /\ keysSeen' = FALSE
    /\ keyCheckedAt' = Never
    /\ call' = [r \in Calls |-> IdleCall]
    /\ UNCHANGED <<auth, clock, keys, members, groupEdits>>

AccessTick ==
    /\ clock < MaxNow
    /\ clock' = clock + 1
    /\ UNCHANGED <<auth, keys, keysSeen, keyCheckedAt, members, groupEdits, call>>

AccessInit ==
    /\ auth \in {"insecure", "token", "oidc", "none"}
    /\ clock = 0
    /\ keys = [k \in Keys |-> NoKey]
    /\ keysSeen = FALSE
    /\ keyCheckedAt = Never
    /\ members = {}
    /\ groupEdits = 0
    /\ call = [r \in Calls |-> IdleCall]

AboutCluster(route, c) == c # Fleet \/ route = handleCreateAck

Served(r) ==
    \/ /\ call[r].pc = "idle"
       /\ \E cred \in Credentials, route \in apiRoutes, c \in AccessClusters, ok \in BOOLEAN :
            /\ AboutCluster(route, c)
            /\ AuthenticateAnonymous(r, cred, route, c, ok) \/ AuthenticateBearer(r, cred, route, c, ok)
    \/ \E ok \in BOOLEAN : CheckScope(r, ok)
    \/ WriteCluster(r) \/ WriteFails(r)
    \/ \E ms \in SUBSET (AccessClusters \ {Fleet}) : WriteGroup(r, ms)
    \/ \E k \in Keys : RevokeKey(r, k) \/ \E ttl \in BOOLEAN : WriteKey(r, k, ttl)

AccessNext ==
    \/ \E r \in Calls : Served(r)
    \/ \E k \in Keys : CLIRevokeKey(k) \/ \E ttl \in BOOLEAN : CLICreateKey(k, ttl)
    \/ \E ms \in SUBSET (AccessClusters \ {Fleet}) : CLIEditGroup(ms)
    \/ RestartServer \/ AccessTick

AccessSpec == AccessInit /\ [][AccessNext]_accessVars

-----------------------------------------------------------------------------
Actors == {Anonymous, Admin("anonymous"), Admin("bootstrap")}
              \cup {Actor("oidc", role, {Wildcard}) : role \in allRoles}
              \cup {Actor(k, Roles[k], Scopes[k]) : k \in Keys}

AccessTypeOK ==
    /\ auth \in {"insecure", "token", "oidc", "none"}
    /\ clock \in 0..MaxNow
    /\ keys \in [Keys -> [created : {Never} \cup Nat, expires : {Never} \cup Nat, revoked : BOOLEAN]]
    /\ keysSeen \in BOOLEAN
    /\ keyCheckedAt \in {Never} \cup 0..MaxNow
    /\ members \subseteq AccessClusters
    /\ call \in [Calls -> [pc : {"idle", "scope", "write"}, actor : Actors, route : apiRoutes,
                            cluster : AccessClusters, alive : BOOLEAN, reach : SUBSET AccessClusters]]

\* A request gets to write only with a credential that was good when it came: a
\* key that was live then, never an anonymous reader, never a viewer; as an admin
\* where groups or keys are changed; and otherwise in a cluster that the actor's
\* scope reached, through its group at some moment of the request.
OnlyAuthorisedChanges ==
    \A r \in Calls :
        LET q == call[r] IN
        q.pc = "write" =>
            /\ q.actor.id # "" /\ q.actor.role # "viewer"
            /\ auth # "insecure" => q.alive
            /\ q.route \in ClusterRoutes
                   => \/ Wildcard \in q.actor.scope
                      \/ q.cluster \in q.actor.scope
                      \/ Group \in q.actor.scope /\ q.cluster \in q.reach
            /\ q.route \notin ClusterRoutes => q.actor.role = "admin"

\* A read without a credential is served only by a server that has none of its
\* own, and no later than keyRecheckInterval after a key was stored, by the CLI
\* too: "a key created with the CLI against the same store ends anonymous reads
\* without a restart".
AnonymousWindow ==
    [][\A r \in Calls :
        (call[r].pc = "idle" /\ call'[r].pc = "scope" /\ call'[r].actor = Anonymous)
        => /\ auth = "none"
           /\ \A k \in Keys : Exists(k) => keys[k].created + KeyRecheckInterval > clock]_accessVars
=============================================================================
