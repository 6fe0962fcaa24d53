-------------------------- MODULE Middleware_proofs --------------------------
(***************************************************************************)
(* What the middleware of the API does before a handler runs: who may      *)
(* change what (internal/server/auth.go, oidc.go), for any keys, roles,    *)
(* scopes, clusters and number of concurrent requests; and the rate        *)
(* limiter (internal/server/ratelimit.go), which implements the buckets of *)
(* TokenBucket for any clients, budgets and intervals.                     *)
(***************************************************************************)
EXTENDS Access, RateLimiter, TLAPS

-----------------------------------------------------------------------------
(* The inductive invariant. *)

Call == [pc : {"idle", "scope", "write"}, actor : Actors, route : apiRoutes,
         cluster : AccessClusters, alive : BOOLEAN, reach : SUBSET AccessClusters]

\* The scope of an actor reaches the cluster, through its group in ms.
Reaches(a, c, ms) == \/ Wildcard \in a.scope \/ c \in a.scope
                     \/ (Group \in a.scope /\ c \in ms)

\* What authMiddleware and then the handler established of one request.
Vouched(q) ==
    /\ q.pc # "idle" => Admitted(q.actor, q.route) /\ members \subseteq q.reach
    /\ q.pc # "idle" /\ auth # "insecure" => q.alive
    /\ q.pc = "write" =>
         /\ mutates(q.route)
         /\ q.route \in ClusterRoutes => Reaches(q.actor, q.cluster, q.reach)
         /\ q.route = handleCreateGroup => q.actor.role = "admin"

\* The last check of the store found no key, so every key is younger.
CheckedBefore ==
    keyCheckedAt # Never =>
        keyCheckedAt <= clock /\ \A k \in Keys : Exists(k) => keys[k].created >= keyCheckedAt

AccessInv == AccessTypeOK /\ (\A r \in Calls : Vouched(call[r])) /\ CheckedBefore

-----------------------------------------------------------------------------
(* Actors and scopes. *)

\* The constants: durations and bounds are naturals, a fleet-wide finding names the
\* pseudo-cluster Fleet.
LEMMA ConstantTypes ==
    /\ KeyRecheckInterval \in Nat /\ KeyTTL \in Nat /\ MaxNow \in Nat /\ MaxGroupEdits \in Nat
    /\ Fleet \in AccessClusters
BY AccessAssumption

\* No key is taken for another kind of credential.
LEMMA KeyIds == \A k \in Keys : k # "" /\ k # "token" /\ k # "session"
BY AccessAssumption

\* The clock and the time of the last check are naturals, where there was one.
LEMMA ClockTypes ==
    ASSUME AccessTypeOK PROVE clock \in Nat /\ keyCheckedAt \in {Never} \cup Nat
BY ConstantTypes DEF AccessTypeOK

\* The actors resolveActor can return, with their roles.
LEMMA ActorTypes ==
    /\ Anonymous \in Actors /\ Admin("anonymous") \in Actors /\ Admin("bootstrap") \in Actors
    /\ \A role \in allRoles : Actor("oidc", role, {Wildcard}) \in Actors
    /\ \A k \in Keys : Actor(k, Roles[k], Scopes[k]) \in Actors
    /\ \A a \in Actors : a.role \in allRoles
<1>1. /\ Anonymous \in Actors /\ Admin("anonymous") \in Actors /\ Admin("bootstrap") \in Actors
      /\ \A role \in allRoles : Actor("oidc", role, {Wildcard}) \in Actors
      /\ \A k \in Keys : Actor(k, Roles[k], Scopes[k]) \in Actors
    BY Zenon DEF Actors
<1>2. ASSUME NEW a \in Actors PROVE a.role \in allRoles
    <2>1. ASSUME NEW k \in Keys, a = Actor(k, Roles[k], Scopes[k]) PROVE a.role \in allRoles
        <3>1. Roles[k] \in allRoles
            BY AccessAssumption, Zenon
        <3> QED
            BY <2>1, <3>1 DEF Actor
    <2>2. CASE a = Anonymous
        BY <2>2 DEF Anonymous, Actor, allRoles
    <2>3. CASE a = Admin("anonymous") \/ a = Admin("bootstrap")
        BY <2>3 DEF Admin, Actor, allRoles
    <2>4. ASSUME NEW role \in allRoles, a = Actor("oidc", role, {Wildcard}) PROVE a.role \in allRoles
        BY <2>4 DEF Actor
    <2> QED
        BY <2>1, <2>2, <2>3, <2>4, Zenon DEF Actors
<1> QED
    BY <1>1, <1>2

\* Every kind of route asks of the scope what the property needs.
LEMMA ScopeReaches ==
    ASSUME NEW a \in Actors, NEW route \in apiRoutes, NEW c \in AccessClusters,
           NEW ms \in SUBSET AccessClusters, InScope(a, route, c, ms)
    PROVE  /\ route \in ClusterRoutes => Reaches(a, c, ms)
           /\ route = handleCreateGroup => a.role = "admin"
<1> USE DEF ClusterRoutes, ClusterRoute, handleCreateAck, handleTriggerScan, handleWhatIf, handleCreateGroup,
            AllowsCluster, HasWildcardScope, Reaches
<1>1. CASE route = ClusterRoute
    BY <1>1 DEF InScope
<1>2. CASE route = handleCreateAck
    BY <1>2 DEF InScope, allowsAckCluster
<1>3. CASE route = handleTriggerScan
    BY <1>3 DEF InScope, FilterClusters
<1>4. CASE route = handleCreateGroup
    BY <1>4 DEF InScope, CanManageGroups
<1> QED
    BY <1>1, <1>2, <1>3, <1>4

\* What the invariant says of a request that may write.
LEMMA VouchedIsAuthorised ==
    ASSUME AccessTypeOK, \A r \in Calls : Vouched(call[r])
    PROVE  OnlyAuthorisedChanges
<1> SUFFICES ASSUME NEW r \in Calls, call[r].pc = "write"
             PROVE  /\ call[r].actor.id # "" /\ call[r].actor.role # "viewer"
                    /\ auth # "insecure" => call[r].alive
                    /\ call[r].route \in ClusterRoutes => Reaches(call[r].actor, call[r].cluster, call[r].reach)
                    /\ call[r].route \notin ClusterRoutes => call[r].actor.role = "admin"
    BY DEF OnlyAuthorisedChanges, Reaches
<1>1. /\ Admitted(call[r].actor, call[r].route) /\ mutates(call[r].route)
      /\ auth # "insecure" => call[r].alive
      /\ call[r].route \in ClusterRoutes => Reaches(call[r].actor, call[r].cluster, call[r].reach)
      /\ call[r].route = handleCreateGroup => call[r].actor.role = "admin"
    BY DEF Vouched
<1>2. call[r].actor.id # "" /\ call[r].actor.role # "viewer"
    BY <1>1 DEF Admitted, roleAllowsWrite, pathIsAdmin
<1>3. call[r].route \notin ClusterRoutes => call[r].actor.role = "admin"
    BY <1>1 DEF AccessTypeOK, Admitted, pathIsAdmin, mutates, apiRoutes
<1> QED
    BY <1>1, <1>2, <1>3

-----------------------------------------------------------------------------
(* Steps. *)

\* An idle request is vouched for.
LEMMA IdleVouched ==
    IdleCall \in Call /\ Vouched(IdleCall)
BY ActorTypes, ConstantTypes DEF IdleCall, Call, Vouched, apiRoutes, ReadRoute

\* Resolved admits or refuses: either way the request is vouched for, provided its
\* key, if it came with one, is live.
LEMMA ResolvedVouched ==
    ASSUME AccessTypeOK, \A r \in Calls : Vouched(call[r]),
           NEW r \in Calls, NEW cred, NEW a \in Actors, NEW route \in apiRoutes, NEW c \in AccessClusters,
           auth # "insecure" => (cred \in Keys => Live(cred)),
           Resolved(r, cred, a, route, c), UNCHANGED <<auth, members>>
    PROVE  call' \in [Calls -> Call] /\ \A s \in Calls : Vouched(call[s])'
<1> DEFINE new == [pc |-> "scope", actor |-> a, route |-> route, cluster |-> c,
                   alive |-> (cred \in Keys => Live(cred)), reach |-> members]
           q == IF Admitted(a, route) THEN new ELSE IdleCall
<1>1. call' = [call EXCEPT ![r] = q]
    BY DEF Resolved
<1>2. call \in [Calls -> Call]
    BY DEF AccessTypeOK, Call
<1>3. q \in Call
    <2>1. (cred \in Keys => Live(cred)) \in BOOLEAN
        OBVIOUS
    <2>2. new \in Call
        BY <2>1 DEF Call, AccessTypeOK
    <2> QED
        BY <2>2, IdleVouched
<1>4. Vouched(q)
    <2>1. Admitted(a, route) => Vouched(new)
        BY DEF Vouched
    <2> QED
        BY <2>1, IdleVouched
<1> HIDE DEF q
<1>5. call'[r] = q /\ \A s \in Calls \ {r} : call'[s] = call[s]
    BY <1>1, <1>2
<1>6. ASSUME NEW s \in Calls PROVE Vouched(call[s])'
    BY <1>4, <1>5 DEF Vouched
<1> QED
    BY <1>1, <1>2, <1>3, <1>6

\* A request ends, whatever was written: the others are as they were.
LEMMA EndsVouched ==
    ASSUME AccessTypeOK, \A r \in Calls : Vouched(call[r]),
           NEW r \in Calls, call' = [call EXCEPT ![r] = IdleCall], UNCHANGED <<auth, members>>
    PROVE  call' \in [Calls -> Call] /\ \A s \in Calls : Vouched(call[s])'
<1>1. call \in [Calls -> Call]
    BY DEF AccessTypeOK, Call
<1>2. call'[r] = IdleCall /\ \A s \in Calls \ {r} : call'[s] = call[s]
    BY <1>1
<1>3. ASSUME NEW s \in Calls PROVE Vouched(call[s])'
    BY <1>2, IdleVouched DEF Vouched
<1> QED
    BY <1>1, <1>3, IdleVouched

\* Every request in flight sees the new members of a group.
LEMMA MembersVouched ==
    ASSUME NEW cl \in [Calls -> Call], \A r \in Calls : Vouched(cl[r]), members \subseteq AccessClusters,
           NEW ms \in SUBSET AccessClusters, SetMembers(ms, cl), UNCHANGED auth
    PROVE  call' \in [Calls -> Call] /\ members' \subseteq AccessClusters /\ \A s \in Calls : Vouched(call[s])'
<1>1. members' = ms /\ call' = [r \in Calls |-> [cl[r] EXCEPT !.reach = @ \cup ms]]
    BY DEF SetMembers
<1>2. ASSUME NEW s \in Calls
      PROVE  /\ call'[s].pc = cl[s].pc /\ call'[s].actor = cl[s].actor /\ call'[s].route = cl[s].route
             /\ call'[s].cluster = cl[s].cluster /\ call'[s].alive = cl[s].alive
             /\ call'[s].reach = cl[s].reach \cup ms /\ call'[s] \in Call
    BY <1>1 DEF Call
<1>3. ASSUME NEW s \in Calls PROVE Vouched(call[s])'
    <2>1. Vouched(cl[s])
        OBVIOUS
    <2> QED
        BY <1>1, <1>2, <2>1 DEF Vouched, Reaches
<1> QED
    BY <1>1, <1>2, <1>3

\* A key that is stored now is younger than the last check; the others stay.
LEMMA NewKeyYounger ==
    ASSUME AccessTypeOK, CheckedBefore, NEW k \in Keys, NEW ttl \in BOOLEAN,
           keys' = [keys EXCEPT ![k] = NewKey(ttl)], UNCHANGED <<clock, keyCheckedAt>>
    PROVE  /\ keys' \in [Keys -> [created : {Never} \cup Nat, expires : {Never} \cup Nat, revoked : BOOLEAN]]
           /\ CheckedBefore'
<1>1. NewKey(ttl) \in [created : {Never} \cup Nat, expires : {Never} \cup Nat, revoked : BOOLEAN]
    BY ConstantTypes, ClockTypes DEF NewKey
<1>2. keys'[k] = NewKey(ttl) /\ keys'[k].created = clock /\ clock \in Nat /\ \A j \in Keys \ {k} : keys'[j] = keys[j]
    BY ClockTypes DEF AccessTypeOK, NewKey
<1>3. CheckedBefore'
    <2>1. keyCheckedAt' # Never => clock >= keyCheckedAt'
        BY DEF CheckedBefore
    <2> QED
        BY <1>2, <2>1 DEF CheckedBefore, Exists
<1> QED
    BY <1>1, <1>3 DEF AccessTypeOK

\* RevokeAPIKey keeps the row and the time it was created.
LEMMA RevokedKeyStays ==
    ASSUME AccessTypeOK, CheckedBefore, NEW k \in Keys,
           keys' = [keys EXCEPT ![k].revoked = TRUE], UNCHANGED <<clock, keyCheckedAt>>
    PROVE  /\ keys' \in [Keys -> [created : {Never} \cup Nat, expires : {Never} \cup Nat, revoked : BOOLEAN]]
           /\ CheckedBefore'
<1>1. /\ keys' \in [Keys -> [created : {Never} \cup Nat, expires : {Never} \cup Nat, revoked : BOOLEAN]]
      /\ \A j \in Keys : keys'[j].created = keys[j].created
    BY DEF AccessTypeOK
<1> QED
    BY <1>1 DEF CheckedBefore, Exists

\* The initial state.
LEMMA AccessInitInv ==
    ASSUME AccessInit PROVE AccessInv
<1>1. \A r \in Calls : Vouched(call[r])
    BY IdleVouched DEF AccessInit
<1>2. AccessTypeOK
    <2>2. 0 \in 0..MaxNow
        BY ConstantTypes
    <2>1. NoKey \in [created : {Never} \cup Nat, expires : {Never} \cup Nat, revoked : BOOLEAN]
        BY DEF NoKey
    <2> QED
        BY <2>1, <2>2, IdleVouched DEF AccessInit, AccessTypeOK, Call
<1>3. CheckedBefore
    BY DEF AccessInit, CheckedBefore
<1> QED
    BY <1>1, <1>2, <1>3 DEF AccessInv

\* Authentication. Only a live key, or no key at all, resolves to an actor
\* unless the server runs with --insecure.
LEMMA AnonymousInv ==
    ASSUME AccessInv, NEW r \in Calls, NEW cred \in Credentials, NEW route \in apiRoutes,
           NEW c \in AccessClusters, NEW ok \in BOOLEAN, AuthenticateAnonymous(r, cred, route, c, ok)
    PROVE  AccessInv'
<1> USE DEF AccessInv
<1>1. cred \notin Keys /\ UNCHANGED <<auth, clock, keys, members, groupEdits>>
    BY KeyIds DEF AuthenticateAnonymous
<1>2. \/ \E a \in Actors : Resolved(r, cred, a, route, c)
      \/ Refuse(r)
    BY ActorTypes DEF AuthenticateAnonymous
<1>3. call' \in [Calls -> Call] /\ \A s \in Calls : Vouched(call[s])'
    BY <1>1, <1>2, ResolvedVouched, EndsVouched DEF Refuse
<1>4. keysSeen' \in BOOLEAN /\ keyCheckedAt' \in {Never} \cup 0..MaxNow
    BY DEF AuthenticateAnonymous, AccessTypeOK
<1>5. CheckedBefore'
    <2>1. \/ keyCheckedAt' = keyCheckedAt
          \/ keyCheckedAt' = clock /\ \A k \in Keys : ~Exists(k)
        BY DEF AuthenticateAnonymous
    <2>2. clock \in Nat /\ clock' = clock /\ keys' = keys
        BY <1>1, ClockTypes
    <2>3. CASE keyCheckedAt' = keyCheckedAt
        BY <2>2, <2>3 DEF CheckedBefore, Exists
    <2>4. CASE keyCheckedAt' = clock /\ \A k \in Keys : ~Exists(k)
        BY <2>2, <2>4 DEF CheckedBefore, Exists
    <2> QED
        BY <2>1, <2>3, <2>4
<1>6. AccessTypeOK'
    BY <1>1, <1>3, <1>4 DEF AccessTypeOK, Call
<1> QED
    BY <1>3, <1>5, <1>6

\* AuthenticateBearer: a key is resolved only while it is live (GetAPIKeyByHash
\* and its checks).
LEMMA BearerInv ==
    ASSUME AccessInv, NEW r \in Calls, NEW cred \in Credentials, NEW route \in apiRoutes,
           NEW c \in AccessClusters, NEW ok \in BOOLEAN, AuthenticateBearer(r, cred, route, c, ok)
    PROVE  AccessInv'
<1> USE DEF AccessInv
<1>1. UNCHANGED <<auth, clock, keys, keysSeen, keyCheckedAt, members, groupEdits>>
    BY DEF AuthenticateBearer
<1>2. \/ \E a \in Actors : Resolved(r, cred, a, route, c) /\ (auth # "insecure" => (cred \in Keys => Live(cred)))
      \/ Refuse(r)
    <2>1. CASE auth = "insecure"
        BY <2>1, ActorTypes DEF AuthenticateBearer
    <2>2. CASE auth = "token" /\ cred = "token"
        <3>1. cred \notin Keys
            BY <2>2, KeyIds
        <3> QED
            BY <2>2, <3>1, ActorTypes DEF AuthenticateBearer
    <2>3. CASE auth # "insecure" /\ cred \in Keys /\ ok /\ Live(cred)
        <3>1. cred # "token"
            BY <2>3, KeyIds
        <3> QED
            BY <2>3, <3>1, ActorTypes DEF AuthenticateBearer, Resolves
    <2>4. CASE /\ auth # "insecure" /\ ~(auth = "token" /\ cred = "token")
               /\ ~(cred \in Keys /\ ok /\ Live(cred))
        BY <2>4 DEF AuthenticateBearer, Resolves
    <2> QED
        BY <2>1, <2>2, <2>3, <2>4
<1>3. call' \in [Calls -> Call] /\ \A s \in Calls : Vouched(call[s])'
    BY <1>1, <1>2, ResolvedVouched, EndsVouched DEF Refuse
<1>5. CheckedBefore'
    BY <1>1 DEF CheckedBefore, Exists
<1>6. AccessTypeOK'
    BY <1>1, <1>3 DEF AccessTypeOK, Call
<1> QED
    BY <1>3, <1>5, <1>6

\* The handler's check: a request that goes on to write has its cluster in scope,
\* through members the group has now, which are among those it reached.
LEMMA CheckScopeInv ==
    ASSUME AccessInv, NEW r \in Calls, NEW ok \in BOOLEAN, CheckScope(r, ok)
    PROVE  AccessInv'
<1> USE DEF AccessInv
<1>1. UNCHANGED <<auth, clock, keys, keysSeen, keyCheckedAt, members, groupEdits>>
    BY DEF CheckScope
<1>2. call \in [Calls -> Call]
    BY DEF AccessTypeOK, Call
<1> DEFINE ms == IF ok THEN members ELSE {}
<1>3. call' \in [Calls -> Call] /\ \A s \in Calls : Vouched(call[s])'
    <2>1. CASE Refuse(r)
        BY <1>1, <2>1, EndsVouched DEF Refuse
    <2>2. CASE /\ call' = [call EXCEPT ![r].pc = "write"]
               /\ InScope(call[r].actor, call[r].route, call[r].cluster, ms) /\ mutates(call[r].route)
        <3>1. /\ call' \in [Calls -> Call] /\ call'[r].pc = "write" /\ call'[r].actor = call[r].actor
              /\ call'[r].route = call[r].route /\ call'[r].cluster = call[r].cluster
              /\ call'[r].alive = call[r].alive /\ call'[r].reach = call[r].reach
              /\ \A s \in Calls \ {r} : call'[s] = call[s]
            BY <1>2, <2>2 DEF Call
        <3>2. /\ call[r].actor \in Actors /\ call[r].route \in apiRoutes /\ call[r].cluster \in AccessClusters
              /\ ms \in SUBSET AccessClusters
            BY <1>2 DEF Call, AccessTypeOK
        <3>3. /\ call[r].route \in ClusterRoutes => Reaches(call[r].actor, call[r].cluster, ms)
              /\ call[r].route = handleCreateGroup => call[r].actor.role = "admin"
            <4> HIDE DEF ms
            <4> QED BY <2>2, <3>2, ScopeReaches
        <3>4. call[r].pc = "scope"
            BY DEF CheckScope
        <3>5. Vouched(call[r])
            OBVIOUS
        <3>6. ms \subseteq call[r].reach
            BY <3>4, <3>5 DEF Vouched
        <3>7. call[r].route \in ClusterRoutes => Reaches(call[r].actor, call[r].cluster, call[r].reach)
            BY <3>3, <3>6 DEF Reaches
        <3>8. Vouched(call[r])'
            BY <1>1, <2>2, <3>1, <3>3, <3>4, <3>5, <3>7 DEF Vouched
        <3>9. ASSUME NEW s \in Calls \ {r} PROVE Vouched(call[s])'
            BY <1>1, <3>1 DEF Vouched
        <3> QED
            BY <3>1, <3>8, <3>9
    <2> QED
        BY <2>1, <2>2 DEF CheckScope
<1>5. CheckedBefore'
    BY <1>1 DEF CheckedBefore, Exists
<1>6. AccessTypeOK'
    BY <1>1, <1>3 DEF AccessTypeOK, Call
<1> QED
    BY <1>3, <1>5, <1>6

\* The writes of the handlers.
LEMMA WriteInv ==
    ASSUME AccessInv, NEW r \in Calls, WriteCluster(r) \/ WriteFails(r)
    PROVE  AccessInv'
<1> USE DEF AccessInv
<1>1. call' = [call EXCEPT ![r] = IdleCall] /\ UNCHANGED <<auth, clock, keys, keysSeen, keyCheckedAt, members, groupEdits>>
    BY DEF WriteCluster, WriteFails, Written
<1>3. call' \in [Calls -> Call] /\ \A s \in Calls : Vouched(call[s])'
    BY <1>1, EndsVouched
<1>5. CheckedBefore'
    BY <1>1 DEF CheckedBefore, Exists
<1>6. AccessTypeOK'
    BY <1>1, <1>3 DEF AccessTypeOK, Call
<1> QED
    BY <1>3, <1>5, <1>6

\* SaveGroup and DeleteGroup, by a handler or the CLI: the members change under
\* requests that were resolved, or checked, before.
LEMMA GroupInv ==
    ASSUME AccessInv, NEW ms \in SUBSET AccessClusters,
           CLIEditGroup(ms) \/ \E r \in Calls : WriteGroup(r, ms)
    PROVE  AccessInv'
<1> USE DEF AccessInv
<1>1. UNCHANGED <<auth, clock, keys, keysSeen, keyCheckedAt>>
    BY DEF CLIEditGroup, WriteGroup
<1>2. call \in [Calls -> Call] /\ members \subseteq AccessClusters
    BY DEF AccessTypeOK, Call
<1>3. call' \in [Calls -> Call] /\ members' \subseteq AccessClusters /\ \A s \in Calls : Vouched(call[s])'
    <2>1. CASE CLIEditGroup(ms)
        BY <1>1, <1>2, <2>1, MembersVouched DEF CLIEditGroup
    <2>2. ASSUME NEW r \in Calls, WriteGroup(r, ms)
          PROVE  call' \in [Calls -> Call] /\ members' \subseteq AccessClusters /\ \A s \in Calls : Vouched(call[s])'
        <3>1. Written(r) \in [Calls -> Call] /\ \A s \in Calls : Vouched(Written(r)[s])
            BY <1>2, IdleVouched DEF Written
        <3>2. SetMembers(ms, Written(r))
            BY <2>2 DEF WriteGroup
        <3> QED
            BY <1>1, <1>2, <3>1, <3>2, MembersVouched
    <2> QED
        BY <2>1, <2>2
<1>5. CheckedBefore'
    BY <1>1 DEF CheckedBefore, Exists
<1>6. AccessTypeOK'
    BY <1>1, <1>3 DEF AccessTypeOK, Call
<1> QED
    BY <1>3, <1>5, <1>6

\* Keys come and go, by the admin handlers or the CLI.
LEMMA KeyInv ==
    ASSUME AccessInv, NEW k \in Keys, NEW ttl \in BOOLEAN,
           \/ CLICreateKey(k, ttl) \/ CLIRevokeKey(k)
           \/ \E r \in Calls : WriteKey(r, k, ttl) \/ RevokeKey(r, k)
    PROVE  AccessInv'
<1> USE DEF AccessInv
<1>1. UNCHANGED <<auth, clock, keysSeen, keyCheckedAt, members, groupEdits>>
    BY DEF CLICreateKey, CLIRevokeKey, WriteKey, RevokeKey
<1>2. \/ keys' = [keys EXCEPT ![k] = NewKey(ttl)] \/ keys' = [keys EXCEPT ![k].revoked = TRUE]
    BY DEF CLICreateKey, CLIRevokeKey, WriteKey, RevokeKey
<1>3. /\ keys' \in [Keys -> [created : {Never} \cup Nat, expires : {Never} \cup Nat, revoked : BOOLEAN]]
      /\ CheckedBefore'
    BY <1>1, <1>2, NewKeyYounger, RevokedKeyStays
<1>4. UNCHANGED call \/ \E r \in Calls : call' = [call EXCEPT ![r] = IdleCall]
    BY DEF CLICreateKey, CLIRevokeKey, WriteKey, RevokeKey, Written
<1>5. call' \in [Calls -> Call] /\ \A s \in Calls : Vouched(call[s])'
    <2>1. CASE UNCHANGED call
        BY <1>1, <2>1 DEF AccessTypeOK, Call, Vouched
    <2> QED
        BY <1>1, <1>4, <2>1, EndsVouched
<1>6. AccessTypeOK'
    BY <1>1, <1>3, <1>5 DEF AccessTypeOK, Call
<1> QED
    BY <1>3, <1>5, <1>6

\* A restart forgets keysSeen and keyCheckedAt and ends the requests.
LEMMA RestartInv ==
    ASSUME AccessInv, RestartServer
    PROVE  AccessInv'
<1>1. \A s \in Calls : Vouched(call[s])'
    BY IdleVouched DEF RestartServer, Vouched, IdleCall
<1>2. AccessTypeOK'
    BY IdleVouched DEF AccessInv, RestartServer, AccessTypeOK, Call
<1>3. CheckedBefore'
    BY DEF RestartServer, CheckedBefore
<1> QED
    BY <1>1, <1>2, <1>3 DEF AccessInv

\* Time passes: a key may expire under a request, which keeps what it was vouched.
LEMMA TickInv ==
    ASSUME AccessInv, AccessTick
    PROVE  AccessInv'
<1>1. \A s \in Calls : Vouched(call[s])'
    BY DEF AccessInv, AccessTick, Vouched
<1>2. AccessTypeOK'
    <2>1. clock' \in 0..MaxNow
        BY ConstantTypes, ClockTypes DEF AccessInv, AccessTick
    <2> QED
        BY <2>1 DEF AccessInv, AccessTick, AccessTypeOK
<1>3. CheckedBefore'
    <2>1. keyCheckedAt' = keyCheckedAt /\ keys' = keys /\ clock' = clock + 1
        BY DEF AccessTick
    <2>2. clock \in Nat /\ keyCheckedAt \in {Never} \cup Nat /\ CheckedBefore
        BY ClockTypes DEF AccessInv
    <2> QED
        BY <2>1, <2>2 DEF CheckedBefore, Exists
<1> QED
    BY <1>1, <1>2, <1>3 DEF AccessInv

\* Every step keeps the invariant.
LEMMA AccessStepInv ==
    ASSUME AccessInv, [AccessNext]_accessVars
    PROVE  AccessInv'
<1>1. CASE UNCHANGED accessVars
    BY <1>1 DEF AccessInv, AccessTypeOK, Vouched, CheckedBefore, Exists, accessVars
<1>2. ASSUME NEW r \in Calls, Served(r) PROVE AccessInv'
    <2>1. CASE \E cred \in Credentials, route \in apiRoutes, c \in AccessClusters, ok \in BOOLEAN :
                  AuthenticateAnonymous(r, cred, route, c, ok) \/ AuthenticateBearer(r, cred, route, c, ok)
        BY <2>1, AnonymousInv, BearerInv
    <2>2. CASE \E ok \in BOOLEAN : CheckScope(r, ok)
        BY <2>2, CheckScopeInv
    <2>3. CASE WriteCluster(r) \/ WriteFails(r)
        BY <2>3, WriteInv
    <2>4. CASE \E ms \in SUBSET (AccessClusters \ {Fleet}) : WriteGroup(r, ms)
        BY <2>4, GroupInv
    <2>5. CASE \E k \in Keys : RevokeKey(r, k) \/ \E ttl \in BOOLEAN : WriteKey(r, k, ttl)
        BY <2>5, KeyInv
    <2> QED
        BY <1>2, <2>1, <2>2, <2>3, <2>4, <2>5 DEF Served
<1>3. CASE \E k \in Keys : CLIRevokeKey(k) \/ \E ttl \in BOOLEAN : CLICreateKey(k, ttl)
    BY <1>3, KeyInv
<1>4. CASE \E ms \in SUBSET (AccessClusters \ {Fleet}) : CLIEditGroup(ms)
    BY <1>4, GroupInv
<1> QED
    BY <1>1, <1>2, <1>3, <1>4, RestartInv, TickInv DEF AccessNext

-----------------------------------------------------------------------------
(* Theorems. *)

\* The inductive invariant: at every moment each request in flight is vouched for
\* by what authMiddleware and its handler looked up, though keys are revoked or
\* expire and groups change after the lookup, and every key is younger than the
\* last check that found none.
THEOREM AccessInvariant == AccessSpec => []AccessInv
<1>1. AccessInit => AccessInv
    BY AccessInitInv
<1>2. AccessInv /\ [AccessNext]_accessVars => AccessInv'
    BY AccessStepInv
<1> QED
    BY <1>1, <1>2, PTL DEF AccessSpec

\* The access state is type-correct: an actor in flight is one that resolveActor
\* returns, whatever keys, scopes and requests there are.
THEOREM AccessTypes == AccessSpec => []AccessTypeOK
<1>1. AccessInv => AccessTypeOK
    BY DEF AccessInv
<1> QED
    BY <1>1, AccessInvariant, PTL

\* Only authorised requests get to write, for any keys, scopes, clusters and number
\* of concurrent requests: authMiddleware and the scope checks of the handlers
\* leave no route on which a viewer, a dead key or a key without scope writes, and
\* none but an admin changes groups or keys.
THEOREM Authorised == AccessSpec => []OnlyAuthorisedChanges
<1>1. AccessInv => OnlyAuthorisedChanges
    BY VouchedIsAuthorised DEF AccessInv
<1> QED
    BY <1>1, AccessInvariant, PTL

\* Only authentication takes a request out of idle.
LEMMA OthersLeaveIdle ==
    ASSUME AccessInv, AccessNext, NEW r \in Calls, call[r].pc = "idle", call'[r].pc = "scope"
    PROVE  \E cred \in Credentials, route \in apiRoutes, c \in AccessClusters, ok \in BOOLEAN :
              AuthenticateAnonymous(r, cred, route, c, ok) \/ AuthenticateBearer(r, cred, route, c, ok)
<1>1. call \in [Calls -> Call] /\ IdleCall.pc = "idle"
    BY DEF AccessInv, AccessTypeOK, Call, IdleCall
<1>2. \A s \in Calls : Written(s) \in [Calls -> Call] /\ (s # r => Written(s)[r] = call[r]) /\ (s = r => Written(s)[r] = IdleCall)
    BY <1>1, IdleVouched DEF Written
<1>3. ASSUME NEW ms, NEW cl \in [Calls -> Call], SetMembers(ms, cl) PROVE call'[r].pc = cl[r].pc
    BY <1>3 DEF SetMembers, Call
<1>4. ASSUME NEW s \in Calls, Served(s), s # r PROVE call'[r].pc = call[r].pc
    <2>1. \/ call'[r] = call[r]
          \/ \E ms : SetMembers(ms, Written(s))
        <3>1. CASE \E cred \in Credentials, route \in apiRoutes, c \in AccessClusters, ok \in BOOLEAN :
                      AuthenticateAnonymous(s, cred, route, c, ok) \/ AuthenticateBearer(s, cred, route, c, ok)
            <4>1. PICK q : call' = [call EXCEPT ![s] = q]
                <5>1. \A cred, a, route, c : Resolved(s, cred, a, route, c) => \E q : call' = [call EXCEPT ![s] = q]
                    BY DEF Resolved
                <5>2. Refuse(s) => \E q : call' = [call EXCEPT ![s] = q]
                    BY DEF Refuse
                <5>3. ASSUME NEW cred, NEW route, NEW c, NEW ok, AuthenticateAnonymous(s, cred, route, c, ok)
                      PROVE  Refuse(s) \/ \E a : Resolved(s, cred, a, route, c)
                    BY <5>3 DEF AuthenticateAnonymous
                <5>4. ASSUME NEW cred, NEW route, NEW c, NEW ok, AuthenticateBearer(s, cred, route, c, ok)
                      PROVE  Refuse(s) \/ \E a : Resolved(s, cred, a, route, c)
                    BY <5>4 DEF AuthenticateBearer
                <5> QED
                    BY <3>1, <5>1, <5>2, <5>3, <5>4
            <4> QED
                BY <1>1, <1>4, <4>1
        <3>2. CASE \E ok \in BOOLEAN : CheckScope(s, ok)
            BY <1>1, <1>4, <3>2 DEF CheckScope, Refuse
        <3> QED
            BY <1>2, <1>4, <3>1, <3>2 DEF Served, WriteCluster, WriteFails, WriteGroup, RevokeKey, WriteKey
    <2> QED
        BY <1>2, <1>3, <1>4, <2>1
<1>5. ~RestartServer /\ ~AccessTick
    BY <1>1 DEF RestartServer, AccessTick
<1>6. ~\E k \in Keys : CLIRevokeKey(k) \/ \E ttl \in BOOLEAN : CLICreateKey(k, ttl)
    BY DEF CLIRevokeKey, CLICreateKey
<1>7. ~\E ms \in SUBSET (AccessClusters \ {Fleet}) : CLIEditGroup(ms)
    BY <1>1, <1>3 DEF CLIEditGroup
<1>8. Served(r)
    BY <1>4, <1>5, <1>6, <1>7 DEF AccessNext
<1> QED
    BY <1>8 DEF Served, CheckScope, WriteCluster, WriteFails, WriteGroup, RevokeKey, WriteKey

\* The actor of a credential is not the anonymous reader.
LEMMA AnonymousIsNobody ==
    /\ Admin("anonymous") # Anonymous /\ Admin("bootstrap") # Anonymous
    /\ \A role : Actor("oidc", role, {Wildcard}) # Anonymous
    /\ \A k \in Keys : Actor(k, Roles[k], Scopes[k]) # Anonymous
<1>1. Admin("anonymous").id = "anonymous" /\ Admin("bootstrap").id = "bootstrap" /\ Anonymous.id = ""
    BY DEF Admin, Actor, Anonymous
<1>2. (\A role : Actor("oidc", role, {Wildcard}).id = "oidc") /\ \A k \in Keys : Actor(k, Roles[k], Scopes[k]).id = k
    BY DEF Actor
<1> QED
    BY <1>1, <1>2, KeyIds

\* A step that admits a request without a credential.
LEMMA AnonymousStep ==
    ASSUME AccessInv, AccessNext, NEW r \in Calls,
           call[r].pc = "idle", call'[r].pc = "scope", call'[r].actor = Anonymous
    PROVE  /\ auth = "none"
           /\ \A k \in Keys : Exists(k) => keys[k].created + KeyRecheckInterval > clock
<1> USE DEF AccessInv
<1>1. call \in [Calls -> Call] /\ IdleCall.pc = "idle"
    BY DEF AccessTypeOK, Call, IdleCall
<1>2. PICK cred \in Credentials, route \in apiRoutes, c \in AccessClusters, ok \in BOOLEAN :
         AuthenticateAnonymous(r, cred, route, c, ok) \/ AuthenticateBearer(r, cred, route, c, ok)
    BY OthersLeaveIdle
<1>3. \A a : Resolved(r, cred, a, route, c) => a = Anonymous
    BY <1>1 DEF Resolved
<1>4. ~Refuse(r)
    BY <1>1 DEF Refuse
<1>5. ~AuthenticateBearer(r, cred, route, c, ok)
    BY <1>3, <1>4, AnonymousIsNobody DEF AuthenticateBearer
<1>6. auth # "insecure" /\ AnonymousAllowed(ok)
    BY <1>2, <1>3, <1>4, <1>5, AnonymousIsNobody DEF AuthenticateAnonymous
<1>7. auth = "none"
    BY <1>6 DEF AnonymousAllowed, AccessTypeOK
<1>8. ASSUME NEW k \in Keys, Exists(k) PROVE keys[k].created + KeyRecheckInterval > clock
    <2>1. CheckedLately
        BY <1>6, <1>8 DEF AnonymousAllowed
    <2>2. keyCheckedAt # Never /\ clock - keyCheckedAt < KeyRecheckInterval /\ keys[k].created >= keyCheckedAt
        BY <1>8, <2>1 DEF CheckedLately, CheckedBefore
    <2>3. keyCheckedAt \in Nat /\ clock \in Nat /\ keys[k].created \in Nat
        BY <1>8, <2>2, ClockTypes DEF AccessTypeOK, Exists
    <2> QED
        BY <2>2, <2>3, ConstantTypes
<1> QED
    BY <1>7, <1>8

\* holdsCredential caches "no key" for keyRecheckInterval and no longer: a read
\* without a credential is served only by a server without credentials, and within
\* that interval of the first key stored by any process.
THEOREM AnonymousReadsEnd == AccessSpec => AnonymousWindow
<1>1. AccessInv /\ [AccessNext]_accessVars =>
        [\A r \in Calls :
          (call[r].pc = "idle" /\ call'[r].pc = "scope" /\ call'[r].actor = Anonymous)
          => /\ auth = "none"
             /\ \A k \in Keys : Exists(k) => keys[k].created + KeyRecheckInterval > clock]_accessVars
    BY AnonymousStep
<1> QED
    BY <1>1, AccessInvariant, PTL DEF AccessSpec, AnonymousWindow

-----------------------------------------------------------------------------
(* The rate limiter. *)
USE RateLimiterAssumption

-----------------------------------------------------------------------------
(* Arithmetic of a refill, with r the rate, m the minute, t the tokens and  *)
(* n the seconds since the last refill.                                     *)

\* One more second of an accumulated refill adds one second's rate.
LEMMA SecondAdds ==
    ASSUME NEW r \in Nat, NEW n \in Int
    PROVE  (n + 1) * r = n * r + r
BY SMT

\* A bucket left alone for more than a minute would have filled up.
LEMMA IdleIsFull ==
    ASSUME NEW r \in Nat, NEW m \in Nat, NEW t \in Nat, NEW n \in Nat, n > m
    PROVE  t + n * r >= r * m
<1>1. PICK d \in Nat : n = m + d
    BY SMT
<1>2. (m + d) * r = m * r + d * r
    BY SMT
<1>3. d * r \in Nat /\ m * r = r * m
    BY SMT
<1> QED
    BY <1>1, <1>2, <1>3, SMT

-----------------------------------------------------------------------------
\* The limit of a key is an integer, and a full bucket is a natural number of parts.
LEMMA LimitType ==
    ASSUME NEW k \in RateKeys
    PROVE  /\ Limit(k) \in Int
           /\ Limit(k) > 0 => Limit(k) \in Nat /\ Limit(k) * Minute \in Nat
<1>1. Limit(k) \in Int
    BY DEF RateKeys, Limit
<1>2. ASSUME Limit(k) > 0 PROVE Limit(k) \in Nat /\ Limit(k) * Minute \in Nat
    <2>1. Limit(k) \in Nat
        BY <1>1, <1>2
    <2> QED
        BY <2>1, SMT
<1> QED
    BY <1>1, <1>2

\* A refill stays within the bucket.
LEMMA RefilledType ==
    ASSUME RateTypeOK, NEW k \in RateKeys, Present(k)
    PROVE  /\ refilled(k, buckets[k]).tokens \in 0 .. (Limit(k) * Minute)
           /\ refilled(k, buckets[k]).lastRefill = seconds
<1> DEFINE b == buckets[k]
           n == seconds - b.lastRefill
<1>1. /\ Limit(k) > 0 /\ Limit(k) \in Nat /\ Limit(k) * Minute \in Nat
      /\ b.tokens \in 0 .. (Limit(k) * Minute) /\ n \in Nat
    BY LimitType DEF RateTypeOK
<1>2. n * Limit(k) \in Nat
    BY <1>1, SMT
<1> QED
    BY <1>1, <1>2 DEF refilled

\* The sweep evicts only buckets that would be full by now, so what a bucket would
\* hold survives it.
LEMMA SweepKeeps ==
    ASSUME RateTypeOK, NEW k \in RateKeys
    PROVE  \/ sweep[k] = buckets[k]
           \/ /\ sweep[k] = Evicted /\ Present(k)
              /\ refilled(k, buckets[k]).tokens = Limit(k) * Minute
<1>1. CASE seconds - lastSweep < BucketSweepInterval
    BY <1>1 DEF sweep
<1>2. CASE ~(seconds - lastSweep < BucketSweepInterval) /\ ~(Present(k) /\ BucketIdle(buckets[k]))
    BY <1>2 DEF sweep
<1>3. CASE ~(seconds - lastSweep < BucketSweepInterval) /\ Present(k) /\ BucketIdle(buckets[k])
    <2> DEFINE b == buckets[k]
               n == seconds - b.lastRefill
    <2>1. sweep[k] = Evicted
        BY <1>3 DEF sweep
    <2>2. /\ Limit(k) \in Nat /\ Limit(k) * Minute \in Nat
          /\ b.tokens \in Nat /\ n \in Nat /\ n > Minute
        BY <1>3, LimitType DEF RateTypeOK, BucketIdle
    <2>3. b.tokens + n * Limit(k) >= Limit(k) * Minute /\ n * Limit(k) \in Nat
        <3> HIDE DEF b, n
        <3> QED BY <2>2, IdleIsFull, SMT
    <2> QED
        BY <1>3, <2>1, <2>2, <2>3 DEF refilled
<1> QED
    BY <1>1, <1>2, <1>3

\* allow works on the level the abstract bucket has.
LEMMA CurrentIsLevel ==
    ASSUME RateTypeOK, NEW k \in RateKeys, Limit(k) > 0
    PROVE  /\ CurrentBucket(k) = [tokens |-> levelNow[k], lastRefill |-> seconds]
           /\ levelNow[k] \in 0 .. (Limit(k) * Minute)
<1>1. Limit(k) * Minute \in Nat
    BY LimitType
<1>2. levelNow[k] = IF Present(k) THEN refilled(k, buckets[k]).tokens ELSE Limit(k) * Minute
    BY LimitType DEF levelNow
<1>3. CASE ~Present(k)
    <2>1. sweep[k] = Evicted
        BY <1>3, SweepKeeps DEF Present
    <2> QED
        BY <1>1, <1>2, <1>3, <2>1 DEF CurrentBucket
<1>4. CASE Present(k) /\ sweep[k] = buckets[k]
    <2>1. CurrentBucket(k) = refilled(k, buckets[k])
        BY <1>4 DEF CurrentBucket, Present
    <2> QED
        BY <1>2, <1>4, <2>1, RefilledType DEF refilled
<1>5. CASE sweep[k] = Evicted /\ Present(k) /\ refilled(k, buckets[k]).tokens = Limit(k) * Minute
    BY <1>1, <1>2, <1>5 DEF CurrentBucket
<1> QED
    BY <1>3, <1>4, <1>5, SweepKeeps

-----------------------------------------------------------------------------
\* What allow leaves behind: the bucket of its key, the others as the sweep left them.
LEMMA AllowLeaves ==
    ASSUME RateTypeOK, NEW k \in RateKeys, allow(k)
    PROVE  LET ok == levelNow[k] >= Minute
               left == IF ok THEN levelNow[k] - Minute ELSE levelNow[k]
           IN  /\ Limit(k) > 0 /\ left \in 0 .. (Limit(k) * Minute)
               /\ buckets' = [sweep EXCEPT ![k] = [tokens |-> left, lastRefill |-> seconds]]
               /\ answer' = [key |-> k, ok |-> ok, left |-> left]
               /\ seconds' = seconds
<1>1. Limit(k) > 0
    BY DEF allow
<1>2. /\ CurrentBucket(k) = [tokens |-> levelNow[k], lastRefill |-> seconds]
      /\ levelNow[k] \in 0 .. (Limit(k) * Minute) /\ Limit(k) * Minute \in Nat
    BY <1>1, CurrentIsLevel, LimitType
<1> DEFINE level == levelNow[k]
           ok == level >= Minute
           left == IF ok THEN level - Minute ELSE level
<1>3. [CurrentBucket(k) EXCEPT !.tokens = left] = [tokens |-> left, lastRefill |-> seconds]
    BY <1>2
<1>4. left \in 0 .. (Limit(k) * Minute)
    BY <1>2
<1>5. CurrentBucket(k).tokens = level
    BY <1>2
<1> QED
    BY <1>1, <1>3, <1>4, <1>5 DEF allow

\* The buckets and the clock of the limiter keep their types, and a bucket never
\* holds more than a minute's budget.
LEMMA TypeStep ==
    ASSUME RateTypeOK, [RateNext]_rateVars
    PROVE  RateTypeOK'
<1>1. CASE RateTick
    BY <1>1 DEF RateTick, RateTypeOK, Present, Limit
<1>2. ASSUME NEW k \in RateKeys, allow(k) PROVE RateTypeOK'
    <2> DEFINE left == IF levelNow[k] >= Minute THEN levelNow[k] - Minute ELSE levelNow[k]
    <2>1. /\ Limit(k) > 0 /\ left \in 0 .. (Limit(k) * Minute)
          /\ buckets' = [sweep EXCEPT ![k] = [tokens |-> left, lastRefill |-> seconds]]
          /\ seconds' = seconds
        BY <1>2, AllowLeaves
    <2>2. Limit(k) * Minute \in Nat
        BY <2>1, LimitType
    <2>3. sweep \in [RateKeys -> [tokens : Nat, lastRefill : Nat \cup {0 - 1}]]
        BY DEF RateTypeOK, sweep, Evicted
    <2> HIDE DEF left
    <2>4. buckets' \in [RateKeys -> [tokens : Nat, lastRefill : Nat \cup {0 - 1}]]
        BY <2>1, <2>2, <2>3 DEF RateTypeOK
    <2>5. ASSUME NEW j \in RateKeys, buckets'[j] # Evicted
          PROVE  /\ Limit(j) > 0
                 /\ buckets'[j].tokens \in 0 .. (Limit(j) * Minute)
                 /\ buckets'[j].lastRefill \in 0 .. seconds
        <3>1. CASE j = k
            BY <2>1, <2>2, <2>3, <3>1 DEF RateTypeOK
        <3>2. CASE j # k
            <4>1. buckets'[j] = sweep[j]
                BY <2>1, <2>3, <3>2
            <4>2. sweep[j] = buckets[j] /\ Present(j)
                BY <2>5, <4>1, SweepKeeps DEF Present
            <4> QED
                BY <4>1, <4>2 DEF RateTypeOK
        <3> QED
            BY <3>1, <3>2
    <2>6. lastSweep' \in (0 - BucketSweepInterval) .. seconds
        BY <1>2 DEF allow, RateTypeOK
    <2> QED
        BY <2>1, <2>4, <2>5, <2>6 DEF RateTypeOK, Present, Limit
<1>3. ASSUME NEW k \in RateKeys, allowUnlimited(k) PROVE RateTypeOK'
    BY <1>3 DEF allowUnlimited, RateTypeOK, Present, Limit
<1>4. CASE UNCHANGED rateVars
    BY <1>4 DEF rateVars, RateTypeOK, Present, Limit
<1> QED
    BY <1>1, <1>2, <1>3, <1>4 DEF RateNext

LEMMA TypeInit ==
    ASSUME RateInit PROVE RateTypeOK
BY DEF RateInit, RateTypeOK, Present, Evicted

\* The clock never runs ahead of a bucket, no bucket exceeds its minute's budget, and
\* there is no bucket where there is no limit.
THEOREM RateTypeCorrect == RateSpec => []RateTypeOK
<1>1. RateInit => RateTypeOK
    BY TypeInit
<1>2. RateTypeOK /\ [RateNext]_rateVars => RateTypeOK'
    BY TypeStep
<1> QED
    BY <1>1, <1>2, PTL DEF RateSpec

-----------------------------------------------------------------------------
(* The refinement, step by step. *)

\* A second of the clock is a second of every bucket, also of those the map lost.
LEMMA TickRefills ==
    ASSUME RateTypeOK, RateTick
    PROVE  TB!Refill
<1> SUFFICES ASSUME NEW k \in RateKeys
             PROVE  levelNow'[k] = TB!Capped(levelNow[k] + TB!Rate(k), TB!Full(k))
    BY DEF TB!Refill, TB!BucketKeys, TB!Classes, RateKeys, levelNow, RateTick
<1>1. /\ Limit(k) \in Int /\ Minute \in Nat /\ seconds \in Nat /\ seconds' = seconds + 1
      /\ buckets' = buckets
    BY LimitType DEF RateTypeOK, RateTick
<1>2. CASE Limit(k) <= 0
    <2>1. TB!Rate(k) = 0 /\ TB!Full(k) = 0
        BY <1>1, <1>2 DEF TB!Rate, TB!Full, TB!Limited, Limit
    <2>2. levelNow[k] = 0 /\ levelNow'[k] = 0
        BY <1>1, <1>2 DEF levelNow, Limit
    <2> QED
        BY <2>1, <2>2 DEF TB!Capped
<1>3. CASE ~(Limit(k) <= 0)
    <2>1. Limit(k) > 0 /\ Limit(k) \in Nat /\ Limit(k) * Minute \in Nat
        BY <1>1, <1>3, LimitType
    <2>2. TB!Rate(k) = Limit(k) /\ TB!Full(k) = Limit(k) * Minute
        BY <2>1 DEF TB!Rate, TB!Full, TB!Limited, Limit
    <2>3. CASE ~Present(k)
        <3>1. levelNow[k] = Limit(k) * Minute /\ levelNow'[k] = Limit(k) * Minute
            BY <1>1, <1>3, <2>3 DEF levelNow, Limit, Present
        <3> QED
            BY <2>1, <2>2, <3>1 DEF TB!Capped
    <2>4. CASE Present(k)
        <3> DEFINE b == buckets[k]
                   n == seconds - b.lastRefill
                   cap == Limit(k) * Minute
        <3>1. levelNow[k] = IF b.tokens + n * Limit(k) > cap THEN cap ELSE b.tokens + n * Limit(k)
            BY <1>3, <2>4 DEF levelNow, refilled
        <3>2. levelNow'[k] = IF b.tokens + (n + 1) * Limit(k) > cap THEN cap
                             ELSE b.tokens + (n + 1) * Limit(k)
            <4>1. seconds' - b.lastRefill = n + 1
                BY <1>1, <2>4 DEF RateTypeOK
            <4> QED
                BY <1>1, <1>3, <2>4, <4>1 DEF levelNow, refilled, Limit, Present
        <3>3. b.tokens \in Nat /\ n \in Nat
            BY <2>4 DEF RateTypeOK
        <3>4. (n + 1) * Limit(k) = n * Limit(k) + Limit(k) /\ n * Limit(k) \in Nat
            <4> HIDE DEF n
            <4> QED BY <2>1, <3>3, SecondAdds, SMT
        <3> HIDE DEF b, n
        <3> QED
            BY <2>1, <2>2, <3>1, <3>2, <3>3, <3>4 DEF TB!Capped
    <2> QED
        BY <2>3, <2>4
<1> QED
    BY <1>2, <1>3

\* A call of allow is a request to the abstract bucket, whatever it sweeps away.
LEMMA AllowRequests ==
    ASSUME RateTypeOK, NEW k \in RateKeys, allow(k)
    PROVE  TB!Request(k)
<1> DEFINE ok == levelNow[k] >= Minute
           left == IF ok THEN levelNow[k] - Minute ELSE levelNow[k]
<1>1. /\ Limit(k) > 0 /\ left \in 0 .. (Limit(k) * Minute)
      /\ buckets' = [sweep EXCEPT ![k] = [tokens |-> left, lastRefill |-> seconds]]
      /\ answer' = [key |-> k, ok |-> ok, left |-> left]
      /\ seconds' = seconds
    BY AllowLeaves
<1>2. Limit(k) \in Nat /\ Limit(k) * Minute \in Nat /\ seconds \in Nat /\ DOMAIN sweep = RateKeys
    BY <1>1, LimitType DEF RateTypeOK, sweep
<1>3. levelNow'[k] = left
    <2> HIDE DEF left
    <2>1. buckets'[k] = [tokens |-> left, lastRefill |-> seconds]
        BY <1>1, <1>2
    <2>2. buckets'[k] # Evicted
        BY <1>2, <2>1 DEF Evicted
    <2>3. (seconds - seconds) * Limit(k) = 0
        BY <1>2, SMT
    <2>4. levelNow'[k] = refilled(k, buckets[k])'.tokens
        BY <1>1, <1>2, <2>2 DEF levelNow, Present, Limit
    <2> QED
        BY <1>1, <1>2, <2>1, <2>3, <2>4 DEF refilled, Limit
<1>4. ASSUME NEW j \in RateKeys, j # k PROVE levelNow'[j] = levelNow[j]
    <2>1. buckets'[j] = sweep[j]
        BY <1>1, <1>2, <1>4
    <2>2. CASE sweep[j] = buckets[j]
        BY <1>1, <2>1, <2>2 DEF levelNow, Present, refilled, Limit
    <2>3. CASE /\ sweep[j] = Evicted /\ Present(j)
               /\ refilled(j, buckets[j]).tokens = Limit(j) * Minute
        BY <1>1, <2>1, <2>3 DEF levelNow, Present, Limit
    <2> QED
        BY <2>2, <2>3, SweepKeeps
<1>5. levelNow' = [levelNow EXCEPT ![k] = left]
    <2> HIDE DEF left
    <2> QED BY <1>3, <1>4 DEF levelNow
<1>6. TB!Limited(k)
    BY <1>1 DEF TB!Limited, Limit
<1>7. CASE ok
    BY <1>1, <1>5, <1>6, <1>7 DEF TB!Request, TB!Answer
<1>8. CASE ~ok
    <2>1. levelNow' = levelNow
        BY <1>5, <1>8 DEF levelNow
    <2>2. ok = FALSE /\ left = levelNow[k]
        BY <1>8
    <2>3. answer' = TB!Answer(k, FALSE, levelNow[k])
        BY <1>1, <2>2 DEF TB!Answer
    <2> QED
        BY <1>6, <1>8, <2>1, <2>3 DEF TB!Request
<1> QED
    BY <1>7, <1>8

\* Lazily refilled buckets that a sweep forgets implement buckets that exist for ever
\* and fill with every second: every answer of allow, and what it says remains, is the
\* promised one, for any clients, any budgets (none, zero and negative ones too) and
\* any idle time of at least a minute.
THEOREM RateLimiterRefines == RateSpec => ImplementsTokenBucket
<1>1. RateInit => TB!BucketInit
    <2> SUFFICES ASSUME RateInit PROVE TB!BucketInit
        OBVIOUS
    <2>1. ASSUME NEW k \in RateKeys PROVE levelNow[k] = TB!Full(k)
        <3>1. Limit(k) \in Int /\ ~Present(k) /\ 0 * Minute = 0
            BY LimitType DEF RateInit, Present
        <3> QED
            BY <2>1, <3>1 DEF levelNow, TB!Full, TB!Rate, TB!Limited, Limit
    <2> QED
        BY <2>1 DEF RateInit, TB!BucketInit, TB!BucketKeys, TB!Classes, RateKeys, levelNow, TB!Answer
<1>2. RateTypeOK /\ [RateNext]_rateVars => [TB!BucketNext]_(TB!bucketVars)
    <2> SUFFICES ASSUME RateTypeOK, [RateNext]_rateVars
                 PROVE  [TB!BucketNext]_(TB!bucketVars)
        OBVIOUS
    <2>1. CASE RateTick
        BY <2>1, TickRefills DEF TB!BucketNext
    <2>2. ASSUME NEW k \in RateKeys, allow(k) PROVE TB!BucketNext
        BY <2>2, AllowRequests DEF TB!BucketNext, TB!BucketKeys, TB!Classes, RateKeys
    <2>3. ASSUME NEW k \in RateKeys, allowUnlimited(k) PROVE TB!BucketNext
        <3>1. ~TB!Limited(k) /\ levelNow' = levelNow
            BY <2>3, LimitType DEF allowUnlimited, TB!Limited, levelNow, Present, refilled, Limit
        <3> QED
            BY <2>3, <3>1 DEF allowUnlimited, TB!Unlimited, TB!Answer, TB!BucketNext, TB!BucketKeys,
                              TB!Classes, RateKeys
    <2>4. CASE UNCHANGED rateVars
        BY <2>4 DEF rateVars, TB!bucketVars, levelNow, Present, refilled, Limit
    <2> QED
        BY <2>1, <2>2, <2>3, <2>4 DEF RateNext
<1> QED
    BY <1>1, <1>2, RateTypeCorrect, PTL DEF RateSpec, ImplementsTokenBucket, TB!BucketSpec
==============================================================================
