---------------------------- MODULE ProxyNodeStore ----------------------------
(***************************************************************************)
(* The master's store of Proxy Nodes, users and memberships.               *)
(*                                                                         *)
(* The store keeps two planes.  The topology plane has a draft (nodes, at  *)
(* revision rev) that an edit changes and a rollout turns into the applied *)
(* topology (applied, appliedRev).  The user plane (users, memberships and *)
(* their credentials, at revision urev) takes effect at once, in the       *)
(* middle of a topology edit or of a rollout too.  The two meet in         *)
(*   - the credential of a membership, whose shape is that of the entrance *)
(*     that is applied, with a candidate for the shape of the draft;       *)
(*   - RestoreTopology, which undoes a refused edit and merges the user    *)
(*     decisions taken meanwhile;                                          *)
(*   - the Agents that either plane still refers to when one is removed.   *)
(* internal/proxynode/store.go holds the mutations (operators from a store *)
(* to a store here), deployer.go the reservation and the rollout, and      *)
(* internal/webui the handlers (actions).  Only the entrance of a node is  *)
(* kept; the tree behind it is modelled in ProxyTree.                      *)
(***************************************************************************)
EXTENDS Integers, FiniteSets

CONSTANTS
    StoreNodes,     \* identities of Proxy Nodes
    StoreUsers,     \* identities of end users
    Admin,          \* SystemAdministratorUserID
    StoreAgents,
    Ports,
    Shapes,         \* protocols (and methods) of a listener
    StoreBudgets,   \* edits and removals a behaviour may have
    FirstStores,    \* stores a behaviour may start from
    NoSnapshot      \* the topology plane holds no snapshot

ASSUME StoreConstants ==
    /\ Admin \notin StoreUsers
    /\ Shapes \subseteq {"shadowsocks", "anytls", "hysteria2"}
    /\ StoreBudgets \subseteq [topology : Nat, user : Nat, removals : Nat]

VARIABLES
    store,      \* Store.state
    previous,   \* the Snapshot MutateAndStart took before the edit
    mutating,   \* where the topology plane stands (reservation and job)
    expected,   \* the revision of the edit to take back or of the rollout
    undoing,    \* a refused edit without its reservation: snapshot and revision
    identity,   \* enrolled, removed or force-removed, per Agent
    refused,    \* an operation whose result validateStoredState rejected
    decided,    \* history: the last decision of the user plane per membership,
                \* the identities used, and what roll-backs met (see Restored)
    budget      \* edits and removals left

storeVars == <<store, previous, mutating, expected, undoing, identity, refused, decided, budget>>

Accounts == StoreUsers \cup {Admin}
Keyless == {"anytls"}

\* secrets are stamped with the operation that drew them
Stamps == Nat
Credential == [shape : Shapes, stamp : Stamps]
Membership == [id : Stamps, credential : Credential, pending : SUBSET Credential]
Endpoint == [agent : StoreAgents, port : Ports, shape : Shapes, key : Stamps]

Partial(S, T) == UNION {[D -> T] : D \in SUBSET S}
Node == [entrance : Endpoint, members : Partial(Accounts, Membership)]
Stores == [nodes : Partial(StoreNodes, Node), applied : Partial(StoreNodes, Endpoint),
           users : SUBSET Accounts, admin : BOOLEAN, managed : SUBSET StoreAgents,
           rev : Nat, urev : Nat, appliedRev : Nat, stamp : Stamps]

ASSUME NoSnapshotIsNoStore == NoSnapshot \notin Stores

-----------------------------------------------------------------------------
(* Credentials.                                                            *)

\* the shape users authenticate with now
appliedEntranceEndpoint(s, n) ==
    IF n \in DOMAIN s.applied THEN s.applied[n] ELSE s.nodes[n].entrance

\* mutant: secrets are drawn for the draft only
SecretsForDraft(s, n) ==
    [credential |-> [shape |-> s.nodes[n].entrance.shape, stamp |-> s.stamp], pending |-> {}]

\* a secret for the active shape, and a candidate when the draft differs
Secrets(s, n) ==
    LET active == appliedEntranceEndpoint(s, n).shape
        draft == s.nodes[n].entrance.shape
    IN [credential |-> [shape |-> active, stamp |-> s.stamp],
        pending |-> IF active = draft THEN {}
                    ELSE {[shape |-> draft, stamp |-> s.stamp]}]

newMembership(s, n) ==
    [id |-> s.stamp, credential |-> Secrets(s, n).credential, pending |-> Secrets(s, n).pending]

resetMembershipCredential(s, n, u) ==
    LET m == [s.nodes[n].members[u] EXCEPT !.credential = Secrets(s, n).credential,
                                           !.pending = Secrets(s, n).pending]
    IN [s EXCEPT !.nodes[n].members[u] = m]

-----------------------------------------------------------------------------
(* Physical listeners: entrances with one key share one listener and its   *)
(* generated secret; entrances that claim one socket must have one key.    *)

listenerKey(e) == <<e.agent, e.port, e.shape>>

Networks(shape) == CASE shape = "shadowsocks" -> {"tcp", "udp"}
                     [] shape = "anytls" -> {"tcp"}
                     [] shape = "hysteria2" -> {"udp"}

listenerSocketClaims(e) == {<<e.agent, net, e.port>> : net \in Networks(e.shape)}

validateListenerLayout(s) ==
    \A n, m \in DOMAIN s.nodes :
        LET e == s.nodes[n].entrance
            f == s.nodes[m].entrance
        IN listenerSocketClaims(e) \cap listenerSocketClaims(f) # {}
               => listenerKey(e) = listenerKey(f)

Sharing(s, key) == {n \in DOMAIN s.nodes : listenerKey(s.nodes[n].entrance) = key}

\* a listener that existed before the edit keeps its secret
reconcileSharedListenerSecrets(s, before) ==
    LET KeyOf(n) ==
            LET key == listenerKey(s.nodes[n].entrance)
                from == IF Sharing(before, key) # {} THEN before ELSE s
            IN from.nodes[CHOOSE m \in Sharing(from, key) : TRUE].entrance.key
    IN [s EXCEPT !.nodes = [n \in DOMAIN s.nodes |-> [s.nodes[n] EXCEPT !.entrance.key = KeyOf(n)]]]

\* a membership gets the credential the new shape requires, at once where
\* nothing is deployed and as a candidate elsewhere
memberForShape(s, n, m, old, shape) ==
    LET fresh == [shape |-> shape, stamp |-> s.stamp]
    IN IF n \notin DOMAIN s.applied
       THEN [m EXCEPT !.pending = {}, !.credential = IF shape # old.shape THEN fresh ELSE m.credential]
       ELSE [m EXCEPT !.pending = IF shape # s.applied[n].shape THEN {fresh} ELSE {}]

nodeForListener(s, n, old, port, shape) ==
    LET key == IF shape \in Keyless THEN 0 ELSE IF shape = old.shape THEN old.key ELSE s.stamp
        members == s.nodes[n].members
    IN [entrance |-> [s.nodes[n].entrance EXCEPT !.port = port, !.shape = shape, !.key = key],
        members |-> [u \in DOMAIN members |-> memberForShape(s, n, members[u], old, shape)]]

\* one listener changes for all the entrances that share it
applySharedListenerEdit(s, target, port, shape) ==
    LET old == s.nodes[target].entrance
    IN [s EXCEPT !.nodes = [n \in DOMAIN s.nodes |->
            IF n \in Sharing(s, listenerKey(old)) THEN nodeForListener(s, n, old, port, shape)
            ELSE s.nodes[n]]]

-----------------------------------------------------------------------------
(* What may be stored.                                                     *)

MembershipFits(s, n, m) ==
    \A c \in (IF m.pending # {} THEN m.pending ELSE {m.credential}) :
        c.shape = s.nodes[n].entrance.shape

validateState(s) ==
    \A n \in DOMAIN s.nodes :
        /\ DOMAIN s.nodes[n].members \subseteq s.users
        /\ \A u \in DOMAIN s.nodes[n].members : MembershipFits(s, n, s.nodes[n].members[u])

validateStoredState(s) ==
    /\ validateState(s)
    /\ s.admin <=> Admin \in s.users
    /\ \A n \in DOMAIN s.nodes : s.admin <=> Admin \in DOMAIN s.nodes[n].members

-----------------------------------------------------------------------------
(* Mutations of the store.                                                 *)

Without(f, D) == [x \in DOMAIN f \ D |-> f[x]]
With(f, x, y) == [z \in DOMAIN f \cup {x} |-> IF z = x THEN y ELSE f[z]]
Stamped(s) == [s EXCEPT !.stamp = @ + 1]

mutate(s, next) ==
    [reconcileSharedListenerSecrets(next, s) EXCEPT !.rev = @ + 1]

mutateUser(next) == [next EXCEPT !.urev = @ + 1]

emptyNode(s, agent, port, shape) ==
    [entrance |-> [agent |-> agent, port |-> port, shape |-> shape,
                   key |-> IF shape \in Keyless THEN 0 ELSE s.stamp],
     members |-> [u \in {} |-> {}]]

superviseNode(s, n) ==
    [s EXCEPT !.nodes[n].members = With(@, Admin, newMembership(s, n)), !.urev = @ + 1]

CreateProxyNode(s, n, agent, port, shape) ==
    LET t == Stamped(s)
        bare == [t EXCEPT !.nodes = With(@, n, emptyNode(t, agent, port, shape))]
    IN IF s.admin THEN superviseNode(bare, n) ELSE bare

DeleteProxyNode(s, n) == [s EXCEPT !.nodes = Without(@, {n}), !.urev = @ + 1]
UpdateEntrance(s, n, port, shape) == applySharedListenerEdit(Stamped(s), n, port, shape)
MoveEntrance(s, n, agent) == [s EXCEPT !.nodes[n].entrance.agent = agent]

CreateUser(s, u) == [s EXCEPT !.users = @ \cup {u}]

DeleteUser(s, u) ==
    [s EXCEPT !.users = @ \ {u},
              !.nodes = [n \in DOMAIN s.nodes |->
                  [s.nodes[n] EXCEPT !.members = Without(s.nodes[n].members, {u})]]]

AddMembership(s, n, u) ==
    LET t == Stamped(s) IN [t EXCEPT !.nodes[n].members = With(@, u, newMembership(t, n))]

RemoveMembership(s, n, u) == [s EXCEPT !.nodes[n].members = Without(@, {u})]

ResetMembershipCredential(s, n, u) == resetMembershipCredential(Stamped(s), n, u)

ResetUserCredentials(s, u) ==
    LET t == Stamped(s)
    IN [t EXCEPT !.nodes = [n \in DOMAIN t.nodes |->
            IF u \in DOMAIN t.nodes[n].members THEN resetMembershipCredential(t, n, u).nodes[n]
            ELSE t.nodes[n]]]

\* every node of the draft gets an administrator membership
ensureSystemAdministrator(s) ==
    LET t == Stamped(s)
    IN [t EXCEPT !.users = @ \cup {Admin}, !.admin = TRUE,
                 !.nodes = [n \in DOMAIN t.nodes |->
                     [t.nodes[n] EXCEPT !.members = With(t.nodes[n].members, Admin, newMembership(t, n))]]]

removeSystemAdministrator(s) == [DeleteUser(s, Admin) EXCEPT !.admin = FALSE]

\* mutant: the user revision is kept
MarkTopologyAppliedKeepsUserRevision(s) ==
    [s EXCEPT !.applied = [n \in DOMAIN s.nodes |-> s.nodes[n].entrance], !.appliedRev = s.rev]

\* pending credentials become active with the listeners they were drawn for
Promoted(m) ==
    IF m.pending = {} THEN m
    ELSE [m EXCEPT !.credential = CHOOSE c \in m.pending : TRUE, !.pending = {}]

MarkTopologyApplied(s) ==
    LET PromotedMembers(members) == [u \in DOMAIN members |-> Promoted(members[u])]
    IN [s EXCEPT !.nodes = [n \in DOMAIN s.nodes |->
                    [s.nodes[n] EXCEPT !.members = PromotedMembers(s.nodes[n].members)]],
                 !.applied = [n \in DOMAIN s.nodes |-> s.nodes[n].entrance],
                 !.managed = {s.nodes[n].entrance.agent : n \in DOMAIN s.nodes},
                 !.appliedRev = s.rev,
                 !.urev = @ + 1]

\* mutant: the memberships of the snapshot are matched by user
mergeByUser(old, live) == [u \in DOMAIN live |-> IF u \in DOMAIN old THEN old[u] ELSE live[u]]

\* the live membership decides who is a member and with which live credential;
\* a membership of both keeps the candidate it had before the edit
mergeRestoredMemberships(old, live) ==
    [u \in DOMAIN live |->
        IF u \in DOMAIN old /\ old[u].id = live[u].id
        THEN [old[u] EXCEPT !.credential = live[u].credential]
        ELSE [live[u] EXCEPT !.pending = {}]]

\* members of a node of the snapshot, those of users that are gone left out
restoredMembers(s, before, n) ==
    LET members == IF n \in DOMAIN s.nodes
                   THEN mergeRestoredMemberships(before.nodes[n].members, s.nodes[n].members)
                   ELSE before.nodes[n].members
    IN Without(members, Accounts \ s.users)

RestoreTopology(s, before) ==
    [s EXCEPT !.nodes = [n \in DOMAIN before.nodes |->
                 [before.nodes[n] EXCEPT !.members = restoredMembers(s, before, n)]],
              !.rev = @ + 1, !.urev = @ + 1]

\* what the Agents are told: the applied entrances with the live members of
\* the nodes that still exist
CompileAppliedUsers(s) ==
    [n \in DOMAIN s.applied |->
        [entrance |-> s.applied[n],
         users |-> IF n \notin DOMAIN s.nodes THEN {}
                   ELSE {<<u, s.nodes[n].members[u].credential>> : u \in DOMAIN s.nodes[n].members}]]

-----------------------------------------------------------------------------
(* The user plane: handlers of users and memberships.  They are refused    *)
(* neither by a reservation nor by a rollout.                              *)

Pairs == StoreNodes \X Accounts

\* the decision is remembered for each pair in P
Decide(P, kind) == [decided EXCEPT !.at = [p \in Pairs |-> IF p \in P THEN store.stamp ELSE @[p]],
                                   !.kind = [p \in Pairs |-> IF p \in P THEN kind ELSE @[p]]]

UserEdit(next) ==
    /\ budget.user > 0
    /\ budget' = [budget EXCEPT !.user = @ - 1]
    /\ IF validateStoredState(mutateUser(next))
       THEN store' = mutateUser(next) /\ UNCHANGED refused
       ELSE refused' = "user edit" /\ UNCHANGED store
    /\ UNCHANGED <<previous, mutating, expected, undoing, identity>>

Member(n, u) == n \in DOMAIN store.nodes /\ u \in DOMAIN store.nodes[n].members

createEndUser(u) ==
    /\ u \notin decided.born
    /\ UserEdit(CreateUser(store, u))
    /\ decided' = [decided EXCEPT !.born = @ \cup {u}]

deleteEndUser(u) ==
    /\ u \in store.users
    /\ UserEdit(DeleteUser(store, u))
    /\ decided' = Decide(StoreNodes \X {u}, "removed")

addProxyNodeUser(n, u) ==
    /\ n \in DOMAIN store.nodes /\ u \in store.users /\ ~Member(n, u)
    /\ UserEdit(AddMembership(store, n, u))
    /\ decided' = Decide({<<n, u>>}, "added")

removeProxyNodeUser(n, u) ==
    /\ Member(n, u)
    /\ UserEdit(RemoveMembership(store, n, u))
    /\ decided' = Decide({<<n, u>>}, "removed")

resetProxyNodeUserCredential(n, u) ==
    /\ Member(n, u)
    /\ UserEdit(ResetMembershipCredential(store, n, u))
    /\ decided' = Decide({<<n, u>>}, "reset")

\* every membership the user has, or has had and not lost
resetEndUserCredentials(u) ==
    /\ u \in store.users
    /\ UserEdit(ResetUserCredentials(store, u))
    /\ decided' = Decide({p \in StoreNodes \X {u} : decided.kind[p] \in {"added", "reset"}}, "reset")

SetAdministratorProxyAccess(enabled) ==
    /\ store.admin # enabled
    /\ UserEdit(IF enabled THEN ensureSystemAdministrator(store) ELSE removeSystemAdministrator(store))
    /\ UNCHANGED decided

UserPlane ==
    \/ \E u \in StoreUsers :
        \/ createEndUser(u)
        \/ deleteEndUser(u)
        \/ resetEndUserCredentials(u)
        \/ \E n \in StoreNodes :
            \/ addProxyNodeUser(n, u)
            \/ removeProxyNodeUser(n, u)
            \/ resetProxyNodeUserCredential(n, u)
    \/ \E enabled \in BOOLEAN : SetAdministratorProxyAccess(enabled)

-----------------------------------------------------------------------------
(* The topology plane.  MutateAndStart reserves it, takes a snapshot, runs *)
(* the edit, looks for Agents it newly misses and starts the rollout, in   *)
(* steps the user plane interleaves.                                       *)

NothingToUndo == [before |-> NoSnapshot, rev |-> 0]

Reserve ==
    /\ mutating = "idle" /\ budget.topology > 0
    /\ mutating' = "reserved" /\ previous' = store
    /\ budget' = [budget EXCEPT !.topology = @ - 1]
    /\ UNCHANGED <<store, expected, undoing, identity, refused, decided>>

\* the reservation is given back
Release == mutating' = "idle" /\ previous' = NoSnapshot /\ expected' = 0

TopologyEdit(next) ==
    /\ mutating = "reserved"
    /\ LET s == mutate(store, next)
       IN IF validateStoredState(s)
          THEN store' = s /\ mutating' = "mutated" /\ UNCHANGED <<previous, expected, refused>>
          ELSE Release /\ refused' = "topology edit" /\ UNCHANGED store
    /\ UNCHANGED <<undoing, identity, budget>>

createProxyNode(n, agent, port, shape) ==
    /\ n \notin decided.born
    /\ validateListenerLayout(CreateProxyNode(store, n, agent, port, shape))
    /\ TopologyEdit(CreateProxyNode(store, n, agent, port, shape))
    /\ decided' = [decided EXCEPT !.born = @ \cup {n}]

renameProxyNode(n) ==
    /\ n \in DOMAIN store.nodes
    /\ TopologyEdit(store)
    /\ UNCHANGED decided

deleteProxyNode(n) ==
    /\ n \in DOMAIN store.nodes
    /\ TopologyEdit(DeleteProxyNode(store, n))
    /\ UNCHANGED decided

updateProxyEntrance(n, port, shape) ==
    /\ n \in DOMAIN store.nodes
    /\ validateListenerLayout(UpdateEntrance(store, n, port, shape))
    /\ TopologyEdit(UpdateEntrance(store, n, port, shape))
    /\ UNCHANGED decided

\* updateProxyHop of the root
moveProxyEntrance(n, agent) ==
    /\ n \in DOMAIN store.nodes
    /\ validateListenerLayout(MoveEntrance(store, n, agent))
    /\ TopologyEdit(MoveEntrance(store, n, agent))
    /\ UNCHANGED decided

\* an edit that is not found or conflicts gives the reservation back
RefuseMutation ==
    /\ mutating = "reserved"
    /\ Release
    /\ UNCHANGED <<store, undoing, identity, refused, decided, budget>>

\* references of the draft to Agents without an identity that the snapshot
\* did not have
newlyMissingDesiredAgents ==
    {n \in DOMAIN store.nodes :
        /\ identity[store.nodes[n].entrance.agent] # "enrolled"
        /\ n \in DOMAIN previous.nodes =>
               previous.nodes[n].entrance.agent # store.nodes[n].entrance.agent}

InspectEdit ==
    /\ mutating = "mutated"
    /\ mutating' = IF newlyMissingDesiredAgents = {} THEN "edited" ELSE "doomed"
    /\ expected' = store.rev
    /\ UNCHANGED <<store, previous, undoing, identity, refused, decided, budget>>

\* shapes that are deployed for a node
Deployed(s, n) == {s.applied[k].shape : k \in {n} \cap DOMAIN s.applied}

\* RestoreTopology under the revision the store has.  Remembered: the nodes it
\* brings back, and those something else was deployed for meanwhile.
Restored(before) ==
    LET s == RestoreTopology(store, before)
    IN IF validateStoredState(s)
       THEN /\ store' = s /\ UNCHANGED refused
            /\ decided' = [decided EXCEPT
                    !.revived = @ \cup (DOMAIN before.nodes \ DOMAIN store.nodes),
                    !.overtaken = @ \cup {n \in DOMAIN before.nodes : Deployed(before, n) # Deployed(store, n)}]
       ELSE refused' = "restore" /\ UNCHANGED <<store, decided>>

\* an edit that names a missing Agent is undone under its reservation, unless
\* the revision has moved
RejectEdit ==
    /\ mutating = "doomed"
    /\ \/ store.rev = expected /\ Restored(previous)
       \/ store.rev # expected /\ UNCHANGED <<store, refused, decided>>
    /\ Release
    /\ UNCHANGED <<undoing, identity, budget>>

\* start() fails, and gives the reservation back before the edit is undone;
\* one such edit at a time is waiting
RefuseStart ==
    /\ mutating = "edited" /\ undoing = NothingToUndo
    /\ undoing' = [before |-> previous, rev |-> store.rev]
    /\ Release
    /\ UNCHANGED <<store, identity, refused, decided, budget>>

\* MutateAndStart reads the revision and restores the snapshot.  A revision
\* that moved after it was read is a conflict; one that moved before is not.
UndoEdit ==
    /\ undoing # NothingToUndo
    /\ \/ Restored(undoing.before)
       \/ store.rev # undoing.rev /\ UNCHANGED <<store, refused, decided>>
    /\ undoing' = NothingToUndo
    /\ UNCHANGED <<previous, mutating, expected, identity, budget>>

\* the rollout of the draft starts, or waits for an Agent
start ==
    /\ \/ mutating = "edited"
       \/ mutating = "idle" /\ store.rev # store.appliedRev
    /\ mutating' = "deploying" /\ expected' = store.rev /\ previous' = NoSnapshot
    /\ UNCHANGED <<store, undoing, identity, refused, decided, budget>>

pendingTopologyDeployment ==
    /\ mutating = "edited"
    /\ Release
    /\ UNCHANGED <<store, undoing, identity, refused, decided, budget>>

\* MarkTopologyApplied refuses a revision that has moved; a failed rollout
\* leaves the draft where it is
finish(applied) ==
    /\ mutating = "deploying"
    /\ IF applied /\ store.rev = expected
       THEN IF validateStoredState(MarkTopologyApplied(store))
            THEN store' = MarkTopologyApplied(store) /\ UNCHANGED refused
            ELSE refused' = "commit" /\ UNCHANGED store
       ELSE UNCHANGED <<store, refused>>
    /\ Release
    /\ UNCHANGED <<undoing, identity, decided, budget>>

-----------------------------------------------------------------------------
(* The removal of an Agent, under the reservation of the topology plane.   *)

Referenced(s) ==
    {s.nodes[n].entrance.agent : n \in DOMAIN s.nodes}
        \cup {s.applied[n].agent : n \in DOMAIN s.applied} \cup s.managed

RequireAgentUnreferenced(a) == a \notin Referenced(store)

\* Agents a refused edit that still has to be undone brings back
Returning == IF undoing = NothingToUndo THEN {} ELSE Referenced(undoing.before)

GuardAgentRemoval(a, force) ==
    /\ mutating = "idle" /\ identity[a] = "enrolled" /\ budget.removals > 0
    /\ force \/ RequireAgentUnreferenced(a)
    /\ mutating' = IF force THEN "forcing" ELSE "removing"
    /\ identity' = [identity EXCEPT ![a] = "leaving"]
    /\ decided' = [decided EXCEPT !.raced = @ \cup ({a} \cap Returning)]
    /\ budget' = [budget EXCEPT !.removals = @ - 1]
    /\ UNCHANGED <<store, previous, expected, undoing, refused>>

\* the registry answers later, without the lock of the deployer
RemoveIdentity(a) ==
    /\ identity[a] = "leaving"
    /\ identity' = [identity EXCEPT ![a] = IF mutating = "forcing" THEN "forced" ELSE "removed"]
    /\ mutating' = "idle"
    /\ UNCHANGED <<store, previous, expected, undoing, refused, decided, budget>>

-----------------------------------------------------------------------------

StoreInit ==
    /\ store \in FirstStores
    /\ previous = NoSnapshot
    /\ mutating = "idle" /\ expected = 0 /\ undoing = NothingToUndo /\ refused = "none"
    /\ identity = [a \in StoreAgents |-> "enrolled"]
    /\ decided = [at |-> [p \in Pairs |-> -1],
                  kind |-> [p \in Pairs |-> IF Member(p[1], p[2]) THEN "added" ELSE "removed"],
                  born |-> store.users \cup DOMAIN store.nodes \cup DOMAIN store.applied,
                  revived |-> {}, overtaken |-> {}, raced |-> {}]
    /\ budget \in StoreBudgets

TopologyPlane ==
    \/ Reserve
    \/ \E n \in StoreNodes :
        \/ renameProxyNode(n)
        \/ deleteProxyNode(n)
        \/ \E port \in Ports, shape \in Shapes :
            \/ updateProxyEntrance(n, port, shape)
            \/ \E agent \in StoreAgents : createProxyNode(n, agent, port, shape)
        \/ \E agent \in StoreAgents : moveProxyEntrance(n, agent)
    \/ RefuseMutation
    \/ InspectEdit
    \/ RejectEdit
    \/ RefuseStart
    \/ UndoEdit
    \/ start
    \/ pendingTopologyDeployment
    \/ \E applied \in BOOLEAN : finish(applied)
    \/ \E a \in StoreAgents :
        \/ \E force \in BOOLEAN : GuardAgentRemoval(a, force)
        \/ RemoveIdentity(a)

StoreNext == UserPlane \/ TopologyPlane

StoreSpec == StoreInit /\ [][StoreNext]_storeVars

-----------------------------------------------------------------------------
(* Properties.                                                             *)

IsPartial(f, S) == DOMAIN f \subseteq S /\ f = [x \in DOMAIN f |-> f[x]]

\* s \in Stores, in a form that enumerates nothing
IsTyped(s) ==
    /\ s \in [nodes : {s.nodes}, applied : {s.applied}, users : SUBSET Accounts, admin : BOOLEAN,
              managed : SUBSET StoreAgents, rev : Nat, urev : Nat, appliedRev : Nat, stamp : Stamps]
    /\ IsPartial(s.applied, StoreNodes) /\ \A n \in DOMAIN s.applied : s.applied[n] \in Endpoint
    /\ IsPartial(s.nodes, StoreNodes)
    /\ \A n \in DOMAIN s.nodes :
          LET members == s.nodes[n].members
          IN /\ s.nodes[n] \in [entrance : Endpoint, members : {members}]
             /\ IsPartial(members, Accounts)
             /\ \A u \in DOMAIN members : members[u] \in Membership

IsStore(s) ==
    /\ IsTyped(s) /\ s.appliedRev <= s.rev
    /\ \A n \in DOMAIN s.nodes : \A u \in DOMAIN s.nodes[n].members :
          Cardinality(s.nodes[n].members[u].pending) < 2
    /\ validateStoredState(s)

LiveAt(s, n) ==
    \A u \in DOMAIN s.nodes[n].members :
        s.nodes[n].members[u].credential.shape = appliedEntranceEndpoint(s, n).shape

CredentialsLive(s) == \A n \in DOMAIN s.nodes : LiveAt(s, n)

ListenersAgree(s) ==
    /\ validateListenerLayout(s)
    /\ \A n, m \in DOMAIN s.nodes :
        listenerKey(s.nodes[n].entrance) = listenerKey(s.nodes[m].entrance)
            => s.nodes[n].entrance.key = s.nodes[m].entrance.key

\* A membership is no younger than its secrets, and none is drawn for later
\* where nothing is deployed.
SecretsDrawn(s) ==
    \A n \in DOMAIN s.nodes : \A u \in DOMAIN s.nodes[n].members :
        LET m == s.nodes[n].members[u]
        IN /\ m.id <= s.stamp /\ \A c \in {m.credential} \cup m.pending : m.id <= c.stamp
           /\ n \notin DOMAIN s.applied => m.pending = {}

\* A behaviour starts from a store the mutations can lead to.
ASSUME FirstStoresAreSound ==
    \A s \in FirstStores : IsStore(s) /\ CredentialsLive(s) /\ ListenersAgree(s) /\ SecretsDrawn(s)

\* Type invariant: the store and the snapshots of an edit in progress and of a
\* refused one are well formed and pass validateStoredState.
StoreTypeOK ==
    /\ IsStore(store)
    /\ previous # NoSnapshot => IsStore(previous)
    /\ previous # NoSnapshot <=> mutating \in {"reserved", "mutated", "edited", "doomed"}
    /\ undoing # NothingToUndo => undoing.before # NoSnapshot /\ IsStore(undoing.before)
    /\ identity \in [StoreAgents -> {"enrolled", "leaving", "removed", "forced"}]

\* An operation whose conditions hold is never refused by validateStoredState,
\* whatever edits, rollouts, roll-backs and user decisions came before it.  Not
\* so once a roll-back found something else deployed than its snapshot.
OperationsAreAccepted ==
    decided.overtaken = {} => refused \notin {"user edit", "topology edit", "commit"}

\* The live credential of a member always has the shape of the entrance that
\* is deployed (of the draft when none is), in the middle of an edit that
\* changes the shape, and after it was applied or undone.
LiveCredentialFits == \A n \in DOMAIN store.nodes \ decided.overtaken : LiveAt(store, n)

\* Entrances on one socket share one listener and its secret, after any
\* sequence of edits, creations, moves and roll-backs.
SharedListenersAgree == ListenersAgree(store)

\* Who is a member of a node is what the user plane decided last: neither an
\* edit nor its roll-back adds or removes anybody.  The roll-back of a deleted
\* node has no live memberships to merge, see RemovalsSurviveRestores.
DecisionsSurviveEdits ==
    \A n \in DOMAIN store.nodes \ decided.revived, u \in StoreUsers :
        Member(n, u) <=> decided.kind[<<n, u>>] \in {"added", "reset"}

\* A membership that was removed and granted again never gets a secret from
\* before the removal back, be it live or pending.
RemovedStaysDead ==
    \A n \in DOMAIN store.nodes \ decided.revived, u \in StoreUsers :
        Member(n, u) /\ decided.kind[<<n, u>>] = "added" =>
            LET m == store.nodes[n].members[u]
            IN \A c \in {m.credential} \cup m.pending : c.stamp > decided.at[<<n, u>>]

\* An Agent whose removal was not forced is referred to by neither plane
\* afterwards; an edit that names it is undone.  Not so for an Agent whose last
\* reference was gone only until a refused edit is undone (deployer.go:428).
RemovedAgentsUnreferenced ==
    LET gone == {a \in StoreAgents : identity[a] = "removed"} \ decided.raced
    IN mutating \in {"mutated", "doomed"} \/ refused = "restore" \/ Referenced(store) \cap gone = {}

\* Every Agent is told secrets its listeners accept: the live credentials and
\* the secrets of shared listeners fit, and no accepted operation is refused
\* when it is saved (validateStoredState, reconcileSharedListenerSecrets).
CredentialsFit ==
    /\ StoreTypeOK
    /\ OperationsAreAccepted
    /\ LiveCredentialFits
    /\ SharedListenersAgree

\* What was decided about users and Agents outlives edits and their roll-backs
\* (mergeRestoredMemberships, RequireAgentUnreferenced).
DecisionsHold ==
    /\ DecisionsSurviveEdits
    /\ RemovedStaysDead
    /\ RemovedAgentsUnreferenced

\* The members of a Proxy Node are those that were decided on, with secrets
\* their Agents accept, at every moment of an edit, its rollout and its undoing.
MembersAreKept == CredentialsFit /\ DecisionsHold

\* What the Agents must be told never changes under an old user revision.
AuthorityHasRevision ==
    [][CompileAppliedUsers(store') # CompileAppliedUsers(store) => store'.urev > store.urev]_storeVars

\* deployer.go:287: the reference check of a removal is atomic, so that no edit,
\* made or undone, leaves a reference to an Agent that was removed unforced.
ReferenceCheckIsAtomic ==
    LET gone == {a \in StoreAgents : identity[a] = "removed"}
    IN mutating \in {"mutated", "doomed"} \/ refused = "restore" \/ Referenced(store) \cap gone = {}

\* deployer.go:379: an edit refused when its rollout is started is undone.
RefusedEditIsUndone == refused # "restore"

\* store.go:1490: what was removed while an edit ran stays removed when the
\* edit is undone.
RemovalsSurviveRestores ==
    \A n \in DOMAIN store.nodes, u \in StoreUsers :
        Member(n, u) => decided.kind[<<n, u>>] # "removed"

\* store.go:777: a secret that was reset never becomes live or pending again.
ResetStaysDead ==
    \A n \in DOMAIN store.nodes, u \in StoreUsers :
        Member(n, u) /\ decided.kind[<<n, u>>] = "reset" =>
            LET m == store.nodes[n].members[u]
            IN \A c \in {m.credential} \cup m.pending : c.stamp > decided.at[<<n, u>>]
=============================================================================
