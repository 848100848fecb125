------------------------ MODULE ProxyNodeStoreProofs ------------------------
(***************************************************************************)
(* The members of a Proxy Node are those that were decided on, with        *)
(* secrets their Agents accept, proved for every set of nodes, users,      *)
(* Agents, ports and listener shapes and any number of edits.              *)
(*                                                                         *)
(* A store is Kept when every membership of it is Sound: its live secret   *)
(* has the shape that is deployed, the one that will be live has the shape *)
(* of the draft, and neither is older than the membership.  Each mutation  *)
(* is a lemma from a kept store to a kept store.  What the user plane does *)
(* leaves the topology alone (SameTopology), and what the topology plane   *)
(* does leaves the memberships to the user plane (DecisionInv), for an     *)
(* identity is never used again and a membership of both the snapshot and  *)
(* the live store is told apart by its id.                                 *)
(***************************************************************************)
EXTENDS ProxyNodeStore, FiniteSetTheorems, TLAPS

-----------------------------------------------------------------------------
(* Partial functions.                                                      *)

LEMMA PartialFacts ==
    ASSUME NEW S, NEW T, NEW f
    PROVE  f \in Partial(S, T) <=> DOMAIN f \subseteq S /\ f \in [DOMAIN f -> T]
BY DEF Partial

-----------------------------------------------------------------------------
(* Stores.                                                                 *)

Members == Partial(Accounts, Membership)

LEMMA MembersWithout ==
    ASSUME NEW f \in Members, NEW D
    PROVE  /\ Without(f, D) \in Members
           /\ DOMAIN Without(f, D) = DOMAIN f \ D
           /\ \A x \in DOMAIN f \ D : Without(f, D)[x] = f[x]
<1>1. DOMAIN f \subseteq Accounts /\ f \in [DOMAIN f -> Membership]
  BY PartialFacts DEF Members
<1>2. Without(f, D) \in [DOMAIN f \ D -> Membership] /\ DOMAIN Without(f, D) = DOMAIN f \ D
  BY <1>1 DEF Without
<1> QED
  BY <1>1, <1>2, PartialFacts DEF Without, Members

LEMMA MembersWith ==
    ASSUME NEW f \in Members, NEW x \in Accounts, NEW y \in Membership
    PROVE  /\ With(f, x, y) \in Members
           /\ DOMAIN With(f, x, y) = DOMAIN f \cup {x}
           /\ With(f, x, y)[x] = y
           /\ \A z \in DOMAIN f \ {x} : With(f, x, y)[z] = f[z]
<1>1. DOMAIN f \subseteq Accounts /\ f \in [DOMAIN f -> Membership]
  BY PartialFacts DEF Members
<1>2. With(f, x, y) \in [DOMAIN f \cup {x} -> Membership] /\ DOMAIN With(f, x, y) = DOMAIN f \cup {x}
  BY <1>1 DEF With
<1> QED
  BY <1>1, <1>2, PartialFacts DEF With, Members

LEMMA StoreFacts ==
    ASSUME NEW s \in Stores
    PROVE  /\ DOMAIN s.nodes \subseteq StoreNodes /\ s.nodes \in [DOMAIN s.nodes -> Node]
           /\ DOMAIN s.applied \subseteq StoreNodes /\ s.applied \in [DOMAIN s.applied -> Endpoint]
           /\ s.users \subseteq Accounts /\ s.admin \in BOOLEAN /\ s.managed \subseteq StoreAgents
           /\ s.rev \in Nat /\ s.urev \in Nat /\ s.appliedRev \in Nat /\ s.stamp \in Nat
BY PartialFacts DEF Stores, Stamps

LEMMA NodeFacts ==
    ASSUME NEW s \in Stores, NEW n \in DOMAIN s.nodes
    PROVE  /\ n \in StoreNodes /\ s.nodes[n] \in Node
           /\ s.nodes[n].entrance \in Endpoint /\ s.nodes[n].members \in Members
           /\ DOMAIN s.nodes[n].members \subseteq Accounts
           /\ s.nodes[n].members \in [DOMAIN s.nodes[n].members -> Membership]
<1>1. n \in StoreNodes /\ s.nodes[n] \in Node
  BY StoreFacts
<1>2. s.nodes[n].entrance \in Endpoint /\ s.nodes[n].members \in Members
  BY <1>1 DEF Node, Members
<1> QED
  BY <1>1, <1>2, PartialFacts DEF Members

(* A store of which only the draft, the users and the counters differ.     *)
Changed(s, nodes, users, admin, rev, urev, stamp) ==
    [nodes |-> nodes, applied |-> s.applied, users |-> users, admin |-> admin, managed |-> s.managed,
     rev |-> rev, urev |-> urev, appliedRev |-> s.appliedRev, stamp |-> stamp]

LEMMA ChangedFields ==
    ASSUME NEW s, NEW nodes, NEW users, NEW admin, NEW rev, NEW urev, NEW stamp,
           NEW t, t = Changed(s, nodes, users, admin, rev, urev, stamp)
    PROVE  /\ t.nodes = nodes /\ t.users = users /\ t.admin = admin
           /\ t.rev = rev /\ t.urev = urev /\ t.stamp = stamp
           /\ t.applied = s.applied /\ t.managed = s.managed /\ t.appliedRev = s.appliedRev
BY DEF Changed

LEMMA ChangedFacts ==
    ASSUME NEW s \in Stores, NEW nodes, NEW users \in SUBSET Accounts, NEW admin \in BOOLEAN,
           NEW rev \in Nat, NEW urev \in Nat, NEW stamp \in Nat,
           DOMAIN nodes \subseteq StoreNodes, nodes \in [DOMAIN nodes -> Node]
    PROVE  Changed(s, nodes, users, admin, rev, urev, stamp) \in Stores
<1>1. nodes \in Partial(StoreNodes, Node)
  BY PartialFacts
<1> QED
  BY <1>1 DEF Stores, Stamps, Changed

(* What a membership has to keep.                                          *)
Sound(s, n, m) ==
    /\ m.credential.shape = appliedEntranceEndpoint(s, n).shape
    /\ n \notin DOMAIN s.applied => m.pending = {}
    /\ Cardinality(m.pending) < 2
    /\ MembershipFits(s, n, m)
    /\ m.id <= s.stamp
    /\ \A c \in {m.credential} \cup m.pending : m.id <= c.stamp

MembersSound(s) ==
    \A n \in DOMAIN s.nodes :
        /\ DOMAIN s.nodes[n].members \subseteq s.users
        /\ s.admin <=> Admin \in DOMAIN s.nodes[n].members
        /\ \A u \in DOMAIN s.nodes[n].members : Sound(s, n, s.nodes[n].members[u])

Kept(s) ==
    /\ s \in Stores /\ s.appliedRev <= s.rev
    /\ s.admin <=> Admin \in s.users
    /\ MembersSound(s)
    /\ ListenersAgree(s)

(* It is what the store promises of itself.                                *)
LEMMA TypedFacts ==
    ASSUME NEW s
    PROVE  IsTyped(s) <=> s \in Stores
<1>1. ASSUME IsTyped(s)
      PROVE  s \in Stores
  <2>1. ASSUME NEW n \in DOMAIN s.nodes
        PROVE  s.nodes[n] \in Node
    <3> DEFINE members == s.nodes[n].members
    <3>1. /\ s.nodes[n] \in [entrance : Endpoint, members : {members}]
          /\ DOMAIN members \subseteq Accounts /\ members = [u \in DOMAIN members |-> members[u]]
          /\ \A u \in DOMAIN members : members[u] \in Membership
      BY <1>1 DEF IsTyped, IsPartial
    <3> HIDE DEF members
    <3>2. members \in [DOMAIN members -> Membership]
      BY <3>1
    <3>3. members \in Partial(Accounts, Membership)
      BY <3>1, <3>2, PartialFacts
    <3> QED
      BY <3>1, <3>3 DEF Node
  <2>2. s.nodes \in Partial(StoreNodes, Node)
    <3>1. DOMAIN s.nodes \subseteq StoreNodes /\ s.nodes = [n \in DOMAIN s.nodes |-> s.nodes[n]]
      BY <1>1 DEF IsTyped, IsPartial
    <3> QED
      BY <2>1, <3>1, PartialFacts
  <2>3. s.applied \in Partial(StoreNodes, Endpoint)
    <3>1. /\ DOMAIN s.applied \subseteq StoreNodes /\ s.applied = [n \in DOMAIN s.applied |-> s.applied[n]]
          /\ \A n \in DOMAIN s.applied : s.applied[n] \in Endpoint
      BY <1>1 DEF IsTyped, IsPartial
    <3> QED
      BY <3>1, PartialFacts
  <2>4. s \in [nodes : {s.nodes}, applied : {s.applied}, users : SUBSET Accounts, admin : BOOLEAN,
               managed : SUBSET StoreAgents, rev : Nat, urev : Nat, appliedRev : Nat, stamp : Stamps]
    BY <1>1 DEF IsTyped
  <2> QED
    BY <2>2, <2>3, <2>4 DEF Stores
<1>2. ASSUME s \in Stores
      PROVE  IsTyped(s)
  <2>1. s \in [nodes : {s.nodes}, applied : {s.applied}, users : SUBSET Accounts, admin : BOOLEAN,
               managed : SUBSET StoreAgents, rev : Nat, urev : Nat, appliedRev : Nat, stamp : Stamps]
    BY <1>2 DEF Stores
  <2>2. IsPartial(s.applied, StoreNodes) /\ \A n \in DOMAIN s.applied : s.applied[n] \in Endpoint
    BY <1>2, StoreFacts DEF IsPartial
  <2>3. IsPartial(s.nodes, StoreNodes)
    BY <1>2, StoreFacts DEF IsPartial
  <2>4. ASSUME NEW n \in DOMAIN s.nodes
        PROVE  /\ s.nodes[n] \in [entrance : Endpoint, members : {s.nodes[n].members}]
               /\ IsPartial(s.nodes[n].members, Accounts)
               /\ \A u \in DOMAIN s.nodes[n].members : s.nodes[n].members[u] \in Membership
    <3>1. /\ s.nodes[n] \in Node /\ DOMAIN s.nodes[n].members \subseteq Accounts
          /\ s.nodes[n].members \in [DOMAIN s.nodes[n].members -> Membership]
      BY <1>2, NodeFacts
    <3> QED
      BY <3>1 DEF Node, IsPartial
  <2> QED
    BY <2>1, <2>2, <2>3, <2>4 DEF IsTyped
<1> QED
  BY <1>1, <1>2

LEMMA KeptFacts ==
    ASSUME NEW s
    PROVE  Kept(s) <=> IsStore(s) /\ CredentialsLive(s) /\ ListenersAgree(s) /\ SecretsDrawn(s)
BY TypedFacts DEF Kept, IsStore, CredentialsLive, LiveAt, SecretsDrawn, MembersSound, Sound,
                  validateStoredState, validateState

(* Soundness of a membership looks at nothing but the deployed entrance,   *)
(* the shape of the draft and the counter of the stamps.                   *)
LEMMA SoundKept ==
    ASSUME NEW s \in Stores, NEW t \in Stores, NEW n \in DOMAIN s.nodes, n \in DOMAIN t.nodes,
           t.applied = s.applied \/ Deployed(t, n) = Deployed(s, n),
           t.nodes[n].entrance.shape = s.nodes[n].entrance.shape,
           s.stamp <= t.stamp,
           NEW m \in Membership, Sound(s, n, m)
    PROVE  Sound(t, n, m)
<1>0. n \in DOMAIN t.applied <=> n \in DOMAIN s.applied
  BY DEF Deployed
<1>1. appliedEntranceEndpoint(t, n).shape = appliedEntranceEndpoint(s, n).shape
  BY <1>0 DEF appliedEntranceEndpoint, Deployed
<1>2. m.id \in Nat /\ s.stamp \in Nat /\ t.stamp \in Nat
  BY StoreFacts DEF Membership, Stamps
<1>3. m.id <= t.stamp
  BY <1>2 DEF Sound
<1> QED
  BY <1>0, <1>1, <1>3 DEF Sound, MembershipFits

-----------------------------------------------------------------------------
(* What the user plane does.                                               *)

SameTopology(s, t) ==
    /\ DOMAIN t.nodes = DOMAIN s.nodes
    /\ \A n \in DOMAIN s.nodes : t.nodes[n].entrance = s.nodes[n].entrance
    /\ t.applied = s.applied /\ t.managed = s.managed
    /\ t.rev = s.rev /\ t.appliedRev = s.appliedRev
    /\ t.urev = s.urev + 1 /\ s.stamp <= t.stamp

LEMMA SameListeners ==
    ASSUME NEW s, NEW t, ListenersAgree(s), DOMAIN t.nodes \subseteq DOMAIN s.nodes,
           \A n \in DOMAIN t.nodes : t.nodes[n].entrance = s.nodes[n].entrance
    PROVE  ListenersAgree(t)
<1>1. validateListenerLayout(t)
  BY DEF ListenersAgree, validateListenerLayout
<1> QED
  BY <1>1 DEF ListenersAgree

(* A mutation of users and memberships keeps the store when what it does   *)
(* to each membership is sound.                                            *)
MembersEdited(s, t, nodes, users, admin, stamp) ==
    /\ t = Changed(s, nodes, users, admin, s.rev, s.urev + 1, stamp)
    /\ users \in SUBSET Accounts /\ admin \in BOOLEAN /\ stamp \in Nat /\ s.stamp <= stamp
    /\ admin <=> Admin \in users
    /\ DOMAIN nodes = DOMAIN s.nodes /\ nodes \in [DOMAIN s.nodes -> Node]
    /\ \A n \in DOMAIN s.nodes :
          /\ nodes[n].entrance = s.nodes[n].entrance
          /\ DOMAIN nodes[n].members \subseteq users
          /\ admin <=> Admin \in DOMAIN nodes[n].members
          /\ \A u \in DOMAIN nodes[n].members :
                \/ u \in DOMAIN s.nodes[n].members /\ nodes[n].members[u] = s.nodes[n].members[u]
                \/ Sound(t, n, nodes[n].members[u])

LEMMA MembersEditedKeeps ==
    ASSUME NEW s, Kept(s), NEW t, NEW nodes, NEW users, NEW admin, NEW stamp,
           MembersEdited(s, t, nodes, users, admin, stamp)
    PROVE  /\ Kept(t) /\ SameTopology(s, t)
           /\ t.nodes = nodes /\ t.users = users /\ t.stamp = stamp
<1> USE DEF MembersEdited
<1>1. s \in Stores
  BY DEF Kept
<1>2. /\ t.nodes = nodes /\ t.users = users /\ t.admin = admin
      /\ t.rev = s.rev /\ t.urev = s.urev + 1 /\ t.stamp = stamp
      /\ t.applied = s.applied /\ t.managed = s.managed /\ t.appliedRev = s.appliedRev
  BY ChangedFields DEF MembersEdited
<1>3. t \in Stores
  BY <1>1, StoreFacts, ChangedFacts
<1>4. SameTopology(s, t)
  BY <1>1, <1>2, StoreFacts DEF SameTopology
<1>5. ASSUME NEW n \in DOMAIN s.nodes, NEW u \in DOMAIN nodes[n].members
      PROVE  Sound(t, n, nodes[n].members[u])
  <2>1. CASE u \in DOMAIN s.nodes[n].members /\ nodes[n].members[u] = s.nodes[n].members[u]
    <3>1. s.nodes[n].members[u] \in Membership
      BY <1>1, <2>1, NodeFacts
    <3>2. s.stamp <= t.stamp /\ Sound(s, n, s.nodes[n].members[u])
      BY <1>2, <2>1 DEF Kept, MembersSound
    <3> QED
      BY <1>1, <1>2, <1>3, <2>1, <3>1, <3>2, SoundKept
  <2> QED
    BY <2>1
<1>6. MembersSound(t)
  BY <1>2, <1>5 DEF MembersSound
<1>7. ListenersAgree(t)
  BY <1>2, SameListeners DEF Kept
<1> QED
  BY <1>2, <1>3, <1>4, <1>6, <1>7 DEF Kept

(* Secrets that are drawn fit what is deployed and the draft.              *)
LEMMA SecretsFacts ==
    ASSUME NEW t \in Stores, NEW n \in DOMAIN t.nodes, NEW m,
           m.credential = Secrets(t, n).credential, m.pending = Secrets(t, n).pending,
           m.id \in Nat, m.id <= t.stamp
    PROVE  /\ m.credential \in Credential /\ m.pending \in SUBSET Credential
           /\ Sound(t, n, m)
<1>1. t.nodes[n].entrance.shape \in Shapes /\ t.stamp \in Nat
  BY NodeFacts, StoreFacts DEF Endpoint
<1>2. appliedEntranceEndpoint(t, n).shape \in Shapes
  BY <1>1, StoreFacts DEF appliedEntranceEndpoint, Endpoint
<1> DEFINE active == appliedEntranceEndpoint(t, n).shape
           draft == t.nodes[n].entrance.shape
<1>3. /\ m.credential = [shape |-> active, stamp |-> t.stamp]
      /\ m.pending = IF active = draft THEN {} ELSE {[shape |-> draft, stamp |-> t.stamp]}
  BY DEF Secrets
<1>4. m.credential \in Credential /\ m.pending \in SUBSET Credential
  BY <1>1, <1>2, <1>3 DEF Credential, Stamps
<1>5. Cardinality(m.pending) < 2
  <2>1. CASE active = draft
    BY <1>3, <2>1, FS_EmptySet
  <2>2. CASE active # draft
    <3>1. m.pending = {[shape |-> draft, stamp |-> t.stamp]}
      BY <1>3, <2>2
    <3>2. Cardinality({[shape |-> draft, stamp |-> t.stamp]}) = 1
      BY FS_Singleton
    <3> QED
      BY <3>1, <3>2
  <2> QED
    BY <2>1, <2>2
<1>6. n \notin DOMAIN t.applied => m.pending = {}
  BY <1>3 DEF appliedEntranceEndpoint
<1> QED
  BY <1>1, <1>3, <1>4, <1>5, <1>6 DEF Sound, MembershipFits

LEMMA StampedFacts ==
    ASSUME NEW s \in Stores, NEW t, t = Stamped(s)
    PROVE  /\ t = Changed(s, s.nodes, s.users, s.admin, s.rev, s.urev, s.stamp + 1)
           /\ t \in Stores
           /\ t.nodes = s.nodes /\ t.users = s.users /\ t.admin = s.admin
           /\ t.rev = s.rev /\ t.urev = s.urev /\ t.stamp = s.stamp + 1
           /\ t.applied = s.applied /\ t.managed = s.managed /\ t.appliedRev = s.appliedRev
<1>1. t = Changed(s, s.nodes, s.users, s.admin, s.rev, s.urev, s.stamp + 1)
  BY DEF Stamped, Stores, Changed
<1> QED
  BY <1>1, ChangedFields, ChangedFacts, StoreFacts

LEMMA newMembershipSound ==
    ASSUME NEW t \in Stores, NEW n \in DOMAIN t.nodes
    PROVE  /\ newMembership(t, n) \in Membership /\ newMembership(t, n).id = t.stamp
           /\ Sound(t, n, newMembership(t, n))
<1> DEFINE m == newMembership(t, n)
<1>1. /\ m = [id |-> t.stamp, credential |-> Secrets(t, n).credential, pending |-> Secrets(t, n).pending]
      /\ t.stamp \in Nat
  BY StoreFacts DEF newMembership
<1>2. m.id \in Nat /\ m.id <= t.stamp
  BY <1>1
<1>3. m.credential \in Credential /\ m.pending \in SUBSET Credential /\ Sound(t, n, m)
  BY <1>1, <1>2, SecretsFacts
<1> QED
  BY <1>1, <1>3 DEF Membership, Stamps

LEMMA resetMembershipSound ==
    ASSUME NEW t \in Stores, NEW n \in DOMAIN t.nodes, NEW m \in Membership, m.id <= t.stamp,
           NEW r, r = [m EXCEPT !.credential = Secrets(t, n).credential, !.pending = Secrets(t, n).pending]
    PROVE  r \in Membership /\ r.id = m.id /\ Sound(t, n, r)
<1>1. /\ r = [id |-> m.id, credential |-> Secrets(t, n).credential, pending |-> Secrets(t, n).pending]
      /\ m.id \in Nat
  BY DEF Membership, Stamps
<1>2. r.credential \in Credential /\ r.pending \in SUBSET Credential /\ Sound(t, n, r)
  BY <1>1, SecretsFacts
<1> QED
  BY <1>1, <1>2 DEF Membership, Stamps

-----------------------------------------------------------------------------
LEMMA CreateUserKeeps ==
    ASSUME NEW s, Kept(s), NEW u \in StoreUsers, NEW t, t = mutateUser(CreateUser(s, u))
    PROVE  Kept(t) /\ SameTopology(s, t) /\ t.nodes = s.nodes
<1>1. s \in Stores
  BY DEF Kept
<1>2. t = Changed(s, s.nodes, s.users \cup {u}, s.admin, s.rev, s.urev + 1, s.stamp)
  BY <1>1 DEF mutateUser, CreateUser, Stores, Changed
<1>3. MembersEdited(s, t, s.nodes, s.users \cup {u}, s.admin, s.stamp)
  BY <1>1, <1>2, StoreFacts, StoreConstants DEF MembersEdited, Kept, MembersSound, Accounts
<1> QED
  BY <1>3, MembersEditedKeeps

LEMMA NodeEdited ==
    ASSUME NEW node \in Node, NEW members \in Members, NEW new, new = [node EXCEPT !.members = members]
    PROVE  new \in Node /\ new.entrance = node.entrance /\ new.members = members
BY DEF Node, Members

(* The deletion of a user and the end of the administrator's access.       *)
Deserted(s, u) ==
    [n \in DOMAIN s.nodes |-> [s.nodes[n] EXCEPT !.members = Without(s.nodes[n].members, {u})]]

LEMMA DesertedFacts ==
    ASSUME NEW s, Kept(s), NEW u
    PROVE  /\ DOMAIN Deserted(s, u) = DOMAIN s.nodes
           /\ \A n \in DOMAIN s.nodes :
                /\ Deserted(s, u)[n] \in Node
                /\ Deserted(s, u)[n].entrance = s.nodes[n].entrance
                /\ DOMAIN Deserted(s, u)[n].members = DOMAIN s.nodes[n].members \ {u}
                /\ \A v \in DOMAIN s.nodes[n].members \ {u} :
                      Deserted(s, u)[n].members[v] = s.nodes[n].members[v]
<1>1. ASSUME NEW n \in DOMAIN s.nodes
      PROVE  /\ Deserted(s, u)[n] \in Node
             /\ Deserted(s, u)[n].entrance = s.nodes[n].entrance
             /\ DOMAIN Deserted(s, u)[n].members = DOMAIN s.nodes[n].members \ {u}
             /\ \A v \in DOMAIN s.nodes[n].members \ {u} :
                   Deserted(s, u)[n].members[v] = s.nodes[n].members[v]
  <2>1. s.nodes[n] \in Node /\ s.nodes[n].members \in Members
    BY NodeFacts DEF Kept
  <2>2. /\ Without(s.nodes[n].members, {u}) \in Members
        /\ DOMAIN Without(s.nodes[n].members, {u}) = DOMAIN s.nodes[n].members \ {u}
        /\ \A v \in DOMAIN s.nodes[n].members \ {u} :
              Without(s.nodes[n].members, {u})[v] = s.nodes[n].members[v]
    BY <2>1, MembersWithout
  <2>3. Deserted(s, u)[n] = [s.nodes[n] EXCEPT !.members = Without(s.nodes[n].members, {u})]
    BY DEF Deserted
  <2>4. /\ Deserted(s, u)[n] \in Node /\ Deserted(s, u)[n].entrance = s.nodes[n].entrance
        /\ Deserted(s, u)[n].members = Without(s.nodes[n].members, {u})
    BY <2>1, <2>2, <2>3, NodeEdited
  <2> QED
    BY <2>2, <2>4
<1> QED
  BY <1>1 DEF Deserted

LEMMA DeleteUserKeeps ==
    ASSUME NEW s, Kept(s), NEW u \in StoreUsers, NEW t, t = mutateUser(DeleteUser(s, u))
    PROVE  /\ Kept(t) /\ SameTopology(s, t)
           /\ t.nodes = Deserted(s, u) /\ t.stamp = s.stamp
<1>1. s \in Stores
  BY DEF Kept
<1>2. t = Changed(s, Deserted(s, u), s.users \ {u}, s.admin, s.rev, s.urev + 1, s.stamp)
  BY <1>1 DEF mutateUser, DeleteUser, Deserted, Stores, Changed
<1>3. MembersEdited(s, t, Deserted(s, u), s.users \ {u}, s.admin, s.stamp)
  <2>1. s.users \ {u} \in SUBSET Accounts /\ s.admin \in BOOLEAN /\ s.stamp \in Nat /\ s.stamp <= s.stamp
    BY <1>1, StoreFacts
  <2>2. s.admin <=> Admin \in s.users \ {u}
    BY StoreConstants DEF Kept
  <2>3. Deserted(s, u) \in [DOMAIN s.nodes -> Node]
    BY DesertedFacts DEF Deserted
  <2>4. ASSUME NEW n \in DOMAIN s.nodes
        PROVE  /\ Deserted(s, u)[n].entrance = s.nodes[n].entrance
               /\ DOMAIN Deserted(s, u)[n].members \subseteq s.users \ {u}
               /\ s.admin <=> Admin \in DOMAIN Deserted(s, u)[n].members
               /\ \A v \in DOMAIN Deserted(s, u)[n].members :
                     v \in DOMAIN s.nodes[n].members /\ Deserted(s, u)[n].members[v] = s.nodes[n].members[v]
    BY DesertedFacts, StoreConstants DEF Kept, MembersSound
  <2> QED
    BY <1>2, <2>1, <2>2, <2>3, <2>4, DesertedFacts DEF MembersEdited
<1> QED
  BY <1>3, MembersEditedKeeps

LEMMA removeSystemAdministratorKeeps ==
    ASSUME NEW s, Kept(s), NEW t, t = mutateUser(removeSystemAdministrator(s))
    PROVE  /\ Kept(t) /\ SameTopology(s, t)
           /\ t.nodes = Deserted(s, Admin) /\ t.stamp = s.stamp
<1>1. s \in Stores
  BY DEF Kept
<1>2. t = Changed(s, Deserted(s, Admin), s.users \ {Admin}, FALSE, s.rev, s.urev + 1, s.stamp)
  BY <1>1 DEF mutateUser, removeSystemAdministrator, DeleteUser, Deserted, Stores, Changed
<1> DEFINE no == FALSE
<1>3. MembersEdited(s, t, Deserted(s, Admin), s.users \ {Admin}, no, s.stamp)
  <2>1. s.users \ {Admin} \in SUBSET Accounts /\ s.stamp \in Nat /\ s.stamp <= s.stamp
    BY <1>1, StoreFacts
  <2>2. Deserted(s, Admin) \in [DOMAIN s.nodes -> Node]
    BY DesertedFacts DEF Deserted
  <2>3. ASSUME NEW n \in DOMAIN s.nodes
        PROVE  /\ Deserted(s, Admin)[n].entrance = s.nodes[n].entrance
               /\ DOMAIN Deserted(s, Admin)[n].members \subseteq s.users \ {Admin}
               /\ ~(Admin \in DOMAIN Deserted(s, Admin)[n].members)
               /\ \A v \in DOMAIN Deserted(s, Admin)[n].members :
                     v \in DOMAIN s.nodes[n].members /\ Deserted(s, Admin)[n].members[v] = s.nodes[n].members[v]
    BY DesertedFacts DEF Kept, MembersSound
  <2> QED
    BY <1>2, <2>1, <2>2, <2>3, DesertedFacts DEF MembersEdited
<1> HIDE DEF no
<1> QED
  BY <1>3, MembersEditedKeeps

(* One membership less, one more, or one with new secrets.                 *)
MembersAt(s, n, members) == [s.nodes EXCEPT ![n].members = members]

LEMMA MembersAtFacts ==
    ASSUME NEW s \in Stores, NEW n \in DOMAIN s.nodes, NEW members \in Members
    PROVE  /\ MembersAt(s, n, members) \in [DOMAIN s.nodes -> Node]
           /\ DOMAIN MembersAt(s, n, members) = DOMAIN s.nodes
           /\ \A k \in DOMAIN s.nodes :
                /\ MembersAt(s, n, members)[k].entrance = s.nodes[k].entrance
                /\ MembersAt(s, n, members)[k].members = IF k = n THEN members ELSE s.nodes[k].members
<1>1. s.nodes \in [DOMAIN s.nodes -> Node]
  BY StoreFacts
<1>2. MembersAt(s, n, members) = [s.nodes EXCEPT ![n] = [s.nodes[n] EXCEPT !.members = members]]
  BY DEF MembersAt
<1>3. /\ [s.nodes[n] EXCEPT !.members = members] \in Node
      /\ [s.nodes[n] EXCEPT !.members = members].entrance = s.nodes[n].entrance
      /\ [s.nodes[n] EXCEPT !.members = members].members = members
  BY <1>1, NodeEdited
<1> QED
  BY <1>1, <1>2, <1>3

LEMMA RemoveMembershipKeeps ==
    ASSUME NEW s, Kept(s), NEW n \in DOMAIN s.nodes, NEW u \in StoreUsers,
           NEW t, t = mutateUser(RemoveMembership(s, n, u))
    PROVE  /\ Kept(t) /\ SameTopology(s, t)
           /\ t.nodes = MembersAt(s, n, Without(s.nodes[n].members, {u})) /\ t.stamp = s.stamp
<1> DEFINE left == Without(s.nodes[n].members, {u})
<1>1. s \in Stores
  BY DEF Kept
<1>2. t = Changed(s, MembersAt(s, n, left), s.users, s.admin, s.rev, s.urev + 1, s.stamp)
  BY <1>1 DEF mutateUser, RemoveMembership, MembersAt, Stores, Changed
<1>3. /\ left \in Members /\ DOMAIN left = DOMAIN s.nodes[n].members \ {u}
      /\ \A v \in DOMAIN s.nodes[n].members \ {u} : left[v] = s.nodes[n].members[v]
  BY <1>1, NodeFacts, MembersWithout
<1> HIDE DEF left
<1>4. MembersEdited(s, t, MembersAt(s, n, left), s.users, s.admin, s.stamp)
  <2>1. s.users \in SUBSET Accounts /\ s.admin \in BOOLEAN /\ s.stamp \in Nat /\ s.stamp <= s.stamp
    BY <1>1, StoreFacts
  <2>2. /\ s.admin <=> Admin \in s.users
        /\ \A k \in DOMAIN s.nodes :
              DOMAIN s.nodes[k].members \subseteq s.users /\ (s.admin <=> Admin \in DOMAIN s.nodes[k].members)
    BY DEF Kept, MembersSound
  <2>3. ASSUME NEW k \in DOMAIN s.nodes
        PROVE  /\ MembersAt(s, n, left)[k].entrance = s.nodes[k].entrance
               /\ DOMAIN MembersAt(s, n, left)[k].members \subseteq s.users
               /\ s.admin <=> Admin \in DOMAIN MembersAt(s, n, left)[k].members
               /\ \A v \in DOMAIN MembersAt(s, n, left)[k].members :
                     /\ v \in DOMAIN s.nodes[k].members
                     /\ MembersAt(s, n, left)[k].members[v] = s.nodes[k].members[v]
    <3>1. CASE k = n
      BY <1>1, <1>3, <2>2, <3>1, MembersAtFacts, StoreConstants
    <3>2. CASE k # n
      BY <1>1, <1>3, <2>2, <3>2, MembersAtFacts
    <3> QED
      BY <3>1, <3>2
  <2> QED
    BY <1>1, <1>2, <1>3, <2>1, <2>2, <2>3, MembersAtFacts DEF MembersEdited
<1> QED
  BY <1>4, MembersEditedKeeps DEF left

(* Secrets drawn with the next stamp are sound in the store they are saved *)
(* in, for the listeners are the same.                                     *)
LEMMA DrawnSound ==
    ASSUME NEW s, Kept(s), NEW nodes, NEW users, NEW admin, NEW t,
           t = Changed(s, nodes, users, admin, s.rev, s.urev + 1, s.stamp + 1),
           nodes \in [DOMAIN s.nodes -> Node], users \in SUBSET Accounts, admin \in BOOLEAN,
           NEW n \in DOMAIN s.nodes, nodes[n].entrance = s.nodes[n].entrance,
           NEW m \in Membership, Sound(Stamped(s), n, m)
    PROVE  Sound(t, n, m)
<1>1. s \in Stores
  BY DEF Kept
<1>2. /\ Stamped(s) \in Stores /\ Stamped(s).nodes = s.nodes
      /\ Stamped(s).applied = s.applied /\ Stamped(s).stamp = s.stamp + 1
  BY <1>1, StampedFacts
<1>3. t \in Stores
  BY <1>1, StoreFacts, ChangedFacts
<1>4. t.nodes = nodes /\ t.applied = s.applied /\ t.stamp = s.stamp + 1 /\ s.stamp \in Nat
  BY <1>1, ChangedFields, StoreFacts
<1>5. /\ n \in DOMAIN Stamped(s).nodes /\ n \in DOMAIN t.nodes
      /\ t.applied = Stamped(s).applied /\ Stamped(s).stamp <= t.stamp
      /\ t.nodes[n].entrance.shape = Stamped(s).nodes[n].entrance.shape
  BY <1>2, <1>4
<1> QED
  BY <1>2, <1>3, <1>5, SoundKept

LEMMA AddMembershipKeeps ==
    ASSUME NEW s, Kept(s), NEW n \in DOMAIN s.nodes, NEW u \in StoreUsers, u \in s.users,
           NEW t, t = mutateUser(AddMembership(s, n, u))
    PROVE  /\ Kept(t) /\ SameTopology(s, t) /\ t.stamp = s.stamp + 1
           /\ \E m \in Membership :
                /\ m.id = s.stamp + 1
                /\ t.nodes = MembersAt(s, n, With(s.nodes[n].members, u, m))
<1> DEFINE m == newMembership(Stamped(s), n)
           joined == With(s.nodes[n].members, u, m)
<1>1. s \in Stores /\ s.stamp \in Nat
  BY StoreFacts DEF Kept
<1>2. Stamped(s) \in Stores /\ Stamped(s).nodes = s.nodes /\ Stamped(s).stamp = s.stamp + 1
  BY <1>1, StampedFacts
<1>3. t = Changed(s, MembersAt(s, n, joined), s.users, s.admin, s.rev, s.urev + 1, s.stamp + 1)
  BY <1>1 DEF mutateUser, AddMembership, MembersAt, Stamped, Stores, Changed
<1>4. m \in Membership /\ m.id = s.stamp + 1 /\ Sound(Stamped(s), n, m)
  BY <1>2, newMembershipSound
<1> HIDE DEF m
<1>5. /\ joined \in Members /\ DOMAIN joined = DOMAIN s.nodes[n].members \cup {u} /\ joined[u] = m
      /\ \A v \in DOMAIN s.nodes[n].members \ {u} : joined[v] = s.nodes[n].members[v]
  <2>1. s.nodes[n].members \in Members /\ u \in Accounts
    BY <1>1, NodeFacts DEF Accounts
  <2>2. m \in Membership
    BY <1>4
  <2> HIDE DEF joined
  <2> QED
    BY <2>1, <2>2, MembersWith, ZenonT(60) DEF joined
<1> HIDE DEF joined
<1>6. MembersEdited(s, t, MembersAt(s, n, joined), s.users, s.admin, s.stamp + 1)
  <2>1. s.users \in SUBSET Accounts /\ s.admin \in BOOLEAN /\ s.stamp + 1 \in Nat /\ s.stamp <= s.stamp + 1
    BY <1>1, StoreFacts
  <2>2. /\ s.admin <=> Admin \in s.users
        /\ \A k \in DOMAIN s.nodes :
              DOMAIN s.nodes[k].members \subseteq s.users /\ (s.admin <=> Admin \in DOMAIN s.nodes[k].members)
    BY DEF Kept, MembersSound
  <2>3. /\ MembersAt(s, n, joined) \in [DOMAIN s.nodes -> Node]
        /\ \A k \in DOMAIN s.nodes :
             /\ MembersAt(s, n, joined)[k].entrance = s.nodes[k].entrance
             /\ MembersAt(s, n, joined)[k].members = IF k = n THEN joined ELSE s.nodes[k].members
    BY <1>1, <1>5, MembersAtFacts
  <2>4. Sound(t, n, m)
    BY <1>3, <1>4, <2>1, <2>3, DrawnSound
  <2>5. ASSUME NEW k \in DOMAIN s.nodes
        PROVE  /\ MembersAt(s, n, joined)[k].entrance = s.nodes[k].entrance
               /\ DOMAIN MembersAt(s, n, joined)[k].members \subseteq s.users
               /\ s.admin <=> Admin \in DOMAIN MembersAt(s, n, joined)[k].members
               /\ \A v \in DOMAIN MembersAt(s, n, joined)[k].members :
                     \/ /\ v \in DOMAIN s.nodes[k].members
                        /\ MembersAt(s, n, joined)[k].members[v] = s.nodes[k].members[v]
                     \/ Sound(t, k, MembersAt(s, n, joined)[k].members[v])
    <3>1. CASE k = n
      BY <1>5, <2>2, <2>3, <2>4, <3>1, StoreConstants
    <3>2. CASE k # n
      BY <2>2, <2>3, <3>2
    <3> QED
      BY <3>1, <3>2
  <2> QED
    BY <1>3, <2>1, <2>2, <2>3, <2>5 DEF MembersEdited
<1>7. Kept(t) /\ SameTopology(s, t) /\ t.stamp = s.stamp + 1 /\ t.nodes = MembersAt(s, n, joined)
  BY <1>6, MembersEditedKeeps
<1> QED
  BY <1>4, <1>7 DEF joined

(* New secrets for one membership, where it was.                           *)
Rekeyed(s, n, u) ==
    [s.nodes[n].members[u] EXCEPT !.credential = Secrets(s, n).credential, !.pending = Secrets(s, n).pending]

LEMMA RekeyedFacts ==
    ASSUME NEW s, Kept(s), NEW n \in DOMAIN s.nodes, NEW u \in DOMAIN s.nodes[n].members
    PROVE  /\ Rekeyed(Stamped(s), n, u) \in Membership
           /\ Rekeyed(Stamped(s), n, u).id = s.nodes[n].members[u].id
           /\ Sound(Stamped(s), n, Rekeyed(Stamped(s), n, u))
<1>1. s \in Stores /\ s.stamp \in Nat
  BY StoreFacts DEF Kept
<1>2. Stamped(s) \in Stores /\ Stamped(s).nodes = s.nodes /\ Stamped(s).stamp = s.stamp + 1
  BY <1>1, StampedFacts
<1>3. s.nodes[n].members[u] \in Membership
  BY <1>1, NodeFacts
<1>4. s.nodes[n].members[u].id <= Stamped(s).stamp
  BY <1>1, <1>2, <1>3 DEF Kept, MembersSound, Sound, Membership, Stamps
<1> DEFINE t == Stamped(s)
           old == s.nodes[n].members[u]
<1>5. Rekeyed(t, n, u) = [old EXCEPT !.credential = Secrets(t, n).credential, !.pending = Secrets(t, n).pending]
  BY <1>2 DEF Rekeyed
<1>6. t \in Stores /\ n \in DOMAIN t.nodes /\ old \in Membership /\ old.id <= t.stamp
  BY <1>2, <1>3, <1>4
<1> HIDE DEF t, old
<1>7. /\ Rekeyed(t, n, u) \in Membership /\ Rekeyed(t, n, u).id = old.id
      /\ Sound(t, n, Rekeyed(t, n, u))
  BY <1>5, <1>6, resetMembershipSound, ZenonT(60)
<1> QED
  BY <1>7 DEF t, old

(* A mutation that draws secrets: what is not as it was is sound in the    *)
(* store it was drawn for.                                                 *)
MembersRedrawn(s, nodes, users, admin) ==
    /\ users \in SUBSET Accounts /\ admin \in BOOLEAN
    /\ admin <=> Admin \in users
    /\ DOMAIN nodes = DOMAIN s.nodes /\ nodes \in [DOMAIN s.nodes -> Node]
    /\ \A n \in DOMAIN s.nodes :
          /\ nodes[n].entrance = s.nodes[n].entrance
          /\ DOMAIN nodes[n].members \subseteq users
          /\ admin <=> Admin \in DOMAIN nodes[n].members
          /\ \A u \in DOMAIN nodes[n].members :
                \/ u \in DOMAIN s.nodes[n].members /\ nodes[n].members[u] = s.nodes[n].members[u]
                \/ Sound(Stamped(s), n, nodes[n].members[u])

LEMMA MembersRedrawnKeeps ==
    ASSUME NEW s, Kept(s), NEW nodes, NEW users, NEW admin, MembersRedrawn(s, nodes, users, admin),
           NEW t, t = Changed(s, nodes, users, admin, s.rev, s.urev + 1, s.stamp + 1)
    PROVE  /\ Kept(t) /\ SameTopology(s, t)
           /\ t.nodes = nodes /\ t.users = users /\ t.stamp = s.stamp + 1
<1>1. s.stamp \in Nat
  BY StoreFacts DEF Kept
<1>2. ASSUME NEW n \in DOMAIN s.nodes, NEW u \in DOMAIN nodes[n].members,
             Sound(Stamped(s), n, nodes[n].members[u])
      PROVE  Sound(t, n, nodes[n].members[u])
  <2>1. nodes[n].members[u] \in Membership
    <3>1. nodes[n] \in Node
      BY DEF MembersRedrawn
    <3>2. nodes[n].members \in Members
      BY <3>1 DEF Node, Members
    <3> QED
      BY <3>2, PartialFacts DEF Members
  <2>2. /\ nodes \in [DOMAIN s.nodes -> Node] /\ users \in SUBSET Accounts /\ admin \in BOOLEAN
        /\ nodes[n].entrance = s.nodes[n].entrance
    BY DEF MembersRedrawn
  <2> QED
    BY <1>2, <2>1, <2>2, DrawnSound
<1>3. s.stamp + 1 \in Nat /\ s.stamp <= s.stamp + 1
  BY <1>1
<1>4. \A n \in DOMAIN s.nodes :
         /\ nodes[n].entrance = s.nodes[n].entrance
         /\ DOMAIN nodes[n].members \subseteq users
         /\ admin <=> Admin \in DOMAIN nodes[n].members
         /\ \A u \in DOMAIN nodes[n].members :
               \/ u \in DOMAIN s.nodes[n].members /\ nodes[n].members[u] = s.nodes[n].members[u]
               \/ Sound(t, n, nodes[n].members[u])
  BY <1>2 DEF MembersRedrawn
<1>5. MembersEdited(s, t, nodes, users, admin, s.stamp + 1)
  BY <1>3, <1>4 DEF MembersEdited, MembersRedrawn
<1> QED
  BY <1>5, MembersEditedKeeps

LEMMA ResetMembershipCredentialKeeps ==
    ASSUME NEW s, Kept(s), NEW n \in DOMAIN s.nodes, NEW u \in DOMAIN s.nodes[n].members,
           NEW t, t = mutateUser(ResetMembershipCredential(s, n, u))
    PROVE  /\ Kept(t) /\ SameTopology(s, t) /\ t.stamp = s.stamp + 1
           /\ t.nodes = MembersAt(s, n, [s.nodes[n].members EXCEPT ![u] = Rekeyed(Stamped(s), n, u)])
<1> DEFINE new == Rekeyed(Stamped(s), n, u)
           members == [s.nodes[n].members EXCEPT ![u] = new]
<1>1. s \in Stores /\ s.stamp \in Nat
  BY StoreFacts DEF Kept
<1>2. s.nodes[n].members \in Members /\ s.nodes[n].members \in [DOMAIN s.nodes[n].members -> Membership]
  BY <1>1, NodeFacts
<1>3. t = Changed(s, MembersAt(s, n, members), s.users, s.admin, s.rev, s.urev + 1, s.stamp + 1)
  <2> DEFINE z == Stamped(s)
  <2>1. /\ z.nodes = s.nodes /\ z \in Stores
        /\ z = Changed(s, s.nodes, s.users, s.admin, s.rev, s.urev, s.stamp + 1)
    BY <1>1, StampedFacts
  <2>2. t = [[z EXCEPT !.nodes = [z.nodes EXCEPT ![n].members[u] = new]] EXCEPT !.urev = z.urev + 1]
    BY DEF mutateUser, ResetMembershipCredential, resetMembershipCredential, Rekeyed
  <2> HIDE DEF new, z
  <2>3. MembersAt(s, n, members) = [s.nodes EXCEPT ![n].members[u] = new]
    <3>1. s.nodes[n] \in Node /\ s.nodes \in [DOMAIN s.nodes -> Node]
      BY <1>1, StoreFacts
    <3>2. [s.nodes[n] EXCEPT !.members = members] = [s.nodes[n] EXCEPT !.members[u] = new]
      OBVIOUS
    <3> QED
      BY <3>1, <3>2 DEF MembersAt
  <2> QED
    BY <2>1, <2>2, <2>3, ZenonT(60) DEF Changed
<1>4. new \in Membership /\ new.id = s.nodes[n].members[u].id /\ Sound(Stamped(s), n, new)
  BY RekeyedFacts
<1> HIDE DEF new
<1>5. members \in Members /\ DOMAIN members = DOMAIN s.nodes[n].members
  BY <1>2, <1>4, PartialFacts DEF Members
<1>6. MembersRedrawn(s, MembersAt(s, n, members), s.users, s.admin)
  <2>1. s.users \in SUBSET Accounts /\ s.admin \in BOOLEAN
    BY <1>1, StoreFacts
  <2>2. /\ s.admin <=> Admin \in s.users
        /\ \A k \in DOMAIN s.nodes :
              DOMAIN s.nodes[k].members \subseteq s.users /\ (s.admin <=> Admin \in DOMAIN s.nodes[k].members)
    BY DEF Kept, MembersSound
  <2>3. /\ MembersAt(s, n, members) \in [DOMAIN s.nodes -> Node]
        /\ \A k \in DOMAIN s.nodes :
             /\ MembersAt(s, n, members)[k].entrance = s.nodes[k].entrance
             /\ MembersAt(s, n, members)[k].members = IF k = n THEN members ELSE s.nodes[k].members
    <3> HIDE DEF members
    <3> QED
      BY <1>1, <1>5, MembersAtFacts
  <2>4. ASSUME NEW k \in DOMAIN s.nodes
        PROVE  /\ DOMAIN MembersAt(s, n, members)[k].members \subseteq s.users
               /\ s.admin <=> Admin \in DOMAIN MembersAt(s, n, members)[k].members
               /\ \A v \in DOMAIN MembersAt(s, n, members)[k].members :
                     \/ /\ v \in DOMAIN s.nodes[k].members
                        /\ MembersAt(s, n, members)[k].members[v] = s.nodes[k].members[v]
                     \/ Sound(Stamped(s), k, MembersAt(s, n, members)[k].members[v])
    <3>1. CASE k = n
      <4>1. MembersAt(s, n, members)[k].members = members
        BY <2>3, <3>1
      <4>2. \A v \in DOMAIN members : v \in DOMAIN s.nodes[n].members
                                      /\ members[v] = IF v = u THEN new ELSE s.nodes[n].members[v]
        BY <1>2, <1>5
      <4> QED
        BY <1>4, <1>5, <2>2, <3>1, <4>1, <4>2
    <3>2. CASE k # n
      BY <2>2, <2>3, <3>2
    <3> QED
      BY <3>1, <3>2
  <2> QED
    BY <2>1, <2>2, <2>3, <2>4 DEF MembersRedrawn
<1> HIDE DEF members
<1> QED
  BY <1>3, <1>6, MembersRedrawnKeeps DEF new, members

(* New secrets for every membership of a user.                             *)
RekeyedFor(s, u) ==
    [n \in DOMAIN s.nodes |->
        IF u \in DOMAIN s.nodes[n].members
        THEN [s.nodes[n] EXCEPT !.members =
                 [s.nodes[n].members EXCEPT ![u] = Rekeyed(Stamped(s), n, u)]]
        ELSE s.nodes[n]]

LEMMA RekeyedForFacts ==
    ASSUME NEW s, Kept(s), NEW u, NEW n \in DOMAIN s.nodes
    PROVE  /\ RekeyedFor(s, u)[n] \in Node
           /\ RekeyedFor(s, u)[n].entrance = s.nodes[n].entrance
           /\ DOMAIN RekeyedFor(s, u)[n].members = DOMAIN s.nodes[n].members
           /\ \A v \in DOMAIN s.nodes[n].members :
                 RekeyedFor(s, u)[n].members[v] =
                    IF v = u THEN Rekeyed(Stamped(s), n, u) ELSE s.nodes[n].members[v]
<1>1. /\ s.nodes[n] \in Node /\ s.nodes[n].members \in Members
      /\ s.nodes[n].members \in [DOMAIN s.nodes[n].members -> Membership]
  BY NodeFacts DEF Kept
<1>2. CASE u \in DOMAIN s.nodes[n].members
  <2> DEFINE members == [s.nodes[n].members EXCEPT ![u] = Rekeyed(Stamped(s), n, u)]
  <2>1. Rekeyed(Stamped(s), n, u) \in Membership
    BY <1>2, RekeyedFacts
  <2>2. members \in Members /\ DOMAIN members = DOMAIN s.nodes[n].members
    BY <1>1, <2>1, PartialFacts DEF Members
  <2>3. \A v \in DOMAIN s.nodes[n].members :
           members[v] = IF v = u THEN Rekeyed(Stamped(s), n, u) ELSE s.nodes[n].members[v]
    BY <1>1
  <2>4. RekeyedFor(s, u)[n] = [s.nodes[n] EXCEPT !.members = members]
    BY <1>2 DEF RekeyedFor
  <2> HIDE DEF members
  <2>5. /\ RekeyedFor(s, u)[n] \in Node /\ RekeyedFor(s, u)[n].members = members
        /\ RekeyedFor(s, u)[n].entrance = s.nodes[n].entrance
    BY <1>1, <2>2, <2>4, NodeEdited
  <2> QED
    BY <2>2, <2>3, <2>5
<1>3. CASE u \notin DOMAIN s.nodes[n].members
  <2>1. RekeyedFor(s, u)[n] = s.nodes[n]
    BY <1>3 DEF RekeyedFor
  <2> QED
    BY <1>1, <1>3, <2>1
<1> QED
  BY <1>2, <1>3

LEMMA ResetUserCredentialsKeeps ==
    ASSUME NEW s, Kept(s), NEW u, NEW t, t = mutateUser(ResetUserCredentials(s, u))
    PROVE  /\ Kept(t) /\ SameTopology(s, t) /\ t.stamp = s.stamp + 1
           /\ t.nodes = RekeyedFor(s, u)
<1>1. s \in Stores /\ s.stamp \in Nat
  BY StoreFacts DEF Kept
<1>2. t = Changed(s, RekeyedFor(s, u), s.users, s.admin, s.rev, s.urev + 1, s.stamp + 1)
  <2> DEFINE z == Stamped(s)
             renewed(n) == resetMembershipCredential(z, n, u).nodes[n]
             kept == [n \in DOMAIN z.nodes |-> IF u \in DOMAIN z.nodes[n].members THEN renewed(n) ELSE z.nodes[n]]
  <2>1. /\ z.nodes = s.nodes /\ z \in Stores
        /\ z = Changed(s, s.nodes, s.users, s.admin, s.rev, s.urev, s.stamp + 1)
    BY <1>1, StampedFacts
  <2>2. t = [[z EXCEPT !.nodes = kept] EXCEPT !.urev = z.urev + 1]
    BY DEF mutateUser, ResetUserCredentials
  <2>3. ASSUME NEW n \in DOMAIN s.nodes, u \in DOMAIN s.nodes[n].members
        PROVE  renewed(n) = [s.nodes[n] EXCEPT !.members =
                               [s.nodes[n].members EXCEPT ![u] = Rekeyed(z, n, u)]]
    <3>1. z.nodes[n] \in Node /\ z.nodes \in [DOMAIN z.nodes -> Node] /\ n \in DOMAIN z.nodes
      BY <2>1, StoreFacts
    <3>2. renewed(n) = [z EXCEPT !.nodes[n].members[u] = Rekeyed(z, n, u)].nodes[n]
      BY DEF resetMembershipCredential, Rekeyed
    <3>3. [z EXCEPT !.nodes[n].members[u] = Rekeyed(z, n, u)].nodes = [z.nodes EXCEPT ![n].members[u] = Rekeyed(z, n, u)]
      BY <2>1 DEF Stores
    <3>4. renewed(n) = [z.nodes[n] EXCEPT !.members[u] = Rekeyed(z, n, u)]
      BY <3>1, <3>2, <3>3
    <3> QED
      BY <2>1, <3>4
  <2>4. kept = RekeyedFor(s, u)
    BY <2>1, <2>3 DEF RekeyedFor
  <2> HIDE DEF kept, z
  <2> QED
    BY <2>1, <2>2, <2>4, ZenonT(60) DEF Changed
<1>3. MembersRedrawn(s, RekeyedFor(s, u), s.users, s.admin)
  <2>1. s.users \in SUBSET Accounts /\ s.admin \in BOOLEAN
    BY <1>1, StoreFacts
  <2>2. /\ s.admin <=> Admin \in s.users
        /\ \A k \in DOMAIN s.nodes :
              DOMAIN s.nodes[k].members \subseteq s.users /\ (s.admin <=> Admin \in DOMAIN s.nodes[k].members)
    BY DEF Kept, MembersSound
  <2>3. DOMAIN RekeyedFor(s, u) = DOMAIN s.nodes
    BY DEF RekeyedFor
  <2>4. RekeyedFor(s, u) \in [DOMAIN s.nodes -> Node]
    BY RekeyedForFacts DEF RekeyedFor
  <2>5. ASSUME NEW k \in DOMAIN s.nodes, NEW v \in DOMAIN s.nodes[k].members
        PROVE  \/ RekeyedFor(s, u)[k].members[v] = s.nodes[k].members[v]
               \/ Sound(Stamped(s), k, RekeyedFor(s, u)[k].members[v])
    BY RekeyedForFacts, RekeyedFacts
  <2> QED
    BY <2>1, <2>2, <2>3, <2>4, <2>5, RekeyedForFacts DEF MembersRedrawn
<1> QED
  BY <1>2, <1>3, MembersRedrawnKeeps

(* The administrator joins every node.                                     *)
Supervised(s) ==
    [n \in DOMAIN s.nodes |->
        [s.nodes[n] EXCEPT !.members = With(s.nodes[n].members, Admin, newMembership(Stamped(s), n))]]

LEMMA SupervisedFacts ==
    ASSUME NEW s, Kept(s), NEW n \in DOMAIN s.nodes
    PROVE  /\ Supervised(s)[n] \in Node
           /\ Supervised(s)[n].entrance = s.nodes[n].entrance
           /\ DOMAIN Supervised(s)[n].members = DOMAIN s.nodes[n].members \cup {Admin}
           /\ Sound(Stamped(s), n, Supervised(s)[n].members[Admin])
           /\ \A v \in DOMAIN s.nodes[n].members \ {Admin} :
                 Supervised(s)[n].members[v] = s.nodes[n].members[v]
<1> DEFINE m == newMembership(Stamped(s), n)
           members == With(s.nodes[n].members, Admin, m)
<1>1. /\ s.nodes[n] \in Node /\ s.nodes[n].members \in Members /\ Admin \in Accounts
  BY NodeFacts DEF Kept, Accounts
<1>2. Stamped(s) \in Stores /\ n \in DOMAIN Stamped(s).nodes
  BY StampedFacts DEF Kept
<1>3. m \in Membership /\ Sound(Stamped(s), n, m)
  BY <1>2, newMembershipSound
<1> HIDE DEF m
<1>4. /\ members \in Members /\ DOMAIN members = DOMAIN s.nodes[n].members \cup {Admin} /\ members[Admin] = m
      /\ \A v \in DOMAIN s.nodes[n].members \ {Admin} : members[v] = s.nodes[n].members[v]
  BY <1>1, <1>3, MembersWith, ZenonT(60)
<1>5. Supervised(s)[n] = [s.nodes[n] EXCEPT !.members = members]
  BY DEF Supervised, m
<1> HIDE DEF members
<1>6. /\ Supervised(s)[n] \in Node /\ Supervised(s)[n].members = members
      /\ Supervised(s)[n].entrance = s.nodes[n].entrance
  BY <1>1, <1>4, <1>5, NodeEdited
<1> QED
  BY <1>3, <1>4, <1>6

LEMMA ensureSystemAdministratorKeeps ==
    ASSUME NEW s, Kept(s), NEW t, t = mutateUser(ensureSystemAdministrator(s))
    PROVE  /\ Kept(t) /\ SameTopology(s, t) /\ t.stamp = s.stamp + 1
           /\ t.nodes = Supervised(s)
<1> DEFINE yes == TRUE
<1>1. s \in Stores /\ s.stamp \in Nat
  BY StoreFacts DEF Kept
<1>2. t = Changed(s, Supervised(s), s.users \cup {Admin}, yes, s.rev, s.urev + 1, s.stamp + 1)
  <2> DEFINE z == Stamped(s)
  <2>1. /\ z.nodes = s.nodes /\ z.users = s.users
        /\ z = Changed(s, s.nodes, s.users, s.admin, s.rev, s.urev, s.stamp + 1)
    BY <1>1, StampedFacts
  <2>2. t = [[z EXCEPT !.users = s.users \cup {Admin}, !.admin = TRUE, !.nodes = Supervised(s)] EXCEPT !.urev = z.urev + 1]
    BY <2>1 DEF mutateUser, ensureSystemAdministrator, Supervised
  <2> HIDE DEF z
  <2> QED
    BY <2>1, <2>2 DEF Changed
<1>3. MembersRedrawn(s, Supervised(s), s.users \cup {Admin}, yes)
  <2>1. s.users \cup {Admin} \in SUBSET Accounts
    BY <1>1, StoreFacts DEF Accounts
  <2>2. \A k \in DOMAIN s.nodes : DOMAIN s.nodes[k].members \subseteq s.users
    BY DEF Kept, MembersSound
  <2>3. DOMAIN Supervised(s) = DOMAIN s.nodes
    BY DEF Supervised
  <2>4. Supervised(s) \in [DOMAIN s.nodes -> Node]
    BY SupervisedFacts DEF Supervised
  <2>5. ASSUME NEW k \in DOMAIN s.nodes, NEW v \in DOMAIN Supervised(s)[k].members
        PROVE  \/ v \in DOMAIN s.nodes[k].members /\ Supervised(s)[k].members[v] = s.nodes[k].members[v]
               \/ Sound(Stamped(s), k, Supervised(s)[k].members[v])
    BY SupervisedFacts
  <2> QED
    BY <2>1, <2>2, <2>3, <2>4, <2>5, SupervisedFacts DEF MembersRedrawn
<1> HIDE DEF yes
<1> QED
  BY <1>2, <1>3, MembersRedrawnKeeps

-----------------------------------------------------------------------------
(* What an edit of the topology does: it leaves the deployed entrances and *)
(* their live secrets alone, and a new node has no members but the         *)
(* administrator.                                                          *)
TopologyEdited(s, t) ==
    /\ t.applied = s.applied /\ t.managed = s.managed /\ t.appliedRev = s.appliedRev
    /\ t.users = s.users /\ t.admin = s.admin /\ s.stamp <= t.stamp /\ s.urev <= t.urev
    /\ \A n \in DOMAIN t.nodes \cap DOMAIN s.nodes :
          /\ DOMAIN t.nodes[n].members = DOMAIN s.nodes[n].members
          /\ \A u \in DOMAIN s.nodes[n].members :
                /\ t.nodes[n].members[u].id = s.nodes[n].members[u].id
                /\ n \in DOMAIN s.applied =>
                      t.nodes[n].members[u].credential = s.nodes[n].members[u].credential
    /\ \A n \in DOMAIN t.nodes \ DOMAIN s.nodes : DOMAIN t.nodes[n].members \subseteq {Admin}
    /\ \/ t.urev > s.urev
       \/ DOMAIN s.applied \cap DOMAIN t.nodes = DOMAIN s.applied \cap DOMAIN s.nodes

LEMMA ReconciledFacts ==
    ASSUME NEW s \in Stores, NEW next \in Stores,
           NEW t, t = reconcileSharedListenerSecrets(next, s)
    PROVE  /\ DOMAIN t.nodes = DOMAIN next.nodes /\ t.nodes \in [DOMAIN t.nodes -> Node]
           /\ \A n \in DOMAIN next.nodes :
                /\ t.nodes[n] \in Node
                /\ t.nodes[n].members = next.nodes[n].members
                /\ t.nodes[n].entrance.agent = next.nodes[n].entrance.agent
                /\ t.nodes[n].entrance.port = next.nodes[n].entrance.port
                /\ t.nodes[n].entrance.shape = next.nodes[n].entrance.shape
           /\ \A n, m \in DOMAIN next.nodes :
                listenerKey(next.nodes[n].entrance) = listenerKey(next.nodes[m].entrance)
                    => t.nodes[n].entrance.key = t.nodes[m].entrance.key
           /\ t = Changed(next, t.nodes, next.users, next.admin, next.rev, next.urev, next.stamp)
<1> DEFINE From(key) == IF Sharing(s, key) # {} THEN s ELSE next
           Secret(key) == From(key).nodes[CHOOSE m \in Sharing(From(key), key) : TRUE].entrance.key
           nodes == [n \in DOMAIN next.nodes |->
                       [next.nodes[n] EXCEPT !.entrance.key = Secret(listenerKey(next.nodes[n].entrance))]]
<1>1. t = [next EXCEPT !.nodes = nodes]
  BY DEF reconcileSharedListenerSecrets
<1>2. ASSUME NEW n \in DOMAIN next.nodes
      PROVE  Secret(listenerKey(next.nodes[n].entrance)) \in Stamps
  <2> DEFINE key == listenerKey(next.nodes[n].entrance)
  <2>1. Sharing(From(key), key) # {} /\ From(key) \in Stores
    BY DEF Sharing
  <2>2. PICK m \in DOMAIN From(key).nodes : m = CHOOSE x \in Sharing(From(key), key) : TRUE
    BY <2>1 DEF Sharing
  <2>3. From(key).nodes[m].entrance \in Endpoint
    BY <2>1, NodeFacts
  <2> QED
    BY <2>2, <2>3 DEF Endpoint
<1> HIDE DEF Secret
<1>3. ASSUME NEW n \in DOMAIN next.nodes
      PROVE  /\ nodes[n] \in Node
             /\ nodes[n].members = next.nodes[n].members
             /\ nodes[n].entrance.agent = next.nodes[n].entrance.agent
             /\ nodes[n].entrance.port = next.nodes[n].entrance.port
             /\ nodes[n].entrance.shape = next.nodes[n].entrance.shape
             /\ nodes[n].entrance.key = Secret(listenerKey(next.nodes[n].entrance))
  <2>1. next.nodes[n] \in Node /\ next.nodes[n].entrance \in Endpoint /\ next.nodes[n].members \in Members
    BY NodeFacts
  <2> DEFINE entrance == [next.nodes[n].entrance EXCEPT !.key = Secret(listenerKey(next.nodes[n].entrance))]
  <2>2. /\ entrance \in Endpoint
        /\ entrance.agent = next.nodes[n].entrance.agent /\ entrance.port = next.nodes[n].entrance.port
        /\ entrance.shape = next.nodes[n].entrance.shape
        /\ entrance.key = Secret(listenerKey(next.nodes[n].entrance))
    BY <1>2, <2>1 DEF Endpoint
  <2>3. nodes[n] = [next.nodes[n] EXCEPT !.entrance = entrance]
    OBVIOUS
  <2> HIDE DEF entrance, nodes
  <2>4. nodes[n] \in Node /\ nodes[n].members = next.nodes[n].members /\ nodes[n].entrance = entrance
    BY <2>1, <2>2, <2>3 DEF Node, Members
  <2> QED
    BY <2>2, <2>4
<1>4. DOMAIN nodes = DOMAIN next.nodes /\ nodes \in [DOMAIN nodes -> Node]
  BY <1>3
<1> HIDE DEF nodes
<1>5. t = Changed(next, nodes, next.users, next.admin, next.rev, next.urev, next.stamp)
  BY <1>1 DEF Stores, Changed
<1>6. t.nodes = nodes
  BY <1>5, ChangedFields
<1> QED
  BY <1>3, <1>4, <1>5, <1>6

(* Every edit ends with mutate.                                            *)
LEMMA mutateKeeps ==
    ASSUME NEW s, Kept(s), NEW next \in Stores, TopologyEdited(s, next), next.rev = s.rev,
           MembersSound(next), validateListenerLayout(next),
           NEW t, t = mutate(s, next)
    PROVE  /\ Kept(t) /\ TopologyEdited(s, t) /\ t.rev = s.rev + 1
           /\ t.urev = next.urev /\ DOMAIN t.nodes = DOMAIN next.nodes
<1> DEFINE z == reconcileSharedListenerSecrets(next, s)
<1>1. s \in Stores /\ s.rev \in Nat /\ s.appliedRev \in Nat /\ s.appliedRev <= s.rev
  BY StoreFacts DEF Kept
<1>2. /\ DOMAIN z.nodes = DOMAIN next.nodes /\ z.nodes \in [DOMAIN z.nodes -> Node]
      /\ \A n \in DOMAIN next.nodes :
           /\ z.nodes[n] \in Node
           /\ z.nodes[n].members = next.nodes[n].members
           /\ z.nodes[n].entrance.agent = next.nodes[n].entrance.agent
           /\ z.nodes[n].entrance.port = next.nodes[n].entrance.port
           /\ z.nodes[n].entrance.shape = next.nodes[n].entrance.shape
      /\ \A n, m \in DOMAIN next.nodes :
           listenerKey(next.nodes[n].entrance) = listenerKey(next.nodes[m].entrance)
               => z.nodes[n].entrance.key = z.nodes[m].entrance.key
      /\ z = Changed(next, z.nodes, next.users, next.admin, next.rev, next.urev, next.stamp)
  BY <1>1, ReconciledFacts
<1>3. t = [z EXCEPT !.rev = z.rev + 1]
  BY DEF mutate
<1> HIDE DEF z
<1>4. z.rev = s.rev
  BY <1>2, ChangedFields
<1>5. t = Changed(next, z.nodes, next.users, next.admin, s.rev + 1, next.urev, next.stamp)
  BY <1>2, <1>3, <1>4 DEF Changed
<1>6. /\ t.nodes = z.nodes /\ t.users = next.users /\ t.admin = next.admin
      /\ t.rev = s.rev + 1 /\ t.urev = next.urev /\ t.stamp = next.stamp
      /\ t.applied = next.applied /\ t.managed = next.managed /\ t.appliedRev = next.appliedRev
  BY <1>5, ChangedFields
<1>7. t \in Stores
  <2>1. /\ next.users \in SUBSET Accounts /\ next.admin \in BOOLEAN /\ next.urev \in Nat /\ next.stamp \in Nat
        /\ DOMAIN z.nodes \subseteq StoreNodes
    BY <1>2, StoreFacts
  <2> QED
    BY <1>1, <1>2, <1>5, <2>1, ChangedFacts
<1>8. MembersSound(t)
  <2> SUFFICES ASSUME NEW n \in DOMAIN next.nodes
               PROVE  /\ DOMAIN t.nodes[n].members \subseteq t.users
                      /\ t.admin <=> Admin \in DOMAIN t.nodes[n].members
                      /\ \A u \in DOMAIN t.nodes[n].members : Sound(t, n, t.nodes[n].members[u])
    BY <1>2, <1>6 DEF MembersSound
  <2>1. t.nodes[n].members = next.nodes[n].members
    BY <1>2, <1>6
  <2>2. ASSUME NEW u \in DOMAIN next.nodes[n].members
        PROVE  Sound(t, n, next.nodes[n].members[u])
    <3>1. next.nodes[n].members[u] \in Membership
      BY NodeFacts
    <3>2. /\ n \in DOMAIN t.nodes /\ t.applied = next.applied /\ next.stamp <= t.stamp
          /\ t.nodes[n].entrance.shape = next.nodes[n].entrance.shape
      BY <1>2, <1>6, StoreFacts
    <3>3. Sound(next, n, next.nodes[n].members[u])
      BY DEF MembersSound
    <3> QED
      BY <1>7, <3>1, <3>2, <3>3, SoundKept
  <2> QED
    BY <1>6, <2>1, <2>2 DEF MembersSound
<1>9. ListenersAgree(t)
  <2>1. ASSUME NEW n \in DOMAIN next.nodes
        PROVE  /\ listenerKey(t.nodes[n].entrance) = listenerKey(next.nodes[n].entrance)
               /\ listenerSocketClaims(t.nodes[n].entrance) = listenerSocketClaims(next.nodes[n].entrance)
    BY <1>2, <1>6 DEF listenerKey, listenerSocketClaims
  <2>2. ASSUME NEW n \in DOMAIN t.nodes, NEW m \in DOMAIN t.nodes,
               listenerSocketClaims(t.nodes[n].entrance) \cap listenerSocketClaims(t.nodes[m].entrance) # {}
        PROVE  listenerKey(t.nodes[n].entrance) = listenerKey(t.nodes[m].entrance)
    <3>1. n \in DOMAIN next.nodes /\ m \in DOMAIN next.nodes
      BY <1>2, <1>6
    <3>2. listenerSocketClaims(next.nodes[n].entrance) \cap listenerSocketClaims(next.nodes[m].entrance) # {}
      BY <2>1, <2>2, <3>1
    <3>3. listenerKey(next.nodes[n].entrance) = listenerKey(next.nodes[m].entrance)
      BY <3>1, <3>2 DEF validateListenerLayout
    <3> QED
      BY <2>1, <3>1, <3>3
  <2>3. validateListenerLayout(t)
    BY <2>2 DEF validateListenerLayout
  <2> QED
    BY <1>2, <1>6, <2>1, <2>3 DEF ListenersAgree
<1>10. TopologyEdited(s, t)
  BY <1>2, <1>6 DEF TopologyEdited
<1> QED
  BY <1>1, <1>2, <1>6, <1>7, <1>8, <1>9, <1>10 DEF Kept, TopologyEdited

(* An edit is known by the draft it leaves.                                *)
DraftEdited(s, next, nodes, urev, stamp) ==
    /\ next = Changed(s, nodes, s.users, s.admin, s.rev, urev, stamp)
    /\ urev \in Nat /\ s.urev <= urev /\ stamp \in Nat /\ s.stamp <= stamp
    /\ DOMAIN nodes \subseteq StoreNodes /\ nodes \in [DOMAIN nodes -> Node]
    /\ \A n \in DOMAIN nodes \cap DOMAIN s.nodes :
          /\ DOMAIN nodes[n].members = DOMAIN s.nodes[n].members
          /\ \A u \in DOMAIN s.nodes[n].members :
                \/ /\ nodes[n].members[u] = s.nodes[n].members[u]
                   /\ nodes[n].entrance.shape = s.nodes[n].entrance.shape
                \/ /\ nodes[n].members[u].id = s.nodes[n].members[u].id
                   /\ n \in DOMAIN s.applied =>
                         nodes[n].members[u].credential = s.nodes[n].members[u].credential
                   /\ Sound(next, n, nodes[n].members[u])
    /\ \A n \in DOMAIN nodes \ DOMAIN s.nodes :
          /\ DOMAIN nodes[n].members = IF s.admin THEN {Admin} ELSE {}
          /\ \A u \in DOMAIN nodes[n].members : Sound(next, n, nodes[n].members[u])
    /\ \/ urev > s.urev
       \/ DOMAIN s.applied \cap DOMAIN nodes = DOMAIN s.applied \cap DOMAIN s.nodes

LEMMA DraftEditedKeeps ==
    ASSUME NEW s, Kept(s), NEW next, NEW nodes, NEW urev, NEW stamp,
           DraftEdited(s, next, nodes, urev, stamp), validateListenerLayout(next),
           NEW t, t = mutate(s, next)
    PROVE  /\ Kept(t) /\ TopologyEdited(s, t) /\ t.rev = s.rev + 1
           /\ t.urev = urev /\ DOMAIN t.nodes = DOMAIN nodes
<1>1. s \in Stores
  BY DEF Kept
<1>2. /\ next.nodes = nodes /\ next.users = s.users /\ next.admin = s.admin
      /\ next.rev = s.rev /\ next.urev = urev /\ next.stamp = stamp
      /\ next.applied = s.applied /\ next.managed = s.managed /\ next.appliedRev = s.appliedRev
  BY ChangedFields DEF DraftEdited
<1>3. next \in Stores
  BY <1>1, StoreFacts, ChangedFacts DEF DraftEdited
<1>4. ASSUME NEW n \in DOMAIN nodes, NEW u \in DOMAIN nodes[n].members
      PROVE  Sound(next, n, nodes[n].members[u])
  <2>1. CASE n \in DOMAIN s.nodes
    <3>1. u \in DOMAIN s.nodes[n].members
      BY <2>1 DEF DraftEdited
    <3>2. CASE /\ nodes[n].members[u] = s.nodes[n].members[u]
               /\ nodes[n].entrance.shape = s.nodes[n].entrance.shape
      <4>1. s.nodes[n].members[u] \in Membership
        BY <1>1, <2>1, <3>1, NodeFacts
      <4>2. s.stamp <= next.stamp /\ Sound(s, n, s.nodes[n].members[u])
        BY <1>2, <2>1, <3>1 DEF DraftEdited, Kept, MembersSound
      <4> QED
        BY <1>1, <1>2, <1>3, <2>1, <3>2, <4>1, <4>2, SoundKept
    <3> QED
      BY <2>1, <3>1, <3>2 DEF DraftEdited
  <2>2. CASE n \notin DOMAIN s.nodes
    BY <2>2 DEF DraftEdited
  <2> QED
    BY <2>1, <2>2
<1>5. MembersSound(next)
  <2> SUFFICES ASSUME NEW n \in DOMAIN nodes
               PROVE  DOMAIN nodes[n].members \subseteq s.users /\ (s.admin <=> Admin \in DOMAIN nodes[n].members)
    BY <1>2, <1>4 DEF MembersSound
  <2>1. CASE n \in DOMAIN s.nodes
    BY <2>1 DEF DraftEdited, Kept, MembersSound
  <2>2. CASE n \notin DOMAIN s.nodes
    BY <2>2 DEF DraftEdited, Kept
  <2> QED
    BY <2>1, <2>2
<1>6. TopologyEdited(s, next)
  <2>1. ASSUME NEW n \in DOMAIN nodes \cap DOMAIN s.nodes
        PROVE  /\ DOMAIN nodes[n].members = DOMAIN s.nodes[n].members
               /\ \A u \in DOMAIN s.nodes[n].members :
                    /\ nodes[n].members[u].id = s.nodes[n].members[u].id
                    /\ n \in DOMAIN s.applied =>
                          nodes[n].members[u].credential = s.nodes[n].members[u].credential
    BY DEF DraftEdited
  <2>2. \A n \in DOMAIN nodes \ DOMAIN s.nodes : DOMAIN nodes[n].members \subseteq {Admin}
    BY DEF DraftEdited
  <2>3. /\ s.stamp <= stamp /\ s.urev <= urev
        /\ urev > s.urev \/ DOMAIN s.applied \cap DOMAIN nodes = DOMAIN s.applied \cap DOMAIN s.nodes
    BY DEF DraftEdited
  <2> QED
    BY <1>2, <2>1, <2>2, <2>3 DEF TopologyEdited
<1> QED
  BY <1>2, <1>3, <1>5, <1>6, mutateKeeps

LEMMA renameProxyNodeKeeps ==
    ASSUME NEW s, Kept(s), NEW t, t = mutate(s, s)
    PROVE  Kept(t) /\ TopologyEdited(s, t) /\ t.rev = s.rev + 1 /\ DOMAIN t.nodes = DOMAIN s.nodes
<1>1. s \in Stores
  BY DEF Kept
<1>2. DraftEdited(s, s, s.nodes, s.urev, s.stamp)
  <2>1. s = Changed(s, s.nodes, s.users, s.admin, s.rev, s.urev, s.stamp)
    BY <1>1 DEF Stores, Changed
  <2> QED
    BY <1>1, <2>1, StoreFacts DEF DraftEdited
<1> QED
  BY <1>2, DraftEditedKeeps DEF Kept, ListenersAgree

LEMMA deleteProxyNodeKeeps ==
    ASSUME NEW s, Kept(s), NEW n, NEW t, t = mutate(s, DeleteProxyNode(s, n))
    PROVE  /\ Kept(t) /\ TopologyEdited(s, t) /\ t.rev = s.rev + 1
           /\ DOMAIN t.nodes = DOMAIN s.nodes \ {n}
<1> DEFINE next == DeleteProxyNode(s, n)
           nodes == Without(s.nodes, {n})
<1>1. s \in Stores /\ s.urev \in Nat /\ s.stamp \in Nat
  BY StoreFacts DEF Kept
<1>2. next = Changed(s, nodes, s.users, s.admin, s.rev, s.urev + 1, s.stamp)
  <2>1. next = [s EXCEPT !.nodes = nodes, !.urev = s.urev + 1]
    BY DEF DeleteProxyNode
  <2> HIDE DEF nodes, next
  <2> QED
    BY <1>1, <2>1 DEF Stores, Changed
<1>3. /\ DOMAIN nodes = DOMAIN s.nodes \ {n} /\ nodes \in [DOMAIN nodes -> Node]
      /\ \A k \in DOMAIN nodes : nodes[k] = s.nodes[k]
  BY <1>1, StoreFacts DEF Without
<1>4. next.nodes = nodes /\ next.urev = s.urev + 1
  BY <1>2, ChangedFields
<1> HIDE DEF nodes, next
<1>5. DraftEdited(s, next, nodes, s.urev + 1, s.stamp)
  BY <1>1, <1>2, <1>3, StoreFacts DEF DraftEdited
<1>6. ListenersAgree(next)
  BY <1>3, <1>4, SameListeners DEF Kept
<1>7. validateListenerLayout(next)
  BY <1>6 DEF ListenersAgree
<1>8. t = mutate(s, next)
  BY DEF next
<1> QED
  BY <1>3, <1>5, <1>7, <1>8, DraftEditedKeeps

LEMMA moveProxyEntranceKeeps ==
    ASSUME NEW s, Kept(s), NEW n \in DOMAIN s.nodes, NEW agent \in StoreAgents,
           validateListenerLayout(MoveEntrance(s, n, agent)),
           NEW t, t = mutate(s, MoveEntrance(s, n, agent))
    PROVE  Kept(t) /\ TopologyEdited(s, t) /\ t.rev = s.rev + 1 /\ DOMAIN t.nodes = DOMAIN s.nodes
<1> DEFINE nodes == [s.nodes EXCEPT ![n].entrance.agent = agent]
<1>1. s \in Stores /\ s.urev \in Nat /\ s.stamp \in Nat
  BY StoreFacts DEF Kept
<1>2. MoveEntrance(s, n, agent) = Changed(s, nodes, s.users, s.admin, s.rev, s.urev, s.stamp)
  BY <1>1 DEF MoveEntrance, Stores, Changed
<1>3. /\ DOMAIN nodes = DOMAIN s.nodes
      /\ \A k \in DOMAIN s.nodes :
           /\ nodes[k] \in Node /\ nodes[k].members = s.nodes[k].members
           /\ nodes[k].entrance.shape = s.nodes[k].entrance.shape
  <2>1. s.nodes[n] \in Node /\ s.nodes[n].entrance \in Endpoint
    BY <1>1, NodeFacts
  <2>2. nodes[n] = [s.nodes[n] EXCEPT !.entrance.agent = agent] /\ \A k \in DOMAIN s.nodes \ {n} : nodes[k] = s.nodes[k]
    BY <1>1, StoreFacts
  <2> HIDE DEF nodes
  <2>3. /\ nodes[n] \in Node /\ nodes[n].members = s.nodes[n].members
        /\ nodes[n].entrance.shape = s.nodes[n].entrance.shape
    BY <2>1, <2>2 DEF Node, Endpoint
  <2> QED
    BY <1>1, <2>2, <2>3, StoreFacts DEF nodes
<1>4. nodes \in [DOMAIN nodes -> Node]
  BY <1>3
<1> HIDE DEF nodes
<1>5. DraftEdited(s, MoveEntrance(s, n, agent), nodes, s.urev, s.stamp)
  BY <1>1, <1>2, <1>3, <1>4, StoreFacts DEF DraftEdited
<1> QED
  BY <1>3, <1>5, DraftEditedKeeps

(* A new shape of a listener gives each membership the credential it needs. *)
LEMMA memberForShapeSound ==
    ASSUME NEW s, Kept(s), NEW z, z = Stamped(s), NEW k \in DOMAIN s.nodes,
           NEW old, s.nodes[k].entrance.shape = old.shape, NEW shape \in Shapes,
           NEW next, k \in DOMAIN next.nodes, next.nodes[k].entrance.shape = shape,
           next.applied = s.applied, next.stamp = s.stamp + 1,
           NEW u \in DOMAIN s.nodes[k].members,
           NEW m, m = s.nodes[k].members[u],
           NEW r, r = memberForShape(z, k, m, old, shape)
    PROVE  /\ r \in Membership /\ r.id = m.id
           /\ k \in DOMAIN s.applied => r.credential = m.credential
           /\ Sound(next, k, r)
<1>1. s \in Stores /\ s.stamp \in Nat
  BY StoreFacts DEF Kept
<1>2. z.applied = s.applied /\ z.stamp = s.stamp + 1
  BY <1>1, StampedFacts
<1>3. m \in Membership /\ Sound(s, k, m)
  BY <1>1, NodeFacts DEF Kept, MembersSound
<1>4. /\ m.id \in Nat /\ m.id <= s.stamp /\ m.id <= m.credential.stamp
      /\ m.credential.shape = appliedEntranceEndpoint(s, k).shape
      /\ m.credential \in Credential
  BY <1>3 DEF Membership, Stamps, Sound
<1> DEFINE fresh == [shape |-> shape, stamp |-> s.stamp + 1]
<1>5. fresh \in Credential /\ fresh.shape = shape /\ m.id <= fresh.stamp /\ m.id <= next.stamp
  BY <1>1, <1>4 DEF Credential, Stamps
<1>6. CASE k \notin DOMAIN s.applied
  <2>1. r = [m EXCEPT !.pending = {}, !.credential = IF shape # old.shape THEN fresh ELSE m.credential]
    BY <1>2, <1>6 DEF memberForShape
  <2> HIDE DEF fresh
  <2>2. /\ r.pending = {} /\ r.id = m.id
        /\ r.credential = IF shape # old.shape THEN fresh ELSE m.credential
    BY <1>3, <2>1 DEF Membership
  <2>3. m.credential.shape = old.shape
    BY <1>4, <1>6 DEF appliedEntranceEndpoint
  <2>4. r.credential.shape = shape /\ m.id <= r.credential.stamp /\ r.credential \in Credential
    BY <1>4, <1>5, <2>2, <2>3
  <2>5. r \in Membership
    BY <1>3, <1>4, <1>5, <2>1, ZenonT(60) DEF Membership
  <2>6. appliedEntranceEndpoint(next, k).shape = shape /\ Cardinality({}) = 0
    BY <1>6, FS_EmptySet DEF appliedEntranceEndpoint
  <2> QED
    BY <1>5, <1>6, <2>2, <2>4, <2>5, <2>6, SMTT(30) DEF Sound, MembershipFits
<1>7. CASE k \in DOMAIN s.applied
  <2>1. r = [m EXCEPT !.pending = IF shape # s.applied[k].shape THEN {fresh} ELSE {}]
    BY <1>2, <1>7 DEF memberForShape
  <2> HIDE DEF fresh
  <2>2. /\ r.pending = (IF shape # s.applied[k].shape THEN {fresh} ELSE {})
        /\ r.id = m.id /\ r.credential = m.credential
    BY <1>3, <2>1 DEF Membership
  <2>3. r \in Membership
    BY <1>3, <1>5, <2>1 DEF Membership
  <2>4. Cardinality(r.pending) < 2
    <3>1. Cardinality({fresh}) = 1 /\ Cardinality({}) = 0
      BY FS_Singleton, FS_EmptySet
    <3> QED
      BY <2>2, <3>1
  <2>5. /\ m.credential.shape = s.applied[k].shape
        /\ appliedEntranceEndpoint(next, k).shape = s.applied[k].shape
    BY <1>4, <1>7 DEF appliedEntranceEndpoint
  <2>6. next.stamp \in Nat /\ r.id <= next.stamp
    BY <1>1, <1>5, <2>2
  <2> QED
    BY <1>4, <1>5, <1>7, <2>2, <2>3, <2>4, <2>5, <2>6, ZenonT(60) DEF Sound, MembershipFits
<1> QED
  BY <1>6, <1>7

(* The draft of an edit of a listener.                                     *)
Relistened(s, target, port, shape) ==
    [k \in DOMAIN s.nodes |->
        IF k \in Sharing(s, listenerKey(s.nodes[target].entrance))
        THEN nodeForListener(Stamped(s), k, s.nodes[target].entrance, port, shape)
        ELSE s.nodes[k]]

LEMMA RelistenedFacts ==
    ASSUME NEW s, Kept(s), NEW n \in DOMAIN s.nodes, NEW port \in Ports, NEW shape \in Shapes,
           NEW next, next.nodes = Relistened(s, n, port, shape),
           next.applied = s.applied, next.stamp = s.stamp + 1,
           NEW k \in DOMAIN s.nodes
    PROVE  /\ next.nodes[k] \in Node
           /\ DOMAIN next.nodes[k].members = DOMAIN s.nodes[k].members
           /\ \/ next.nodes[k] = s.nodes[k]
              \/ \A u \in DOMAIN s.nodes[k].members :
                   /\ next.nodes[k].members[u].id = s.nodes[k].members[u].id
                   /\ k \in DOMAIN s.applied =>
                         next.nodes[k].members[u].credential = s.nodes[k].members[u].credential
                   /\ Sound(next, k, next.nodes[k].members[u])
<1> DEFINE z == Stamped(s)
           old == s.nodes[n].entrance
           key == IF shape \in Keyless THEN 0 ELSE IF shape = old.shape THEN old.key ELSE z.stamp
           new == next.nodes[k]
           members == s.nodes[k].members
<1>1. s \in Stores /\ s.stamp \in Nat
  BY StoreFacts DEF Kept
<1>2. z.nodes = s.nodes /\ z.stamp = s.stamp + 1
  BY <1>1, StampedFacts
<1>3. k \in DOMAIN next.nodes
  BY DEF Relistened
<1>4. CASE k \notin Sharing(s, listenerKey(old))
  <2>1. new = s.nodes[k]
    BY <1>4 DEF Relistened
  <2> QED
    BY <1>1, <2>1, NodeFacts
<1>5. CASE k \in Sharing(s, listenerKey(old))
  <2>1. /\ s.nodes[k].entrance \in Endpoint /\ old \in Endpoint
        /\ members \in [DOMAIN members -> Membership] /\ DOMAIN members \subseteq Accounts
    BY <1>1, NodeFacts
  <2>2. s.nodes[k].entrance.shape = old.shape
    BY <1>5 DEF Sharing, listenerKey
  <2>3. new = nodeForListener(z, k, old, port, shape)
    BY <1>5 DEF Relistened
  <2>4. key \in Stamps
    BY <1>1, <1>2, <2>1 DEF Endpoint, Stamps
  <2> HIDE DEF new, z, old
  <2>5. new = [entrance |-> [s.nodes[k].entrance EXCEPT !.port = port, !.shape = shape, !.key = key],
               members |-> [u \in DOMAIN members |-> memberForShape(z, k, members[u], old, shape)]]
    BY <1>2, <2>3 DEF nodeForListener
  <2> HIDE DEF key, members
  <2>6. new.entrance \in Endpoint /\ new.entrance.shape = shape
    <3>1. port \in Ports
      OBVIOUS
    <3>2. new.entrance = [s.nodes[k].entrance EXCEPT !.port = port, !.shape = shape, !.key = key]
      BY <2>5
    <3> QED
      BY <2>1, <2>4, <3>1, <3>2 DEF Endpoint
  <2>7. ASSUME NEW u \in DOMAIN members
        PROVE  /\ memberForShape(z, k, members[u], old, shape) \in Membership
               /\ memberForShape(z, k, members[u], old, shape).id = members[u].id
               /\ k \in DOMAIN s.applied =>
                    memberForShape(z, k, members[u], old, shape).credential = members[u].credential
               /\ Sound(next, k, memberForShape(z, k, members[u], old, shape))
    <3>1. z = Stamped(s) /\ next.nodes[k].entrance.shape = shape /\ u \in DOMAIN s.nodes[k].members
          /\ members[u] = s.nodes[k].members[u]
      BY <2>6 DEF z, new, members
    <3> QED
      BY <1>3, <2>2, <3>1, memberForShapeSound
  <2>8. /\ new.members = [u \in DOMAIN members |-> memberForShape(z, k, members[u], old, shape)]
        /\ new = [entrance |-> new.entrance, members |-> new.members]
    BY <2>5
  <2>9. DOMAIN new.members = DOMAIN members
        /\ \A u \in DOMAIN members : new.members[u] = memberForShape(z, k, members[u], old, shape)
    BY <2>8
  <2>10. new.members \in Members
    <3>1. new.members \in [DOMAIN members -> Membership]
      BY <2>7, <2>8
    <3>2. DOMAIN members \subseteq Accounts
      BY <2>1 DEF members
    <3> QED
      BY <2>9, <3>1, <3>2, PartialFacts DEF Members
  <2>11. new \in Node
    BY <2>6, <2>8, <2>10 DEF Node, Members
  <2> QED
    BY <2>7, <2>9, <2>11 DEF new, members
<1> QED
  BY <1>4, <1>5

LEMMA updateProxyEntranceKeeps ==
    ASSUME NEW s, Kept(s), NEW n \in DOMAIN s.nodes, NEW port \in Ports, NEW shape \in Shapes,
           validateListenerLayout(UpdateEntrance(s, n, port, shape)),
           NEW t, t = mutate(s, UpdateEntrance(s, n, port, shape))
    PROVE  Kept(t) /\ TopologyEdited(s, t) /\ t.rev = s.rev + 1 /\ DOMAIN t.nodes = DOMAIN s.nodes
<1> DEFINE next == UpdateEntrance(s, n, port, shape)
           z == Stamped(s)
           nodes == Relistened(s, n, port, shape)
<1>1. s \in Stores /\ s.urev \in Nat /\ s.stamp \in Nat
  BY StoreFacts DEF Kept
<1>2. /\ z = Changed(s, s.nodes, s.users, s.admin, s.rev, s.urev, s.stamp + 1)
      /\ z.nodes = s.nodes
  BY <1>1, StampedFacts
<1>3. next = [z EXCEPT !.nodes = nodes]
  <2>1. \A key : Sharing(z, key) = Sharing(s, key)
    BY <1>2 DEF Sharing
  <2> HIDE DEF z
  <2>2. next = applySharedListenerEdit(z, n, port, shape)
    BY DEF UpdateEntrance, z
  <2>3. nodes = [k \in DOMAIN z.nodes |->
                   IF k \in Sharing(z, listenerKey(z.nodes[n].entrance))
                   THEN nodeForListener(z, k, z.nodes[n].entrance, port, shape) ELSE z.nodes[k]]
    BY <1>2, <2>1, ZenonT(60) DEF Relistened, z
  <2> HIDE DEF nodes, next
  <2> QED
    BY <2>2, <2>3, ZenonT(60) DEF applySharedListenerEdit
<1> HIDE DEF nodes, z, next
<1>4. next = Changed(s, nodes, s.users, s.admin, s.rev, s.urev, s.stamp + 1)
  BY <1>2, <1>3 DEF Changed
<1>5. next.nodes = nodes /\ next.applied = s.applied /\ next.stamp = s.stamp + 1
  BY <1>4, ChangedFields
<1>6. DOMAIN nodes = DOMAIN s.nodes
  BY DEF nodes, Relistened
<1>7. ASSUME NEW k \in DOMAIN s.nodes
      PROVE  /\ nodes[k] \in Node
             /\ DOMAIN nodes[k].members = DOMAIN s.nodes[k].members
             /\ \/ nodes[k] = s.nodes[k]
                \/ \A u \in DOMAIN s.nodes[k].members :
                     /\ nodes[k].members[u].id = s.nodes[k].members[u].id
                     /\ k \in DOMAIN s.applied =>
                           nodes[k].members[u].credential = s.nodes[k].members[u].credential
                     /\ Sound(next, k, nodes[k].members[u])
  <2>1. next.nodes = Relistened(s, n, port, shape)
    BY <1>5 DEF nodes
  <2> QED
    BY <1>5, <2>1, RelistenedFacts
<1>8. nodes \in [DOMAIN nodes -> Node]
  <2>1. nodes = [k \in DOMAIN s.nodes |-> nodes[k]]
    BY DEF nodes, Relistened
  <2> QED
    BY <1>6, <1>7, <2>1
<1>9. DraftEdited(s, next, nodes, s.urev, s.stamp + 1)
  <2>1. s.stamp + 1 \in Nat /\ s.stamp <= s.stamp + 1 /\ s.urev <= s.urev /\ DOMAIN nodes \subseteq StoreNodes
    BY <1>1, <1>6, StoreFacts
  <2> QED
    BY <1>1, <1>4, <1>6, <1>7, <1>8, <2>1 DEF DraftEdited
<1> QED
  BY <1>6, <1>9, DraftEditedKeeps DEF next

(* A new node has no members, but the administrator when he has access.    *)
LEMMA createProxyNodeKeeps ==
    ASSUME NEW s, Kept(s), NEW n \in StoreNodes, n \notin DOMAIN s.nodes, n \notin DOMAIN s.applied,
           NEW agent \in StoreAgents, NEW port \in Ports, NEW shape \in Shapes,
           validateListenerLayout(CreateProxyNode(s, n, agent, port, shape)),
           NEW t, t = mutate(s, CreateProxyNode(s, n, agent, port, shape))
    PROVE  /\ Kept(t) /\ TopologyEdited(s, t) /\ t.rev = s.rev + 1
           /\ DOMAIN t.nodes = DOMAIN s.nodes \cup {n}
<1> DEFINE next == CreateProxyNode(s, n, agent, port, shape)
           z == Stamped(s)
           e == [agent |-> agent, port |-> port, shape |-> shape,
                 key |-> IF shape \in Keyless THEN 0 ELSE z.stamp]
           nobody == [u \in {} |-> {}]
           empty == [entrance |-> e, members |-> nobody]
           bareNodes == With(z.nodes, n, empty)
           bare == [z EXCEPT !.nodes = bareNodes]
<1>1. s \in Stores /\ s.urev \in Nat /\ s.stamp \in Nat /\ s.admin \in BOOLEAN
  BY StoreFacts DEF Kept
<1>2. /\ z = Changed(s, s.nodes, s.users, s.admin, s.rev, s.urev, s.stamp + 1)
      /\ z.nodes = s.nodes /\ z.stamp = s.stamp + 1
  BY <1>1, StampedFacts
<1>3. next = IF s.admin THEN superviseNode(bare, n) ELSE bare
  <2>1. empty = emptyNode(z, agent, port, shape)
    BY DEF emptyNode
  <2> HIDE DEF empty
  <2> QED
    BY <2>1 DEF CreateProxyNode
<1>4. e \in Endpoint /\ nobody \in Members /\ DOMAIN nobody = {}
  <2>1. nobody \in [DOMAIN nobody -> Membership] /\ DOMAIN nobody = {}
    OBVIOUS
  <2>2. e \in Endpoint
    <3> HIDE DEF z
    <3> QED
      BY <1>1, <1>2 DEF Endpoint, Stamps
  <2> QED
    BY <2>1, <2>2, PartialFacts DEF Members
<1> HIDE DEF next, z, e, nobody
<1>5. empty \in Node /\ empty.entrance = e /\ empty.members = nobody
  BY <1>4 DEF Node, Members
<1> HIDE DEF empty
<1>6. /\ DOMAIN bareNodes = DOMAIN s.nodes \cup {n} /\ bareNodes \in [DOMAIN bareNodes -> Node]
      /\ bareNodes[n] = empty /\ \A k \in DOMAIN s.nodes : bareNodes[k] = s.nodes[k]
  BY <1>1, <1>2, <1>5, StoreFacts DEF With
<1> HIDE DEF bareNodes
<1>7. bare = Changed(s, bareNodes, s.users, s.admin, s.rev, s.urev, s.stamp + 1)
  BY <1>2 DEF Changed
<1> HIDE DEF bare
<1>8. bare.nodes = bareNodes /\ bare.urev = s.urev /\ bare.stamp = s.stamp + 1 /\ bare.applied = s.applied
  BY <1>7, ChangedFields
<1>9. bare \in Stores
  <2>1. s.stamp + 1 \in Nat /\ DOMAIN bareNodes \subseteq StoreNodes
    BY <1>1, <1>6, StoreFacts
  <2> QED
    BY <1>1, <1>6, <1>7, <2>1, StoreFacts, ChangedFacts
<1>10. CASE s.admin
  <2> DEFINE m == newMembership(bare, n)
             joined == With(nobody, Admin, m)
             nodes == [bareNodes EXCEPT ![n] = [empty EXCEPT !.members = joined]]
  <2>1. m \in Membership /\ m.id = s.stamp + 1 /\ Sound(bare, n, m)
    BY <1>6, <1>8, <1>9, newMembershipSound
  <2>2. next = Changed(s, nodes, s.users, s.admin, s.rev, s.urev + 1, s.stamp + 1)
    <3>1. nodes = [bare.nodes EXCEPT ![n].members = With(bare.nodes[n].members, Admin, m)]
      BY <1>5, <1>6, <1>8
    <3>2. next = [bare EXCEPT !.nodes = nodes, !.urev = s.urev + 1]
      BY <1>3, <1>8, <1>10, <3>1 DEF superviseNode
    <3> HIDE DEF nodes
    <3> QED
      BY <1>7, <3>2 DEF Changed
  <2> HIDE DEF m
  <2>3. joined \in Members /\ DOMAIN joined = {Admin} /\ joined[Admin] = m
    <3>1. Admin \in Accounts
      BY DEF Accounts
    <3>2. \A f \in Members, y \in Membership :
             /\ With(f, Admin, y) \in Members
             /\ DOMAIN With(f, Admin, y) = DOMAIN f \cup {Admin} /\ With(f, Admin, y)[Admin] = y
      BY <3>1, MembersWith
    <3>3. joined \in Members /\ DOMAIN joined = DOMAIN nobody \cup {Admin} /\ joined[Admin] = m
      BY <1>4, <2>1, <3>2
    <3> QED
      BY <1>4, <3>3
  <2> HIDE DEF joined
  <2>4. /\ [empty EXCEPT !.members = joined] \in Node
        /\ [empty EXCEPT !.members = joined].entrance = e
        /\ [empty EXCEPT !.members = joined].members = joined
    BY <1>5, <2>3, NodeEdited
  <2>5. /\ DOMAIN nodes = DOMAIN s.nodes \cup {n} /\ nodes \in [DOMAIN nodes -> Node]
        /\ nodes[n].entrance = e /\ nodes[n].members = joined
        /\ \A k \in DOMAIN s.nodes : nodes[k] = s.nodes[k]
    BY <1>6, <2>4
  <2> HIDE DEF nodes
  <2>6. /\ next.nodes = nodes /\ next.stamp = s.stamp + 1 /\ next.applied = s.applied
    BY <2>2, ChangedFields
  <2>7. next \in Stores
    <3>1. s.stamp + 1 \in Nat /\ s.urev + 1 \in Nat /\ DOMAIN nodes \subseteq StoreNodes
      BY <1>1, <2>5, StoreFacts
    <3> QED
      BY <1>1, <2>2, <2>5, <3>1, StoreFacts, ChangedFacts
  <2>8. Sound(next, n, m)
    <3>1. /\ n \in DOMAIN bare.nodes /\ n \in DOMAIN next.nodes
          /\ next.applied = bare.applied /\ bare.stamp <= next.stamp
          /\ next.nodes[n].entrance.shape = bare.nodes[n].entrance.shape
      BY <1>1, <1>5, <1>6, <1>8, <2>5, <2>6
    <3> QED
      BY <1>9, <2>1, <2>7, <3>1, SoundKept
  <2>9. DraftEdited(s, next, nodes, s.urev + 1, s.stamp + 1)
    <3>1. /\ s.stamp + 1 \in Nat /\ s.stamp <= s.stamp + 1
          /\ s.urev + 1 \in Nat /\ s.urev <= s.urev + 1 /\ s.urev + 1 > s.urev
          /\ DOMAIN nodes \subseteq StoreNodes
      BY <1>1, <2>5, StoreFacts
    <3>2. \A k \in DOMAIN nodes \ DOMAIN s.nodes :
             /\ DOMAIN nodes[k].members = {Admin}
             /\ \A u \in DOMAIN nodes[k].members : Sound(next, k, nodes[k].members[u])
      BY <2>3, <2>5, <2>8
    <3>3. \A k \in DOMAIN nodes \cap DOMAIN s.nodes : nodes[k] = s.nodes[k]
      BY <2>5
    <3> QED
      BY <1>10, <2>2, <2>5, <3>1, <3>2, <3>3 DEF DraftEdited
  <2> QED
    BY <2>5, <2>9, DraftEditedKeeps DEF next
<1>11. CASE ~s.admin
  <2>1. next = Changed(s, bareNodes, s.users, s.admin, s.rev, s.urev, s.stamp + 1)
    BY <1>3, <1>7, <1>11
  <2>2. DraftEdited(s, next, bareNodes, s.urev, s.stamp + 1)
    <3>1. /\ s.stamp + 1 \in Nat /\ s.stamp <= s.stamp + 1 /\ s.urev <= s.urev
          /\ DOMAIN bareNodes \subseteq StoreNodes
          /\ DOMAIN s.applied \cap DOMAIN bareNodes = DOMAIN s.applied \cap DOMAIN s.nodes
      BY <1>1, <1>6, StoreFacts
    <3>2. \A k \in DOMAIN bareNodes \ DOMAIN s.nodes : DOMAIN bareNodes[k].members = {}
      BY <1>4, <1>5, <1>6
    <3>3. \A k \in DOMAIN bareNodes \cap DOMAIN s.nodes : bareNodes[k] = s.nodes[k]
      BY <1>6
    <3> QED
      BY <1>1, <1>6, <1>11, <2>1, <3>1, <3>2, <3>3 DEF DraftEdited
  <2> QED
    BY <1>6, <2>2, DraftEditedKeeps DEF next
<1> QED
  BY <1>10, <1>11

-----------------------------------------------------------------------------
(* What a rollout and a roll-back do.  Neither touches who is a member of  *)
(* a node that the live store has.                                         *)
SameMembers(s, t) ==
    /\ \A n \in DOMAIN t.nodes \cap DOMAIN s.nodes :
          /\ DOMAIN t.nodes[n].members = DOMAIN s.nodes[n].members
          /\ \A u \in DOMAIN s.nodes[n].members : t.nodes[n].members[u].id = s.nodes[n].members[u].id
    /\ t.users = s.users /\ t.stamp = s.stamp /\ t.urev = s.urev + 1

LEMMA PromotedType ==
    ASSUME NEW m \in Membership
    PROVE  Promoted(m) \in Membership
<1>1. CASE m.pending # {}
  <2>1. PICK c \in m.pending : c = CHOOSE x \in m.pending : TRUE
    BY <1>1
  <2>2. Promoted(m) = [m EXCEPT !.credential = c, !.pending = {}]
    BY <1>1, <2>1 DEF Promoted
  <2> QED
    BY <2>2 DEF Membership
<1> QED
  BY <1>1 DEF Promoted

LEMMA PromotedSound ==
    ASSUME NEW s \in Stores, NEW n \in DOMAIN s.nodes, NEW m \in Membership, Sound(s, n, m),
           NEW t, n \in DOMAIN t.applied, t.applied[n].shape = s.nodes[n].entrance.shape,
           t.nodes[n].entrance.shape = s.nodes[n].entrance.shape, t.stamp = s.stamp
    PROVE  /\ Promoted(m) \in Membership /\ Promoted(m).id = m.id
           /\ Sound(t, n, Promoted(m))
<1>1. appliedEntranceEndpoint(t, n).shape = s.nodes[n].entrance.shape
  BY DEF appliedEntranceEndpoint
<1>2. Cardinality({}) = 0
  BY FS_EmptySet
<1>3. CASE m.pending = {}
  <2>1. Promoted(m) = m
    BY <1>3 DEF Promoted
  <2> QED
    BY <1>1, <1>2, <1>3, <2>1 DEF Sound, MembershipFits
<1>4. CASE m.pending # {}
  <2>1. PICK c \in m.pending : c = CHOOSE x \in m.pending : TRUE
    BY <1>4
  <2>2. Promoted(m) = [m EXCEPT !.credential = c, !.pending = {}]
    BY <1>4, <2>1 DEF Promoted
  <2>3. c \in Credential /\ c.shape = s.nodes[n].entrance.shape /\ m.id <= c.stamp
    BY <1>4 DEF Membership, Sound, MembershipFits
  <2>4. /\ Promoted(m) \in Membership /\ Promoted(m).id = m.id
        /\ Promoted(m).credential = c /\ Promoted(m).pending = {}
    BY <2>2, <2>3 DEF Membership
  <2> QED
    BY <1>1, <1>2, <2>3, <2>4 DEF Sound, MembershipFits
<1> QED
  BY <1>3, <1>4

LEMMA MarkTopologyAppliedKeeps ==
    ASSUME NEW s, Kept(s), NEW t, t = MarkTopologyApplied(s)
    PROVE  /\ Kept(t) /\ SameMembers(s, t)
           /\ DOMAIN t.nodes = DOMAIN s.nodes /\ DOMAIN t.applied = DOMAIN s.nodes
           /\ Referenced(t) \subseteq Referenced(s)
<1> DEFINE members(n) == [u \in DOMAIN s.nodes[n].members |-> Promoted(s.nodes[n].members[u])]
           nodes == [n \in DOMAIN s.nodes |-> [s.nodes[n] EXCEPT !.members = members(n)]]
           applied == [n \in DOMAIN s.nodes |-> s.nodes[n].entrance]
           managed == {s.nodes[n].entrance.agent : n \in DOMAIN s.nodes}
<1>1. s \in Stores /\ s.rev \in Nat /\ s.urev \in Nat
  BY StoreFacts DEF Kept
<1>2. t = [s EXCEPT !.nodes = nodes, !.applied = applied, !.managed = managed,
                    !.appliedRev = s.rev, !.urev = s.urev + 1]
  BY DEF MarkTopologyApplied
<1>3. \A n \in DOMAIN s.nodes :
         /\ s.nodes[n] \in Node /\ s.nodes[n].entrance \in Endpoint
         /\ s.nodes[n].members \in [DOMAIN s.nodes[n].members -> Membership]
         /\ DOMAIN s.nodes[n].members \subseteq Accounts
  BY <1>1, NodeFacts
<1>4. DOMAIN nodes = DOMAIN s.nodes /\ DOMAIN applied = DOMAIN s.nodes
  OBVIOUS
<1>5. applied \in Partial(StoreNodes, Endpoint) /\ managed \subseteq StoreAgents
  <2>1. applied \in [DOMAIN applied -> Endpoint] /\ DOMAIN applied \subseteq StoreNodes
    BY <1>1, <1>3, StoreFacts
  <2>2. managed \subseteq StoreAgents
    BY <1>3 DEF Endpoint
  <2> QED
    BY <2>1, <2>2, PartialFacts
<1>6. \A n \in DOMAIN s.nodes : applied[n] = s.nodes[n].entrance
  OBVIOUS
<1> HIDE DEF applied, members
<1>7. /\ t.nodes = nodes /\ t.applied = applied /\ t.managed = managed /\ t.users = s.users /\ t.admin = s.admin
      /\ t.rev = s.rev /\ t.appliedRev = s.rev /\ t.urev = s.urev + 1 /\ t.stamp = s.stamp
  <2> HIDE DEF nodes, managed
  <2> QED
    BY <1>1, <1>2 DEF Stores
<1>8. ASSUME NEW n \in DOMAIN s.nodes
      PROVE  /\ nodes[n] \in Node /\ nodes[n].entrance = s.nodes[n].entrance
             /\ DOMAIN nodes[n].members = DOMAIN s.nodes[n].members
             /\ \A u \in DOMAIN s.nodes[n].members :
                  /\ nodes[n].members[u].id = s.nodes[n].members[u].id
                  /\ Sound(t, n, nodes[n].members[u])
  <2>1. ASSUME NEW u \in DOMAIN s.nodes[n].members, nodes[n].entrance = s.nodes[n].entrance
        PROVE  /\ Promoted(s.nodes[n].members[u]) \in Membership
               /\ Promoted(s.nodes[n].members[u]).id = s.nodes[n].members[u].id
               /\ Sound(t, n, Promoted(s.nodes[n].members[u]))
    <3>1. s.nodes[n].members[u] \in Membership /\ Sound(s, n, s.nodes[n].members[u])
      BY <1>3 DEF Kept, MembersSound
    <3>2. /\ n \in DOMAIN t.applied /\ t.applied[n].shape = s.nodes[n].entrance.shape
          /\ t.nodes[n].entrance.shape = s.nodes[n].entrance.shape
      BY <1>4, <1>6, <1>7, <2>1
    <3> QED
      BY <1>1, <1>7, <3>1, <3>2, PromotedSound
  <2>2. nodes[n] = [s.nodes[n] EXCEPT !.members = members(n)]
    OBVIOUS
  <2>3. DOMAIN members(n) = DOMAIN s.nodes[n].members
        /\ \A u \in DOMAIN s.nodes[n].members : members(n)[u] = Promoted(s.nodes[n].members[u])
    BY DEF members
  <2>4. ASSUME NEW u \in DOMAIN s.nodes[n].members
        PROVE  Promoted(s.nodes[n].members[u]) \in Membership
    BY <1>3, PromotedType
  <2>5. members(n) \in Members
    <3>1. members(n) \in [DOMAIN s.nodes[n].members -> Membership]
      BY <2>4 DEF members
    <3> QED
      BY <1>3, <2>3, <3>1, PartialFacts DEF Members
  <2> HIDE DEF nodes
  <2>6. nodes[n] \in Node /\ nodes[n].entrance = s.nodes[n].entrance /\ nodes[n].members = members(n)
    BY <1>3, <2>2, <2>5, NodeEdited
  <2> QED
    BY <2>1, <2>3, <2>6
<1>9. t \in Stores
  <2>1. nodes \in [DOMAIN nodes -> Node] /\ DOMAIN nodes \subseteq StoreNodes
    BY <1>1, <1>4, <1>8, StoreFacts
  <2>2. nodes \in Partial(StoreNodes, Node)
    BY <2>1, PartialFacts
  <2> HIDE DEF nodes, managed
  <2>3. s.urev + 1 \in Nat
    BY <1>1
  <2> QED
    BY <1>1, <1>2, <1>5, <2>2, <2>3 DEF Stores
<1> HIDE DEF nodes
<1>10. MembersSound(t)
  BY <1>4, <1>7, <1>8 DEF Kept, MembersSound
<1>11. ListenersAgree(t)
  BY <1>4, <1>7, <1>8, SameListeners DEF Kept
<1>12. Referenced(t) \subseteq Referenced(s)
  <2>1. ASSUME NEW a \in Referenced(t)
        PROVE  \E n \in DOMAIN s.nodes : a = s.nodes[n].entrance.agent
    BY <1>4, <1>6, <1>7, <1>8 DEF Referenced
  <2> QED
    BY <2>1 DEF Referenced
<1> QED
  BY <1>1, <1>4, <1>7, <1>8, <1>9, <1>10, <1>11, <1>12 DEF Kept, SameMembers

(* A snapshot is a store the mutations led to before.                      *)
Older(before, s) == Kept(before) /\ before.stamp <= s.stamp

(* What is deployed for its nodes is as it was.                            *)
SameDeployed(before, s) == \A n \in DOMAIN before.nodes : Deployed(before, n) = Deployed(s, n)

(* The snapshot of an edit under its reservation: nothing was rolled out.  *)
SnapshotOf(before, s) ==
    /\ Older(before, s)
    /\ before.applied = s.applied /\ before.managed = s.managed /\ before.appliedRev = s.appliedRev

LEMMA DeployedFacts ==
    ASSUME NEW s, NEW n
    PROVE  /\ n \in DOMAIN s.applied <=> Deployed(s, n) # {}
           /\ n \in DOMAIN s.applied => Deployed(s, n) = {s.applied[n].shape}
BY DEF Deployed

(* Agents of what is deployed.                                             *)
AppliedAgents(s) == {s.applied[n].agent : n \in DOMAIN s.applied} \cup s.managed

LEMMA SnapshotFacts ==
    ASSUME NEW before, NEW s, SnapshotOf(before, s)
    PROVE  SameDeployed(before, s) /\ AppliedAgents(s) \subseteq Referenced(before)
BY DEF SnapshotOf, SameDeployed, Deployed, AppliedAgents, Referenced

(* A membership of both goes on with its live secret and the candidate of  *)
(* the snapshot.                                                           *)
LEMMA MergedFacts ==
    ASSUME NEW s, Kept(s), NEW before, Older(before, s), SameDeployed(before, s),
           NEW n \in DOMAIN before.nodes, n \in DOMAIN s.nodes,
           NEW u \in DOMAIN s.nodes[n].members,
           NEW m, m = mergeRestoredMemberships(before.nodes[n].members, s.nodes[n].members)[u]
    PROVE  /\ m \in Membership /\ m.id = s.nodes[n].members[u].id
           /\ m.credential = s.nodes[n].members[u].credential
           /\ Cardinality(m.pending) < 2
           /\ \A c \in {m.credential} \cup m.pending : m.id <= c.stamp
           /\ n \notin DOMAIN s.applied => m.pending = {}
<1> DEFINE old == before.nodes[n].members
           live == s.nodes[n].members
<1>1. /\ old \in [DOMAIN old -> Membership] /\ live \in [DOMAIN live -> Membership]
  BY NodeFacts DEF Kept, Older
<1>2. Sound(s, n, live[u]) /\ \A v \in DOMAIN old : Sound(before, n, old[v])
  BY DEF Kept, Older, MembersSound
<1>3. CASE u \in DOMAIN old /\ old[u].id = live[u].id
  <2>1. m = [old[u] EXCEPT !.credential = live[u].credential]
    BY <1>3 DEF mergeRestoredMemberships
  <2> HIDE DEF old, live
  <2>2. /\ m \in Membership /\ m.id = live[u].id /\ m.credential = live[u].credential
        /\ m.pending = old[u].pending
    BY <1>1, <1>3, <2>1 DEF Membership, live
  <2>3. n \notin DOMAIN s.applied => n \notin DOMAIN before.applied
    BY DeployedFacts DEF SameDeployed
  <2> QED
    BY <1>2, <1>3, <2>2, <2>3 DEF Sound, live
<1>4. CASE ~(u \in DOMAIN old /\ old[u].id = live[u].id)
  <2>1. m = [live[u] EXCEPT !.pending = {}]
    BY <1>4 DEF mergeRestoredMemberships
  <2> HIDE DEF old, live
  <2>2. /\ m \in Membership /\ m.id = live[u].id /\ m.credential = live[u].credential
        /\ m.pending = {}
    BY <1>1, <2>1 DEF Membership, live
  <2>3. Cardinality({}) = 0
    BY FS_EmptySet
  <2>4. Cardinality(m.pending) < 2
    BY <2>2, <2>3
  <2>5. live[u].id <= live[u].credential.stamp
    BY <1>2 DEF Sound
  <2>6. \A c \in {m.credential} \cup m.pending : m.id <= c.stamp
    BY <2>2, <2>5
  <2> QED
    BY <2>2, <2>4, <2>6 DEF live
<1> QED
  BY <1>3, <1>4

LEMMA RestoreTopologyKeeps ==
    ASSUME NEW s, Kept(s), NEW before, Older(before, s), SameDeployed(before, s),
           NEW t, t = RestoreTopology(s, before), validateStoredState(t)
    PROVE  /\ Kept(t) /\ SameMembers(s, t)
           /\ DOMAIN t.nodes = DOMAIN before.nodes /\ t.applied = s.applied /\ t.managed = s.managed
           /\ t.rev = s.rev + 1
           /\ Referenced(t) \subseteq Referenced(before) \cup AppliedAgents(s)
           /\ AppliedAgents(t) = AppliedAgents(s)
<1> DEFINE merged(n) == IF n \in DOMAIN s.nodes
                        THEN mergeRestoredMemberships(before.nodes[n].members, s.nodes[n].members)
                        ELSE before.nodes[n].members
           members(n) == restoredMembers(s, before, n)
           nodes == [n \in DOMAIN before.nodes |-> [before.nodes[n] EXCEPT !.members = members(n)]]
<1>1. /\ s \in Stores /\ before \in Stores /\ Kept(before)
      /\ s.rev \in Nat /\ s.urev \in Nat /\ s.stamp \in Nat /\ s.appliedRev \in Nat /\ s.appliedRev <= s.rev
  BY StoreFacts DEF Kept, Older
<1>2. t = [s EXCEPT !.nodes = nodes, !.rev = s.rev + 1, !.urev = s.urev + 1]
  BY DEF RestoreTopology
<1>3. t = Changed(s, nodes, s.users, s.admin, s.rev + 1, s.urev + 1, s.stamp)
  <2> HIDE DEF nodes
  <2> QED
    BY <1>1, <1>2 DEF Stores, Changed
<1> HIDE DEF members, nodes
<1>4. /\ t.nodes = nodes /\ t.applied = s.applied /\ t.managed = s.managed /\ t.users = s.users
      /\ t.admin = s.admin /\ t.rev = s.rev + 1 /\ t.urev = s.urev + 1 /\ t.stamp = s.stamp
      /\ t.appliedRev = s.appliedRev
  BY <1>3, ChangedFields
<1>5. DOMAIN nodes = DOMAIN before.nodes
  BY DEF nodes
<1>6. ASSUME NEW n \in DOMAIN before.nodes
      PROVE  /\ DOMAIN merged(n) \subseteq Accounts
             /\ \A u \in DOMAIN merged(n) : merged(n)[u] \in Membership
             /\ members(n) = [u \in DOMAIN merged(n) \cap s.users |-> merged(n)[u]]
             /\ members(n) \in Members
  <2>1. /\ DOMAIN before.nodes[n].members \subseteq Accounts
        /\ \A u \in DOMAIN before.nodes[n].members : before.nodes[n].members[u] \in Membership
    BY <1>1, NodeFacts
  <2>2. /\ DOMAIN merged(n) \subseteq Accounts
        /\ \A u \in DOMAIN merged(n) : merged(n)[u] \in Membership
    <3>1. CASE n \in DOMAIN s.nodes
      <4>1. merged(n) = mergeRestoredMemberships(before.nodes[n].members, s.nodes[n].members)
        BY <3>1
      <4>2. DOMAIN merged(n) = DOMAIN s.nodes[n].members
        BY <4>1 DEF mergeRestoredMemberships
      <4>3. DOMAIN s.nodes[n].members \subseteq Accounts
        BY <1>1, <3>1, NodeFacts
      <4> QED
        BY <3>1, <4>1, <4>2, <4>3, MergedFacts
    <3>2. CASE n \notin DOMAIN s.nodes
      BY <2>1, <3>2
    <3> QED
      BY <3>1, <3>2
  <2>3. members(n) = Without(merged(n), Accounts \ s.users)
    BY DEF members, restoredMembers
  <2> HIDE DEF merged
  <2>4. DOMAIN merged(n) \ (Accounts \ s.users) = DOMAIN merged(n) \cap s.users
    BY <2>2
  <2>5. members(n) = [u \in DOMAIN merged(n) \cap s.users |-> merged(n)[u]]
    BY <2>3, <2>4 DEF Without
  <2>6. members(n) \in [DOMAIN members(n) -> Membership] /\ DOMAIN members(n) \subseteq Accounts
    BY <2>2, <2>5
  <2> QED
    BY <2>2, <2>5, <2>6, PartialFacts DEF Members
<1>7. ASSUME NEW n \in DOMAIN before.nodes
      PROVE  /\ nodes[n] \in Node /\ nodes[n].entrance = before.nodes[n].entrance
             /\ nodes[n].members = members(n)
  <2>1. nodes[n] = [before.nodes[n] EXCEPT !.members = members(n)] /\ before.nodes[n] \in Node
    BY <1>1, StoreFacts DEF nodes
  <2>2. members(n) \in Members
    BY <1>6
  <2> HIDE DEF merged
  <2> QED
    BY <2>1, <2>2, NodeEdited
<1>8. ASSUME NEW n \in DOMAIN before.nodes, n \in DOMAIN s.nodes
      PROVE  /\ DOMAIN members(n) = DOMAIN s.nodes[n].members
             /\ \A u \in DOMAIN s.nodes[n].members :
                  members(n)[u] = mergeRestoredMemberships(before.nodes[n].members, s.nodes[n].members)[u]
  <2>1. DOMAIN s.nodes[n].members \subseteq s.users
    BY <1>8 DEF Kept, MembersSound
  <2>2. merged(n) = mergeRestoredMemberships(before.nodes[n].members, s.nodes[n].members)
    BY <1>8
  <2>3. DOMAIN merged(n) = DOMAIN s.nodes[n].members
    BY <2>2 DEF mergeRestoredMemberships
  <2> HIDE DEF merged
  <2> QED
    BY <1>6, <2>1, <2>2, <2>3
<1>9. ASSUME NEW n \in DOMAIN before.nodes, n \notin DOMAIN s.nodes
      PROVE  /\ DOMAIN members(n) \subseteq DOMAIN before.nodes[n].members
             /\ \A u \in DOMAIN members(n) : members(n)[u] = before.nodes[n].members[u]
  <2>1. merged(n) = before.nodes[n].members
    BY <1>9
  <2> HIDE DEF merged
  <2> QED
    BY <1>6, <2>1
<1> HIDE DEF merged
<1>10. t \in Stores
  <2>1. nodes \in [DOMAIN nodes -> Node] /\ DOMAIN nodes \subseteq StoreNodes
    <3>1. nodes = [n \in DOMAIN before.nodes |-> nodes[n]]
      BY DEF nodes
    <3> QED
      BY <1>1, <1>5, <1>7, <3>1, StoreFacts
  <2>2. s.rev + 1 \in Nat /\ s.urev + 1 \in Nat
    BY <1>1
  <2> QED
    BY <1>1, <1>3, <2>1, <2>2, StoreFacts, ChangedFacts
<1>11. ASSUME NEW n \in DOMAIN before.nodes, NEW u \in DOMAIN members(n)
       PROVE  Sound(t, n, members(n)[u])
  <2>1. CASE n \in DOMAIN s.nodes
    <3> DEFINE m == members(n)[u]
    <3>1. u \in DOMAIN s.nodes[n].members /\ Sound(s, n, s.nodes[n].members[u])
      BY <1>8, <2>1 DEF Kept, MembersSound
    <3>2. m = mergeRestoredMemberships(before.nodes[n].members, s.nodes[n].members)[u]
      BY <1>8, <2>1, <3>1
    <3> HIDE DEF m
    <3>3. /\ m \in Membership /\ m.id = s.nodes[n].members[u].id
          /\ m.credential = s.nodes[n].members[u].credential
          /\ Cardinality(m.pending) < 2
          /\ \A c \in {m.credential} \cup m.pending : m.id <= c.stamp
          /\ n \notin DOMAIN s.applied => m.pending = {}
      BY <2>1, <3>1, <3>2, MergedFacts
    <3>4. MembershipFits(t, n, m)
      BY <1>4, <1>5, <1>7 DEF validateStoredState, validateState, m
    <3>5. m.id <= t.stamp
      BY <1>4, <3>1, <3>3 DEF Sound
    <3>6. m.credential.shape = appliedEntranceEndpoint(t, n).shape
      <4>1. CASE n \in DOMAIN s.applied
        BY <1>4, <3>1, <3>3, <4>1 DEF Sound, appliedEntranceEndpoint
      <4>2. CASE n \notin DOMAIN s.applied
        BY <1>4, <3>3, <3>4, <4>2 DEF MembershipFits, appliedEntranceEndpoint
      <4> QED
        BY <4>1, <4>2
    <3>7. n \notin DOMAIN t.applied => m.pending = {}
      BY <1>4, <3>3
    <3> QED
      BY <3>3, <3>4, <3>5, <3>6, <3>7 DEF Sound, m
  <2>2. CASE n \notin DOMAIN s.nodes
    <3> DEFINE m == before.nodes[n].members[u]
    <3>1. u \in DOMAIN before.nodes[n].members /\ members(n)[u] = m
      BY <1>9, <2>2
    <3>2. m \in Membership /\ Sound(before, n, m)
      BY <1>1, <3>1, NodeFacts DEF Kept, MembersSound
    <3>3. /\ Deployed(t, n) = Deployed(before, n) /\ before.stamp <= t.stamp /\ n \in DOMAIN t.nodes
          /\ t.nodes[n].entrance.shape = before.nodes[n].entrance.shape
      BY <1>4, <1>5, <1>7 DEF Older, SameDeployed, Deployed
    <3> HIDE DEF m
    <3> QED
      BY <1>1, <1>10, <3>1, <3>2, <3>3, SoundKept
  <2> QED
    BY <2>1, <2>2
<1>12. MembersSound(t)
  <2>1. \A n \in DOMAIN t.nodes :
           /\ DOMAIN t.nodes[n].members \subseteq t.users
           /\ t.admin <=> Admin \in DOMAIN t.nodes[n].members
    BY DEF validateStoredState, validateState
  <2> QED
    BY <1>4, <1>5, <1>7, <1>11, <2>1 DEF MembersSound
<1>13. ListenersAgree(t)
  BY <1>1, <1>4, <1>5, <1>7, SameListeners DEF Kept
<1>14. /\ Referenced(t) \subseteq Referenced(before) \cup AppliedAgents(s)
       /\ AppliedAgents(t) = AppliedAgents(s)
  <2>1. \A n \in DOMAIN t.nodes : t.nodes[n].entrance.agent = before.nodes[n].entrance.agent
    BY <1>4, <1>5, <1>7
  <2>2. t.applied = s.applied /\ t.managed = s.managed /\ DOMAIN t.nodes = DOMAIN before.nodes
    BY <1>4, <1>5
  <2> QED
    BY <2>1, <2>2 DEF Referenced, AppliedAgents
<1>15. s.appliedRev <= s.rev + 1 /\ (t.admin <=> Admin \in t.users)
  BY <1>1, <1>4 DEF Kept
<1>16. SameMembers(s, t)
  <2>1. ASSUME NEW n \in DOMAIN t.nodes \cap DOMAIN s.nodes
        PROVE  /\ DOMAIN t.nodes[n].members = DOMAIN s.nodes[n].members
               /\ \A u \in DOMAIN s.nodes[n].members : t.nodes[n].members[u].id = s.nodes[n].members[u].id
    <3>1. t.nodes[n].members = members(n) /\ n \in DOMAIN before.nodes
      BY <1>4, <1>5, <1>7
    <3> QED
      BY <1>8, <3>1, MergedFacts
  <2> QED
    BY <1>4, <2>1 DEF SameMembers
<1> QED
  BY <1>4, <1>5, <1>10, <1>12, <1>13, <1>14, <1>15, <1>16 DEF Kept

LEMMA RestoreTopologyFrame ==
    ASSUME NEW s \in Stores, NEW before
    PROVE  LET t == RestoreTopology(s, before)
           IN t.stamp = s.stamp /\ t.appliedRev = s.appliedRev
BY DEF RestoreTopology, Stores

LEMMA MarkTopologyAppliedFrame ==
    ASSUME NEW s \in Stores
    PROVE  MarkTopologyApplied(s).stamp = s.stamp
BY DEF MarkTopologyApplied, Stores

-----------------------------------------------------------------------------
(* The inductive invariant.                                                *)

(* What the store and the snapshot are worth, and when there is one.       *)
PlaneInv ==
    /\ Kept(store)
    /\ mutating \in {"idle", "reserved", "mutated", "edited", "doomed", "deploying", "removing", "forcing"}
    /\ refused \in {"none", "restore"}
    /\ previous # NoSnapshot <=> mutating \in {"reserved", "mutated", "edited", "doomed"}
    /\ previous # NoSnapshot => SnapshotOf(previous, store)
    /\ undoing # NothingToUndo => undoing.before # NoSnapshot /\ Older(undoing.before, store)

(* The members of a node that was not brought back are those decided on,   *)
(* and a membership is younger than the decision that granted it.          *)
MembersDecided(s, d) ==
    \A n \in DOMAIN s.nodes \ d.revived, u \in StoreUsers :
        /\ u \in DOMAIN s.nodes[n].members <=> d.kind[<<n, u>>] \in {"added", "reset"}
        /\ u \in DOMAIN s.nodes[n].members /\ d.kind[<<n, u>>] = "added"
               => s.nodes[n].members[u].id > d.at[<<n, u>>]

Decisions == [at : [Pairs -> Int], kind : [Pairs -> {"added", "removed", "reset"}],
              born : SUBSET (Accounts \cup StoreNodes), revived : SUBSET StoreNodes,
              overtaken : SUBSET StoreNodes, raced : SUBSET StoreAgents]

(* No node is created under an identity that anything was decided for.     *)
DecisionInv ==
    /\ decided \in Decisions
    /\ DOMAIN store.nodes \cup DOMAIN store.applied \subseteq decided.born
    /\ previous # NoSnapshot => DOMAIN previous.nodes \subseteq decided.born
    /\ undoing # NothingToUndo => DOMAIN undoing.before.nodes \subseteq decided.born
    /\ \A n \in StoreNodes \ decided.born, u \in StoreUsers : decided.kind[<<n, u>>] = "removed"
    /\ MembersDecided(store, decided)

Gone == {a \in StoreAgents : identity[a] = "removed"} \ decided.raced

Clear(agents) == refused = "restore" \/ agents \cap Gone = {}

(* The Agent that is on its way out is one, and what it is removed for is  *)
(* still so when the registry answers.  What an edit may bring back refers *)
(* to no Agent that is gone, nor does what a refused edit left behind.     *)
AgentInv ==
    /\ identity \in [StoreAgents -> {"enrolled", "leaving", "removed", "forced"}]
    /\ \A a, b \in StoreAgents : identity[a] = "leaving" /\ identity[b] = "leaving" => a = b
    /\ \A a \in StoreAgents : identity[a] = "leaving" =>
          /\ mutating \in {"removing", "forcing"}
          /\ mutating = "removing" =>
                refused = "restore" \/ a \in decided.raced \/ a \notin Referenced(store) \cup Returning
    /\ RemovedAgentsUnreferenced
    /\ previous # NoSnapshot => Clear(Referenced(previous))
    /\ Clear(Returning)
    /\ mutating = "doomed" /\ store.rev # expected => Clear(Referenced(store))

StoreInv == PlaneInv /\ DecisionInv /\ AgentInv

-----------------------------------------------------------------------------
(* Steps of the user plane.                                                *)

LEMMA DecideFacts ==
    ASSUME decided \in Decisions, store.stamp \in Int, NEW P,
           NEW kind \in {"added", "removed", "reset"}, NEW d, d = Decide(P, kind)
    PROVE  /\ d \in Decisions /\ d.born = decided.born /\ d.revived = decided.revived /\ d.raced = decided.raced
           /\ \A p \in Pairs : /\ d.at[p] = IF p \in P THEN store.stamp ELSE decided.at[p]
                               /\ d.kind[p] = IF p \in P THEN kind ELSE decided.kind[p]
<1> DEFINE at == [p \in Pairs |-> IF p \in P THEN store.stamp ELSE decided.at[p]]
           kinds == [p \in Pairs |-> IF p \in P THEN kind ELSE decided.kind[p]]
<1>1. at \in [Pairs -> Int] /\ kinds \in [Pairs -> {"added", "removed", "reset"}]
  BY DEF Decisions
<1>2. \A p \in Pairs : /\ at[p] = IF p \in P THEN store.stamp ELSE decided.at[p]
                       /\ kinds[p] = IF p \in P THEN kind ELSE decided.kind[p]
  OBVIOUS
<1>3. d = [decided EXCEPT !.at = at, !.kind = kinds]
  BY DEF Decide
<1> HIDE DEF at, kinds
<1>4. d \in Decisions /\ d.born = decided.born /\ d.revived = decided.revived /\ d.raced = decided.raced /\ d.at = at /\ d.kind = kinds
  BY <1>1, <1>3 DEF Decisions
<1> QED
  BY <1>2, <1>4

LEMMA StaysOlder ==
    ASSUME NEW before, NEW s, NEW t, Older(before, s), Kept(s), Kept(t), s.stamp <= t.stamp
    PROVE  Older(before, t)
<1>1. before \in Stores /\ s \in Stores /\ t \in Stores
  BY DEF Older, Kept
<1>2. before.stamp \in Nat /\ s.stamp \in Nat /\ t.stamp \in Nat
  BY <1>1, StoreFacts
<1> QED
  BY <1>2 DEF Older

LEMMA UserEditFacts ==
    ASSUME PlaneInv, NEW next, UserEdit(next), NEW t, t = mutateUser(next), Kept(t), SameTopology(store, t)
    PROVE  /\ store' = t /\ UNCHANGED <<refused, previous, mutating, expected, undoing, identity>>
           /\ PlaneInv'
<1>1. store' = t /\ UNCHANGED <<refused, previous, mutating, expected, undoing, identity>>
  BY KeptFacts, ZenonT(60) DEF UserEdit, IsStore
<1>2. previous # NoSnapshot => SnapshotOf(previous, t)
  BY StaysOlder DEF PlaneInv, SnapshotOf, SameTopology
<1>3. undoing # NothingToUndo => undoing.before # NoSnapshot /\ Older(undoing.before, t)
  BY StaysOlder DEF PlaneInv, SameTopology
<1> QED
  BY <1>1, <1>2, <1>3 DEF PlaneInv

(* A decision is about the pairs in P: they are what was decided, and the  *)
(* others keep their membership.                                           *)
DecidedFor(P) ==
    /\ decided' \in Decisions /\ decided'.revived = decided.revived /\ decided'.raced = decided.raced /\ decided.born \subseteq decided'.born
    /\ \A n \in StoreNodes, u \in StoreUsers : <<n, u>> \notin P =>
          /\ decided'.kind[<<n, u>>] = decided.kind[<<n, u>>]
          /\ decided'.at[<<n, u>>] = decided.at[<<n, u>>]
    /\ \A n \in DOMAIN store.nodes, u \in StoreUsers : <<n, u>> \notin P =>
          /\ u \in DOMAIN store'.nodes[n].members <=> u \in DOMAIN store.nodes[n].members
          /\ u \in DOMAIN store.nodes[n].members =>
                store'.nodes[n].members[u].id = store.nodes[n].members[u].id
    /\ \A n \in StoreNodes \ decided.born, u \in StoreUsers : <<n, u>> \in P =>
          decided'.kind[<<n, u>>] = "removed"
    /\ \A n \in DOMAIN store.nodes \ decided.revived, u \in StoreUsers : <<n, u>> \in P =>
          /\ u \in DOMAIN store'.nodes[n].members <=> decided'.kind[<<n, u>>] \in {"added", "reset"}
          /\ u \in DOMAIN store'.nodes[n].members /\ decided'.kind[<<n, u>>] = "added"
                 => store'.nodes[n].members[u].id > decided'.at[<<n, u>>]

LEMMA DecidedForKeeps ==
    ASSUME DecisionInv, store \in Stores, SameTopology(store, store'), UNCHANGED <<previous, undoing>>,
           NEW P, DecidedFor(P)
    PROVE  DecisionInv' /\ decided'.raced = decided.raced
<1>1. DOMAIN store'.nodes = DOMAIN store.nodes /\ store'.applied = store.applied
  BY DEF SameTopology
<1>2. DOMAIN store.nodes \subseteq StoreNodes
  BY StoreFacts
<1>3. ASSUME NEW n \in DOMAIN store.nodes \ decided.revived, NEW u \in StoreUsers
      PROVE  /\ u \in DOMAIN store'.nodes[n].members <=> decided'.kind[<<n, u>>] \in {"added", "reset"}
             /\ u \in DOMAIN store'.nodes[n].members /\ decided'.kind[<<n, u>>] = "added"
                    => store'.nodes[n].members[u].id > decided'.at[<<n, u>>]
  <2>1. CASE <<n, u>> \in P
    BY <2>1 DEF DecidedFor
  <2>2. CASE <<n, u>> \notin P
    <3>1. /\ u \in DOMAIN store.nodes[n].members <=> decided.kind[<<n, u>>] \in {"added", "reset"}
          /\ u \in DOMAIN store.nodes[n].members /\ decided.kind[<<n, u>>] = "added"
                 => store.nodes[n].members[u].id > decided.at[<<n, u>>]
      BY DEF DecisionInv, MembersDecided
    <3>2. /\ decided'.kind[<<n, u>>] = decided.kind[<<n, u>>]
          /\ decided'.at[<<n, u>>] = decided.at[<<n, u>>]
          /\ u \in DOMAIN store'.nodes[n].members <=> u \in DOMAIN store.nodes[n].members
          /\ u \in DOMAIN store.nodes[n].members =>
                store'.nodes[n].members[u].id = store.nodes[n].members[u].id
      BY <1>2, <2>2 DEF DecidedFor
    <3> QED
      BY <3>1, <3>2
  <2> QED
    BY <2>1, <2>2
<1>4. MembersDecided(store', decided')
  BY <1>1, <1>3, ZenonT(60) DEF MembersDecided, DecidedFor
<1>5. ASSUME NEW n \in StoreNodes \ decided'.born, NEW u \in StoreUsers
      PROVE  decided'.kind[<<n, u>>] = "removed"
  <2>1. n \in StoreNodes \ decided.born
    BY DEF DecidedFor
  <2>2. CASE <<n, u>> \in P
    BY <2>1, <2>2 DEF DecidedFor
  <2>3. CASE <<n, u>> \notin P
    BY <2>1, <2>3 DEF DecidedFor, DecisionInv
  <2> QED
    BY <2>2, <2>3
<1> QED
  BY <1>1, <1>4, <1>5 DEF DecisionInv, DecidedFor

(* One membership less, one more, or one with new secrets.                 *)
LEMMA MembersAtRead ==
    ASSUME NEW s \in Stores, NEW n \in DOMAIN s.nodes, NEW members, NEW nodes,
           nodes = MembersAt(s, n, members), NEW k \in DOMAIN s.nodes
    PROVE  nodes[k].members = IF k = n THEN members ELSE s.nodes[k].members
<1>1. s.nodes \in [DOMAIN s.nodes -> Node]
  BY StoreFacts
<1>2. nodes = [s.nodes EXCEPT ![n] = [s.nodes[n] EXCEPT !.members = members]]
  BY DEF MembersAt
<1>3. s.nodes[n] \in Node /\ s.nodes[k] \in Node
  BY <1>1
<1> QED
  BY <1>1, <1>2, <1>3 DEF Node

UserStep ==
    /\ Kept(store') /\ SameTopology(store, store') /\ decided'.raced = decided.raced
    /\ UNCHANGED <<refused, previous, mutating, expected, undoing, identity>>
    /\ PlaneInv' /\ DecisionInv'

LEMMA StampIsInt ==
    ASSUME PlaneInv
    PROVE  /\ store \in Stores /\ store.stamp \in Nat /\ Kept(store)
           /\ DOMAIN store.nodes \subseteq StoreNodes
BY StoreFacts DEF PlaneInv, Kept

LEMMA createEndUserStep ==
    ASSUME PlaneInv, DecisionInv, NEW u \in StoreUsers, createEndUser(u)
    PROVE  UserStep
<1> DEFINE t == mutateUser(CreateUser(store, u))
           nothing == {}
<1>1. Kept(t) /\ SameTopology(store, t) /\ t.nodes = store.nodes
  BY CreateUserKeeps, StampIsInt
<1> HIDE DEF t
<1>2. store' = t /\ UNCHANGED <<refused, previous, mutating, expected, undoing, identity>> /\ PlaneInv'
  BY <1>1, UserEditFacts DEF createEndUser, t
<1>3. decided' = [decided EXCEPT !.born = decided.born \cup {u}]
  BY DEF createEndUser
<1>4. decided' \in Decisions /\ decided'.revived = decided.revived /\ decided'.raced = decided.raced /\ decided.born \subseteq decided'.born
      /\ decided'.kind = decided.kind /\ decided'.at = decided.at
  BY <1>3 DEF DecisionInv, Decisions, Accounts
<1>5. DecidedFor(nothing)
  BY <1>1, <1>2, <1>4 DEF DecidedFor
<1> HIDE DEF nothing
<1> QED
  BY <1>1, <1>2, <1>5, StampIsInt, DecidedForKeeps DEF UserStep

LEMMA deleteEndUserStep ==
    ASSUME PlaneInv, DecisionInv, NEW u \in StoreUsers, deleteEndUser(u)
    PROVE  UserStep
<1> DEFINE t == mutateUser(DeleteUser(store, u))
           P == StoreNodes \X {u}
<1>1. Kept(t) /\ SameTopology(store, t) /\ t.nodes = Deserted(store, u)
  BY DeleteUserKeeps, StampIsInt
<1> HIDE DEF t
<1>2. store' = t /\ UNCHANGED <<refused, previous, mutating, expected, undoing, identity>> /\ PlaneInv'
  BY <1>1, UserEditFacts DEF deleteEndUser, t
<1>3. decided' = Decide(P, "removed")
  BY DEF deleteEndUser
<1>4. /\ decided' \in Decisions /\ decided'.born = decided.born /\ decided'.revived = decided.revived /\ decided'.raced = decided.raced
      /\ \A p \in Pairs : /\ decided'.at[p] = IF p \in P THEN store.stamp ELSE decided.at[p]
                          /\ decided'.kind[p] = IF p \in P THEN "removed" ELSE decided.kind[p]
  BY <1>3, DecideFacts, StampIsInt DEF DecisionInv
<1>5. \A n \in StoreNodes, v \in StoreUsers : <<n, v>> \in Pairs /\ (<<n, v>> \in P <=> v = u)
  BY DEF Pairs, Accounts
<1> HIDE DEF P
<1>6. \A n \in DOMAIN store.nodes :
         /\ DOMAIN store'.nodes[n].members = DOMAIN store.nodes[n].members \ {u}
         /\ \A v \in DOMAIN store.nodes[n].members \ {u} :
               store'.nodes[n].members[v] = store.nodes[n].members[v]
  BY <1>1, <1>2, DesertedFacts, StampIsInt
<1>7. DecidedFor(P)
  BY <1>4, <1>5, <1>6, StampIsInt DEF DecidedFor
<1> QED
  BY <1>1, <1>2, <1>7, StampIsInt, DecidedForKeeps DEF UserStep

LEMMA removeProxyNodeUserStep ==
    ASSUME PlaneInv, DecisionInv, NEW n \in StoreNodes, NEW u \in StoreUsers, removeProxyNodeUser(n, u)
    PROVE  UserStep
<1> DEFINE t == mutateUser(RemoveMembership(store, n, u))
           P == {<<n, u>>}
           left == Without(store.nodes[n].members, {u})
<1>0. n \in DOMAIN store.nodes /\ u \in DOMAIN store.nodes[n].members
  BY DEF removeProxyNodeUser, Member
<1>1. Kept(t) /\ SameTopology(store, t) /\ t.nodes = MembersAt(store, n, left)
  BY <1>0, RemoveMembershipKeeps, StampIsInt
<1> HIDE DEF t
<1>2. store' = t /\ UNCHANGED <<refused, previous, mutating, expected, undoing, identity>> /\ PlaneInv'
  BY <1>1, UserEditFacts DEF removeProxyNodeUser, t
<1>3. decided' = Decide(P, "removed")
  BY DEF removeProxyNodeUser
<1>4. /\ decided' \in Decisions /\ decided'.born = decided.born /\ decided'.revived = decided.revived /\ decided'.raced = decided.raced
      /\ \A p \in Pairs : /\ decided'.at[p] = IF p \in P THEN store.stamp ELSE decided.at[p]
                          /\ decided'.kind[p] = IF p \in P THEN "removed" ELSE decided.kind[p]
  BY <1>3, DecideFacts, StampIsInt DEF DecisionInv
<1>5. \A k \in StoreNodes, v \in StoreUsers : <<k, v>> \in Pairs /\ (<<k, v>> \in P <=> k = n /\ v = u)
  BY DEF Pairs, Accounts
<1> HIDE DEF P
<1>6. /\ DOMAIN left = DOMAIN store.nodes[n].members \ {u}
      /\ \A v \in DOMAIN left : left[v] = store.nodes[n].members[v]
  BY DEF Without
<1> HIDE DEF left
<1>7. \A k \in DOMAIN store.nodes :
         store'.nodes[k].members = IF k = n THEN left ELSE store.nodes[k].members
  BY <1>0, <1>1, <1>2, MembersAtRead, StampIsInt
<1>8. DecidedFor(P)
  BY <1>4, <1>5, <1>6, <1>7, StampIsInt DEF DecidedFor
<1> QED
  BY <1>1, <1>2, <1>8, StampIsInt, DecidedForKeeps DEF UserStep

LEMMA addProxyNodeUserStep ==
    ASSUME PlaneInv, DecisionInv, NEW n \in StoreNodes, NEW u \in StoreUsers, addProxyNodeUser(n, u)
    PROVE  UserStep
<1> DEFINE t == mutateUser(AddMembership(store, n, u))
           P == {<<n, u>>}
<1>0. n \in DOMAIN store.nodes /\ u \in store.users
  BY DEF addProxyNodeUser
<1>1. /\ Kept(t) /\ SameTopology(store, t)
      /\ \E m \in Membership :
            m.id = store.stamp + 1 /\ t.nodes = MembersAt(store, n, With(store.nodes[n].members, u, m))
  BY <1>0, AddMembershipKeeps, StampIsInt
<1>2. PICK m \in Membership :
         m.id = store.stamp + 1 /\ t.nodes = MembersAt(store, n, With(store.nodes[n].members, u, m))
  BY <1>1
<1> DEFINE joined == With(store.nodes[n].members, u, m)
<1> HIDE DEF t
<1>3. store' = t /\ UNCHANGED <<refused, previous, mutating, expected, undoing, identity>> /\ PlaneInv'
  BY <1>1, UserEditFacts DEF addProxyNodeUser, t
<1>4. decided' = Decide(P, "added")
  BY DEF addProxyNodeUser
<1>5. /\ decided' \in Decisions /\ decided'.born = decided.born /\ decided'.revived = decided.revived /\ decided'.raced = decided.raced
      /\ \A p \in Pairs : /\ decided'.at[p] = IF p \in P THEN store.stamp ELSE decided.at[p]
                          /\ decided'.kind[p] = IF p \in P THEN "added" ELSE decided.kind[p]
  BY <1>4, DecideFacts, StampIsInt DEF DecisionInv
<1>6. \A k \in StoreNodes, v \in StoreUsers : <<k, v>> \in Pairs /\ (<<k, v>> \in P <=> k = n /\ v = u)
  BY DEF Pairs, Accounts
<1> HIDE DEF P
<1>7. /\ DOMAIN joined = DOMAIN store.nodes[n].members \cup {u} /\ joined[u] = m
      /\ \A v \in DOMAIN store.nodes[n].members \ {u} : joined[v] = store.nodes[n].members[v]
  BY DEF With
<1>8. t.nodes = MembersAt(store, n, joined)
  BY <1>2
<1> HIDE DEF joined
<1>9. \A k \in DOMAIN store.nodes :
         store'.nodes[k].members = IF k = n THEN joined ELSE store.nodes[k].members
  BY <1>0, <1>3, <1>8, MembersAtRead, StampIsInt
<1>10. n \in decided.born
  BY <1>0 DEF DecisionInv
<1>11. m.id > store.stamp
  BY <1>2, StampIsInt
<1>12. DecidedFor(P)
  BY <1>5, <1>6, <1>7, <1>9, <1>10, <1>11, StampIsInt DEF DecidedFor
<1> QED
  BY <1>1, <1>3, <1>12, StampIsInt, DecidedForKeeps DEF UserStep

LEMMA resetProxyNodeUserCredentialStep ==
    ASSUME PlaneInv, DecisionInv, NEW n \in StoreNodes, NEW u \in StoreUsers,
           resetProxyNodeUserCredential(n, u)
    PROVE  UserStep
<1> DEFINE t == mutateUser(ResetMembershipCredential(store, n, u))
           P == {<<n, u>>}
           new == Rekeyed(Stamped(store), n, u)
           renewed == [store.nodes[n].members EXCEPT ![u] = new]
<1>0. n \in DOMAIN store.nodes /\ u \in DOMAIN store.nodes[n].members
  BY DEF resetProxyNodeUserCredential, Member
<1>1. Kept(t) /\ SameTopology(store, t) /\ t.nodes = MembersAt(store, n, renewed)
  BY <1>0, ResetMembershipCredentialKeeps, StampIsInt
<1> HIDE DEF t
<1>2. store' = t /\ UNCHANGED <<refused, previous, mutating, expected, undoing, identity>> /\ PlaneInv'
  BY <1>1, UserEditFacts DEF resetProxyNodeUserCredential, t
<1>3. decided' = Decide(P, "reset")
  BY DEF resetProxyNodeUserCredential
<1>4. /\ decided' \in Decisions /\ decided'.born = decided.born /\ decided'.revived = decided.revived /\ decided'.raced = decided.raced
      /\ \A p \in Pairs : /\ decided'.at[p] = IF p \in P THEN store.stamp ELSE decided.at[p]
                          /\ decided'.kind[p] = IF p \in P THEN "reset" ELSE decided.kind[p]
  BY <1>3, DecideFacts, StampIsInt DEF DecisionInv
<1>5. \A k \in StoreNodes, v \in StoreUsers : <<k, v>> \in Pairs /\ (<<k, v>> \in P <=> k = n /\ v = u)
  BY DEF Pairs, Accounts
<1> HIDE DEF P, new
<1>6. /\ DOMAIN renewed = DOMAIN store.nodes[n].members
      /\ \A v \in DOMAIN store.nodes[n].members : v # u => renewed[v] = store.nodes[n].members[v]
  OBVIOUS
<1> HIDE DEF renewed
<1>7. \A k \in DOMAIN store.nodes :
         store'.nodes[k].members = IF k = n THEN renewed ELSE store.nodes[k].members
  BY <1>0, <1>1, <1>2, MembersAtRead, StampIsInt
<1>8. n \in decided.born
  BY <1>0 DEF DecisionInv
<1>9. DecidedFor(P)
  BY <1>0, <1>4, <1>5, <1>6, <1>7, <1>8, StampIsInt DEF DecidedFor
<1> QED
  BY <1>1, <1>2, <1>9, StampIsInt, DecidedForKeeps DEF UserStep

LEMMA resetEndUserCredentialsStep ==
    ASSUME PlaneInv, DecisionInv, NEW u \in StoreUsers, resetEndUserCredentials(u)
    PROVE  UserStep
<1> DEFINE t == mutateUser(ResetUserCredentials(store, u))
           P == {p \in StoreNodes \X {u} : decided.kind[p] \in {"added", "reset"}}
<1>1. Kept(t) /\ SameTopology(store, t) /\ t.nodes = RekeyedFor(store, u)
  BY ResetUserCredentialsKeeps, StampIsInt
<1> HIDE DEF t
<1>2. store' = t /\ UNCHANGED <<refused, previous, mutating, expected, undoing, identity>> /\ PlaneInv'
  BY <1>1, UserEditFacts DEF resetEndUserCredentials, t
<1>3. decided' = Decide(P, "reset")
  BY DEF resetEndUserCredentials
<1>4. /\ decided' \in Decisions /\ decided'.born = decided.born /\ decided'.revived = decided.revived /\ decided'.raced = decided.raced
      /\ \A p \in Pairs : /\ decided'.at[p] = IF p \in P THEN store.stamp ELSE decided.at[p]
                          /\ decided'.kind[p] = IF p \in P THEN "reset" ELSE decided.kind[p]
  BY <1>3, DecideFacts, StampIsInt DEF DecisionInv
<1>5. \A k \in StoreNodes, v \in StoreUsers :
         /\ <<k, v>> \in Pairs
         /\ <<k, v>> \in P <=> v = u /\ decided.kind[<<k, v>>] \in {"added", "reset"}
  BY DEF Pairs, Accounts
<1> HIDE DEF P
<1>6. \A n \in DOMAIN store.nodes :
         /\ DOMAIN store'.nodes[n].members = DOMAIN store.nodes[n].members
         /\ \A v \in DOMAIN store.nodes[n].members :
               store'.nodes[n].members[v].id = store.nodes[n].members[v].id
  BY <1>1, <1>2, RekeyedForFacts, RekeyedFacts, StampIsInt
<1>7. ASSUME NEW n \in DOMAIN store.nodes \ decided.revived, NEW v \in StoreUsers, <<n, v>> \in P
      PROVE  v \in DOMAIN store.nodes[n].members
  BY <1>5, <1>7, StampIsInt DEF DecisionInv, MembersDecided
<1>8. \A n \in StoreNodes \ decided.born, v \in StoreUsers : <<n, v>> \notin P
  BY <1>5, ZenonT(60) DEF DecisionInv
<1>9. DecidedFor(P)
  BY <1>4, <1>5, <1>6, <1>7, <1>8, StampIsInt DEF DecidedFor
<1> QED
  BY <1>1, <1>2, <1>9, StampIsInt, DecidedForKeeps DEF UserStep

LEMMA SetAdministratorProxyAccessStep ==
    ASSUME PlaneInv, DecisionInv, NEW enabled \in BOOLEAN, SetAdministratorProxyAccess(enabled)
    PROVE  UserStep
<1> DEFINE next == IF enabled THEN ensureSystemAdministrator(store) ELSE removeSystemAdministrator(store)
           t == mutateUser(next)
           nothing == {}
<1>1. /\ Kept(t) /\ SameTopology(store, t)
      /\ \A n \in DOMAIN store.nodes :
           /\ DOMAIN t.nodes[n].members \ {Admin} = DOMAIN store.nodes[n].members \ {Admin}
           /\ \A v \in DOMAIN store.nodes[n].members \ {Admin} :
                 t.nodes[n].members[v] = store.nodes[n].members[v]
  <2>1. CASE enabled
    <3> DEFINE r == mutateUser(ensureSystemAdministrator(store))
    <3>1. Kept(r) /\ SameTopology(store, r) /\ r.nodes = Supervised(store)
      BY ensureSystemAdministratorKeeps, StampIsInt
    <3>2. t = r
      BY <2>1
    <3> HIDE DEF r, t
    <3> QED
      BY <3>1, <3>2, SupervisedFacts, StampIsInt
  <2>2. CASE ~enabled
    <3> DEFINE r == mutateUser(removeSystemAdministrator(store))
    <3>1. Kept(r) /\ SameTopology(store, r) /\ r.nodes = Deserted(store, Admin)
      BY removeSystemAdministratorKeeps, StampIsInt
    <3>2. t = r
      BY <2>2
    <3> HIDE DEF r, t
    <3> QED
      BY <3>1, <3>2, DesertedFacts, StampIsInt
  <2> QED
    BY <2>1, <2>2
<1> HIDE DEF t
<1>2. store' = t /\ UNCHANGED <<refused, previous, mutating, expected, undoing, identity>> /\ PlaneInv'
  BY <1>1, UserEditFacts DEF SetAdministratorProxyAccess, t
<1>3. decided' = decided
  BY DEF SetAdministratorProxyAccess
<1>4. \A v \in StoreUsers : v # Admin
  BY StoreConstants
<1>5. DecidedFor(nothing)
  BY <1>1, <1>2, <1>3, <1>4 DEF DecidedFor, DecisionInv
<1> HIDE DEF nothing
<1> QED
  BY <1>1, <1>2, <1>5, StampIsInt, DecidedForKeeps DEF UserStep

LEMMA UserPlaneStep ==
    ASSUME PlaneInv, DecisionInv, UserPlane
    PROVE  UserStep
BY createEndUserStep, deleteEndUserStep, resetEndUserCredentialsStep, addProxyNodeUserStep,
   removeProxyNodeUserStep, resetProxyNodeUserCredentialStep, SetAdministratorProxyAccessStep DEF UserPlane

-----------------------------------------------------------------------------
(* Steps of the topology plane.                                            *)

LEMMA TopologyEditedDecided ==
    ASSUME DecisionInv, store \in Stores, store' \in Stores, TopologyEdited(store, store'), UNCHANGED <<previous, undoing>>,
           decided' \in Decisions, decided'.kind = decided.kind, decided'.at = decided.at,
           decided'.revived = decided.revived, decided.born \subseteq decided'.born,
           DOMAIN store'.nodes \subseteq decided'.born,
           DOMAIN store'.nodes \cap decided.born \subseteq DOMAIN store.nodes
    PROVE  DecisionInv'
<1>1. store'.applied = store.applied
  BY DEF TopologyEdited
<1>2. ASSUME NEW n \in DOMAIN store'.nodes \ decided.revived, NEW u \in StoreUsers
      PROVE  /\ u \in DOMAIN store'.nodes[n].members <=> decided.kind[<<n, u>>] \in {"added", "reset"}
             /\ u \in DOMAIN store'.nodes[n].members /\ decided.kind[<<n, u>>] = "added"
                    => store'.nodes[n].members[u].id > decided.at[<<n, u>>]
  <2>1. CASE n \in DOMAIN store.nodes
    <3>1. /\ DOMAIN store'.nodes[n].members = DOMAIN store.nodes[n].members
          /\ u \in DOMAIN store.nodes[n].members =>
                store'.nodes[n].members[u].id = store.nodes[n].members[u].id
      BY <2>1 DEF TopologyEdited
    <3>2. /\ u \in DOMAIN store.nodes[n].members <=> decided.kind[<<n, u>>] \in {"added", "reset"}
          /\ u \in DOMAIN store.nodes[n].members /\ decided.kind[<<n, u>>] = "added"
                 => store.nodes[n].members[u].id > decided.at[<<n, u>>]
      BY <2>1 DEF DecisionInv, MembersDecided
    <3> QED
      BY <3>1, <3>2
  <2>2. CASE n \notin DOMAIN store.nodes
    <3>1. DOMAIN store'.nodes[n].members \subseteq {Admin} /\ u # Admin
      BY <2>2, StoreConstants DEF TopologyEdited
    <3>2. n \in StoreNodes \ decided.born
      BY <2>2, StoreFacts
    <3>3. decided.kind[<<n, u>>] = "removed"
      BY <3>2 DEF DecisionInv
    <3> QED
      BY <3>1, <3>3
  <2> QED
    BY <2>1, <2>2
<1>3. MembersDecided(store', decided')
  BY <1>2, ZenonT(60) DEF MembersDecided
<1>4. \A n \in StoreNodes \ decided'.born, u \in StoreUsers : decided'.kind[<<n, u>>] = "removed"
  BY ZenonT(60) DEF DecisionInv
<1> QED
  BY <1>1, <1>3, <1>4 DEF DecisionInv

(* An edit that is refused for what it asks leaves everything as it is; an *)
(* edit that is made is never refused when it is saved.                    *)
EditStep ==
    /\ Kept(store') /\ TopologyEdited(store, store') /\ decided'.raced = decided.raced
    /\ mutating = "reserved" /\ mutating' = "mutated"
    /\ UNCHANGED <<refused, previous, expected, undoing, identity>>
    /\ PlaneInv' /\ DecisionInv'

LEMMA TopologyEditFacts ==
    ASSUME PlaneInv, NEW next, TopologyEdit(next), NEW t, t = mutate(store, next),
           Kept(t), TopologyEdited(store, t)
    PROVE  /\ store' = t /\ mutating = "reserved" /\ mutating' = "mutated"
           /\ UNCHANGED <<refused, previous, expected, undoing, identity>>
           /\ PlaneInv'
<1>1. /\ store' = t /\ mutating = "reserved" /\ mutating' = "mutated"
      /\ UNCHANGED <<refused, previous, expected, undoing, identity>>
  BY KeptFacts, ZenonT(60) DEF TopologyEdit, IsStore
<1>2. previous # NoSnapshot => SnapshotOf(previous, t)
  BY StaysOlder DEF PlaneInv, SnapshotOf, TopologyEdited
<1>3. undoing # NothingToUndo => undoing.before # NoSnapshot /\ Older(undoing.before, t)
  BY StaysOlder DEF PlaneInv, TopologyEdited
<1> QED
  BY <1>1, <1>2, <1>3 DEF PlaneInv

LEMMA TopologyEditStep ==
    ASSUME PlaneInv, DecisionInv, NEW next, TopologyEdit(next), NEW t, t = mutate(store, next),
           Kept(t), TopologyEdited(store, t), DOMAIN t.nodes \subseteq DOMAIN store.nodes,
           UNCHANGED decided
    PROVE  EditStep
<1>1. /\ store' = t /\ mutating = "reserved" /\ mutating' = "mutated"
      /\ UNCHANGED <<refused, previous, expected, undoing, identity>>
      /\ PlaneInv'
  BY TopologyEditFacts
<1>2. store' \in Stores /\ store \in Stores
  BY <1>1 DEF PlaneInv, Kept
<1>3. DecisionInv'
  BY <1>1, <1>2, TopologyEditedDecided DEF DecisionInv
<1> QED
  BY <1>1, <1>3 DEF EditStep

LEMMA createProxyNodeStep ==
    ASSUME PlaneInv, DecisionInv, NEW n \in StoreNodes, NEW agent \in StoreAgents, NEW port \in Ports,
           NEW shape \in Shapes, createProxyNode(n, agent, port, shape)
    PROVE  EditStep
<1> DEFINE next == CreateProxyNode(store, n, agent, port, shape)
           t == mutate(store, next)
<1>1. n \notin decided.born /\ validateListenerLayout(next) /\ TopologyEdit(next)
  BY DEF createProxyNode
<1>2. n \notin DOMAIN store.nodes /\ n \notin DOMAIN store.applied
  BY <1>1 DEF DecisionInv
<1>3. Kept(t) /\ TopologyEdited(store, t) /\ DOMAIN t.nodes = DOMAIN store.nodes \cup {n}
  BY <1>1, <1>2, StampIsInt, createProxyNodeKeeps
<1> HIDE DEF next
<1>4. /\ store' = t /\ mutating = "reserved" /\ mutating' = "mutated"
      /\ UNCHANGED <<refused, previous, expected, undoing, identity>>
      /\ PlaneInv'
  BY <1>1, <1>3, TopologyEditFacts
<1> HIDE DEF t
<1>5. decided' = [decided EXCEPT !.born = decided.born \cup {n}]
  BY DEF createProxyNode
<1>6. /\ decided' \in Decisions /\ decided'.revived = decided.revived /\ decided'.raced = decided.raced /\ decided'.born = decided.born \cup {n}
      /\ decided'.kind = decided.kind /\ decided'.at = decided.at
  BY <1>5 DEF DecisionInv, Decisions, Accounts
<1>7. store' \in Stores /\ store \in Stores
  BY <1>4 DEF PlaneInv, Kept
<1>8. /\ DOMAIN store'.nodes \subseteq decided'.born
      /\ DOMAIN store'.nodes \cap decided.born \subseteq DOMAIN store.nodes
  BY <1>1, <1>3, <1>4, <1>6 DEF DecisionInv
<1>9. DecisionInv'
  BY <1>3, <1>4, <1>6, <1>7, <1>8, TopologyEditedDecided
<1> QED
  BY <1>3, <1>4, <1>6, <1>9 DEF EditStep

LEMMA renameProxyNodeStep ==
    ASSUME PlaneInv, DecisionInv, NEW n, renameProxyNode(n)
    PROVE  EditStep
<1>1. Kept(mutate(store, store)) /\ TopologyEdited(store, mutate(store, store))
      /\ DOMAIN mutate(store, store).nodes = DOMAIN store.nodes
  BY StampIsInt, renameProxyNodeKeeps
<1> QED
  BY <1>1, TopologyEditStep DEF renameProxyNode

LEMMA deleteProxyNodeStep ==
    ASSUME PlaneInv, DecisionInv, NEW n, deleteProxyNode(n)
    PROVE  EditStep
<1> DEFINE t == mutate(store, DeleteProxyNode(store, n))
<1>1. Kept(t) /\ TopologyEdited(store, t) /\ DOMAIN t.nodes = DOMAIN store.nodes \ {n}
  BY StampIsInt, deleteProxyNodeKeeps
<1> QED
  BY <1>1, TopologyEditStep DEF deleteProxyNode

LEMMA updateProxyEntranceStep ==
    ASSUME PlaneInv, DecisionInv, NEW n, NEW port \in Ports, NEW shape \in Shapes,
           updateProxyEntrance(n, port, shape)
    PROVE  EditStep
<1> DEFINE t == mutate(store, UpdateEntrance(store, n, port, shape))
<1>1. n \in DOMAIN store.nodes /\ validateListenerLayout(UpdateEntrance(store, n, port, shape))
  BY DEF updateProxyEntrance
<1>2. Kept(t) /\ TopologyEdited(store, t) /\ DOMAIN t.nodes = DOMAIN store.nodes
  BY <1>1, StampIsInt, updateProxyEntranceKeeps
<1> QED
  BY <1>2, TopologyEditStep DEF updateProxyEntrance

LEMMA moveProxyEntranceStep ==
    ASSUME PlaneInv, DecisionInv, NEW n, NEW agent \in StoreAgents, moveProxyEntrance(n, agent)
    PROVE  EditStep
<1> DEFINE t == mutate(store, MoveEntrance(store, n, agent))
<1>1. n \in DOMAIN store.nodes /\ validateListenerLayout(MoveEntrance(store, n, agent))
  BY DEF moveProxyEntrance
<1>2. Kept(t) /\ TopologyEdited(store, t) /\ DOMAIN t.nodes = DOMAIN store.nodes
  BY <1>1, StampIsInt, moveProxyEntranceKeeps
<1> QED
  BY <1>2, TopologyEditStep DEF moveProxyEntrance

-----------------------------------------------------------------------------
(* The Agents that are removed.                                            *)

LEMMA ReferencedSame ==
    ASSUME NEW s, NEW t, SameTopology(s, t)
    PROVE  Referenced(t) = Referenced(s)
<1>1. /\ DOMAIN t.nodes = DOMAIN s.nodes /\ t.applied = s.applied /\ t.managed = s.managed
      /\ \A n \in DOMAIN s.nodes : t.nodes[n].entrance = s.nodes[n].entrance
  BY DEF SameTopology
<1>2. {t.nodes[n].entrance.agent : n \in DOMAIN t.nodes} = {s.nodes[n].entrance.agent : n \in DOMAIN s.nodes}
  BY <1>1
<1>3. {t.applied[n].agent : n \in DOMAIN t.applied} = {s.applied[n].agent : n \in DOMAIN s.applied}
  BY <1>1
<1> QED
  BY <1>1, <1>2, <1>3 DEF Referenced

LEMMA UserStepAgents ==
    ASSUME PlaneInv, AgentInv, UserStep
    PROVE  AgentInv'
<1>1. Referenced(store') = Referenced(store) /\ store'.rev = store.rev
  BY ReferencedSame DEF UserStep, SameTopology
<1>2. UNCHANGED <<refused, previous, mutating, expected, undoing, identity>> /\ decided'.raced = decided.raced
  BY DEF UserStep
<1>3. Gone' = Gone /\ Returning' = Returning
  BY <1>2 DEF Gone, Returning
<1>4. RemovedAgentsUnreferenced'
  BY <1>1, <1>2 DEF AgentInv, RemovedAgentsUnreferenced
<1>5. previous' # NoSnapshot => Clear(Referenced(previous))'
  BY <1>2, <1>3 DEF AgentInv, Clear, Referenced
<1>6. Clear(Returning)'
  BY <1>2, <1>3 DEF AgentInv, Clear
<1>7. mutating' = "doomed" /\ store'.rev # expected' => Clear(Referenced(store))'
  BY <1>1, <1>2, <1>3 DEF AgentInv, Clear
<1> QED
  BY <1>1, <1>2, <1>3, <1>4, <1>5, <1>6, <1>7 DEF AgentInv

LEMMA EditStepAgents ==
    ASSUME PlaneInv, AgentInv, EditStep
    PROVE  AgentInv'
<1>1. /\ UNCHANGED <<refused, previous, expected, undoing, identity>> /\ decided'.raced = decided.raced
      /\ mutating = "reserved" /\ mutating' = "mutated"
  BY DEF EditStep
<1>2. \A a \in StoreAgents : identity[a] # "leaving"
  BY <1>1 DEF AgentInv
<1>3. Gone' = Gone /\ Returning' = Returning
  BY <1>1 DEF Gone, Returning
<1>4. (previous' # NoSnapshot => Clear(Referenced(previous))') /\ Clear(Returning)'
  BY <1>1, <1>3 DEF AgentInv, Clear, Referenced
<1> QED
  BY <1>1, <1>2, <1>4 DEF AgentInv, RemovedAgentsUnreferenced

(* A rollout that is started refers to no Agent that was removed: what the *)
(* draft refers to newly is enrolled, the rest the snapshot referred to.   *)
LEMMA NothingMissing ==
    ASSUME PlaneInv, AgentInv, mutating = "mutated", newlyMissingDesiredAgents = {}
    PROVE  Clear(Referenced(store))
<1>1. previous # NoSnapshot /\ previous.applied = store.applied /\ previous.managed = store.managed
  BY DEF PlaneInv, SnapshotOf
<1>2. SUFFICES ASSUME Referenced(previous) \cap Gone = {}, NEW a \in Referenced(store) \cap Gone
               PROVE  FALSE
  BY <1>1 DEF AgentInv, Clear
<1>3. a \in Referenced(previous)
  <2>1. CASE \E n \in DOMAIN store.nodes : a = store.nodes[n].entrance.agent
    <3>1. PICK n \in DOMAIN store.nodes : a = store.nodes[n].entrance.agent
      BY <2>1
    <3>2. n \in DOMAIN previous.nodes /\ previous.nodes[n].entrance.agent = a
      BY <1>2, <3>1 DEF newlyMissingDesiredAgents, Gone
    <3> QED
      BY <3>2 DEF Referenced
  <2>2. CASE ~ \E n \in DOMAIN store.nodes : a = store.nodes[n].entrance.agent
    BY <1>1, <1>2, <2>2 DEF Referenced
  <2> QED
    BY <2>1, <2>2
<1> QED
  BY <1>2, <1>3

(* At rest the property is that the store is clear.                        *)
LEMMA ClearAtRest ==
    ASSUME mutating \notin {"mutated", "doomed"}
    PROVE  RemovedAgentsUnreferenced <=> Clear(Referenced(store))
BY DEF RemovedAgentsUnreferenced, Clear, Gone

-----------------------------------------------------------------------------
(* The other steps, one by one.                                            *)

LEMMA StoreInitInv ==
    ASSUME StoreInit
    PROVE  StoreInv
<1>1. Kept(store)
  BY FirstStoresAreSound, KeptFacts DEF StoreInit
<1>2. store \in Stores /\ store.stamp \in Nat /\ DOMAIN store.nodes \subseteq StoreNodes
      /\ DOMAIN store.applied \subseteq StoreNodes /\ store.users \subseteq Accounts
  BY <1>1, StoreFacts DEF Kept
<1>3. PlaneInv
  BY <1>1 DEF StoreInit, PlaneInv
<1> DEFINE at == [p \in Pairs |-> -1]
           kind == [p \in Pairs |-> IF Member(p[1], p[2]) THEN "added" ELSE "removed"]
           born == store.users \cup DOMAIN store.nodes \cup DOMAIN store.applied
<1>4. decided = [at |-> at, kind |-> kind, born |-> born, revived |-> {}, overtaken |-> {}, raced |-> {}]
  BY DEF StoreInit
<1>5. at \in [Pairs -> Int] /\ kind \in [Pairs -> {"added", "removed", "reset"}]
      /\ born \in SUBSET (Accounts \cup StoreNodes)
  BY <1>2
<1>6. \A n \in StoreNodes, u \in StoreUsers :
         /\ at[<<n, u>>] = -1
         /\ kind[<<n, u>>] = IF Member(n, u) THEN "added" ELSE "removed"
  BY DEF Pairs, Accounts
<1> HIDE DEF at, kind
<1>7. decided \in Decisions
  <2> HIDE DEF born
  <2> QED
    BY <1>4, <1>5 DEF Decisions
<1>8. /\ decided.at = at /\ decided.kind = kind /\ decided.born = born /\ decided.revived = {}
  BY <1>4
<1>9. MembersDecided(store, decided)
  <2> SUFFICES ASSUME NEW n \in DOMAIN store.nodes, NEW u \in StoreUsers
               PROVE  /\ u \in DOMAIN store.nodes[n].members <=> kind[<<n, u>>] \in {"added", "reset"}
                      /\ u \in DOMAIN store.nodes[n].members => store.nodes[n].members[u].id > at[<<n, u>>]
    BY <1>8, ZenonT(60) DEF MembersDecided
  <2>1. kind[<<n, u>>] = (IF u \in DOMAIN store.nodes[n].members THEN "added" ELSE "removed")
        /\ at[<<n, u>>] = -1
    BY <1>2, <1>6 DEF Member
  <2>2. u \in DOMAIN store.nodes[n].members => store.nodes[n].members[u].id \in Nat
    BY <1>2, NodeFacts DEF Membership, Stamps
  <2> QED
    BY <2>1, <2>2
<1>10. \A n \in StoreNodes \ decided.born, u \in StoreUsers : decided.kind[<<n, u>>] = "removed"
  BY <1>6, <1>8, ZenonT(60) DEF Member
<1>11. DecisionInv
  BY <1>7, <1>8, <1>9, <1>10 DEF DecisionInv, StoreInit
<1>12. AgentInv
  <2>1. Gone = {} /\ previous = NoSnapshot /\ mutating = "idle"
    BY DEF StoreInit, Gone
  <2> QED
    BY <2>1 DEF StoreInit, AgentInv, RemovedAgentsUnreferenced, Clear
<1> QED
  BY <1>3, <1>11, <1>12 DEF StoreInv

(* A step of the reservation that leaves the store alone.                  *)
Still == UNCHANGED <<store, identity, refused, decided>>

LEMMA StillDecided ==
    ASSUME DecisionInv, Still, previous' \in {previous, store, NoSnapshot},
           \/ UNCHANGED undoing
           \/ undoing' = NothingToUndo
           \/ previous # NoSnapshot /\ undoing'.before = previous
    PROVE  DecisionInv'
<1>1. UNCHANGED <<store, decided>>
  BY DEF Still
<1>2. MembersDecided(store', decided')
  BY <1>1 DEF DecisionInv
<1>3. previous' # NoSnapshot => DOMAIN previous'.nodes \subseteq decided.born
  BY DEF DecisionInv
<1>4. undoing' # NothingToUndo => DOMAIN undoing'.before.nodes \subseteq decided.born
  BY DEF DecisionInv
<1> QED
  BY <1>1, <1>2, <1>3, <1>4 DEF DecisionInv

LEMMA ReserveStep ==
    ASSUME StoreInv, Reserve
    PROVE  StoreInv'
<1> USE DEF StoreInv
<1>1. /\ previous' = store /\ mutating = "idle" /\ mutating' = "reserved"
      /\ Still /\ UNCHANGED <<expected, undoing>>
  BY DEF Reserve, Still
<1>2. Kept(store) /\ store \in Stores /\ store # NoSnapshot
  BY NoSnapshotIsNoStore DEF PlaneInv, Kept
<1>3. SnapshotOf(store, store)
  <2>1. store.stamp \in Nat
    BY <1>2, StoreFacts
  <2> QED
    BY <1>2, <2>1 DEF SnapshotOf, Older
<1>4. PlaneInv'
  BY <1>1, <1>2, <1>3 DEF PlaneInv, Still
<1>5. DecisionInv'
  BY <1>1, StillDecided
<1>6. Clear(Referenced(store)) /\ Gone' = Gone /\ Returning' = Returning /\ UNCHANGED <<store, refused, identity, decided>>
  BY <1>1, ClearAtRest DEF AgentInv, Still, Gone, Returning
<1>7. Clear(Referenced(previous))' /\ Clear(Returning)' /\ RemovedAgentsUnreferenced'
  BY <1>1, <1>6 DEF AgentInv, RemovedAgentsUnreferenced, Clear, Gone, Referenced
<1>8. AgentInv'
  BY <1>1, <1>6, <1>7 DEF AgentInv
<1> QED
  BY <1>4, <1>5, <1>8

(* The edit is looked at.                                                  *)
LEMMA InspectEditStep ==
    ASSUME StoreInv, InspectEdit
    PROVE  StoreInv'
<1> USE DEF StoreInv
<1>1. /\ mutating = "mutated" /\ mutating' \in {"edited", "doomed"}
      /\ mutating' = "edited" => newlyMissingDesiredAgents = {}
      /\ expected' = store.rev /\ Still /\ UNCHANGED <<previous, undoing>>
  BY DEF InspectEdit, Still
<1>2. PlaneInv'
  BY <1>1 DEF PlaneInv, Still
<1>3. DecisionInv'
  BY <1>1, StillDecided
<1>4. Gone' = Gone /\ Returning' = Returning /\ UNCHANGED <<store, refused, identity, decided>>
  BY <1>1 DEF Still, Gone, Returning
<1>5. \A a \in StoreAgents : identity[a] # "leaving"
  BY <1>1 DEF AgentInv
<1>6. mutating' = "edited" => Clear(Referenced(store))
  BY <1>1, NothingMissing
<1>7. RemovedAgentsUnreferenced'
  BY <1>1, <1>4, <1>6 DEF RemovedAgentsUnreferenced, Clear, Gone
<1>8. (previous' # NoSnapshot => Clear(Referenced(previous))') /\ Clear(Returning)'
  BY <1>1, <1>4 DEF AgentInv, Clear, Referenced
<1> QED
  BY <1>1, <1>2, <1>3, <1>4, <1>5, <1>7, <1>8 DEF AgentInv

(* The reservation ends and the store is as it was; a refused edit may be  *)
(* left to undo.                                                           *)
LEMMA ReleaseStep ==
    ASSUME StoreInv, Still, previous' = NoSnapshot,
           mutating' \in {"idle", "deploying"}, mutating \in {"idle", "reserved", "edited", "doomed", "deploying"},
           mutating = "doomed" => store.rev # expected,
           \/ UNCHANGED undoing
           \/ /\ previous # NoSnapshot
              /\ undoing'.before = previous
    PROVE  StoreInv'
<1> USE DEF StoreInv
<1>0. UNCHANGED <<store, identity, refused, decided>> /\ Gone' = Gone
  BY DEF Still, Gone
<1>1. PlaneInv'
  BY <1>0 DEF PlaneInv, SnapshotOf
<1>2. DecisionInv'
  BY StillDecided
<1>3. \A a \in StoreAgents : identity[a] # "leaving"
  BY DEF AgentInv
<1>4. Clear(Referenced(store))
  BY ClearAtRest DEF AgentInv
<1>5. RemovedAgentsUnreferenced'
  BY <1>0, <1>4 DEF RemovedAgentsUnreferenced, Clear, Gone
<1>6. Clear(Returning)'
  BY <1>0 DEF AgentInv, Clear, Returning, Referenced
<1> QED
  BY <1>0, <1>1, <1>2, <1>3, <1>5, <1>6 DEF AgentInv

(* RestoreTopology: nothing was deployed meanwhile, as decided' says.      *)
LEMMA RestoredFacts ==
    ASSUME StoreInv, NEW before, Older(before, store), DOMAIN before.nodes \subseteq decided.born,
           Restored(before), decided'.overtaken = {}
    PROVE  /\ Kept(store') /\ store.stamp <= store'.stamp /\ store'.stamp \in Nat
           /\ store'.applied = store.applied /\ store'.managed = store.managed
           /\ store'.appliedRev = store.appliedRev
           /\ \/ UNCHANGED <<store, decided>> /\ refused' = "restore"
              \/ /\ refused' = refused /\ store'.urev = store.urev + 1
                 /\ Referenced(store') \subseteq Referenced(before) \cup AppliedAgents(store)
           /\ decided' \in Decisions /\ decided'.raced = decided.raced /\ decided'.born = decided.born
           /\ DOMAIN store'.nodes \cup DOMAIN store'.applied \subseteq decided'.born
           /\ \A n \in StoreNodes \ decided'.born, u \in StoreUsers : decided'.kind[<<n, u>>] = "removed"
           /\ MembersDecided(store', decided')
<1> USE DEF StoreInv
<1> DEFINE t == RestoreTopology(store, before)
           back == DOMAIN before.nodes \ DOMAIN store.nodes
           over == {n \in DOMAIN before.nodes : Deployed(before, n) # Deployed(store, n)}
<1>0. Kept(store) /\ store \in Stores /\ store.stamp \in Nat
  BY StoreFacts DEF PlaneInv, Kept
<1>1. CASE ~validateStoredState(t)
  <2>1. refused' = "restore" /\ UNCHANGED <<store, decided>>
    BY <1>1 DEF Restored
  <2>2. MembersDecided(store', decided')
    BY <2>1 DEF DecisionInv
  <2> HIDE DEF t
  <2> QED
    BY <1>0, <2>1, <2>2 DEF DecisionInv
<1>2. CASE validateStoredState(t)
  <2>1. /\ store' = t /\ UNCHANGED refused
        /\ decided' = [decided EXCEPT !.revived = decided.revived \cup back, !.overtaken = decided.overtaken \cup over]
    BY <1>2, ZenonT(60) DEF Restored
  <2>2. back \subseteq StoreNodes /\ over \subseteq StoreNodes
    <3>1. DOMAIN before.nodes \subseteq StoreNodes
      BY StoreFacts DEF Older, Kept
    <3> QED
      BY <3>1
  <2> HIDE DEF back, over
  <2>3. /\ decided' \in Decisions /\ decided'.revived = decided.revived \cup back
        /\ decided'.overtaken = decided.overtaken \cup over /\ decided'.raced = decided.raced
        /\ decided'.born = decided.born /\ decided'.kind = decided.kind /\ decided'.at = decided.at
    BY <2>1, <2>2 DEF DecisionInv, Decisions
  <2>4. SameDeployed(before, store)
    BY <2>3 DEF SameDeployed, over
  <2>5. /\ Kept(t) /\ SameMembers(store, t) /\ DOMAIN t.nodes = DOMAIN before.nodes
        /\ t.applied = store.applied /\ t.managed = store.managed
        /\ Referenced(t) \subseteq Referenced(before) \cup AppliedAgents(store)
    BY <1>0, <1>2, <2>4, RestoreTopologyKeeps
  <2>6. t.stamp = store.stamp /\ t.appliedRev = store.appliedRev
    BY <1>0, RestoreTopologyFrame
  <2> HIDE DEF t
  <2>7. ASSUME NEW n \in DOMAIN t.nodes \ decided'.revived, NEW u \in StoreUsers
        PROVE  /\ u \in DOMAIN t.nodes[n].members <=> decided.kind[<<n, u>>] \in {"added", "reset"}
               /\ u \in DOMAIN t.nodes[n].members /\ decided.kind[<<n, u>>] = "added"
                      => t.nodes[n].members[u].id > decided.at[<<n, u>>]
    <3>1. n \in DOMAIN store.nodes \ decided.revived
      BY <2>3, <2>5 DEF back
    <3>2. /\ DOMAIN t.nodes[n].members = DOMAIN store.nodes[n].members
          /\ u \in DOMAIN store.nodes[n].members => t.nodes[n].members[u].id = store.nodes[n].members[u].id
      BY <2>5, <3>1 DEF SameMembers
    <3>3. /\ u \in DOMAIN store.nodes[n].members <=> decided.kind[<<n, u>>] \in {"added", "reset"}
          /\ u \in DOMAIN store.nodes[n].members /\ decided.kind[<<n, u>>] = "added"
                 => store.nodes[n].members[u].id > decided.at[<<n, u>>]
      BY <3>1 DEF DecisionInv, MembersDecided
    <3> QED
      BY <3>2, <3>3
  <2>8. MembersDecided(store', decided')
    BY <2>1, <2>3, <2>7, ZenonT(60) DEF MembersDecided
  <2>9. DOMAIN store'.nodes \cup DOMAIN store'.applied \subseteq decided'.born
    BY <2>1, <2>3, <2>5 DEF DecisionInv
  <2>10. \A n \in StoreNodes \ decided'.born, u \in StoreUsers : decided'.kind[<<n, u>>] = "removed"
    BY <2>3, ZenonT(60) DEF DecisionInv
  <2>11. store'.urev = store.urev + 1
    BY <2>1, <2>5 DEF SameMembers
  <2> QED
    BY <1>0, <2>1, <2>3, <2>5, <2>6, <2>8, <2>9, <2>10, <2>11
<1> QED
  BY <1>1, <1>2

LEMMA RejectEditStep ==
    ASSUME StoreInv, RejectEdit, decided'.overtaken = {}
    PROVE  StoreInv'
<1>1. /\ mutating = "doomed" /\ mutating' = "idle" /\ previous' = NoSnapshot /\ UNCHANGED <<undoing, identity>>
      /\ \/ store.rev = expected /\ Restored(previous)
         \/ store.rev # expected /\ Still
  BY DEF RejectEdit, Release, Still
<1>2. CASE store.rev # expected /\ Still
  BY <1>1, <1>2, ReleaseStep
<1>3. CASE Restored(previous)
  <2> USE DEF StoreInv
  <2>1. previous # NoSnapshot /\ SnapshotOf(previous, store) /\ DOMAIN previous.nodes \subseteq decided.born
        /\ Clear(Referenced(previous))
    BY <1>1 DEF PlaneInv, DecisionInv, AgentInv
  <2>2. /\ Kept(store') /\ store.stamp <= store'.stamp /\ store'.stamp \in Nat
        /\ \/ UNCHANGED <<store, decided>> /\ refused' = "restore"
           \/ /\ refused' = refused
              /\ Referenced(store') \subseteq Referenced(previous) \cup AppliedAgents(store)
        /\ decided' \in Decisions /\ decided'.raced = decided.raced /\ decided'.born = decided.born
        /\ DOMAIN store'.nodes \cup DOMAIN store'.applied \subseteq decided'.born
        /\ \A n \in StoreNodes \ decided'.born, u \in StoreUsers : decided'.kind[<<n, u>>] = "removed"
        /\ MembersDecided(store', decided')
    BY <1>3, <2>1, RestoredFacts DEF SnapshotOf
  <2>3. undoing # NothingToUndo => Older(undoing.before, store')
    BY <2>2, StaysOlder DEF PlaneInv
  <2>4. PlaneInv'
    BY <1>1, <2>2, <2>3 DEF PlaneInv
  <2>5. DecisionInv'
    BY <1>1, <2>2 DEF DecisionInv
  <2>6. Gone' = Gone /\ Returning' = Returning /\ \A a \in StoreAgents : identity[a] # "leaving"
    BY <1>1, <2>2 DEF Gone, Returning, AgentInv
  <2>7. AppliedAgents(store) \subseteq Referenced(previous)
    BY <2>1, SnapshotFacts
  <2>8. Clear(Referenced(store))'
    BY <2>1, <2>2, <2>6, <2>7 DEF Clear
  <2>9. RemovedAgentsUnreferenced'
    BY <2>8 DEF RemovedAgentsUnreferenced, Clear, Gone
  <2>10. Clear(Returning)'
    BY <2>2, <2>6 DEF AgentInv, Clear
  <2>11. AgentInv'
    BY <1>1, <2>6, <2>9, <2>10 DEF AgentInv
  <2> QED
    BY <2>4, <2>5, <2>11
<1> QED
  BY <1>1, <1>2, <1>3

(* The edit is undone when others may be at work.                          *)
LEMMA UndoEditStep ==
    ASSUME StoreInv, UndoEdit, decided'.overtaken = {}
    PROVE  StoreInv'
<1> USE DEF StoreInv
<1>1. /\ undoing # NothingToUndo /\ undoing' = NothingToUndo
      /\ Restored(undoing.before) \/ Still
      /\ UNCHANGED <<previous, mutating, expected, identity>>
  BY DEF UndoEdit, Still
<1>2. /\ Older(undoing.before, store) /\ DOMAIN undoing.before.nodes \subseteq decided.born
      /\ Returning = Referenced(undoing.before) /\ Returning' = {}
  BY <1>1 DEF PlaneInv, DecisionInv, Returning
<1>3. CASE Still
  <2>1. UNCHANGED <<store, refused, decided>> /\ Gone' = Gone
    BY <1>1, <1>3 DEF Still, Gone
  <2>2. PlaneInv'
    BY <1>1, <2>1 DEF PlaneInv
  <2>3. DecisionInv'
    BY <1>1, <1>3, StillDecided
  <2>4. RemovedAgentsUnreferenced'
    BY <1>1, <2>1 DEF AgentInv, RemovedAgentsUnreferenced, Referenced
  <2>5. (previous' # NoSnapshot => Clear(Referenced(previous))') /\ Clear(Returning)'
    BY <1>1, <1>2, <2>1 DEF AgentInv, Clear, Referenced
  <2>6. mutating' = "doomed" /\ store'.rev # expected' => Clear(Referenced(store))'
    BY <1>1, <2>1 DEF AgentInv, Clear, Referenced
  <2>7. AgentInv'
    BY <1>1, <1>2, <2>1, <2>4, <2>5, <2>6 DEF AgentInv
  <2> QED
    BY <2>2, <2>3, <2>7
<1>4. CASE Restored(undoing.before)
  <2>1. /\ Kept(store') /\ store.stamp <= store'.stamp /\ store'.stamp \in Nat
        /\ store'.applied = store.applied /\ store'.managed = store.managed
        /\ store'.appliedRev = store.appliedRev
        /\ \/ UNCHANGED <<store, decided>> /\ refused' = "restore"
           \/ /\ refused' = refused
              /\ Referenced(store') \subseteq Returning \cup AppliedAgents(store)
        /\ decided' \in Decisions /\ decided'.raced = decided.raced /\ decided'.born = decided.born
        /\ DOMAIN store'.nodes \cup DOMAIN store'.applied \subseteq decided'.born
        /\ \A n \in StoreNodes \ decided'.born, u \in StoreUsers : decided'.kind[<<n, u>>] = "removed"
        /\ MembersDecided(store', decided')
    BY <1>2, <1>4, RestoredFacts
  <2>2. previous # NoSnapshot => SnapshotOf(previous, store')
    BY <2>1, StaysOlder DEF PlaneInv, SnapshotOf
  <2>3. PlaneInv'
    BY <1>1, <2>1, <2>2 DEF PlaneInv
  <2>4. DecisionInv'
    BY <1>1, <2>1 DEF DecisionInv
  <2>5. Gone' = Gone
    BY <1>1, <2>1 DEF Gone
  <2>6. AppliedAgents(store) \subseteq Referenced(store)
    BY DEF AppliedAgents, Referenced
  <2>7. Clear(AppliedAgents(store))
    <3>1. CASE previous # NoSnapshot
      BY <3>1, SnapshotFacts DEF PlaneInv, AgentInv, Clear
    <3>2. CASE previous = NoSnapshot
      BY <2>6, <3>2, ClearAtRest DEF PlaneInv, AgentInv, Clear
    <3> QED
      BY <3>1, <3>2
  <2>8. Clear(Referenced(store))'
    BY <2>1, <2>5, <2>7 DEF AgentInv, Clear
  <2>9. RemovedAgentsUnreferenced'
    BY <2>8 DEF RemovedAgentsUnreferenced, Clear, Gone
  <2>10. (previous' # NoSnapshot => Clear(Referenced(previous))') /\ Clear(Returning)'
    BY <1>1, <1>2, <2>1, <2>5, SMTT(30) DEF AgentInv, Clear, Referenced
  <2>11. ASSUME NEW a \in StoreAgents, identity'[a] = "leaving"
         PROVE  /\ mutating' \in {"removing", "forcing"}
                /\ mutating' = "removing" =>
                     refused' = "restore" \/ a \in decided'.raced \/ a \notin Referenced(store') \cup Returning'
    <3>1. /\ mutating \in {"removing", "forcing"}
          /\ mutating = "removing" =>
                refused = "restore" \/ a \in decided.raced \/ a \notin Referenced(store) \cup Returning
      BY <1>1, <2>11 DEF AgentInv
    <3> QED
      BY <1>1, <1>2, <2>1, <2>6, <3>1
  <2>12. AgentInv'
    BY <1>1, <2>8, <2>9, <2>10, <2>11 DEF AgentInv
  <2> QED
    BY <2>3, <2>4, <2>12
<1> QED
  BY <1>1, <1>3, <1>4

LEMMA startStep ==
    ASSUME StoreInv, start
    PROVE  StoreInv'
<1>1. /\ Still /\ previous' = NoSnapshot /\ UNCHANGED undoing
      /\ mutating' = "deploying" /\ mutating \in {"idle", "edited"}
  BY DEF start, Still
<1> QED
  BY <1>1, ReleaseStep

LEMMA pendingTopologyDeploymentStep ==
    ASSUME StoreInv, pendingTopologyDeployment
    PROVE  StoreInv'
<1>1. /\ Still /\ previous' = NoSnapshot /\ UNCHANGED undoing
      /\ mutating' = "idle" /\ mutating = "edited"
  BY DEF pendingTopologyDeployment, Release, Still
<1> QED
  BY <1>1, ReleaseStep

LEMMA RefuseStartStep ==
    ASSUME StoreInv, RefuseStart
    PROVE  StoreInv'
<1>1. /\ Still /\ previous' = NoSnapshot /\ undoing'.before = previous
      /\ mutating' = "idle" /\ mutating = "edited" /\ previous # NoSnapshot
  BY DEF RefuseStart, Release, Still, StoreInv, PlaneInv
<1> QED
  BY <1>1, ReleaseStep

LEMMA RefuseMutationStep ==
    ASSUME StoreInv, RefuseMutation
    PROVE  StoreInv'
<1>1. /\ Still /\ previous' = NoSnapshot /\ UNCHANGED undoing
      /\ mutating' = "idle" /\ mutating = "reserved"
  BY DEF RefuseMutation, Release, Still
<1> QED
  BY <1>1, ReleaseStep

LEMMA finishStep ==
    ASSUME StoreInv, NEW applied \in BOOLEAN, finish(applied)
    PROVE  StoreInv'
<1> DEFINE t == MarkTopologyApplied(store)
<1>0. Kept(store) /\ Kept(t)
  BY MarkTopologyAppliedKeeps DEF StoreInv, PlaneInv
<1>1. validateStoredState(t)
  BY <1>0, KeptFacts DEF IsStore
<1>2. /\ mutating = "deploying" /\ mutating' = "idle" /\ previous' = NoSnapshot
      /\ UNCHANGED <<undoing, identity, refused, decided>>
      /\ UNCHANGED store \/ store' = t
  BY <1>1, ZenonT(60) DEF finish, Release
<1>3. CASE UNCHANGED store
  <2>1. Still
    BY <1>2, <1>3 DEF Still
  <2> QED
    BY <1>2, <2>1, ReleaseStep
<1>4. CASE store' = t
  <2> USE DEF StoreInv
  <2>1. previous = NoSnapshot /\ \A a \in StoreAgents : identity[a] # "leaving"
    BY <1>2 DEF PlaneInv, AgentInv
  <2>2. /\ Kept(store') /\ SameMembers(store, store')
        /\ DOMAIN store'.nodes = DOMAIN store.nodes /\ DOMAIN store'.applied = DOMAIN store.nodes
        /\ Referenced(store') \subseteq Referenced(store)
    BY <1>0, <1>4, MarkTopologyAppliedKeeps
  <2>3. store'.stamp = store.stamp /\ store.stamp \in Nat
    BY <1>0, <1>4, StoreFacts, MarkTopologyAppliedFrame DEF Kept
  <2>4. undoing # NothingToUndo => Older(undoing.before, store')
    BY <1>0, <2>2, <2>3, StaysOlder DEF PlaneInv
  <2> HIDE DEF t
  <2>5. PlaneInv'
    BY <1>2, <2>1, <2>2, <2>4 DEF PlaneInv
  <2>6. ASSUME NEW n \in DOMAIN store.nodes \ decided.revived, NEW u \in StoreUsers
        PROVE  /\ u \in DOMAIN store'.nodes[n].members <=> decided.kind[<<n, u>>] \in {"added", "reset"}
               /\ u \in DOMAIN store'.nodes[n].members /\ decided.kind[<<n, u>>] = "added"
                      => store'.nodes[n].members[u].id > decided.at[<<n, u>>]
    <3>1. /\ DOMAIN store'.nodes[n].members = DOMAIN store.nodes[n].members
          /\ u \in DOMAIN store.nodes[n].members =>
                store'.nodes[n].members[u].id = store.nodes[n].members[u].id
      BY <2>2 DEF SameMembers
    <3>2. /\ u \in DOMAIN store.nodes[n].members <=> decided.kind[<<n, u>>] \in {"added", "reset"}
          /\ u \in DOMAIN store.nodes[n].members /\ decided.kind[<<n, u>>] = "added"
                 => store.nodes[n].members[u].id > decided.at[<<n, u>>]
      BY DEF DecisionInv, MembersDecided
    <3> QED
      BY <3>1, <3>2
  <2>7. MembersDecided(store', decided')
    BY <1>2, <2>2, <2>6, ZenonT(60) DEF MembersDecided
  <2>8. DOMAIN store'.nodes \cup DOMAIN store'.applied \subseteq decided'.born
    BY <1>2, <2>2 DEF DecisionInv
  <2>9. DecisionInv'
    BY <1>2, <2>1, <2>7, <2>8 DEF DecisionInv
  <2>10. Clear(Referenced(store)) /\ Gone' = Gone /\ Returning' = Returning
    BY <1>2, ClearAtRest DEF AgentInv, Gone, Returning
  <2>11. RemovedAgentsUnreferenced' /\ Clear(Returning)'
    BY <1>2, <2>2, <2>10 DEF RemovedAgentsUnreferenced, Clear, Gone, AgentInv
  <2>12. AgentInv'
    BY <1>2, <2>1, <2>11 DEF AgentInv
  <2> QED
    BY <2>5, <2>9, <2>12
<1> QED
  BY <1>2, <1>3, <1>4

LEMMA GuardAgentRemovalStep ==
    ASSUME StoreInv, NEW a \in StoreAgents, NEW force \in BOOLEAN, GuardAgentRemoval(a, force)
    PROVE  StoreInv'
<1> USE DEF StoreInv
<1>1. /\ mutating = "idle" /\ mutating' = IF force THEN "forcing" ELSE "removing"
      /\ force \/ a \notin Referenced(store)
      /\ identity' = [identity EXCEPT ![a] = "leaving"]
      /\ decided' = [decided EXCEPT !.raced = decided.raced \cup ({a} \cap Returning)]
      /\ UNCHANGED <<store, previous, expected, undoing, refused>>
  BY DEF GuardAgentRemoval, RequireAgentUnreferenced
<1>2. previous = NoSnapshot
  BY <1>1 DEF PlaneInv
<1>3. PlaneInv'
  BY <1>1, <1>2 DEF PlaneInv
<1>4. /\ decided' \in Decisions /\ decided'.raced = decided.raced \cup ({a} \cap Returning)
      /\ decided'.born = decided.born /\ decided'.revived = decided.revived
      /\ decided'.kind = decided.kind /\ decided'.at = decided.at
  BY <1>1 DEF DecisionInv, Decisions
<1>5. MembersDecided(store', decided')
  BY <1>1, <1>4, ZenonT(60) DEF MembersDecided, DecisionInv
<1>6. DecisionInv'
  BY <1>1, <1>2, <1>4, <1>5 DEF DecisionInv
<1>7. \A b \in StoreAgents : identity[b] # "leaving"
  BY <1>1 DEF AgentInv
<1>8. /\ identity' \in [StoreAgents -> {"enrolled", "leaving", "removed", "forced"}]
      /\ \A b \in StoreAgents : identity'[b] = IF b = a THEN "leaving" ELSE identity[b]
  BY <1>1 DEF AgentInv
<1>9. Gone' \subseteq Gone /\ Returning' = Returning /\ Clear(Referenced(store))
  BY <1>1, <1>4, <1>8, ClearAtRest DEF Gone, Returning, AgentInv
<1>10. RemovedAgentsUnreferenced' /\ Clear(Returning)'
  BY <1>1, <1>9 DEF RemovedAgentsUnreferenced, Clear, Gone, AgentInv
<1>11. mutating' = "removing" => a \in decided'.raced \/ a \notin Referenced(store') \cup Returning'
  BY <1>1, <1>4, <1>9
<1> QED
  BY <1>1, <1>2, <1>3, <1>6, <1>7, <1>8, <1>10, <1>11 DEF AgentInv

LEMMA RemoveIdentityStep ==
    ASSUME StoreInv, NEW a \in StoreAgents, RemoveIdentity(a)
    PROVE  StoreInv'
<1> USE DEF StoreInv
<1>1. /\ identity[a] = "leaving" /\ mutating' = "idle"
      /\ identity' = [identity EXCEPT ![a] = IF mutating = "forcing" THEN "forced" ELSE "removed"]
      /\ UNCHANGED <<store, previous, expected, undoing, refused, decided>>
  BY DEF RemoveIdentity
<1>2. /\ mutating \in {"removing", "forcing"}
      /\ mutating = "removing" =>
            refused = "restore" \/ a \in decided.raced \/ a \notin Referenced(store) \cup Returning
  BY <1>1 DEF AgentInv
<1>3. previous = NoSnapshot
  BY <1>2 DEF PlaneInv
<1>4. PlaneInv'
  BY <1>1, <1>3 DEF PlaneInv
<1>5. DecisionInv'
  BY <1>1 DEF DecisionInv, MembersDecided
<1>6. /\ identity' \in [StoreAgents -> {"enrolled", "leaving", "removed", "forced"}]
      /\ \A b \in StoreAgents :
            identity'[b] = IF b = a THEN (IF mutating = "forcing" THEN "forced" ELSE "removed") ELSE identity[b]
  BY <1>1 DEF AgentInv
<1>7. \A b \in StoreAgents : identity'[b] # "leaving"
  BY <1>1, <1>6 DEF AgentInv
<1>8. Gone' \subseteq Gone \cup {a} /\ (a \in Gone' => mutating = "removing" /\ a \notin decided.raced)
  BY <1>1, <1>2, <1>6 DEF Gone
<1>9. Clear(Referenced(store)) /\ Clear(Returning) /\ Returning' = Returning
  BY <1>1, <1>2, ClearAtRest DEF AgentInv, Returning
<1>10. RemovedAgentsUnreferenced' /\ Clear(Returning)'
  BY <1>1, <1>2, <1>8, <1>9 DEF RemovedAgentsUnreferenced, Clear, Gone
<1> QED
  BY <1>1, <1>3, <1>4, <1>5, <1>6, <1>7, <1>10 DEF AgentInv

-----------------------------------------------------------------------------
EditPlane ==
    \E n \in StoreNodes :
        \/ renameProxyNode(n)
        \/ deleteProxyNode(n)
        \/ \E port \in Ports, shape \in Shapes :
            \/ updateProxyEntrance(n, port, shape)
            \/ \E agent \in StoreAgents : createProxyNode(n, agent, port, shape)
        \/ \E agent \in StoreAgents : moveProxyEntrance(n, agent)

LEMMA EditPlaneStep ==
    ASSUME PlaneInv, DecisionInv, EditPlane
    PROVE  EditStep
<1> PICK n \in StoreNodes :
        \/ renameProxyNode(n)
        \/ deleteProxyNode(n)
        \/ \E port \in Ports, shape \in Shapes :
            \/ updateProxyEntrance(n, port, shape)
            \/ \E agent \in StoreAgents : createProxyNode(n, agent, port, shape)
        \/ \E agent \in StoreAgents : moveProxyEntrance(n, agent)
  BY DEF EditPlane
<1>1. ASSUME NEW port \in Ports, NEW shape \in Shapes,
             updateProxyEntrance(n, port, shape)
      PROVE  EditStep
  BY <1>1, updateProxyEntranceStep
<1>2. ASSUME NEW port \in Ports, NEW shape \in Shapes, NEW agent \in StoreAgents,
             createProxyNode(n, agent, port, shape)
      PROVE  EditStep
  BY <1>2, createProxyNodeStep
<1> QED
  BY <1>1, <1>2, renameProxyNodeStep, deleteProxyNodeStep, moveProxyEntranceStep

LEMMA StoreSteps ==
    ASSUME StoreNext
    PROVE  \/ UserPlane
           \/ EditPlane
           \/ Reserve \/ RefuseMutation \/ InspectEdit \/ RejectEdit
           \/ RefuseStart \/ UndoEdit \/ start \/ pendingTopologyDeployment
           \/ \E applied \in BOOLEAN : finish(applied)
           \/ \E a \in StoreAgents, force \in BOOLEAN : GuardAgentRemoval(a, force)
           \/ \E a \in StoreAgents : RemoveIdentity(a)
BY ZenonT(60) DEF StoreNext, TopologyPlane, EditPlane

LEMMA StoreNextInv ==
    ASSUME StoreInv, [StoreNext]_storeVars, decided'.overtaken = {}
    PROVE  StoreInv'
<1>1. CASE UserPlane
  <2>1. UserStep
    BY <1>1, UserPlaneStep DEF StoreInv
  <2>2. AgentInv'
    BY <2>1, UserStepAgents DEF StoreInv
  <2> QED
    BY <2>1, <2>2 DEF UserStep, StoreInv
<1>2. CASE EditPlane
  <2>1. EditStep
    BY <1>2, EditPlaneStep DEF StoreInv
  <2>2. AgentInv'
    BY <2>1, EditStepAgents DEF StoreInv
  <2> QED
    BY <2>1, <2>2 DEF EditStep, StoreInv
<1>3. CASE UNCHANGED storeVars
  <2>1. PlaneInv'
    BY <1>3 DEF StoreInv, PlaneInv, storeVars
  <2>2. DecisionInv'
    BY <1>3 DEF StoreInv, DecisionInv, MembersDecided, storeVars
  <2>3. AgentInv'
    <3>1. /\ Gone' = Gone /\ Returning' = Returning
          /\ UNCHANGED <<store, previous, mutating, expected, undoing, identity, refused, decided>>
      BY <1>3 DEF Gone, Returning, storeVars
    <3> QED
      BY <3>1 DEF StoreInv, AgentInv, RemovedAgentsUnreferenced, Clear
  <2> QED
    BY <2>1, <2>2, <2>3 DEF StoreInv
<1> QED
  BY <1>1, <1>2, <1>3, StoreSteps, ReserveStep, RefuseMutationStep, InspectEditStep, RejectEditStep,
     RefuseStartStep, UndoEditStep, startStep, pendingTopologyDeploymentStep, finishStep, GuardAgentRemovalStep, RemoveIdentityStep

-----------------------------------------------------------------------------
(* No roll-back of a refused edit finds something else deployed for a node *)
(* of its snapshot than when the snapshot was taken.                       *)
NothingOvertaken == decided.overtaken = {}

LEMMA StoreInvHolds ==
    StoreSpec /\ []NothingOvertaken => []StoreInv
<1>1. StoreInit => StoreInv
  BY StoreInitInv
<1>2. StoreInv /\ [StoreNext]_storeVars /\ NothingOvertaken' => StoreInv'
  BY StoreNextInv DEF NothingOvertaken
<1> QED
  BY <1>1, <1>2, PTL DEF StoreSpec

LEMMA StoreInvKeepsMembers ==
    ASSUME StoreInv
    PROVE  MembersAreKept
<1>1. /\ Kept(store) /\ (previous # NoSnapshot => Kept(previous))
      /\ undoing # NothingToUndo => undoing.before # NoSnapshot /\ Kept(undoing.before)
  BY DEF StoreInv, PlaneInv, SnapshotOf, Older
<1>2. /\ IsStore(store) /\ CredentialsLive(store) /\ ListenersAgree(store)
      /\ previous # NoSnapshot => IsStore(previous)
      /\ undoing # NothingToUndo => undoing.before # NoSnapshot /\ IsStore(undoing.before)
  BY <1>1, KeptFacts
<1>3. CredentialsFit
  <2>1. StoreTypeOK
    <3>1. previous # NoSnapshot <=> mutating \in {"reserved", "mutated", "edited", "doomed"}
      BY DEF StoreInv, PlaneInv
    <3>2. identity \in [StoreAgents -> {"enrolled", "leaving", "removed", "forced"}]
      BY DEF StoreInv, AgentInv
    <3> QED
      BY <1>2, <3>1, <3>2 DEF StoreTypeOK
  <2>2. OperationsAreAccepted
    <3>1. refused \in {"none", "restore"}
      BY DEF StoreInv, PlaneInv
    <3>2. refused \notin {"user edit", "topology edit", "commit"}
      BY <3>1
    <3> QED
      BY <3>2, ZenonT(30) DEF OperationsAreAccepted
  <2>3. LiveCredentialFits /\ SharedListenersAgree
    BY <1>2 DEF LiveCredentialFits, CredentialsLive, SharedListenersAgree
  <2> QED
    BY <2>1, <2>2, <2>3 DEF CredentialsFit
<1>4. DecisionsSurviveEdits
  <2>1. ASSUME NEW n \in DOMAIN store.nodes \ decided.revived, NEW u \in StoreUsers
        PROVE  Member(n, u) <=> decided.kind[<<n, u>>] \in {"added", "reset"}
    BY DEF StoreInv, DecisionInv, MembersDecided, Member
  <2> QED
    BY <2>1, ZenonT(60) DEF DecisionsSurviveEdits
<1>5. RemovedStaysDead
  <2>1. ASSUME NEW n \in DOMAIN store.nodes \ decided.revived, NEW u \in StoreUsers,
               Member(n, u), decided.kind[<<n, u>>] = "added",
               NEW c \in {store.nodes[n].members[u].credential} \cup store.nodes[n].members[u].pending
        PROVE  c.stamp > decided.at[<<n, u>>]
    <3> DEFINE m == store.nodes[n].members[u]
               at == decided.at[<<n, u>>]
    <3>1. store \in Stores /\ n \in StoreNodes /\ u \in DOMAIN store.nodes[n].members
      BY <1>1, <2>1, StoreFacts DEF Kept, Member
    <3>2. m \in Membership /\ Sound(store, n, m)
      BY <1>1, <3>1, NodeFacts DEF Kept, MembersSound
    <3>3. m.id > at /\ at \in Int
      <4>1. m.id > at
        BY <2>1, <3>1 DEF StoreInv, DecisionInv, MembersDecided
      <4>2. <<n, u>> \in Pairs
        BY <3>1 DEF Pairs, Accounts
      <4>3. at \in Int
        BY <4>2 DEF StoreInv, DecisionInv, Decisions
      <4> QED
        BY <4>1, <4>3
    <3> HIDE DEF at
    <3>4. m.id <= c.stamp
      BY <3>2 DEF Sound
    <3>5. m.id \in Nat /\ c.stamp \in Nat
      BY <3>2 DEF Membership, Credential, Stamps
    <3>6. c.stamp > at
      BY <3>3, <3>4, <3>5
    <3> QED
      BY <3>6 DEF at
  <2> QED
    BY <2>1, ZenonT(60) DEF RemovedStaysDead
<1>6. RemovedAgentsUnreferenced
  BY DEF StoreInv, AgentInv
<1> QED
  BY <1>3, <1>4, <1>5, <1>6 DEF MembersAreKept, DecisionsHold

(* The members of a Proxy Node are those that were decided on, with the    *)
(* secrets their Agents accept, and no Agent is removed under a reference  *)
(* that stays, whatever edits, rollouts, roll-backs and decisions of users *)
(* came before, unless the undoing of a refused edit was overtaken by a    *)
(* rollout (store.go, deployer.go).                                        *)
THEOREM MembersKept ==
    StoreSpec /\ []NothingOvertaken => []MembersAreKept
BY StoreInvHolds, StoreInvKeepsMembers, PTL

(* The Agents are told the same, or there is a new user revision.          *)
SameAuthority ==
    \/ CompileAppliedUsers(store') = CompileAppliedUsers(store)
    \/ store'.urev > store.urev

LEMMA EditedAuthority ==
    ASSUME store \in Stores, store' \in Stores, TopologyEdited(store, store')
    PROVE  SameAuthority
<1> SUFFICES ASSUME ~(store'.urev > store.urev)
             PROVE  CompileAppliedUsers(store') = CompileAppliedUsers(store)
  BY DEF SameAuthority
<1>1. /\ store'.applied = store.applied
      /\ DOMAIN store.applied \cap DOMAIN store'.nodes = DOMAIN store.applied \cap DOMAIN store.nodes
  BY DEF TopologyEdited
<1> DEFINE told(s, n) == IF n \notin DOMAIN s.nodes THEN {}
                         ELSE {<<u, s.nodes[n].members[u].credential>> : u \in DOMAIN s.nodes[n].members}
<1>2. ASSUME NEW n \in DOMAIN store.applied
      PROVE  told(store', n) = told(store, n)
  <2>1. CASE n \in DOMAIN store.nodes
    <3>1. n \in DOMAIN store'.nodes \cap DOMAIN store.nodes
      BY <1>1, <2>1
    <3>2. /\ DOMAIN store'.nodes[n].members = DOMAIN store.nodes[n].members
          /\ \A u \in DOMAIN store.nodes[n].members :
                store'.nodes[n].members[u].credential = store.nodes[n].members[u].credential
      BY <3>1 DEF TopologyEdited
    <3> QED
      BY <3>1, <3>2
  <2>2. CASE n \notin DOMAIN store.nodes
    BY <1>1, <2>2
  <2> QED
    BY <2>1, <2>2
<1>3. /\ CompileAppliedUsers(store) =
            [n \in DOMAIN store.applied |-> [entrance |-> store.applied[n], users |-> told(store, n)]]
      /\ CompileAppliedUsers(store') =
            [n \in DOMAIN store'.applied |-> [entrance |-> store'.applied[n], users |-> told(store', n)]]
  BY DEF CompileAppliedUsers
<1> HIDE DEF told
<1> QED
  BY <1>1, <1>2, <1>3

LEMMA StoreStepAuthority ==
    ASSUME StoreInv, [StoreNext]_storeVars, NothingOvertaken'
    PROVE  SameAuthority
<1>1. store \in Stores /\ store.urev \in Nat /\ Kept(store)
  BY StoreFacts DEF StoreInv, PlaneInv, Kept
<1>2. CASE UserPlane
  <2>1. store'.urev = store.urev + 1
    BY <1>2, UserPlaneStep DEF StoreInv, UserStep, SameTopology
  <2> QED
    BY <1>1, <2>1 DEF SameAuthority
<1>3. CASE EditPlane
  <2>1. TopologyEdited(store, store') /\ store' \in Stores
    BY <1>3, EditPlaneStep DEF StoreInv, EditStep, Kept
  <2> QED
    BY <1>1, <2>1, EditedAuthority
<1>4. ASSUME UNCHANGED store
      PROVE  SameAuthority
  BY <1>4 DEF SameAuthority, CompileAppliedUsers
<1>5. CASE RejectEdit \/ UndoEdit
  <2>1. UNCHANGED store \/ \E before \in {previous, undoing.before} :
           Restored(before) /\ Older(before, store) /\ DOMAIN before.nodes \subseteq decided.born
    BY <1>5 DEF RejectEdit, UndoEdit, StoreInv, PlaneInv, DecisionInv, SnapshotOf
  <2>2. UNCHANGED store \/ store'.urev = store.urev + 1
    BY <2>1, RestoredFacts DEF NothingOvertaken
  <2> QED
    BY <1>1, <1>4, <2>2 DEF SameAuthority
<1>6. ASSUME NEW applied \in BOOLEAN, finish(applied)
      PROVE  SameAuthority
  <2>1. UNCHANGED store \/ store' = MarkTopologyApplied(store)
    BY <1>6 DEF finish
  <2>2. store' = MarkTopologyApplied(store) => store'.urev = store.urev + 1
    BY <1>1, MarkTopologyAppliedKeeps DEF SameMembers
  <2> QED
    BY <1>1, <1>4, <2>1, <2>2 DEF SameAuthority
<1>7. \/ Reserve \/ RefuseMutation \/ InspectEdit \/ RefuseStart \/ start \/ pendingTopologyDeployment \/ UNCHANGED storeVars
      \/ \E a \in StoreAgents, force \in BOOLEAN : GuardAgentRemoval(a, force)
      \/ \E a \in StoreAgents : RemoveIdentity(a)
      => UNCHANGED store
  BY DEF Reserve, RefuseMutation, InspectEdit, RefuseStart, start, pendingTopologyDeployment, GuardAgentRemoval, RemoveIdentity, storeVars
<1> QED
  BY <1>2, <1>3, <1>4, <1>5, <1>6, <1>7, StoreSteps

(* What the Agents must be told changes under a new user revision only, in *)
(* every step of the store (mutateUser, DeleteProxyNode,                   *)
(* MarkTopologyApplied, RestoreTopology), unless the undoing of a refused  *)
(* edit was overtaken by a rollout.                                        *)
THEOREM AuthorityRevised ==
    StoreSpec /\ []NothingOvertaken => AuthorityHasRevision
<1>1. StoreInv /\ [StoreNext]_storeVars /\ NothingOvertaken' =>
        [CompileAppliedUsers(store') # CompileAppliedUsers(store) => store'.urev > store.urev]_storeVars
  BY StoreStepAuthority DEF SameAuthority
<1> QED
  BY <1>1, StoreInvHolds, PTL DEF StoreSpec, AuthorityHasRevision

=============================================================================
