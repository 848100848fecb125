---------------------------- MODULE MCMasterState ----------------------------
(* What a Master and its host keep for themselves, one component at a time: *)
(* the routing tree of a Proxy Node, the Proxy Node store, the accounts, the *)
(* migration to another host and the update requests of the host.  focus is *)
(* the component a behaviour is about; the others stay where they began.    *)
EXTENDS ProxyTree, ProxyNodeStore, Accounting, MasterMigration, HostUpdates, TLC

CONSTANTS a1, a2, a3, m1, m2, n1, n2, u1, u2, edge, relay, g1, g2, good, bad

VARIABLE focus

MasterComponents == {"tree", "store", "accounts", "migration", "updates"}

-----------------------------------------------------------------------------
(* Trees: the one of a new node, and one with a fallback, a BLOCK branch    *)
(* before and after the Rules of Links, and a second level.  A third edit   *)
(* is made to a tree of at most ThirdEditSize Hops, Links and BLOCKs.       *)
ThirdEditSize == 7
LinkAt(i, p, c, o, f, r) == [id |-> i, parent |-> p, child |-> c, order |-> o, fallback |-> f, rule |-> r]
HopAt(i, a, f) == [id |-> i, agent |-> a, final |-> f]
RuleAt(o, m) == [order |-> o, match |-> m]
BlockAt(i, p, o, m) == [id |-> i, parent |-> p, order |-> o, match |-> m]

NewTree == [hops |-> {HopAt(1, a1, "direct")}, links |-> {}, blocks |-> {}]
MCTrees ==
    {NewTree,
     [hops |-> {HopAt(1, a1, "direct"), HopAt(2, a2, "direct"), HopAt(3, a3, "reject"), HopAt(4, a3, "direct")},
      links |-> {LinkAt(1, 1, 2, 0, FALSE, RuleAt(1, m1)), LinkAt(2, 1, 3, 1, TRUE, Unrouted),
                 LinkAt(3, 2, 4, 0, FALSE, RuleAt(0, m1))},
      blocks |-> {BlockAt(1, 1, 0, m2), BlockAt(2, 2, 1, m2)}]}

(* Stores: one node with a member and the administrator, or two nodes on    *)
(* one socket; edits of the topology around decisions about users.  From    *)
(* the two nodes, one edit is made around two decisions.                    *)
EndpointAt(a, p, s) == [agent |-> a, port |-> p, shape |-> s, key |-> 0]
MemberWith(s) == [id |-> 0, credential |-> [shape |-> s, stamp |-> 0], pending |-> {}]
StoreOf(N, U) ==
    [nodes |-> [n \in N |-> [entrance |-> EndpointAt(edge, 1, "shadowsocks"),
                             members |-> [u \in U |-> MemberWith("shadowsocks")]]],
     applied |-> [n \in N |-> EndpointAt(edge, 1, "shadowsocks")],
     users |-> U \cup {u1}, admin |-> Admin \in U, managed |-> {edge},
     rev |-> 1, urev |-> 1, appliedRev |-> 1, stamp |-> 0]
OneNode == StoreOf({n1}, {u1, Admin})
TwoNodes == StoreOf({n1, n2}, {u1})
MCFirstStores == {OneNode, TwoNodes}
Allow(t, u, r) == [topology |-> t, user |-> u, removals |-> r]
MCStoreBudgets == {Allow(1, 2, 0), Allow(2, 1, 0), Allow(2, 0, 1)}

(* Accounts: a quota, a quota and a reset behind it, or a term; changes,    *)
(* days and traffic around crashes and failed writes.                       *)
Bill(c, d, b, x, f) == [changes |-> c, days |-> d, bytes |-> b, crashes |-> x, faults |-> f]
MCBillBudgets == {Bill(2, 0, 0, 1, 0), Bill(1, 0, 1, 1, 0), Bill(1, 1, 0, 1, 1),
                  Bill(1, 0, 0, 1, 3), Bill(1, 0, 1, 0, 2), Bill(0, 1, 2, 1, 1)}
FirstGrant == grantMembership(1, 0, 1)
MCFirstMembers ==
    {[g \in {g1} |-> FirstGrant], [g \in {g1} |-> [FirstGrant EXCEPT !.resets = 1]],
     [g \in {g1} |-> grantMembership(0, 1, 1)]}

(* Migrations: edits around an export; uploads, one of them unreadable,     *)
(* around two crashes; an export and a restore; a cutover around a crash.   *)
Purse(e, x, u, k, c, f) == [edits |-> e, exports |-> x, uploads |-> u, cutovers |-> k, crashes |-> c, faults |-> f]
MCMigrationBudgets == {Purse(2, 1, 0, 0, 0, 0), Purse(0, 0, 2, 0, 2, 1), Purse(0, 1, 1, 0, 1, 0), Purse(0, 0, 0, 1, 1, 0)}

(* Updates: one request around killed helpers and a failing file operation. *)
ServedLimits == [k \in FaultKinds |-> CASE k = "crash" -> 2 [] k = "disk" -> 1 [] OTHER -> 0]
ServedBounds == {[requests |-> 1, faults |-> 3]}

-----------------------------------------------------------------------------
masterStateVars == <<treeVars, storeVars, billVars, migrationVars, vars, focus>>

(* A component out of focus is parked in the first of its initial states.   *)
Parked ==
    /\ focus # "tree" => tree = NewTree
    /\ focus # "store" => store = TwoNodes
    /\ store = TwoNodes => budget = Allow(1, 2, 0)
    /\ focus # "accounts" =>
         book.members = [g \in {g1} |-> FirstGrant] /\ agent.totals /\ allowance = Bill(2, 0, 0, 1, 0)
    /\ focus # "migration" => quota = Purse(2, 1, 0, 0, 0, 0)

MasterStateInit ==
    /\ focus \in MasterComponents
    /\ TreeInit /\ StoreInit /\ BillInit /\ MigrationInit /\ Init
    /\ Parked

TreeTurn ==
    /\ focus = "tree" /\ (edits < 2 \/ Size(tree) <= ThirdEditSize)
    /\ TreeNext /\ UNCHANGED <<storeVars, billVars, migrationVars, vars, focus>>
StoreTurn == focus = "store" /\ StoreNext /\ UNCHANGED <<treeVars, billVars, migrationVars, vars, focus>>
BillTurn == focus = "accounts" /\ BillNext /\ UNCHANGED <<treeVars, storeVars, migrationVars, vars, focus>>
MigrationTurn == focus = "migration" /\ MigrationNext /\ UNCHANGED <<treeVars, storeVars, billVars, vars, focus>>
UpdateTurn == focus = "updates" /\ Next /\ UNCHANGED <<treeVars, storeVars, billVars, migrationVars, focus>>

MasterStateNext == TreeTurn \/ StoreTurn \/ BillTurn \/ MigrationTurn \/ UpdateTurn

(* The fairness of each component, while it is in focus.                    *)
MasterStateFairness ==
    /\ WF_billVars(focus = "accounts" /\ StartUserSync) /\ WF_billVars(focus = "accounts" /\ SyncApplied)
    /\ WF_billVars(focus = "accounts" /\ SyncDeferred) /\ WF_billVars(focus = "accounts" /\ Persisting)
    /\ WF_billVars(focus = "accounts" /\ AdvanceBilling) /\ WF_billVars(focus = "accounts" /\ Open)
    /\ WF_migrationVars(focus = "migration" /\ Staging) /\ WF_migrationVars(focus = "migration" /\ Installation)
    /\ \A a \in Movers : WF_migrationVars(focus = "migration" /\ Cutover(a))
    /\ \A c \in Components : WF_vars(focus = "updates" /\ UNCHANGED bound /\ HelperStep(c))
    /\ WF_vars(focus = "updates" /\ UNCHANGED bound /\ SingBoxStep)

MasterStateSpec ==
    MasterStateInit /\ [][MasterStateNext]_masterStateVars /\ MasterStateFairness
=============================================================================
