---------------------------- MODULE MCControlPlane ----------------------------
(* Who may reach the Master and what it knows of its Servers, one component *)
(* at a time: the identities and sessions of the Agents, the sign-in of the *)
(* operator and the end users, the addresses of the Servers, and what       *)
(* clients read.  focus is the component a behaviour is about; the others   *)
(* stay where they began.                                                   *)
EXTENDS AgentAccess, WebSessions, OutboundPool, PublicReads, TLC

CONSTANTS a1, a2, h1, h2, k1, k2, n1, n2, c1, c2,
          u1, root, g1, g2, p1, p2, b1, b2, b3, b4, q1, q2,
          s1, i1, i2, j1, m1, x1, x2, w1, w2, e1, e2

VARIABLE focus

-----------------------------------------------------------------------------
(* Agents: two IDs that read alike; two enrolments, an edit or a revocation *)
(* around a frame, a failed write and restarts of the Master or of a host.  *)
Rights(enrolments, changes, revocations, frames, faults, restarts, crashes, drops) ==
    [enrolments |-> enrolments, edits |-> changes, revocations |-> revocations, frames |-> frames,
     faults |-> faults, restarts |-> restarts, crashes |-> crashes, drops |-> drops]
MCIdName == (a1 :> n1) @@ (a2 :> n1)
FewRights == Rights(1, 0, 0, 0, 0, 0, 0, 1)
MCAccessBudgets ==
    {Rights(2, 1, 0, 0, 0, 0, 0, 0), Rights(1, 0, 1, 1, 0, 0, 0, 0),
     Rights(1, 0, 1, 0, 1, 1, 0, 0), Rights(1, 1, 0, 0, 1, 1, 0, 0),
     Rights(2, 0, 0, 0, 0, 0, 1, 0), FewRights}

(* Sign-in: a unified identity file, and one from before the unification    *)
(* with a file of end users beside it.                                      *)
Visits(hours, logins, invites, deletions, visits, replacements, faults, restarts) ==
    [hours |-> hours, logins |-> logins, invites |-> invites, deletions |-> deletions, visits |-> visits,
     replacements |-> replacements, faults |-> faults, restarts |-> restarts]
FewVisits == Visits(0, 2, 1, 1, 0, 0, 0, 0)
MCWebBudgets ==
    {Visits(0, 2, 1, 0, 0, 0, 1, 1), Visits(1, 2, 1, 0, 0, 0, 0, 0),
     Visits(1, 2, 0, 0, 0, 1, 0, 1), Visits(0, 2, 0, 0, 1, 1, 0, 1),
     Visits(2, 1, 0, 1, 1, 0, 1, 1), FewVisits}
Keeper(name) == [name |-> name, secret |-> p1, rev |-> 1]
Signed == [NoAccounts EXCEPT ![u1] = [NoAccount EXCEPT !.rev = 1, !.name = g2, !.secret = p1]]
Document(v, name, accs) == [version |-> v, admin |-> Keeper(name), accounts |-> accs]
Unified == [identity |-> Document(3, g1, Signed), legacy |-> NoAccounts]
MCSeeds == {Unified, [identity |-> Document(2, Blank, NoAccounts), legacy |-> Signed]}

(* Addresses: a Server with one address of each family, some of them probed *)
(* ones, and a relay that dials it on either or on IPv6.                    *)
MCRoutes == {[to |-> s1, family |-> "auto"], [to |-> s1, family |-> "ipv6"]}
MCFirstAddresses == [s \in {s1} |-> [f \in {"ipv4", "ipv6"} |-> IF f = "ipv4" THEN i1 ELSE j1]]
Outing(mv, dr, pr, ed, tp, rd, fa, rs, rv) ==
    [moves |-> mv, drops |-> dr, probes |-> pr, edits |-> ed, topologies |-> tp, relayDrops |-> rd,
     faults |-> fa, restarts |-> rs, revocations |-> rv]
ShortOuting == Outing(0, 1, 0, 0, 0, 0, 0, 0, 1)
MCPoolBudgets ==
    {Outing(1, 0, 0, 0, 1, 1, 0, 0, 0), Outing(2, 0, 0, 0, 1, 0, 0, 0, 0), Outing(2, 0, 0, 0, 0, 1, 0, 0, 0),
     Outing(0, 0, 1, 1, 0, 0, 1, 0, 1), Outing(1, 1, 0, 0, 0, 0, 1, 0, 0),
     Outing(0, 0, 1, 0, 0, 0, 0, 1, 0), Outing(0, 0, 0, 2, 0, 0, 0, 0, 0), ShortOuting}

(* Clients: two requests at a time around changes of the link, the          *)
(* credential, the standing or the rules; rule sets that grow stale beside  *)
(* one another in a cache of one; and the catalog.                          *)
Polls(subscriptions, rules, links, standings, policies, removals, ticks, restarts) ==
    [names |-> FALSE,
     left |-> [subscriptions |-> subscriptions, rules |-> rules, links |-> links, standings |-> standings,
               policies |-> policies, removals |-> removals, ticks |-> ticks, faults |-> 0, restarts |-> restarts]]
CatalogOnly == [names |-> TRUE, left |-> [[e \in Events |-> 0] EXCEPT !["ticks"] = 3, !["faults"] = 2, !["restarts"] = 1]]
FewPolls == Polls(0, 0, 0, 0, 4, 0, 0, 0)
MCReadBudgets ==
    {Polls(3, 0, 2, 0, 0, 0, 0, 0), Polls(2, 0, 1, 1, 0, 0, 0, 0), Polls(2, 0, 0, 1, 0, 1, 1, 0), Polls(2, 0, 0, 0, 1, 0, 0, 1),
     Polls(0, 3, 0, 0, 0, 0, 1, 0), Polls(0, 2, 0, 0, 0, 0, 4, 0), CatalogOnly, FewPolls}

-----------------------------------------------------------------------------
controlPlaneVars == <<accessVars, webVars, poolVars, readVars, focus>>

(* A component out of focus is parked in the first of its initial states.   *)
Parked ==
    /\ focus # "access" => allowance = FewRights
    /\ focus # "web" => identityFile = Unified.identity /\ webLeft = FewVisits
    /\ focus # "pool" => pooled = FirstRegistry({}) /\ poolQuota = ShortOuting
    /\ focus # "reads" => readBudget = FewPolls

ControlPlaneInit ==
    /\ focus \in {"access", "web", "pool", "reads"}
    /\ AccessInit /\ WebInit /\ PoolInit /\ ReadInit
    /\ Parked

AccessTurn == focus = "access" /\ AccessNext /\ UNCHANGED <<webVars, poolVars, readVars, focus>>
WebTurn == focus = "web" /\ WebNext /\ UNCHANGED <<accessVars, poolVars, readVars, focus>>
PoolTurn == focus = "pool" /\ PoolNext /\ UNCHANGED <<accessVars, webVars, readVars, focus>>
ReadTurn == focus = "reads" /\ ReadNext /\ UNCHANGED <<accessVars, webVars, poolVars, focus>>

ControlPlaneNext == AccessTurn \/ WebTurn \/ PoolTurn \/ ReadTurn

(* The fairness of each component, while it is in focus.                    *)
Serving(s) == proof(s) \/ syncAddresses(s) \/ syncProfileOnSession(s) \/ handleAgentFrame(s)
                  \/ (disconnected(s) /\ UNCHANGED allowance)
ControlPlaneFairness ==
    /\ \A h \in AgentHosts : WF_accessVars(focus = "access" /\ \E s \in Streams : hello(h, s))
    /\ \A s \in Streams : WF_accessVars(focus = "access" /\ Serving(s))
    /\ WF_accessVars(focus = "access" /\ (storeEnrollmentResult \/ revokeAgent \/ finishRevocation))
    /\ \A r \in Requests : WF_webVars(focus = "web" /\ proceed(r))
    /\ \A m \in Managers : WF_webVars(focus = "web" /\ background(m))
    /\ WF_webVars(focus = "web" /\ OpenUnifiedWebAccess)
    /\ WF_poolVars(focus = "pool" /\ Trigger) /\ WF_poolVars(focus = "pool" /\ LoopStep)
    /\ WF_poolVars(focus = "pool" /\ JobStep) /\ WF_poolVars(focus = "pool" /\ RelayApplies)
    /\ WF_poolVars(focus = "pool" /\ ReplayStep)
    /\ \A s \in PoolServers :
          /\ WF_poolVars(focus = "pool" /\ ConnectServer(s)) /\ WF_poolVars(focus = "pool" /\ Heartbeat(s))
          /\ WF_poolVars(focus = "pool" /\ (SyncHello(s) \/ SyncObserved(s)))
    /\ \A r \in Readers : WF_readVars(focus = "reads" /\ proceedRead(r))
    /\ WF_readVars(focus = "reads" /\ CatalogStep)

ControlPlaneSpec ==
    ControlPlaneInit /\ [][ControlPlaneNext]_controlPlaneVars /\ ControlPlaneFairness

(* Nobody who asks the Master waits for ever: a sign-in, a page or an edit  *)
(* (auth.go:172), a subscription, a rule set that several ask for at once   *)
(* or the names in the editor (subscription_cache.go:110).                  *)
EveryRequestAnswered == RequestsAnswered /\ ReadsAnswered
=============================================================================
