------------------------------ MODULE UserPlane ------------------------------
(***************************************************************************)
(* How the end users of a Proxy Node reach the Agent of its entrance while *)
(* topology rollouts, address refreshes and profile replays move that      *)
(* Agent between configurations (internal/proxynode/deployer.go,           *)
(* internal/control/server.go and profile_sync.go, internal/agent          *)
(* runner.go, internal/singbox manager.go).                                *)
(*                                                                         *)
(* The Master sends an authority: the user revision with the users of      *)
(* every shape (topology digest) the Agent may be running.  The Agent      *)
(* keeps it, refuses another one of the same revision, and stops serving   *)
(* when its shape is not described, until the Master replays a profile.    *)
(* Rollouts are those of one Agent, without the retirement of listeners    *)
(* and the traffic sample, which FleetDeployment has.                      *)
(***************************************************************************)
EXTENDS Integers, Sequences, FiniteSets

CONSTANTS
    Members,     \* the memberships that are granted and revoked
    Graphs,      \* the Proxy Node graphs
    Dialing,     \* the graphs in which the entrance dials a relay
    Places,      \* the addresses of the relay
    Unknown,     \* no address is known, or none is needed
    NoConf,      \* no configuration
    PlaneBudgets \* how many events of each kind may happen

Confs == [shape : [graph : Graphs, place : Places \cup {Unknown}], members : SUBSET Members]

ASSUME PlaneAssumption ==
    /\ Dialing \subseteq Graphs /\ Places # {} /\ Unknown \notin Places
    /\ NoConf \notin Confs

VARIABLES
    roster,   \* the store: memberships with their revision, desired and applied graph; the pool's address
    journaled,\* the topology transaction: whether the Agent is touched, and its rollback configuration
    flight,   \* Deployer.inFlightAuthority
    settled,  \* Deployer.pendingAuthority with its epoch
    rollout,  \* the topology, refresh or recovery job
    sync,     \* the user synchronisation
    wants,    \* what the billing enforcer's two loops still have to do
    dispatch, \* the latest deployment record of the Agent
    linked,   \* whether the Agent has a session whose profile was replayed
    downlink, \* commands on the session, oldest first
    uplink,   \* reports on the session, oldest first
    proxy,    \* the Agent: active configuration, whether it runs, persisted authority
    entitled, \* history: memberships enabled since the last authority reported as applied was compiled
    reserve   \* what is left of the budget

masterPlane == <<journaled, flight, settled, rollout, sync, wants, dispatch>>
sessionPlane == <<linked, downlink, uplink>>
planeVars == <<roster, journaled, flight, settled, rollout, sync, wants, dispatch,
               linked, downlink, uplink, proxy, entitled, reserve>>

Use(k) == reserve[k] > 0 /\ reserve' = [reserve EXCEPT ![k] = @ - 1]

NoJournal == [open |-> FALSE]
NoSync == [pc |-> "idle"]
NoRollout == [pc |-> "idle"]

-----------------------------------------------------------------------------
(* Configurations, as far as the user plane tells them apart.               *)

Shape(g, p) == [graph |-> g, place |-> IF g \in Dialing THEN p ELSE Unknown]
Conf(s, U) == [shape |-> s, members |-> U]

Confirmed(d) == IF d.status = "applied" THEN d.conf ELSE d.last
Busy(d) == d.status = "deploying"

(* resolverForStateWithTransaction: an address that is gone is taken from   *)
(* the configuration of the parent, for the Links of the applied graph.     *)
retainedAddress(g) ==
    LET old == IF journaled.open THEN journaled.rollback ELSE Confirmed(dispatch)
    IN  IF g = roster.applied /\ old # NoConf THEN old.shape.place ELSE Unknown

Resolve(g) == IF roster.place # Unknown THEN roster.place ELSE retainedAddress(g)
Compiles(g) == g \in Dialing => Resolve(g) # Unknown
CompileFor(g) == Conf(Shape(g, Resolve(g)), roster.on)

(* addAuthorityVariant: the first variant of a shape stays.                 *)
addAuthorityVariant(V, c) ==
    IF \E i \in DOMAIN V : V[i].shape = c.shape THEN V ELSE Append(V, c)

(* Mutant: a retained variant keeps the users it was compiled with.         *)
refreshNothing(c) == c

refreshAuthorityVariantUsers(c) == [c EXCEPT !.members = @ \cap roster.on]

(* compileUserAuthorities, from the in-flight and the pending variant read  *)
(* before the store.                                                        *)
compileUserAuthorities(inFlight, pending) ==
    LET applied == <<CompileFor(roster.applied)>>
        reserved == IF inFlight = NoConf THEN applied
                    ELSE addAuthorityVariant(applied,
                            IF Compiles(roster.desired) THEN CompileFor(roster.desired)
                            ELSE refreshAuthorityVariantUsers(inFlight))
    IN  IF pending = NoConf THEN reserved
        ELSE addAuthorityVariant(reserved, refreshAuthorityVariantUsers(pending))

-----------------------------------------------------------------------------
(* Deployments and the profile replay.                                      *)

UsedNumbers ==
    {dispatch.id} \cup {downlink[i].id : i \in DOMAIN downlink} \cup {uplink[i].id : i \in DOMAIN uplink}
        \cup (IF rollout.pc \in {"await", "undone"} THEN {rollout.id} ELSE {})
NewNumber == CHOOSE n \in 1..(Cardinality(UsedNumbers) + 1) : n \notin UsedNumbers

DeployCommand(n, c) == [kind |-> "deploy", id |-> n, conf |-> c]

(* queueDeployment on a session: of a job once the slot of the Agent is     *)
(* free, of a replay in the place of a deployment that awaits its report.   *)
QueueConf(c) ==
    /\ dispatch' = [id |-> NewNumber, status |-> "deploying", conf |-> c, last |-> Confirmed(dispatch)]
    /\ downlink' = Append(downlink, DeployCommand(NewNumber, c))

transactionTouchedAgent == journaled.open /\ journaled.touched

(* AuthoritativeAppliedProfile, or the record of a touched Agent.           *)
ReplayedConf ==
    IF transactionTouchedAgent THEN Confirmed(dispatch) ELSE CompileFor(roster.applied)

-----------------------------------------------------------------------------
(* Changes by the operator, the accounts and the relay.                     *)

(* mutateUser with triggerProxyUserSync.                                    *)
ChangeMember(u) ==
    /\ Use("changes")
    /\ roster' = [roster EXCEPT !.on = IF u \in @ THEN @ \ {u} ELSE @ \cup {u}, !.urev = @ + 1]
    /\ wants' = [wants EXCEPT !.sync = TRUE]
    /\ entitled' = entitled \cup {u}
    /\ sync' = IF sync.pc \in {"send", "await", "reported"} THEN [sync EXCEPT !.seen = @ \cup {u}] ELSE sync
    /\ UNCHANGED <<journaled, flight, settled, rollout, dispatch, sessionPlane, proxy>>

(* MutateAndStart saves the graph; its rollout starts with StartGraph.      *)
EditGraph(g) ==
    /\ rollout.pc = "idle" /\ g # roster.desired
    /\ Use("edits")
    /\ roster' = [roster EXCEPT !.desired = g]
    /\ UNCHANGED <<masterPlane, sessionPlane, proxy, entitled>>

(* The relay has another address, or none: the address hook.                *)
MoveRelay(p) ==
    /\ p # roster.place
    /\ Use("moves")
    /\ roster' = [roster EXCEPT !.place = p]
    /\ wants' = [wants EXCEPT !.refresh = TRUE]
    /\ UNCHANGED <<journaled, flight, settled, rollout, sync, dispatch, sessionPlane, proxy, entitled>>

-----------------------------------------------------------------------------
(* Topology jobs.                                                           *)

CanDispatch == linked /\ ~Busy(dispatch)
PlaneJob(plane, c, urev) == [pc |-> "deploy", plane |-> plane, conf |-> c, urev |-> urev, id |-> 0]

(* start of a saved graph: the transaction is recorded and the candidate    *)
(* published to the user plane.                                             *)
StartGraph ==
    /\ rollout.pc = "idle" /\ ~journaled.open /\ roster.desired # roster.applied
    /\ Compiles(roster.desired)
    /\ LET cand == CompileFor(roster.desired)
           changed == Confirmed(dispatch) = NoConf \/ Confirmed(dispatch).shape # cand.shape
       IN  /\ changed => CanDispatch
           /\ journaled' = IF changed THEN [open |-> TRUE, touched |-> FALSE, rollback |-> Confirmed(dispatch)]
                           ELSE NoJournal
           /\ rollout' = [PlaneJob("topology", cand, roster.urev) EXCEPT !.pc = IF changed THEN "deploy" ELSE "commit"]
           /\ flight' = cand
    /\ UNCHANGED <<roster, settled, sync, wants, dispatch, sessionPlane, proxy, entitled, reserve>>

(* StartAppliedRefresh: only what differs from the confirmed configuration. *)
StartRefresh ==
    /\ rollout.pc = "idle" /\ ~journaled.open /\ wants.refresh
    /\ Compiles(roster.applied)
    /\ LET cand == CompileFor(roster.applied)
           changed == dispatch.status # "applied" \/ dispatch.conf # cand
       IN  rollout' = IF changed THEN PlaneJob("refresh", cand, roster.urev) ELSE NoRollout
    /\ wants' = [wants EXCEPT !.refresh = FALSE]
    /\ UNCHANGED <<roster, journaled, flight, settled, sync, dispatch, sessionPlane, proxy, entitled, reserve>>

(* startTransactionRecoveryLocked: an untouched Agent needs no recovery.    *)
StartUndo ==
    /\ rollout.pc = "idle" /\ journaled.open
    /\ journaled.touched => CanDispatch
    /\ IF journaled.touched
       THEN /\ rollout' = [PlaneJob("recovery", journaled.rollback, roster.urev) EXCEPT !.pc = "undo"]
            /\ UNCHANGED journaled
       ELSE journaled' = NoJournal /\ UNCHANGED rollout
    /\ UNCHANGED <<roster, flight, settled, sync, wants, dispatch, sessionPlane, proxy, entitled, reserve>>

(* The end of a job; the user plane forgets an uncommitted candidate.       *)
JobEnds(again) ==
    /\ rollout' = NoRollout
    /\ flight' = IF rollout.plane = "topology" THEN NoConf ELSE flight
    /\ wants' = IF again THEN [wants EXCEPT !.refresh = TRUE] ELSE wants

JobFails ==
    IF rollout.plane = "topology"
    THEN rollout' = [rollout EXCEPT !.pc = "undo"] /\ UNCHANGED <<flight, wants>>
    ELSE JobEnds(rollout.plane = "refresh")

(* markTransactionTouched and deployAgentConfig, or its refusal.            *)
RolloutDeploys ==
    /\ rollout.pc = "deploy"
    /\ journaled' = IF rollout.plane = "topology" THEN [journaled EXCEPT !.touched = TRUE] ELSE journaled
    /\ \/ /\ CanDispatch /\ QueueConf(rollout.conf)
          /\ rollout' = [rollout EXCEPT !.pc = "await", !.id = NewNumber]
          /\ UNCHANGED <<flight, wants>>
       \/ /\ ~CanDispatch /\ JobFails
          /\ UNCHANGED <<dispatch, downlink>>
    /\ UNCHANGED <<roster, settled, sync, linked, uplink, proxy, entitled, reserve>>

(* waitForDeployment: the same record must become terminal.  The wait times *)
(* out when another record has replaced it, or nobody is there to report.   *)
Answered == dispatch.id = rollout.id /\ ~Busy(dispatch)
TimedOut == dispatch.id # rollout.id \/ (Busy(dispatch) /\ ~linked)

RolloutAnswered ==
    /\ rollout.pc = "await"
    /\ \/ /\ Answered /\ dispatch.status = "applied" /\ rollout.plane = "topology"
          /\ rollout' = [rollout EXCEPT !.pc = "confirm"]
          /\ UNCHANGED <<flight, wants>>
       \/ /\ Answered /\ dispatch.status = "applied" /\ rollout.plane = "refresh"
          /\ JobEnds(rollout.urev # roster.urev)
       \/ /\ TimedOut \/ (Answered /\ dispatch.status # "applied")
          /\ JobFails
    /\ UNCHANGED <<roster, journaled, settled, sync, dispatch, sessionPlane, proxy, entitled, reserve>>

(* confirmExpectedConfiguration: any record that applied the candidate.     *)
RolloutConfirms ==
    /\ rollout.pc = "confirm"
    /\ \/ /\ dispatch.status = "applied" /\ dispatch.conf = rollout.conf
          /\ rollout' = [rollout EXCEPT !.pc = "commit"]
          /\ UNCHANGED <<flight, wants>>
       \/ /\ IF Busy(dispatch) THEN ~linked ELSE dispatch.status # "applied" \/ dispatch.conf # rollout.conf
          /\ JobFails
    /\ UNCHANGED <<roster, journaled, settled, sync, dispatch, sessionPlane, proxy, entitled, reserve>>

(* MarkTopologyApplied takes a fresh user revision; the journal goes.       *)
RolloutCommits ==
    /\ rollout.pc = "commit"
    /\ roster' = [roster EXCEPT !.applied = roster.desired, !.urev = @ + 1]
    /\ journaled' = NoJournal
    /\ rollout' = [rollout EXCEPT !.pc = "publish"]
    /\ UNCHANGED <<flight, settled, sync, wants, dispatch, sessionPlane, proxy, entitled, reserve>>

(* commitInFlightAuthority and the hook of an applied topology.             *)
RolloutPublishes ==
    /\ rollout.pc = "publish"
    /\ settled' = [conf |-> flight, epoch |-> settled.epoch + 1]
    /\ flight' = NoConf
    /\ rollout' = NoRollout
    /\ wants' = [wants EXCEPT !.sync = TRUE]
    /\ UNCHANGED <<roster, journaled, sync, dispatch, sessionPlane, proxy, entitled, reserve>>

(* rollbackTopology of a touched Agent; an incomplete one keeps the journal.*)
RolloutUndoes ==
    /\ rollout.pc = "undo"
    /\ \/ /\ ~journaled.touched
          /\ journaled' = NoJournal
          /\ JobEnds(FALSE)
          /\ UNCHANGED <<dispatch, downlink>>
       \/ /\ journaled.touched /\ CanDispatch
          /\ QueueConf(journaled.rollback)
          /\ rollout' = [rollout EXCEPT !.pc = "undone", !.id = NewNumber]
          /\ UNCHANGED <<journaled, flight, wants>>
       \/ /\ journaled.touched /\ ~CanDispatch
          /\ JobEnds(FALSE)
          /\ UNCHANGED <<journaled, dispatch, downlink>>
    /\ UNCHANGED <<roster, settled, sync, linked, uplink, proxy, entitled, reserve>>

RolloutUndone ==
    /\ rollout.pc = "undone"
    /\ Answered \/ TimedOut
    /\ journaled' = IF Answered /\ dispatch.status = "applied" THEN NoJournal ELSE journaled
    /\ JobEnds(FALSE)
    /\ UNCHANGED <<roster, settled, sync, dispatch, sessionPlane, proxy, entitled, reserve>>

-----------------------------------------------------------------------------
(* User synchronisation.                                                    *)

(* startUserSync reads the variants under its lock ...                      *)
StartSync ==
    /\ sync.pc = "idle" /\ wants.sync
    /\ sync' = [pc |-> "compile", inFlight |-> flight, pending |-> settled.conf, epoch |-> settled.epoch]
    /\ wants' = [wants EXCEPT !.sync = FALSE]
    /\ UNCHANGED <<roster, journaled, flight, settled, rollout, dispatch, sessionPlane, proxy, entitled, reserve>>

(* ... and the store after it.                                              *)
CompileSync ==
    /\ sync.pc = "compile"
    /\ IF Compiles(roster.applied)
       THEN /\ sync' = [pc |-> "send", urev |-> roster.urev, epoch |-> sync.epoch, seen |-> roster.on,
                        here |-> TRUE, answer |-> "none",
                        variants |-> compileUserAuthorities(sync.inFlight, sync.pending)]
            /\ UNCHANGED wants
       ELSE sync' = NoSync /\ wants' = [wants EXCEPT !.sync = TRUE]
    /\ UNCHANGED <<roster, journaled, flight, settled, rollout, dispatch, sessionPlane, proxy, entitled, reserve>>

SyncDefers == sync' = NoSync /\ wants' = [wants EXCEPT !.sync = TRUE]

(* runUserSync and QueueManagedUserAuthority up to the wait.                *)
SendAuthority ==
    /\ sync.pc = "send"
    /\ \/ /\ linked
          /\ downlink' = Append(downlink, [kind |-> "authority", id |-> 0, urev |-> sync.urev, variants |-> sync.variants])
          /\ sync' = [sync EXCEPT !.pc = "await", !.variants = <<>>]
          /\ UNCHANGED wants
       \/ ~linked /\ SyncDefers /\ UNCHANGED downlink
    /\ UNCHANGED <<roster, journaled, flight, settled, rollout, dispatch, linked, uplink, proxy, entitled, reserve>>

(* What the sync loses with its session.                                    *)
SyncUnlinked == sync' = IF sync.pc \in {"await", "reported"} THEN [sync EXCEPT !.here = FALSE] ELSE sync
Unlinked == linked' = FALSE /\ downlink' = <<>> /\ uplink' = <<>> /\ SyncUnlinked

(* The wait of QueueManagedUserAuthority ends without a report.             *)
SyncTimesOut ==
    /\ sync.pc = "await" /\ ~sync.here
    /\ SyncDefers
    /\ UNCHANGED <<roster, journaled, flight, settled, rollout, dispatch, sessionPlane, proxy, entitled, reserve>>

(* runUserSync ends: applied when no newer revision is there, and then the  *)
(* pending variant of that epoch has served.                                *)
SyncConcludes ==
    /\ sync.pc = "reported" /\ sync.answer # "mismatch"
    /\ IF sync.answer = "applied" /\ sync.urev = roster.urev
       THEN /\ settled' = IF sync.epoch # 0 /\ sync.epoch = settled.epoch THEN [settled EXCEPT !.conf = NoConf] ELSE settled
            /\ sync' = NoSync
            /\ UNCHANGED wants
       ELSE SyncDefers /\ UNCHANGED settled
    /\ entitled' = IF sync.answer = "applied" THEN sync.seen ELSE entitled
    /\ UNCHANGED <<roster, journaled, flight, rollout, dispatch, sessionPlane, proxy, reserve>>

(* Mutant: an Agent that stopped on a mismatch is not repaired.             *)
RepairNothing ==
    /\ sync.pc = "reported" /\ sync.answer = "mismatch"
    /\ SyncDefers
    /\ UNCHANGED <<roster, journaled, flight, settled, rollout, dispatch, sessionPlane, proxy, entitled, reserve>>

(* queueAuthoritativeProfileForSession on the session of the report, from   *)
(* the profile it reads to its deployment in one step.                      *)
RepairProfile ==
    /\ sync.pc = "reported" /\ sync.answer = "mismatch"
    /\ IF sync.here /\ Compiles(roster.applied) THEN QueueConf(ReplayedConf)
       ELSE UNCHANGED <<dispatch, downlink>>
    /\ SyncDefers
    /\ UNCHANGED <<roster, journaled, flight, settled, rollout, linked, uplink, proxy, entitled, reserve>>

(* handleAgentFrame: a deployment report that is not awaited ends the       *)
(* session; the report of an authority goes to its waiter.                  *)
HandleUplink ==
    /\ uplink # <<>>
    /\ LET r == Head(uplink)
       IN  \/ /\ r.kind = "deploy" /\ r.id = dispatch.id /\ Busy(dispatch)
              /\ dispatch' = [dispatch EXCEPT !.status = r.answer]
              /\ uplink' = Tail(uplink)
              /\ UNCHANGED <<sync, linked, downlink>>
           \/ /\ r.kind = "deploy" /\ ~(r.id = dispatch.id /\ Busy(dispatch))
              /\ Unlinked
              /\ UNCHANGED dispatch
           \/ /\ r.kind = "authority"
              /\ sync' = [sync EXCEPT !.pc = "reported", !.answer = r.answer]
              /\ uplink' = Tail(uplink)
              /\ UNCHANGED <<dispatch, linked, downlink>>
    /\ UNCHANGED <<roster, journaled, flight, settled, rollout, wants, proxy, entitled, reserve>>

-----------------------------------------------------------------------------
(* The Agent.  An activation runs its candidate or changes nothing.         *)

VariantOf(V, s) == CHOOSE c \in {V[i] : i \in DOMAIN V} : c.shape = s
Describes(V, s) == \E i \in DOMAIN V : V[i].shape = s

(* The membership filter of applyCandidate.                                 *)
Filtered(c) ==
    IF Describes(proxy.variants, c.shape) THEN VariantOf(proxy.variants, c.shape)
    ELSE [c EXCEPT !.members = @ \cap (IF proxy.active = NoConf THEN {} ELSE proxy.active.members)]

Reports(kind, n, answer) == uplink' = Append(uplink, [kind |-> kind, id |-> n, answer |-> answer])

ActivateConf ==
    /\ downlink # <<>> /\ Head(downlink).kind = "deploy"
    /\ downlink' = Tail(downlink)
    /\ LET d == Head(downlink)
       IN  \/ /\ proxy' = [proxy EXCEPT !.active = Filtered(d.conf), !.running = TRUE]
              /\ Reports("deploy", d.id, "applied")
              /\ UNCHANGED reserve
           \/ /\ Use("rejections")
              /\ Reports("deploy", d.id, "failed")
              /\ UNCHANGED proxy
    /\ UNCHANGED <<roster, masterPlane, linked, entitled>>

(* ApplyManagedUserAuthority.                                               *)
Older(d) == d.urev < proxy.urev
Conflicting(d) == d.urev = proxy.urev /\ d.variants # proxy.variants

ApplyAuthority ==
    /\ downlink # <<>> /\ Head(downlink).kind = "authority"
    /\ downlink' = Tail(downlink)
    /\ LET d == Head(downlink)
           kept == [proxy EXCEPT !.urev = d.urev, !.variants = d.variants]
       IN  \/ /\ Older(d) /\ Reports("authority", 0, "applied") /\ UNCHANGED proxy
           \/ /\ Conflicting(d) /\ Reports("authority", 0, "refused") /\ UNCHANGED proxy
           \/ /\ ~Older(d) /\ ~Conflicting(d)
              /\ proxy.active = NoConf
              /\ proxy' = kept /\ Reports("authority", 0, "applied")
           \/ /\ ~Older(d) /\ ~Conflicting(d)
              /\ proxy.active # NoConf /\ Describes(d.variants, proxy.active.shape)
              /\ LET next == VariantOf(d.variants, proxy.active.shape)
                 IN  proxy' = [kept EXCEPT !.active = next, !.running = @ \/ next # proxy.active]
              /\ Reports("authority", 0, "applied")
           \/ /\ ~Older(d) /\ ~Conflicting(d)
              /\ proxy.active # NoConf /\ ~Describes(d.variants, proxy.active.shape)
              /\ proxy' = [kept EXCEPT !.running = FALSE]
              /\ Reports("authority", 0, "mismatch")
    /\ UNCHANGED <<roster, masterPlane, linked, entitled, reserve>>

-----------------------------------------------------------------------------
(* Sessions and restarts.                                                   *)

(* A session with its profile replay and the hooks of a reconnect; nothing  *)
(* is compiled for an Agent the transaction has touched.                    *)
LinkAgent ==
    /\ ~linked
    /\ transactionTouchedAgent \/ Compiles(roster.applied)
    /\ linked' = TRUE
    /\ QueueConf(ReplayedConf)
    /\ wants' = [wants EXCEPT !.sync = TRUE]
    /\ UNCHANGED <<roster, journaled, flight, settled, rollout, sync, uplink, proxy, entitled, reserve>>

DropLink ==
    /\ linked /\ Use("drops")
    /\ Unlinked
    /\ UNCHANGED <<roster, journaled, flight, settled, rollout, wants, dispatch, proxy, entitled>>

(* The Agent starts again: a configuration its authority does not describe  *)
(* is not started.                                                          *)
RestartAgent ==
    /\ Use("crashes")
    /\ Unlinked
    /\ proxy' = IF proxy.active # NoConf /\ Describes(proxy.variants, proxy.active.shape)
                THEN [proxy EXCEPT !.active = VariantOf(proxy.variants, proxy.active.shape), !.running = TRUE]
                ELSE [proxy EXCEPT !.running = FALSE]
    /\ UNCHANGED <<roster, journaled, flight, settled, rollout, wants, dispatch, entitled>>

(* The Master starts again: jobs, variants and waits are gone, and the      *)
(* enforcer begins with a sync.                                             *)
RestartMaster ==
    /\ Use("restarts")
    /\ linked' = FALSE /\ downlink' = <<>> /\ uplink' = <<>>
    /\ rollout' = NoRollout /\ sync' = NoSync
    /\ flight' = NoConf /\ settled' = [conf |-> NoConf, epoch |-> 0]
    /\ wants' = [sync |-> TRUE, refresh |-> FALSE]
    /\ UNCHANGED <<roster, journaled, dispatch, proxy, entitled>>

-----------------------------------------------------------------------------
PlaneInit ==
    \E g \in Graphs :
        LET p == CHOOSE q \in Places : TRUE   \* addresses are interchangeable
            c == Conf(Shape(g, p), Members)
        IN  /\ roster = [on |-> Members, urev |-> 1, desired |-> g, applied |-> g, place |-> p]
            /\ journaled = NoJournal /\ flight = NoConf /\ settled = [conf |-> NoConf, epoch |-> 0]
            /\ rollout = NoRollout /\ sync = NoSync
            /\ wants = [sync |-> FALSE, refresh |-> FALSE]
            /\ dispatch = [id |-> 0, status |-> "applied", conf |-> c, last |-> c]
            /\ linked = TRUE /\ downlink = <<>> /\ uplink = <<>>
            /\ proxy = [active |-> c, running |-> TRUE, urev |-> 1, variants |-> <<c>>]
            /\ entitled = Members
            /\ reserve \in PlaneBudgets

RolloutStep == RolloutDeploys \/ RolloutAnswered \/ RolloutConfirms \/ RolloutCommits \/ RolloutPublishes \/ RolloutUndoes \/ RolloutUndone
RolloutStart == StartGraph \/ StartUndo
SyncStep == StartSync \/ CompileSync \/ SendAuthority \/ SyncTimesOut \/ SyncConcludes \/ RepairProfile

PlaneNext ==
    \/ \E u \in Members : ChangeMember(u)
    \/ \E g \in Graphs : EditGraph(g)
    \/ \E p \in Places \cup {Unknown} : MoveRelay(p)
    \/ RolloutStart \/ StartRefresh \/ RolloutStep
    \/ SyncStep \/ HandleUplink
    \/ ActivateConf \/ ApplyAuthority
    \/ LinkAgent \/ DropLink \/ RestartAgent \/ RestartMaster

(* The reconciler or the job it has started, the enforcer's two loops, the  *)
(* session or the Agent that opens one, and the Agent's supervisor run on.  *)
MasterRuns == RolloutStart \/ RolloutStep
SessionRuns == HandleUplink \/ LinkAgent
AgentRuns == ActivateConf \/ ApplyAuthority
PlaneFairness ==
    /\ WF_planeVars(MasterRuns) /\ WF_planeVars(StartRefresh) /\ WF_planeVars(SyncStep)
    /\ WF_planeVars(SessionRuns) /\ WF_planeVars(AgentRuns)

PlaneSpec == PlaneInit /\ [][PlaneNext]_planeVars /\ PlaneFairness

-----------------------------------------------------------------------------
(* Properties.                                                              *)

Serving == IF proxy.running THEN proxy.active.members ELSE {}

\* Once the Master was told that an authority is applied, the Agent serves
\* nobody who was not enabled at its revision or later, whatever rollouts,
\* refreshes, replays and restarts do with older configurations.
ReportedRevocationHolds == Serving \subseteq entitled

(* The revision of the store has reached the Agent without the users of the *)
(* shape that is applied, and the Agent lacks some of them.                 *)
RevisionSpent ==
    /\ proxy.urev = roster.urev
    /\ ~Describes(proxy.variants, CompileFor(roster.applied).shape)
    /\ ~(roster.on \subseteq proxy.active.members)

Converged ==
    /\ proxy.running
    /\ proxy.active.members = roster.on
    /\ proxy.active.shape = CompileFor(roster.applied).shape

(* What the operator sees: a deployment that failed, a transaction that has *)
(* touched the Agent and is still to be undone.                             *)
OperatorIsTold == dispatch.status = "failed" \/ (journaled.open /\ journaled.touched)

\* The users of the store are those of the Agent in the end, on the applied
\* topology, unless their revision was spent on another shape or the operator
\* is shown what is in the way.
UsersConverge == []<>(Converged \/ RevisionSpent \/ OperatorIsTold)

=============================================================================
