------------------------------ MODULE OutboundPool ------------------------------
(***************************************************************************)
(* The addresses of the Servers and the relays that dial them.             *)
(*                                                                         *)
(* The pool registry (pool/registry.go) keeps, for every Server, what it   *)
(* reports, what its control connection shows, what a probe found and what *)
(* the administrator pins, in memory and in one file.  The control server  *)
(* feeds it from hellos, heartbeats and probe reports.  Every change asks  *)
(* for a refresh (billing_enforcer.go): a loop that renders the applied    *)
(* topology again with the addresses of now and deploys it, beside the     *)
(* topology jobs of the administrator and the profile replay of every      *)
(* connection.                                                             *)
(*                                                                         *)
(* A list of addresses is its first element, the only one that is ever     *)
(* resolved.  One relay stands for the Agents that dial; its configuration *)
(* is the address each of its links dials.                                 *)
(***************************************************************************)
EXTENDS Naturals, FiniteSets

CONSTANTS
    PoolServers,        \* Agents whose addresses are pooled
    V4, V6,             \* globally routable addresses
    Manual,             \* names of manual entries
    Routes,             \* links of the relay: the Server and the family it pins
    FirstAddresses,     \* the addresses of each Server when the topology was applied
    NoAddress,
    PoolBudgets         \* how often each kind of event may happen

Families == {"ipv4", "ipv6"}
Addresses == V4 \cup V6
OfFamily(f) == IF f = "ipv4" THEN V4 ELSE V6
Maybe(S) == S \cup {NoAddress}
Pairs == {p \in [Families -> Maybe(Addresses)] : \A f \in Families : p[f] \in Maybe(OfFamily(f))}
NoPair == [f \in Families |-> NoAddress]

Kinds == {"moves", "drops", "probes", "edits", "topologies", "relayDrops", "faults", "restarts", "revocations"}

ASSUME PoolConstants ==
    /\ V4 \cap V6 = {} /\ NoAddress \notin Addresses
    /\ Routes \subseteq [to : PoolServers, family : Families \cup {"auto"}]
    /\ FirstAddresses \in [PoolServers -> Pairs]
    /\ \A l \in Routes : \E f \in Families : l.family \in {f, "auto"} /\ FirstAddresses[l.to][f] # NoAddress
    /\ PoolBudgets \subseteq [Kinds -> Nat]

VARIABLES
    pooled,         \* the registry in memory
    poolFile,       \* outbound-pool.json
    hostAddresses,  \* the addresses each host has bound
    poolSessions,   \* the control session of each Server and its handler
    shadow,         \* probedShadow
    probing,        \* probes asked for and not answered
    leaving,        \* revoked Servers whose pool record is not removed yet
    owed,           \* a handler has saved a change and not asked for the refresh yet
    refresher,      \* the applied refresh loop
    fleetJob,       \* the job of the deployer
    relay,          \* the relay: its session, deployment record and configuration
    overtaken,      \* history: the relay's last profile is a replay of outdated addresses
    unsaved,        \* history: Servers whose report was lost in a failed write
    poolQuota

poolVars == <<pooled, poolFile, hostAddresses, poolSessions, shadow, probing, leaving, owed, refresher,
              fleetJob, relay, overtaken, unsaved, poolQuota>>
serverSide == <<hostAddresses, poolSessions, shadow, probing, leaving>>
fleetSide == <<refresher, fleetJob, relay, overtaken>>

Once(kind) == poolQuota[kind] > 0 /\ poolQuota' = [poolQuota EXCEPT ![kind] = @ - 1]
Free == UNCHANGED poolQuota

-----------------------------------------------------------------------------
(* Records and what they resolve to.                                       *)

NoRecord == [reported |-> NoPair, probed |-> NoPair, override |-> NoPair, observed |-> NoAddress,
             domains |-> FALSE, exists |-> FALSE]
Records == [reported : Pairs, probed : Pairs, override : Pairs, observed : Maybe(Addresses),
            domains : BOOLEAN, exists : BOOLEAN]
Registries == [version : Nat, manual : SUBSET Manual, agents : [PoolServers -> Records]]

(* resolveForFamily: override, observed, probed, reported.                 *)
SourceForFamily(r, f) ==
    IF r.override[f] # NoAddress THEN [source |-> "override", address |-> r.override[f]]
    ELSE IF r.observed \in OfFamily(f) THEN [source |-> "observed", address |-> r.observed]
    ELSE IF r.probed[f] # NoAddress THEN [source |-> "probed", address |-> r.probed[f]]
    ELSE [source |-> "reported", address |-> r.reported[f]]

AgentAddressForFamily(r, f) ==
    IF f # "auto" THEN SourceForFamily(r, f).address
    ELSE IF SourceForFamily(r, "ipv4").address # NoAddress
         THEN SourceForFamily(r, "ipv4").address
         ELSE SourceForFamily(r, "ipv6").address

-----------------------------------------------------------------------------
(* Registry operations.  Each returns the registry it wants to save.       *)

Bumped(reg, s, r) == [reg EXCEPT !.version = @ + 1, !.agents[s] = r]

(* Mutant: the probed addresses are kept.                                  *)
SetReportedBesideProbed(reg, s, pair) ==
    LET old == reg.agents[s]
        new == [old EXCEPT !.reported = pair, !.exists = TRUE]
    IN  IF new = old \/ (~old.exists /\ pair = NoPair) THEN reg ELSE Bumped(reg, s, new)

(* SetReported: an address bound to the host replaces a probed one.        *)
SetReported(reg, s, pair) ==
    LET old == reg.agents[s]
        new == [old EXCEPT !.reported = pair, !.exists = TRUE,
                    !.probed = [f \in Families |-> IF pair[f] # NoAddress THEN NoAddress ELSE @[f]]]
    IN  IF new = old \/ (~old.exists /\ pair = NoPair) THEN reg ELSE Bumped(reg, s, new)

(* SetProbed: ignored for a family the host reports itself.                *)
SetProbed(reg, s, pair) ==
    LET old == reg.agents[s]
        new == [old EXCEPT !.exists = TRUE,
                    !.probed = [f \in Families |-> IF old.reported[f] # NoAddress THEN NoAddress ELSE pair[f]]]
    IN  IF new = old \/ (~old.exists /\ new.probed = NoPair) THEN reg ELSE Bumped(reg, s, new)

SetObserved(reg, s, a) ==
    LET old == reg.agents[s]
    IN  IF old.observed = a THEN reg
        ELSE Bumped(reg, s, [old EXCEPT !.observed = a, !.exists = TRUE])

SetOverrides(reg, s, pair) ==
    LET old == reg.agents[s]
    IN  IF old.override = pair THEN reg
        ELSE Bumped(reg, s, [old EXCEPT !.override = pair, !.exists = TRUE])

(* SetSubscriptionDomains: no new version; a record left empty is dropped. *)
SetSubscriptionDomains(reg, s, on) ==
    LET new == [reg.agents[s] EXCEPT !.domains = on, !.exists = TRUE]
    IN  IF reg.agents[s].domains = on THEN reg
        ELSE [reg EXCEPT !.agents[s] = IF new = [NoRecord EXCEPT !.exists = TRUE] THEN NoRecord ELSE new]

UpsertManual(reg, m) == [reg EXCEPT !.version = @ + 1, !.manual = @ \cup {m}]
RemoveManual(reg, m) == [reg EXCEPT !.version = @ + 1, !.manual = @ \ {m}]

RemoveAgent(reg, s) == IF reg.agents[s].exists THEN Bumped(reg, s, NoRecord) ELSE reg

(* persistLocked: an unchanged registry is not written.  A failed write    *)
(* rolls the memory back; it may have failed after the rename.             *)
Saved(reg) ==
    /\ IF reg = pooled THEN UNCHANGED <<pooled, poolFile>> ELSE pooled' = reg /\ poolFile' = reg
    /\ UNCHANGED poolQuota

Unsaved(reg) ==
    /\ reg # pooled
    /\ Once("faults")
    /\ poolFile' \in {poolFile, reg}
    /\ UNCHANGED pooled

(* A saved change is followed by notifyProxyNodeAddressChange.             *)
Notify(reg) == owed' = (owed \/ reg # pooled)

Save(reg) == \/ Saved(reg) /\ Notify(reg)
             \/ Unsaved(reg) /\ UNCHANGED owed

-----------------------------------------------------------------------------
(* Control sessions.                                                       *)

(* The host gains or loses an address.                                     *)
HostMoves(s) ==
    /\ Once("moves")
    /\ \E pair \in Pairs : hostAddresses[s] # pair /\ hostAddresses' = [hostAddresses EXCEPT ![s] = pair]
    /\ UNCHANGED <<pooled, poolFile, poolSessions, shadow, probing, owed, leaving, unsaved, fleetSide>>

(* Connect: the session is registered with the addresses of the hello ...  *)
ConnectServer(s) ==
    /\ poolSessions[s].state = "offline"
    /\ poolSessions' = [poolSessions EXCEPT ![s] = [state |-> "hello", reported |-> hostAddresses[s]]]
    /\ Free
    /\ UNCHANGED <<pooled, poolFile, hostAddresses, shadow, probing, owed, leaving, unsaved, fleetSide>>

(* ... which go to the pool, even when the write fails ...                 *)
SyncHello(s) ==
    LET reg == SetReported(pooled, s, poolSessions[s].reported)
    IN  /\ poolSessions[s].state \in {"hello", "revokedHello"}
        /\ Save(reg)
        /\ unsaved' = IF pooled' = reg THEN unsaved \ {s} ELSE unsaved \cup {s}
        /\ poolSessions' = [poolSessions EXCEPT ![s].state = IF @ = "hello" THEN "observe" ELSE "revokedObserve"]
        /\ UNCHANGED <<hostAddresses, shadow, probing, leaving, fleetSide>>

(* ... and then the address the connection comes from, if it is routable.  *)
SyncObserved(s) ==
    /\ poolSessions[s].state \in {"observe", "revokedObserve"}
    /\ \E a \in Maybe(Addresses) :
          /\ \A f \in Families : a \in OfFamily(f) /\ hostAddresses[s][f] # NoAddress => a = hostAddresses[s][f]
          /\ Save(SetObserved(pooled, s, a))
    /\ poolSessions' = [poolSessions EXCEPT ![s].state = IF @ = "observe" THEN "online" ELSE "revoked"]
    /\ UNCHANGED <<hostAddresses, shadow, probing, leaving, unsaved, fleetSide>>

(* Mutant: every heartbeat after the first is taken for a repetition.      *)
HeartbeatKept(s) ==
    /\ poolSessions[s].state = "online" /\ poolSessions[s].reported = NoPair
    /\ poolSessions[s].reported # hostAddresses[s]
    /\ poolSessions' = [poolSessions EXCEPT ![s].reported = hostAddresses[s]]
    /\ Save(SetReported(pooled, s, hostAddresses[s]))
    /\ UNCHANGED <<hostAddresses, shadow, probing, leaving, unsaved, fleetSide>>

(* A heartbeat reaches the registry only when it differs from the session. *)
Heartbeat(s) ==
    LET reg == SetReported(pooled, s, hostAddresses[s])
    IN  /\ poolSessions[s].state = "online"
        /\ poolSessions[s].reported # hostAddresses[s]
        /\ poolSessions' = [poolSessions EXCEPT ![s].reported = hostAddresses[s]]
        /\ Save(reg)
        /\ unsaved' = IF pooled' = reg THEN unsaved \ {s} ELSE unsaved \cup {s}
        /\ UNCHANGED <<hostAddresses, shadow, probing, leaving, fleetSide>>

DropServer(s) ==
    /\ poolSessions[s].state = "online"
    /\ Once("drops")
    /\ poolSessions' = [poolSessions EXCEPT ![s] = [state |-> "offline", reported |-> NoPair]]
    /\ probing' = {p \in probing : p[1] # s}
    /\ UNCHANGED <<pooled, poolFile, hostAddresses, shadow, owed, leaving, unsaved, fleetSide>>

(* RevokeAgent ends the session under the authorization lock and cleans    *)
(* the pool after it; a handler that is still starting goes on.            *)
Revoke(s) ==
    /\ poolSessions[s].state \in {"offline", "hello", "observe", "online"}
    /\ Once("revocations")
    /\ poolSessions' = [poolSessions EXCEPT ![s].state =
                      CASE @ = "hello" -> "revokedHello" [] @ = "observe" -> "revokedObserve" [] OTHER -> "revoked"]
    /\ probing' = {p \in probing : p[1] # s}
    /\ leaving' = leaving \cup {s}
    /\ UNCHANGED <<pooled, poolFile, hostAddresses, shadow, owed, unsaved, fleetSide>>

CleanPool(s) ==
    /\ s \in leaving
    /\ leaving' = leaving \ {s}
    /\ \/ Saved(RemoveAgent(pooled, s))
       \/ Unsaved(RemoveAgent(pooled, s))
    /\ owed' = TRUE
    /\ UNCHANGED <<hostAddresses, poolSessions, shadow, probing, unsaved, fleetSide>>

-----------------------------------------------------------------------------
(* Probes.                                                                 *)

RequestAddressProbe(s, f) ==
    /\ poolSessions[s].state = "online"
    /\ <<s, f>> \notin probing
    /\ Once("probes")
    /\ probing' = probing \cup {<<s, f>>}
    /\ UNCHANGED <<pooled, poolFile, hostAddresses, poolSessions, shadow, owed, leaving, unsaved, fleetSide>>

(* The shadow starts from what the registry resolves to a probed address.  *)
Seeded(s) ==
    IF shadow[s].seeded THEN shadow[s].pair
    ELSE [f \in Families |-> IF SourceForFamily(pooled.agents[s], f).source = "probed"
                             THEN pooled.agents[s].probed[f] ELSE NoAddress]

MergedProbe(s, f, a) == [Seeded(s) EXCEPT ![f] = a]

(* mergeProbedAddress writes both families, from the shadow.               *)
AnswerProbe(s, f, a) ==
    LET reg == SetProbed(pooled, s, MergedProbe(s, f, a))
    IN  \/ /\ Saved(reg) /\ Notify(reg)
           /\ shadow' = [shadow EXCEPT ![s] = [seeded |-> TRUE, pair |-> MergedProbe(s, f, a)]]
        \/ /\ Unsaved(reg) /\ UNCHANGED owed
           /\ shadow' = [shadow EXCEPT ![s] = [seeded |-> TRUE, pair |-> Seeded(s)]]

(* A probe that failed, or found no routable address, is only logged.      *)
HandleAddressProbeReport(s, f) ==
    /\ <<s, f>> \in probing
    /\ probing' = probing \ {<<s, f>>}
    /\ \/ \E a \in OfFamily(f) : AnswerProbe(s, f, a)
       \/ Free /\ UNCHANGED <<pooled, poolFile, shadow, owed>>
    /\ UNCHANGED <<hostAddresses, poolSessions, leaving, unsaved, fleetSide>>

-----------------------------------------------------------------------------
(* The administrator's pages.                                              *)

enrolled(s) == poolSessions[s].state \in {"offline", "hello", "observe", "online"}

(* Saved, or failed before or after the rename.                            *)
Edit(reg, notifies) ==
    /\ Once("edits")
    /\ \/ pooled' = reg /\ poolFile' = reg /\ owed' = (owed \/ notifies)
       \/ reg # pooled /\ poolFile' \in {poolFile, reg} /\ UNCHANGED <<pooled, owed>>
    /\ UNCHANGED <<unsaved, serverSide, fleetSide>>

(* PropagateManualPoolChange follows whether or not something changed.     *)
SetServerAddress(s, pair) == enrolled(s) /\ Edit(SetOverrides(pooled, s, pair), TRUE)
UpsertPoolEntry(m) == Edit(UpsertManual(pooled, m), TRUE)
DeletePoolEntry(m) == m \in pooled.manual /\ Edit(RemoveManual(pooled, m), TRUE)

(* Subscriptions read the domains; nothing is deployed for them.           *)
SetServerSubscriptionDomains(s, on) == enrolled(s) /\ Edit(SetSubscriptionDomains(pooled, s, on), FALSE)

PageStep ==
    \/ \E s \in PoolServers, pair \in Pairs : SetServerAddress(s, pair)
    \/ \E m \in Manual : UpsertPoolEntry(m) \/ DeletePoolEntry(m)
    \/ \E s \in PoolServers, on \in BOOLEAN : SetServerSubscriptionDomains(s, on)

-----------------------------------------------------------------------------
(* What the relay is made to dial.                                         *)

Live(l) == AgentAddressForFamily(pooled.agents[l.to], l.family)

(* resolverForState: the addresses the last confirmed profile dials.       *)
Retained(s, f) ==
    LET dialled == {relay.applied[l] : l \in {k \in Routes : k.to = s}} \cap OfFamily(f)
    IN  IF dialled = {} THEN NoAddress ELSE CHOOSE a \in dialled : TRUE

(* retainedAddressResolver: the live pool wins.                            *)
Resolve(l) ==
    IF Live(l) # NoAddress THEN Live(l)
    ELSE IF l.family # "auto" THEN Retained(l.to, l.family)
    ELSE IF Retained(l.to, "ipv4") # NoAddress THEN Retained(l.to, "ipv4")
    ELSE Retained(l.to, "ipv6")

Compiled == [l \in Routes |-> Resolve(l)]
Renders == \A l \in Routes : Resolve(l) # NoAddress

NoConfig == [l \in Routes |-> NoAddress]
JobActive == fleetJob.status \in {"queued", "awaiting"}
NewJob(kind, changed) == [kind |-> kind, status |-> "queued", plan |-> Compiled, changed |-> changed]

-----------------------------------------------------------------------------
(* TriggerAppliedRefresh and appliedRefreshLoop.                           *)

Trigger ==
    /\ owed /\ owed' = FALSE
    /\ refresher' = [refresher EXCEPT !.requested = @ + 1,
                                      !.pc = IF @ = "idle" THEN "read" ELSE @]
    /\ Free
    /\ UNCHANGED <<pooled, poolFile, unsaved, serverSide, fleetJob, relay, overtaken>>

LoopRead ==
    /\ refresher.pc = "read"
    /\ refresher' = [refresher EXCEPT !.pc = "start", !.target = refresher.requested]
    /\ Free
    /\ UNCHANGED <<pooled, poolFile, owed, unsaved, serverSide, fleetJob, relay, overtaken>>

(* StartAppliedRefresh joins an active job; otherwise changedAgents picks  *)
(* the relay unless its record says that it runs what was rendered.        *)
StartAppliedRefresh ==
    /\ refresher.pc = "start"
    /\ refresher' = [refresher EXCEPT !.pc = IF JobActive \/ Renders THEN "poll" ELSE "wait",
                                      !.joined = JobActive]
    /\ fleetJob' = IF JobActive \/ ~Renders THEN fleetJob
                   ELSE NewJob("refresh", relay.record # "applied" \/ relay.applied # Compiled)
    /\ Free
    /\ UNCHANGED <<pooled, poolFile, owed, unsaved, serverSide, relay, overtaken>>

(* Mutant: a job that was already running counts as the refresh.           *)
AfterAnyJob ==
    IF fleetJob.status = "applied"
    THEN IF refresher.requested = refresher.target THEN "idle" ELSE "read"
    ELSE "wait"

(* The loop follows the job the deployer has then, its own or not.         *)
AfterJob ==
    IF fleetJob.status = "applied" /\ ~refresher.joined
    THEN IF refresher.requested = refresher.target THEN "idle" ELSE "read"
    ELSE "wait"

LoopPoll ==
    /\ refresher.pc = "poll" /\ ~JobActive
    /\ refresher' = [refresher EXCEPT !.pc = AfterJob]
    /\ Free
    /\ UNCHANGED <<pooled, poolFile, owed, unsaved, serverSide, fleetJob, relay, overtaken>>

LoopRetry ==
    /\ refresher.pc = "wait"
    /\ refresher' = [refresher EXCEPT !.pc = "read"]
    /\ Free
    /\ UNCHANGED <<pooled, poolFile, owed, unsaved, serverSide, fleetJob, relay, overtaken>>

-----------------------------------------------------------------------------
(* The deployer and the relay.                                             *)

(* A topology job starts only when the Agents it changes can be deployed.  *)
StartTopologyJob ==
    /\ ~JobActive /\ Renders
    /\ relay.applied = Compiled \/ (relay.session = "ready" /\ relay.record # "busy")
    /\ Once("topologies")
    /\ fleetJob' = NewJob("topology", relay.applied # Compiled)
    /\ UNCHANGED <<pooled, poolFile, owed, unsaved, serverSide, refresher, relay, overtaken>>

(* run: nothing to deploy, or the queue refuses, or the command is sent.   *)
QueueJob ==
    /\ fleetJob.status = "queued"
    /\ LET sent == fleetJob.changed /\ relay.session = "ready" /\ relay.record # "busy"
       IN  /\ fleetJob' = [fleetJob EXCEPT !.status = CASE ~fleetJob.changed -> "applied"
                                                        [] sent -> "awaiting"
                                                        [] OTHER -> "failed"]
           /\ relay' = IF sent THEN [relay EXCEPT !.record = "busy", !.sent = fleetJob.plan, !.job = TRUE]
                       ELSE relay
    /\ Free
    /\ UNCHANGED <<pooled, poolFile, owed, unsaved, serverSide, refresher, overtaken>>

(* waitForDeployment: the outcome, or its deadline while the relay is gone. *)
FinishJob ==
    /\ fleetJob.status = "awaiting"
    /\ \/ ~relay.job /\ fleetJob' = [fleetJob EXCEPT !.status = IF relay.applied = fleetJob.plan
                                                               THEN "applied" ELSE "failed"]
                     /\ UNCHANGED relay
       \/ relay.job /\ relay.session # "ready"
                    /\ fleetJob' = [fleetJob EXCEPT !.status = "failed"]
                    /\ relay' = [relay EXCEPT !.job = FALSE]
    /\ Free
    /\ UNCHANGED <<pooled, poolFile, owed, unsaved, serverSide, refresher, overtaken>>

(* The relay applies what was sent and its report is recorded.             *)
RelayApplies ==
    /\ relay.session = "ready" /\ relay.record = "busy"
    /\ relay' = [relay EXCEPT !.record = "applied", !.applied = relay.sent, !.job = FALSE, !.sent = NoConfig]
    /\ overtaken' = (~relay.job /\ relay.sent # Compiled)
    /\ Free
    /\ UNCHANGED <<pooled, poolFile, owed, unsaved, serverSide, refresher, fleetJob>>

RelayDrops ==
    /\ relay.session = "ready"
    /\ Once("relayDrops")
    /\ relay' = [relay EXCEPT !.session = "offline", !.sent = NoConfig]
    /\ UNCHANGED <<pooled, poolFile, owed, unsaved, serverSide, refresher, fleetJob, overtaken>>

(* AuthoritativeAppliedProfile: the replay supersedes what was in flight   *)
(* and is rendered with the addresses of now ...                           *)
AuthoritativeAppliedProfile ==
    /\ relay.session = "offline" /\ Renders
    /\ relay' = [relay EXCEPT !.session = "replay", !.sent = Compiled, !.job = FALSE,
                              !.record = IF @ = "busy" THEN "failed" ELSE @]
    /\ Free
    /\ UNCHANGED <<pooled, poolFile, owed, unsaved, serverSide, refresher, fleetJob, overtaken>>

(* ... queueDeployment takes the slot and the session becomes ready.       *)
QueueReplay ==
    /\ relay.session = "replay"
    /\ relay' = [relay EXCEPT !.session = "ready", !.record = "busy"]
    /\ Free
    /\ UNCHANGED <<pooled, poolFile, owed, unsaved, serverSide, refresher, fleetJob, overtaken>>

(* The master stops and starts: Open, and every session is gone.           *)
RestartMaster ==
    /\ Once("restarts")
    /\ pooled' = poolFile
    /\ poolSessions' = [s \in PoolServers |-> IF enrolled(s) THEN [state |-> "offline", reported |-> NoPair]
                                     ELSE [poolSessions[s] EXCEPT !.state = "revoked"]]
    /\ shadow' = [s \in PoolServers |-> [seeded |-> FALSE, pair |-> NoPair]]
    /\ probing' = {} /\ leaving' = {} /\ owed' = FALSE
    /\ refresher' = [pc |-> "idle", requested |-> 0, target |-> 0, joined |-> FALSE]
    /\ fleetJob' = [kind |-> "none", status |-> "none", plan |-> NoConfig, changed |-> FALSE]
    /\ relay' = [relay EXCEPT !.session = "offline", !.sent = NoConfig, !.job = FALSE]
    /\ overtaken' = FALSE
    /\ UNCHANGED <<poolFile, hostAddresses, unsaved>>

-----------------------------------------------------------------------------
(* A fleet at rest: a family of a host is bound, and reported, or it is    *)
(* behind NAT and was probed.                                              *)
FirstRegistry(bound) ==
    [version |-> 1, manual |-> {},
     agents |-> [s \in PoolServers |->
         [NoRecord EXCEPT !.exists = TRUE,
             !.reported = [f \in Families |-> IF f \in bound THEN FirstAddresses[s][f] ELSE NoAddress],
             !.probed = [f \in Families |-> IF f \in bound THEN NoAddress ELSE FirstAddresses[s][f]]]]]

PoolInit ==
    /\ \E bound \in SUBSET Families : pooled = FirstRegistry(bound)
    /\ poolFile = pooled
    /\ hostAddresses = [s \in PoolServers |-> pooled.agents[s].reported]
    /\ poolSessions = [s \in PoolServers |-> [state |-> "online", reported |-> hostAddresses[s]]]
    /\ shadow = [s \in PoolServers |-> [seeded |-> FALSE, pair |-> NoPair]]
    /\ probing = {} /\ leaving = {} /\ owed = FALSE
    /\ refresher = [pc |-> "idle", requested |-> 0, target |-> 0, joined |-> FALSE]
    /\ fleetJob = [kind |-> "none", status |-> "none", plan |-> NoConfig, changed |-> FALSE]
    /\ relay = [session |-> "ready", record |-> "applied", sent |-> NoConfig, job |-> FALSE,
                applied |-> [l \in Routes |-> AgentAddressForFamily(pooled.agents[l.to], l.family)]]
    /\ overtaken = FALSE /\ unsaved = {}
    /\ poolQuota \in PoolBudgets

ServerStep(s) ==
    \/ HostMoves(s) \/ ConnectServer(s) \/ SyncHello(s) \/ SyncObserved(s) \/ Heartbeat(s)
    \/ DropServer(s) \/ Revoke(s) \/ CleanPool(s)
    \/ \E f \in Families : RequestAddressProbe(s, f) \/ HandleAddressProbeReport(s, f)

LoopStep == LoopRead \/ StartAppliedRefresh \/ LoopPoll \/ LoopRetry
JobStep == QueueJob \/ FinishJob
ReplayStep == AuthoritativeAppliedProfile \/ QueueReplay

PoolNext ==
    \/ \E s \in PoolServers : ServerStep(s)
    \/ PageStep \/ Trigger \/ LoopStep \/ StartTopologyJob \/ JobStep
    \/ RelayApplies \/ RelayDrops \/ ReplayStep \/ RestartMaster

(* Handlers, the loop and the jobs run on; an Agent reconnects, beats and  *)
(* applies what it is sent.                                                *)
PoolFairness ==
    /\ WF_poolVars(Trigger) /\ WF_poolVars(LoopStep) /\ WF_poolVars(JobStep)
    /\ WF_poolVars(RelayApplies) /\ WF_poolVars(ReplayStep)
    /\ \A s \in PoolServers :
          /\ WF_poolVars(ConnectServer(s)) /\ WF_poolVars(Heartbeat(s))
          /\ WF_poolVars((SyncHello(s) \/ SyncObserved(s)))

PoolSpec == PoolInit /\ [][PoolNext]_poolVars /\ PoolFairness

-----------------------------------------------------------------------------
(* The registry, its file and the fleet hold what their types say; a       *)
(* Server without a record has no address.                                 *)
PoolTypeOK ==
    /\ pooled \in Registries /\ poolFile \in Registries
    /\ \A s \in PoolServers : pooled.agents[s].exists \/ pooled.agents[s] = NoRecord
    /\ hostAddresses \in [PoolServers -> Pairs]
    /\ poolSessions \in [PoolServers -> [state : {"offline", "hello", "observe", "online", "revoked",
                                         "revokedHello", "revokedObserve"}, reported : Pairs]]
    /\ shadow \in [PoolServers -> [seeded : BOOLEAN, pair : Pairs]]
    /\ probing \subseteq PoolServers \X Families
    /\ leaving \subseteq PoolServers /\ owed \in BOOLEAN /\ overtaken \in BOOLEAN /\ unsaved \subseteq PoolServers
    /\ refresher \in [pc : {"idle", "read", "start", "poll", "wait"}, requested : Nat, target : Nat,
                      joined : BOOLEAN]
    /\ fleetJob \in [kind : {"none", "refresh", "topology"}, plan : [Routes -> Maybe(Addresses)],
                     status : {"none", "queued", "awaiting", "applied", "failed"}, changed : BOOLEAN]
    /\ relay \in [session : {"offline", "replay", "ready"}, record : {"applied", "busy", "failed"},
                  applied : [Routes -> Addresses], sent : [Routes -> Maybe(Addresses)], job : BOOLEAN]

(* Probing is a fallback (SetProbed, registry.go:519-524): in memory and   *)
(* in the file, a family for which the host reports a bound address has no *)
(* probed address, whatever the order of heartbeats, probe reports and     *)
(* restarts.                                                               *)
ProbingIsFallback ==
    \A reg \in {pooled, poolFile}, s \in PoolServers, f \in Families :
        reg.agents[s].reported[f] # NoAddress => reg.agents[s].probed[f] = NoAddress

(* Losing an address never makes the applied topology impossible to render *)
(* (resolverForState, deployer.go:163-165): once a link was applied, every *)
(* later refresh, replay and rollout finds an address of the family it     *)
(* pins.                                                                   *)
AlwaysRenders ==
    \A l \in Routes : /\ Resolve(l) # NoAddress
                      /\ l.family # "auto" => relay.applied[l] \in OfFamily(l.family)

(* The pool is fit to deploy from: all of the above.                       *)
PoolIsSound == PoolTypeOK /\ ProbingIsFallback /\ AlwaysRenders

(* What a host has bound reaches the registry: from some point on, the     *)
(* registry holds the reported addresses of every connected Server, unless *)
(* the write of its last report failed (server.go:937: an equal heartbeat  *)
(* does not repeat it).                                                    *)
ReportsReachPool ==
    <>[](\A s \in PoolServers : poolSessions[s].state = "online" /\ s \notin unsaved
                            => pooled.agents[s].reported = hostAddresses[s])

(* The relays dial the addresses of the pool: once the addresses stay, a   *)
(* link whose Server resolves to an address is deployed with that address, *)
(* though refreshes join other jobs, fail on an offline relay, are asked   *)
(* for while one is running, or are lost with the master -- unless the     *)
(* last profile the relay applied is a replay whose addresses had changed  *)
(* when it was applied.                                                    *)
RelaysDialUnlessOvertaken ==
    <>[](\A l \in Routes : Live(l) # NoAddress => relay.applied[l] = Live(l) \/ overtaken)

(* An address comes all the way from its host to the relays that dial it.  *)
AddressesArrive == ReportsReachPool /\ RelaysDialUnlessOvertaken

(* Every persisted address mutation is reconciled (server.go:205-206): the *)
(* same without the exception.                                             *)
RelaysDialPool ==
    <>[](\A l \in Routes : Live(l) # NoAddress => relay.applied[l] = Live(l))

(* The probed head of a family (probe.go:168-170) goes only because the    *)
(* host reports an address of that family, a probe of it is answered, or   *)
(* the Server is revoked.                                                  *)
ProbedHeadSurvives ==
    [][\A s \in PoolServers, f \in Families :
         LET head == pooled.agents[s].probed[f]
         IN  head # NoAddress /\ pooled'.agents[s].probed[f] # head
             => \/ pooled'.agents[s].reported[f] # NoAddress
                \/ <<s, f>> \in probing \ probing'
                \/ ~pooled'.agents[s].exists
                \/ pooled' = poolFile]_poolVars
=============================================================================
