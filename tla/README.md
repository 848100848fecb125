# TLA+ verification of Theatropolis

Theatropolis is a master that manages a fleet of sing-box proxies. Operators edit
a graph of Proxy Nodes on the master; the master compiles the graph into one
configuration per host, rolls those out over long-lived gRPC control sessions to
an Agent on every host, and keeps end users, traffic accounts, addresses and
software versions in step. This directory holds the specifications kept beside
that code: what is modelled, what TLC checks on small instances, and what TLAPS
proves for instances of any size.

All paths below are relative to the repository root; `internal/...` is
`src/internal/...` in the `map` of `PROJECT.json`, which names the source lines
of every definition that models code.

## 1. The system

| component | state it keeps | operations | talks to |
|---|---|---|---|
| Fleet deployer `internal/proxynode/deployer.go` | current job, open transaction, reservation of a mutation, in-flight user authority | `Start`, `MutateAndStart`, `StartAppliedRefresh`, `StartUserSync`, the `run` and `rollbackTopology` goroutines, recovery | store, journal, control server, reconciler |
| Topology journal `topology_transaction.go` | one file: revision, phase, order, rollback configuration and touched flag of every Agent | load, persist, remove | deployer only |
| Topology reconciler `topology_reconciler.go` | forced and blocked revision, a coalescing channel | `Trigger`, periodic pass | deployer |
| Proxy Node store `store.go`, `accounting_sql.go` | one JSON document (desired and applied topology with revisions, users with their own revision) and a SQLite ledger | mutations, `MarkTopologyApplied`, `RestoreTopology`, traffic batches | deployer, billing, web interface |
| Billing and enforcement `billing.go`, `billing_enforcer.go` | periods, quotas, timers | usage, expiry, retry loops | store, deployer |
| Compiler `compiler.go`, `listeners.go`, `validation.go` | none | graph to configurations, hop depths, listener conflicts | deployer |
| Deployment records `internal/deployment` | latest record per Agent, with the last confirmed configuration | create, transition, expiry | control server, deployer |
| Control server `internal/control` | one session per Agent, send queues, waiters, a profile-ready flag | connect, queue commands, handle reports, replay the profile on connect, propagate pool changes | Agents, records, deployer, reconciler |
| Agent runner `internal/agent` | session, one activation at a time, pending results | deploy, user authority, updates, probes, traffic | control server, sing-box manager |
| sing-box manager `internal/singbox` | active file, child process, authority sidecar, runtime state | apply, roll back, supervise, suspend on a mismatch | Agent runner |
| Managed users `internal/singbox/managed_user*.go` | sidecar with the newest user revision and its shapes | overlay on a candidate, live update | manager |
| Outbound pool `internal/pool` | external outbounds, derived references | edit, render | control server, compiler |
| Identities `internal/identity` | enrolled keys, enrollment tokens | enroll, revoke | control server |
| Updates `internal/agentupdate`, `internal/singboxupdate`, `cmd/theatropolis-update-helper` | request, processing and result files | schedule, claim, install, report, acknowledge | Agent runner, root helper |
| Migration `internal/mastermigration` | staged restore with its marker, backup directory | export (double snapshot), stage, install at start | every store |
| Web interface `internal/webui` | administrator and user sessions, throttles, subscription cache, release and rule-set caches | handlers | everything above |

What is hard in it, and is what the properties are about (the full list with
source lines is `hazards` in `PROJECT.json`): a rollout is a distributed
transaction over Agents that lose their sessions, time out, activate late or
reject; the master may stop between any two durable writes; an Agent that
reconnects is sent a profile while a rollout may be moving it; reports may answer
a deployment that has been replaced; a rollback may itself fail halfway; a saved
edit has to be picked up again by somebody; user revocation must not be undone by
any of that.

What makes each component correct: the fleet switches from one topology to the
next atomically with respect to crashes (journal ahead of delivery, commit before
the journal goes, no undo of a commit), receivers before senders; records tell
the truth about the Agents; a saved edit and an interrupted rollout settle; a
revoked membership stays revoked; an activation either runs the candidate or
leaves file, process and bookkeeping as before; traffic is counted once; a
restore that was interrupted resumes.

## 2. The modules

| part | modules | checked by | proved |
|---|---|---|---|
| rollout of a topology over the fleet | `FleetDeployment`, `AtomicFleet` (what it promises) | `FleetSafety`, `FleetLiveness`, `FleetReconnect`, `FleetUnlink` | `FleetDeploymentProofs` |
| one sing-box process and its users | `SingBoxManager` | `BoxSafety`, `BoxRepairs`, `BoxLostRepair`, `BoxLostRestore` | `SingBoxManagerProofs` |
| updates of the programs of a host | `HostUpdates` | `UpdateSafety`, `UpdateLostResult`, `MasterState` | `MaintenanceProofs` |
| users of an Agent while its topology moves | `UserPlane` | `FleetLiveness` | `UserPlaneProofs` |
| routing tree and its editor | `ProxyTree` | `MasterState` | |
| nodes, users, memberships, credentials | `ProxyNodeStore` | `MasterState` | `ProxyNodeStoreProofs` |
| accounts, quotas, terms | `Accounting` | `MasterState` | `AccountingProofs` |
| moving a master | `MasterMigration` | `MasterState` | `MaintenanceProofs` |
| identities and sessions of Agents | `AgentAccess` | `ControlPlane` | `ControlPlaneProofs` |
| sign-in of operators and end users | `WebSessions` | `ControlPlane` | `WebSessionsProofs` |
| addresses of the Servers | `OutboundPool` | `ControlPlane` | `ControlPlaneProofs` |
| subscriptions, rule sets, catalogs | `PublicReads` | `ControlPlane` | `ControlPlaneProofs` |

`UserPlane` composes what the first two modules each have a half of: the master's
user revisions with an Agent that keeps, refuses or suspends. `MCFleetLiveness`,
`MCMasterState` and `MCControlPlane` put several modules under one specification
(section 9).

Left for later: a proof of `EditsAreSound` (`ProxyTree`), should the provers learn
induction over data; the latency history.

## 3. FleetDeployment

### State

| variable | code |
|---|---|
| `store` | `State.Revision`, `AppliedRevision`, `ProxyNodes`, `AppliedProxyNodes` in memory, and what the JSON file holds of them |
| `journal` | the file `proxy-node-topology-transaction.json` |
| `rec` | the latest `deployment.Record` of every Agent, on disk |
| `tx`, `job` | `Deployer.transaction`, `.job` |
| `reserved` | `Deployer.mutationReserved` with the graph before the edit saved under it, and the refused edit `MutateAndStart` has still to undo |
| `run` | the program counter and locals of the goroutine `run` or `rollbackTopology` |
| `rc` | `forceRevision` and `blockedRevision` of `TopologyReconciler.loop` |
| `online`, `wire`, `back` | the session of an Agent, its command queue, its report stream |
| `work`, `running` | the activation the Agent runner is busy with, what sing-box runs |
| `budget` | how many events the environment may still inflict, per kind |

A configuration document is opaque. The compiler is the constant function
`Compile`, hop depths are `Depth`, and `Retire` gives the intermediate
configuration of a protocol change on one socket. These are pure functions of the
topology in the code as well. The managed Agents of the code are those with a
hop in the applied topology.

### Actions

`Mutate` or `MutateFails`, then `StartReserved` or `RefuseEdit`, are
`MutateAndStart`: a refused `start` gives the reservation back when it returns
(deployer.go:497), and `RestoreTopology` undoes the edit in a later step, which
other edits, starts and a restart may precede. `SaveStore` is any other write of the
state file. `ManualStart`, `StartAppliedRefresh`, `TickStart` and
`TickIdle` the other callers of `start`; `StartRecovery` and `Rollout` its two
branches. The goroutine of a job takes one action per durable write or message:
`RunTouch` (journal ahead of delivery), `RunQueue`, `RunRefused`, `RunReported`,
`RunTimeout`, `RunDeployed`, `RunConfirm`, `RunCommitting`, `RunMarkApplied`,
`RunClear`, and `RunNext`, `RunUndone` for a rollback. `Connect`, `DropSession`,
`AgentTake`, `AgentFinish`, `HandleReport`, `ExpireRecord` and `RuntimeReport`
are the sessions and the Agents, and `Restart` a crash of the master at any point
followed by `NewDeployer` and `TopologyReconciler.Start`.

A write of the state file that fails leaves memory as it was. The file is then the
old one or already the new one, since `replaceStateFile` can fail after its rename
(`PersistFails`; replace_file_unix.go:10-20, store.go:1657-1659). The next write that
succeeds brings both together, and a restart reads the file. When it was
`MarkTopologyApplied` that failed, the Agents are rolled back while the file may say
that their new topology was applied (`Disowned`).

Abstractions, and why they lose nothing the properties need:

* Connecting and replaying the profile is one step: until the session is marked
  ready nothing else may queue for it (`SupportsSession` with `requireReady`).
* Queued and deploying jobs are one status, and so are the terminal failures of
  a record; no branch of the modelled code tells them apart.
* Equal depths are ordered either way, the code breaks ties by identifier.
* Deployment identifiers are random in the code and are never reused there; the
  model takes the least identifier nothing refers to any more.
* An activation that lost its session may be cancelled or finish unheard.
* The branches for a desired revision that moves under a running job are kept
  although `MutateAndStart` refuses while a job is active.
* The user plane (`UserPlane`), addresses (`OutboundPool`) and Agent removal
  (`ProxyNodeStore`) have modules of their own; here a missing address and a
  failing traffic sample are budgeted events.

### Bounds

Two Agents, an entrance and a relay; three graphs: none, the entrance alone, the
entrance in front of the relay. Going from the second to the third changes the
protocol of the entrance's listener, so retirement, depth order, an Agent that
joins and one that leaves all occur. Two edits give a rollout forward, one over
an existing applied topology and back. One crash, one lost session, one timeout,
one rejection and one failed write are each placed anywhere by TLC; they are
spread over several budgets because together they exceed what TLC can enumerate.
A restart that reads a disowned commit has a budget of its own, which these runs leave
empty; section 11 says what such a restart does. One refused edit at a time waits to
be undone.
Four identifiers per Agent are enough for one record, one activation of a lost
session and the commands in flight; a step that needs a fifth is not taken,
and raising the bound adds no state.

### Runs

| run | shows |
|---|---|
| `FleetSafety` | types, `ReceiverFirst`, `CompletedIsNotRecovered`, `JournalCoversAgents`, `JournalRestoresApplied`, `RecordsAreTruthful` and that the rollout implements `AtomicFleet`, from six initial budgets (1,347,730 distinct states): a crash with a lost session or a failed write; a timeout with a failed write, or with a rejection and a process exit; manual starts, edits that do not compile, rejections and a journal that cannot be removed after a rollback; refreshes, edits without an address and rejections |
| `FleetLiveness` | with a crash, and in one environment a lost session: a saved edit is applied or reported as held back (`EditSettles`), and while no session is lost an interrupted rollout is undone or found complete (`InterruptedIsRecoveredOnline`); together with the user plane, section 6 |
| `FleetReconnect` | violation, see finding 2 |
| `FleetUnlink` | violation, see finding 1 |

`AtomicFleet` is what the operator is promised: Agents are declared as moving,
then and only then may change configuration, and the commit happens when every
Agent runs the new graph; an abort when every Agent runs the old one again. The
refinement mapping reads `committed` from the store, `moving` from the journal on
disk if a restart would still honour it, and `cfg` from the Agents.

### Fairness

The goroutine of a job runs until it returns (its waits have deadlines); the
second half of `MutateAndStart` follows the first; the reconciler's timer fires
again and again; an Agent reconnects (`Runner.Run` retries for ever) and works
its commands off; the server reads the reports of a session. Nothing is assumed
of operators, of other writes of the store (`SaveStore`) or of the events that spend
budget, which are finite in number. `MCFleetLiveness` assumes less: the steps of
one loop (a session's, an Agent's, a request's) share one fairness condition there.

### Findings

1. *A committed rollout can be rolled back* (`FleetUnlink`). When the journal
   cannot be removed after `MarkTopologyApplied`, the transaction stays in memory
   and the next `start` treats it as interrupted. Only `NewDeployer` looks at the
   committing marker and the applied revision.
2. *A consumed trigger can leave a recovery blocked* (`FleetReconnect`). The
   reconnect that would force a retry is cleared by a pass that could not start
   anything because the failing recovery was still active.

## 4. SingBoxManager

The manager owns one sing-box process. Its supervisor goroutine takes one request
at a time; a request walks through `applyCandidate`, and only a process that dies
and the end of the Agent can come between its steps.

### State

| variable | code |
|---|---|
| `file`, `sidecar`, `marked` | the active configuration, the managed-user authority and the recorded configuration generation on disk |
| `mgr` | whether the Agent is down, resetting before its first start, or has a running manager |
| `active`, `hasActive`, `authority`, `child`, `restart`, `retry` | `supervisorState`; `child` is the supervised process even when it has just exited, `retry` an armed timer |
| `procs` | what every live sing-box of this host serves, per process |
| `op` | the request in progress: where it is, its candidate, whether it has changed the running process (`dirty`), and the previous child and restart flag it keeps |
| `granted` | history: the memberships of the newest authority answered as applied and of those persisted since |
| `budget` | how many events the environment may still inflict, per kind |

A configuration is a pair of a shape, the topology digest that leaves out the
memberships, and the set of memberships it lets in. Credentials of Links belong
to the shape, as `retainAuthorizedMemberships` treats them; a membership whose
credential rotates is not told apart from itself. An authority is a revision, the
shapes it describes and the memberships it grants in each of them. `Parses` says
whether a configuration has the managed-user service at all.

### Actions

`ResetConfig` and `ResetAuthority` are the two removals of `ResetForEnrollment`
(the token file outlives a crash between them, so the reset starts over).
`Quarantine` and `Start` are the start of the Agent; `Crash` its end, orderly or
not: the unit file sets no `KillMode`, so the service manager ends what is left of
its processes. `Exit`, `HandleExit` and `Retry` are the supervision.
`Deploy` filters a command by its mode and the authority (`Candidate`).
`AuthorityHolds`, `AuthorityUnusable`, `Suspend`, `ReplaceUsers` and
`RefuseAuthority` are the outcomes of an authority command. The rest follows
`applyCandidate`: `Validate`, `Reconcile` with `SaveUsers` for a change of users
alone, and `Stage`, `StopPrevious`, `Install`, `Activate` or `Restore` and
`Relaunch` for a replacement, each with its failure. A write that fails may have
taken effect; a replacement of users that fails may have changed any part of them.

Abstractions:

* `launchProcess` is one step. A process that dies or is stopped while it becomes
  ready has served nothing but the file it was started on.
* A request whose deadline passes is a budgeted event that strikes before the
  activation begins, as in the code; later steps ignore the caller's deadline.
* An older authority is answered as applied and changes nothing; `granted` is not
  about that answer.
* A failing start of the whole Agent (a file that cannot be read) is the Agent
  being down; the ACME host settings, TLS readiness, policy checks and the event
  queue only decide whether a candidate is refused or a launch fails, which are
  events here.

A fault that strikes after the users of the running process were changed spends
`repair` and a restore that fails spends `restore`, so that the runs and the
theorems can say exactly which faults a property survives.

### Bounds

Two managed shapes, a configuration without managed users, the disabled one, two
memberships, two process slots (a second process would show), deployments of all
three modes compiled before a revocation, and six authorities: for one shape and
for two, growing, shrinking, conflicting and repeated. Two deployments and up to
three authorities surround every fault; three give a grant, a revocation and one
command more than the revocation needs to be lost.

### Runs

| run | shows |
|---|---|
| `BoxSafety` | types, `SettledAgree` (file, memory and process agree between requests), `OneProcess` and `AckedRevocationHolds`, from two initial budgets: a fault of every kind, and three authorities in any order around the deployments |
| `BoxRepairs` | `RestartArmed`, `StartFailsClosed` and, under fairness, `DataPlaneReturns` with faults of the repair, of the restore and enrolment as well |
| `BoxLostRepair` | violation, see finding 3 |
| `BoxLostRestore` | violation, see finding 4 |

Fairness is weak fairness of `Supervise`: the supervisor goroutine runs, its waits
have deadlines, and a timer that is armed fires. Launches fail a bounded number of
times; nothing is assumed of commands. Deadlock is not checked: an Agent without a
command has nothing to do.

### Findings

3. *A revocation can be acknowledged and not enforced* (`BoxLostRepair`). The users
   of the process are replaced through its API, persisting them fails and so does
   staging for the repairing restart; the manager answers an internal error and
   remembers the old configuration. An authority that equals this memory is
   answered as applied although the process serves other users.
4. *Stale bytes can bring a revoked membership back* (`BoxLostRestore`). When the
   previous file cannot be restored, `hasActive` is cleared and `activeConfig` is
   not; an authority is then acknowledged because nothing is active, and the next
   deployment of a shape unknown to it retains memberships from those bytes.

## 5. HostUpdates

A service that must not write its own binary asks for a release by writing a
request file; systemd's path unit starts the root helper, which claims the file by
a rename, verifies and installs the release, writes a result and restarts the
service. Three programs of a host are updated this way by up to three helpers at a
time, and the master learns of two of them through the Agent's session. The host
is the one of the installer's role `all`, where the master and the Agent share the
helper binary.

### State

| variable | code |
|---|---|
| `installed`, `library`, `helper` | the installed binaries, sing-box's `libcronet.so` and the helper, by release; `Missing` while moved aside |
| `running` | the release each own service was started from |
| `request`, `processing`, `result` | `update-request.json`, `.update-request.processing.json` and `update-result.json` of each program |
| `job` | a helper process: where it is in `Apply`, the release it found installed, its request, the outcome so far and what it would put back |
| `sched` | a `Schedule` between its two looks |
| `held` | a result between `LoadResult` and `AcknowledgeResult` |
| `entry` | `Server.updates` and `Server.singBoxUpdates`, in memory |
| `session`, `commands`, `reports` | the control session and the update frames in flight |
| `issued`, `spent`, `bound` | bounds: requests issued, faults struck and their limits |

### Actions

`QueueUpdate`, `ReceiveUpdate` and `ScheduleWrite` carry a request from the master
to the file, `UpdateMaster` is the button of the settings page. `StartHelper`,
`Claim`, `Download` and then `InstallHelper`, `InstallBinary`, `RollbackHelper` for
a Theatropolis release or `CheckCandidate`, `BackupBinary`, `BackupLibrary`,
`InstallLibrary`, `InstallSingBox`, `RestoreBackup` for sing-box are the helper,
one action per file operation, followed by `WriteResult`, `Restart` or
`RestartFails` and `Finish`. `SendResult`, `AcknowledgeResult`, `HandleReport` and
`SettingsPage` are the way back. `HelperCrash`, `LoseSession`, `AgentRestarts` and
`MasterRestarts` may happen anywhere; every file operation may fail.

Abstractions:

* A release is its place in the order of `compareReleaseVersions`; a download or a
  signature succeeds or fails.
* In `agentupdate` a write or an installation that fails may have taken effect,
  because the directory is synchronised after the rename; in `singboxupdate` the
  rename is the last step. `restoreBackup` ignores its errors; the model lets it
  succeed.
* The ticker and the connection send the Agent's result before sing-box's; the
  model sends them in any order.
* When `systemctl restart` fails the service keeps running what it ran. A service
  that comes up later all the same is `AgentRestarts` or `MasterRestarts`.
* A queued command that cannot be sent leaves the entry as it was and is no step.

### Bounds

Two releases tell a downgrade from an upgrade. `UpdateSafety` places one fault
anywhere around two requests, and two faults (two failing file operations included,
so that a roll-back fails too) around one request; with two requests and two faults
TLC does not finish. In `MasterState` there are two killed helpers and a failing
file operation around one request.

### Runs

| run | shows |
|---|---|
| `UpdateSafety` | types, `OneRequest`, `AppliedIsInstalled`, `AppliedIsRunning`, `ComponentsPaired` and `NoDowngrade` |
| `MasterState` | a request is served in the end (`RequestsAreServed`): for the master always, for the Agent and sing-box as long as no helper is killed and no file operation fails, since their path units do not watch the claimed file |
| `UpdateLostResult` | violation, see finding 5 |

Fairness is weak fairness of the helpers: systemd starts a unit whose path exists
and the helper runs under a deadline. Deadlock is not checked: a host without a
request has nothing to do.

### Findings

5. *A result can be lost on its way* (`UpdateLostResult`). The Agent removes a
   result as soon as the frame was handed to the transport. If the Agent is then
   restarted by the helper of its other update before the master has read it, the
   entry of the master stays `scheduled` and refuses further updates of that
   program until the master restarts. The comment in `handleAgentUpdateReport`
   says that results survive until the master accepts them.

## 6. UserPlane

How the end users reach the Agent of an entrance while rollouts, address refreshes
and profile replays move that Agent between configurations. It follows
`startUserSync` and `runUserSync` of the deployer, the authority commands and
reports of the control server, the replay of `profile_sync.go`, and the authority
half of the manager of section 4, here with the master that drives it.

State: the store's memberships with their user revision, the graphs and the
relay's address (`roster`); the journal, the in-flight and the pending authority;
the rollout and the user synchronisation with their program counters; what the
enforcer's two loops still owe (`wants`); the deployment record; the session with
its two queues; the Agent with its configuration and its persisted authority.
`entitled` is history: who was enabled since the authority that was last reported
as applied was compiled.

The Agent refuses an authority of the revision it has with other contents, and
suspends when the shape it runs is not described. The two properties are that a
revocation the master was told of holds (`ReportedRevocationHolds`) and that the
users of the store are served in the end (`UsersConverge`), unless the operator is
shown a failed deployment or an open transaction, or the revision was spent on
another shape (`RevisionSpent`, section 11).

A reconnecting Agent is sent its applied profile compiled anew, so the graph has to
compile, or, when the transaction has touched it, its last confirmed record
(`transactionTouchedAgent`, deployer.go:337).

Left to the other modules: retirement of listeners, the traffic sample, the
reconciler's blocking and the split of commit and journal (`FleetDeployment`). The
wait for an authority ends with its report or its session; the deadline of that wait
is left out, for an Agent that does not answer loses its session.

Bounds: one membership; a rollout that adds a relay starts from the plain graph
with a move of the relay, one that removes it starts from the relayed graph across
a restart of the master; moves meet a lost session, a refused configuration or a
restart of the Agent. An instance with two memberships and eight budgets (3.1
million states) was also checked, outside the listed runs for its duration.

## 7. What a master keeps

### ProxyTree

The routing tree of a Proxy Node: Hops, Links with their order, fallback and Rule,
and BLOCK branches. The mutations of `store.go` are operators from a tree to a
tree, the handlers of `proxynodes.go` are the actions, `validateProxyNode` decides
what may be saved and `renderHopRules` is what the compiler makes of a tree: the
route of a flow. Listeners and tokens of Links are left out.

`EditsAreSound` is the conjunction of `EditsValidate` (no edit that passes the
checks of its own mutation is refused by validation, after any edits before it),
`EditsAreLocal` (a flow changes its route only if a Hop or a BLOCK of it went or
came) and `CopiesRouteAlike` (a Rule added to a Link that has one is served by a
copy that routes like the original). Three edits start from a new node or from a
tree with two levels, a fallback and BLOCK branches before and after the Rules; the
third is made to a tree of at most seven Hops, Links and BLOCKs (`ThirdEditSize`).

### ProxyNodeStore

The two planes of the store: the topology plane with its draft, its snapshot, its
reservation and rollout, and the user plane, whose decisions take effect at once.
Secrets are stamped with the operation that drew them. Only the entrance of a node
is kept. `finish` is the commit of a rollout: `MarkTopologyApplied` refuses a revision
that moved (store.go:1455) and validates before it saves (store.go:1478).

An edit can be refused in two ways. One that names an Agent without an identity is
undone under its reservation (`RejectEdit`). One whose `start` fails gives the
reservation back first (`RefuseStart`, deployer.go:497), and `MutateAndStart` reads the
revision and restores its snapshot afterwards (`UndoEdit`, deployer.go:428-429). In
between, `GuardAgentRemoval`, another edit or a whole rollout may take the
reservation. What comes of it is remembered in `decided`: `raced` are the Agents
whose removal was granted while a refused edit that refers to them was still to be
undone, `overtaken` the nodes for which a roll-back found something else deployed than
its snapshot has. `RemovedAgentsUnreferenced` excepts the former,
`LiveCredentialFits` and `OperationsAreAccepted` the latter; section 11 shows that none
of them holds without its exception.

`MembersAreKept` is `CredentialsFit` (well-formed store and snapshot, no accepted
operation refused when it is saved, live credentials of the shape that is deployed,
one secret per shared listener) and `DecisionsHold` (who is a member is what was
decided last, a removed member gets no old secret back, a removed Agent is not
referred to). `AuthorityHasRevision` says that what the Agents must be told never
changes under an old user revision. The bounds mix two topology edits with a user
decision or an Agent's removal, from a store with one node, an end user and the
administrator, and one edit with two decisions, from that store and from one with two
nodes on one socket. One refused edit at a time waits to be undone.

### Accounting

The book in memory, the JSON state, the SQLite ledger, and the Agent that serves
and counts. A change of members is split into `persistStateAndAccounting`,
`persistLocked`, `Commit` and, when the commit fails, the retry and `RestoreState`;
usage commits in the ledger alone; `Open` is `loadIntoState` after `initialize`.
`torn` is history: a fault struck after which the code itself reports that file and
memory, or the two files, may differ; the properties that speak of both except it.

`AccountsAreSound` is `RevisionsNeverRegress`, `RevisionNamesAuthority`,
`RestartReproducesBook` (a start brings back the book in memory) and
`UsageCountedOnce` with the type invariant. `RevocationReachesAgent`: who was
removed, has expired or used up the quota is no longer served in the end. A report
of traffic that precedes a reset in the handler is a separate step here; the
failure log of the accounting is left out. `MaxBytes` stands for the largest 64-bit
number, where sums saturate.

### MasterMigration

The export that reads five stores one after the other until two readings agree,
beside edits and rollouts; `StageRestore`, `ApplyPendingRestore` rename by rename
with crashes between any two, the opening of the stores with a write-ahead log that
may belong to another database; and the cutover of an Agent: record, report, exit,
dial. Whether such a mixed ledger opens is up to SQLite and to what the log holds:
`Unreadable` may contain `Mixed`. The run lets it open, which is the case
`DataStaysWhole` has to survive; section 11 has the other one.

`DataStaysWhole` is `ExportIsInstant`, `NothingIsLost` and `OpenedAsOne` with the
type invariant. `MigrationCompletes` is `RestoreResumes` and `CutoverTakesEffect`.
Bounds: two edits around an export; two uploads, one unreadable, around two crashes
and a fault; an export and a restore around a crash; a cutover around a crash.

## 8. The control plane

### AgentAccess

The identity registry and its file, enrollment commands of the pages and of the
local socket, the hosts that redeem them, the streams from hello over challenge and
proof to the session loop, and revocation and replacement under
`authorizationMu` and `agentMutationMu`. A host stands for its key. The results of
enrollments are a set of limited size; which one `evictOldestEnrollmentResult` takes
depends on clock times that are not modelled, so any of them may go. The rate limit
of enrollments and the owner of a result page are left out. A registry write may fail
before or after its rename, those of an enrollment, of a revocation and of a new
display name (`RenameNotPersisted`) alike.

`AccessIsCurrent` is `SessionsAreAuthorized`, `CredentialsStayDead`,
`KeyNamesOneServer`, `RegistryReopens`, `ResultsHaveRecords` and
`RetainedHaveRecords` with the type invariant; `EnrolledHostsConnect` is its
liveness: an enrolled host gets its session although a dead stream of its own may
still hold the place.

### WebSessions

Logins that queue for one password derivation outside the locks, invitations and
their claims, deletions, sessions with a rolling deadline, the background write of
deadlines, orderly and other ends, and the start from files of this and of the
former release. Login rate limits and the older separate login pages are left out;
`set-web-admin --replace` happens only while the master is stopped.

`SessionsAreCurrent` is `LoggedOutStaysOut`, `ClaimedOnlyOnce`,
`SessionsProveCredential`, `IdentitiesReopen` and `NeverOutlivesDeadline` with the
type invariant. `SessionsSurviveRestart` is the converse: a start drops no session
that is still good. `RequestsAnswered` is the liveness of the locks and the queue.

### OutboundPool

What a Server reports, what its connection shows, what a probe found and what the
administrator pinned, in memory and in a file, and the way to the relays that dial
it: a trigger, the applied refresh loop, topology jobs it joins or waits for, and
the replay at a reconnect. A list of addresses is its head, the only one that is
resolved; references, propagation to single Agents and rendering stamps are left
out, and the rollback of a topology job is the one of section 3.

`PoolIsSound` is `ProbingIsFallback` and `AlwaysRenders` with the type invariant.
`AddressesArrive` is `ReportsReachPool` and `RelaysDialUnlessOvertaken`.

### PublicReads

What clients read. A subscription is looked up by its link, projected from the
store and rendered through a cache of contents; a rule set comes from a cache that
joins concurrent misses, limits fetches and falls back on stale entries; the names
in the rule editor come from a catalog with a file and a background refresh. Beside
them: rotation, reset and revocation of links, removal of the user, quota and
expiry, and every edit of the rules. A content counts as one unit of bytes, the
answer that there is none as nothing. Sorting (`InOrder`) puts each rule in the place
its order says; that is what `sort.SliceStable` does on the orders 0, 1, ... which
`validateSubscriptionPolicy` requires before anything is stored.

`PublicReadsAreSound` is `AnswersAreCurrent` (what is handed out is the rendering
of a state the store was in after the link was found), `RenderedIsBounded`,
`PolicyInOrder`, `FetchesAreJoined`, `RuleSetsAreRecent` and `CatalogIsKept`;
`ReadsAnswered`: every request ends, and an expired catalog is refreshed.

One user and one format stand for all; two requests run at a time; the caches hold
two and one entries, so that eviction happens; time passes in steps of ten minutes,
longer than any request lasts. The clock and the first look at the cache are one
step. Rate limiters, renderings that fail or exceed the cache, and the text of the
formats are left out.

## 9. Runs of several modules

The modules of sections 6 to 8 share no variables: each asks its own question about
its own part of the master. `MCMasterState` (tree, store, accounts, migration,
updates), `MCControlPlane` (access, sign-in, pool, reads) and `MCFleetLiveness`
(fleet, users) put them under one specification with a variable `focus`, fixed by
the initial state: a behaviour is about one module, the others stay parked in one
of their initial states. The states of a run are the sum of the modules' states,
not their product, and the properties of a parked module hold of it trivially. The
fairness of a module is required while it is in focus.

| run | distinct states | shows |
|---|---|---|
| `FleetLiveness` | 270,294 | `EditSettles`, `InterruptedIsRecoveredOnline`, `ReportedRevocationHolds`, `UsersConverge` |
| `MasterState` | 298,596 | `EditsAreSound`, `MembersAreKept`, `AuthorityHasRevision`, `AccountsAreSound`, `RevocationReachesAgent`, `DataStaysWhole`, `MigrationCompletes`, `RequestsAreServed` |
| `ControlPlane` | 258,959 | `AccessIsCurrent`, `EnrolledHostsConnect`, `SessionsAreCurrent`, `SessionsSurviveRestart`, `PoolIsSound`, `AddressesArrive`, `PublicReadsAreSound`, `EveryRequestAnswered` |

The events of the environment (requests, edits, days, faults, crashes, lost
sessions) are spent from a budget; a run starts from several budgets, each a
combination whose kinds matter to one another, since all kinds at once are beyond
enumeration. Some budgets were split from larger ones (an enrollment with an edit, a
revocation, a fault and a restart in one; a third edit of every tree; two update
requests), which were checked once and passed.

Because events are finite in number, liveness is stated as `[]<>P` or `<>[]P`: with
the environment quiet in the end, `[]<>` says that the state the system settles in,
or keeps coming back to, satisfies P. Fairness is weak and of what runs on by
itself: goroutines whose waits have deadlines (handlers, jobs, loops, background
writes), timers that are re-armed, systemd which restarts the master
(`Restart=on-failure` in the unit), the Agent's reconnect loop. Nothing is assumed of
operators, clients, time or faults. Deadlock is not checked in these runs: a quiet
system may stop.


## 10. Proofs

`FleetDeploymentProofs` proves, for every fleet, set of topologies and
configurations, identifiers and budgets that satisfy `ConstantsAssumption` and
`NoTxAssumption`:

* `TypeCorrect`: `Spec => []TypeOK`. `TypeOK` is not inductive: a running job
  updates the fields of `tx`, so the transaction must be there.
  `TypeInv` adds `RunHoldsTransaction`: a rollout over at least one Agent holds
  its transaction in memory, and what it picks from is within its Agents.
* `RecordsTruthful`: `Spec => []RecordsAreTruthful`. The strengthening
  `TrackInv` follows every deployment from the queue to the report: `Tracked(a)`
  says that commands, the activation and reports of one Agent carry distinct
  identifiers in order, that the record awaiting an answer is the newest of them,
  and that the configuration running is the one of the last finished activation.
  Each action is then a lemma, and the theorem combines them by temporal
  reasoning.

`SingBoxManagerProofs` proves, for all shapes, memberships, commands, slots and
budgets that satisfy `ConstantsAssumption`, in layers that rest on each other:

* `TypeCorrect`, which needs that a request has a candidate until it ends and that
  only shapes with the managed-user service carry memberships in a configuration.
* `OneProcessAlways` and `RestartArmedAlways`, from `Supervised`: a live process is
  the child, or the one a request is about to stop; an armed timer excludes a
  child; while a process is being replaced no timer is armed and nothing restarts
  by itself. Neither property is inductive without knowing who holds the process
  in the middle of an activation.
* `SettledAgreeAlways`, for budgets without `repair`, from `Agreement`: up to the
  stop the old configuration is in all three places unless the request is dirty,
  after the installation the file is the candidate, before the relaunch it is the
  old one again.
* `AckedRevocation`, for budgets without `repair` and `restore`, from `Enforced`:
  whatever the manager can still activate (file, memory, candidate) or enforce
  (memory, sidecar) lies within what is granted, and without an active
  configuration there is neither file nor process. The two violating runs show
  that neither proviso can be dropped.
* `StartClosed`: a start never lets in more than the persisted authority, under
  all faults.

`MaintenanceProofs` proves, for any number of releases, requests and faults
(`ConstantsAssumption`):

* `TypeCorrect`, which needs `HasRequest`: a helper that was started finds a
  request, and after its claim works on a real one. The path unit starts it on a
  file, and nobody but the helper itself takes that file away.
* `OneRequestAlways`: it is inductive by itself, because the second look of
  `Schedule` is at the claimed file.
* `AppliedAlwaysInstalled` and `NeverDowngrades`, from `KnowsInstalled`: until it
  installs, the helper's idea of the installed release is right, what passed the
  comparison is newer, and what it calls applied is installed. The installed
  release therefore only grows, which keeps the word applied true while it travels
  through result file, report and entry (`Writes` lists what a step may write).
* `AlwaysPaired`, from `PairedInv`: at each step of `replaceComponents` the helper's place
  tells which of the two files is moved aside or new, and the two it remembers are
  of one release, so that restoring them makes the pair whole again.
* `AppliedAlwaysRunning`, from `RunningInv`: as long as a result says applied and the
  service does not run that release, the claim is there and the helper is not at its
  end, so the restart or the rewriting of the result is still ahead.

The second half of `FleetDeploymentProofs` rests on the two theorems of the first
and proves, for every fleet, set of topologies and number of edits, crashes, lost
sessions, timeouts, rejections and failed writes, what makes the rollout a
transaction. Two hypotheses about the budgets are needed. `CommittedJournalsGo`: there
is no failure to remove the journal of a *committed* rollout. `FleetUnlink` (finding 1)
shows what happens when that removal fails; the removal after a rollback may fail.
`DisownedCommitsGo`: no master restarts on the file of a commit that was reported as
failed while that file is the last one saved; section 11 shows what such a restart
does. Writes may fail before or after their rename nevertheless, and the master may
restart on the file of any other failed write.

* The inductive invariant `Inv` follows the configuration of each Agent. `Settled(a,
  c)` says that the Agent runs c and that every command, activation and record that
  can still reach it says c. Agents that no uncommitted journal names as touched are
  settled on the applied topology (`HomeInv`); while a rollout moves forward, the
  Agents it is done with are settled on the candidate, the others wait in order of
  depth (`ForwardInv`); while it is undone, those it is done with are back
  (`UndoInv`). `JournalInv` ties the transaction in memory to the one on disk,
  `StoreInv` and `JobInv` the store and the job to the run. None of the properties is
  inductive without `Settled`: what an Agent runs is changed by commands queued
  several steps, or a lost session, earlier.
* `JournalCovers`, `JournalRestores`, `RecoveryOfOpen` and `ReceiversFirst` follow
  from `Inv`.
* `RolloutIsAtomic` is the refinement of `AtomicFleet`: the touch of an Agent
  declares it, the end of an activation installs, `MarkTopologyApplied` commits, the
  end of the rollback aborts, and every other step (a restart included) leaves
  `committed`, `moving` and `cfg` of the mapping alone.

`UserPlaneProofs` proves `RevocationHolds` for any members, graphs, addresses and
events (`PlaneAssumption`: there is a place, `Unknown` and `NoConf` are not ordinary
values). The Agent filters every configuration by the authority it keeps, so a bound
on the users of that authority and of the running configuration bounds whatever is
activated later. `PlaneInv` carries such a bound from the compilation of an authority
(`SyncInv`) over the two queues (`QueueInv`) to its report; it also says that at most
one authority is under way and that the Agent's revision is not ahead of it, which is
why no older one can be answered in its stead.

`MaintenanceProofs` proves `MovesWhole` for any uploads, edits, crashes and
faults. `ExportInv` says that the previous reading is at most, and the current one at
least, what all stores held at one instant outside any rollout; two readings that
agree are that instant. The invariant of the installation says which files are
staged, live and backed up between any two renames (`Announced`, `Prefix`,
`BackedUp`), and that without a marker the live files are of one master (`LiveInv`).

`AccountingProofs` proves `AccountsStaySound` for any identities, plans, quota
periods, counter widths and numbers of changes, days, bytes, crashes and faults
(`BillConstants`; `FirstMembers` are as `grantMembership` makes them on the first
day). Three parts carry the invariant `BillInv`. `FilesInv` says what memory, state
file and ledger hold at each phase of a change: they agree until the file is renamed,
then the file is the change, and a master that stopped in between leaves a file of a
later revision, so that a start after it has one no Agent knows. `AuthorityInv`
carries over that a revision was used for one set of users to the revision an Agent
holds and to the one the enforcer is delivering. `UsageInv` is an account of the
bytes: what is charged, plus what the report under way and the counters may still
charge (`Owed`), is at most what was carried. For running totals that needs
`DeltaTriangle`: a total counted from the last one accepted owes at most what it owes
by way of the total that was lost in between, whatever restarts and epochs lie there.

`ProxyNodeStoreProofs` proves `MembersKept` and `AuthorityRevised` for any nodes,
users, Agents, ports and shapes, from `StoreConstants` and two assumptions about the
values: the stores a behaviour starts from are well formed, with live credentials of
the deployed shape, agreeing shared listeners and secrets that were drawn
(`FirstStoresAreSound`), and `NoSnapshot` is not a store (`NoSnapshotIsNoStore`). Both
theorems are about behaviours with `[]NothingOvertaken`: no roll-back of a refused edit
finds something else deployed for a node than its snapshot has. For that, another edit
has to be rolled out between deployer.go:497 and 429, and then credentials no longer
fit, as section 11 shows; removals, edits, user decisions and rollouts that leave the
deployed shapes of those nodes alone are covered in that window.
`StoreInv` has three parts.

* `PlaneInv`: the store is `Kept`, and so are the snapshot of an edit and that of a
  refused edit while there is one. In a kept
  store the live secret of every membership has the deployed shape, the one that will
  be live has the shape of the draft, neither is older than the membership, and nodes
  that share a listener agree on it. Each mutation is a lemma from a kept store to a
  kept store. Applying or undoing an edit then makes live only secrets of the shape it
  deploys. What the user plane does leaves the topology alone (`SameTopology`), so a
  snapshot stays comparable with the live store however many members change meanwhile
  (`SnapshotOf`).
* `DecisionInv`: the members of a node that was not brought back are those last decided
  on, each younger than the decision that granted it, and no node is created under an
  identity anything was decided for. This has to hold through the steps where a
  snapshot older than the decisions is put back; a membership of both the snapshot and
  the live store is told apart by its id.
* `AgentInv`: one Agent at a time is on its way out; one that was removed is referred
  to by neither plane, nor by the snapshot of an edit that may still be undone, unless it
  was removed while a refused edit that brings it back was waiting (`raced`).

`AuthorityHasRevision` is an action property. It follows from `PlaneInv`: what the
Agents must be told is a function of the applied nodes and of the members, and each
step that changes either moves the user revision.

`WebSessionsProofs` proves `SessionsStayCurrent` and `RestartKeepsSessions` for any
accounts, names, passwords, tokens and requests. The assumptions are `WebConstants`
and `FirstIdentitiesAreSound`: the identity files found at the first start are well
typed, and one in the current format can be loaded. The invariant `WebInv` has six
parts.

* `TypesInv`; `GateInv`, at most one request derives a password at a time, and the gate
  is taken exactly then; `RequestsInv`, what a request knows at its next step.
* `StandingInv`: a running Master's identity file is loadable and holds for every user
  the account in memory or one that is ahead of it by a change nobody was told of
  (`Ahead`); while no Master runs nothing is in memory; a token that was reported as
  ended is the invitation of no account.
* `PlacesInv` is the heart of it. A session may be in three places: the map of its
  manager (`browsing`), its file (`sessionFile`) and the copy a background write took
  (`activity.snapshot`). In all three its token was not reported as ended and is no
  invitation, its deadline is covered by what the browser was promised (`Lasting`), and
  no token is both an operator's and a user's. A late write is how a logout could be
  undone, and a restart reads only the file, so it is not enough to know this of the
  map.
* `CredentialInv`: a session of a user whose account still has the session's revision
  was opened with its credential, in memory and in the file (`Vouched`); an operator's
  session belongs to the credential in force, and on file to the credential its file is
  bound to (`BoundTo`), across a replacement of the operator while the Master is
  stopped and the migration of the former files.

`SessionsSurviveRestart` is an action property of the start (`OpenKeeps`).

`ControlPlaneProofs` proves `AccessStaysCurrent` for any Servers, hosts, tokens and
streams. `CredentialsInv` says that the registry and its file are each sound (no
dead credential, nothing shared between two Servers), also after a failed write;
`SessionsInv` that a stream which may become a session was not ended; `RecordsInv`
that whoever holds the mutation lock finds the record the request is about, and
which records the file may lack.

It proves `PoolStaysSound` for any Servers, addresses and links. That the applied
topology can be rendered again is not a matter of the registry: the invariant
`FleetInv` says that every configuration the relay was given, is being given or will
be replayed has on every link an address of the family the link pins (`Dialable`),
and such an address is what rendering falls back on.

And it proves `ReadsStaySound` for any requests, formats, rules, rule sets, cache
limits and lifetimes (`ReadConstants`: they are numbers, and an answer that there is
none stays fresh for less time than a content, a content for less than it stays
usable). The invariant `ReadInv` says of each request which state of the store or
which fetch it carries (`ClientOk`, `FetcherOk`), of the cache of subscriptions that
what lies under a key is the rendering of that key and that its counter is never
below what lies there (`Pages`), that the requests and the table of fetches agree on
who fetches what (`JoinInv`), that the rules are numbered as they lie (`Ordered`), and
that between its look at the names and the file one refresh excludes the others
(`CatalogInv`).

The strengthenings were checked as invariants by TLC on the instances above before
they were proved.

Model-checked only: liveness under fairness, which is out of the prover's reach
(`EditSettles`, `InterruptedIsRecoveredOnline`, `UsersConverge`, `RequestsAreServed`,
`RevocationReachesAgent`, `MigrationCompletes`, `EnrolledHostsConnect`,
`EveryRequestAnswered`, `AddressesArrive`, and the liveness of the sing-box manager);
and `EditsAreSound`, which is about routes, a recursive function over the tree, and so
needs induction over data. Every other property of the passing runs is a theorem.

## 11. Further disagreements and limits

The five findings above are the runs that expect a violation. The following were
met while modelling the other parts. Each is a formula of its module that no run
lists; added as an `INVARIANT` (or `PROPERTY` for the temporal ones) to the
configuration named, TLC shows the trace.

| formula | configuration | what happens |
|---|---|---|
| `RefusedEditIsUndone` | `MasterState` | deployer.go:379 undoes an edit whose start was refused; when a user decision taken meanwhile no longer fits the snapshot, the restoration is itself refused and the edit stays |
| `JournalCoversAgents`, `JournalRestoresApplied`, `ImplementsAtomicFleet`, each alone | `FleetSafety`, with the one budget `Give("edit" :> 1 @@ "write" :> 1 @@ "disowned" :> 1)` | store.go:1445 promises that `MarkTopologyApplied` "atomically records the topology that is actually active on the fleet", store.go:1642-1644 that a reported failure has changed nothing; when its write fails after the rename (replace_file_unix.go:19), deployer.go:1345 rolls the Agents back, the journal goes with the rollback or at the start, and a restart before the next saved state reads the new topology as applied: the Agents run the old one and nothing says so |
| `ReferenceCheckIsAtomic` | `MasterState`, store alone, `Allow(2, 0, 1)` | deployer.go:287-290 says that every mutation observes the reservation, so that the reference check of a removal remains atomic; a refused edit gives the reservation back (deployer.go:497) before it is undone (deployer.go:429), and the undoing brings back a reference to a Server that was removed in between |
| `LiveCredentialFits`, `OperationsAreAccepted` without `overtaken` | `MasterState`, with `Allow(3, 0, 0)` | in the same window another edit is made and rolled out; the snapshot that is put back under the revision read then (deployer.go:428) was taken from under another topology, and live credentials, or the next commit, no longer fit what is deployed |
| `RemovalsSurviveRestores` | `MasterState` | store.go:1488: a node deleted by an edit that is undone comes back with the memberships of the snapshot, those removed meanwhile included |
| `ResetStaysDead` | `MasterState` | store.go:777: a pending secret from before a reset can become live when the edit that drew it is undone or applied |
| `FailedChangeIsForgotten` | `MasterState` | store.go:1642-1644 says that callers never observe a reported failure after only one authority changed; a failed restoration after a failed commit leaves the JSON file changed, and a restart brings the change back |
| `UsageIsInDays` | `MasterState` | store.go:1666-1676: a removal whose second commit went through but was reported as failed is undone by writing the book again; the rows of the member come back, its days, deleted with it (accounting_sql.go:109), do not |
| `LedgerIsRestored`, `InstalledIsValidated` | `MasterState` | restore.go:285: a crash between the renames leaves a log of the old database beside the new one; restore.go:79: the marker precedes the validation, so a crash in between installs what was never validated |
| `RestoreResumes` | `MasterState`, with `Mixed` in `Unreadable` | the same mixed ledger, when SQLite does not open it: every start fails on it, so an interrupted restore is not carried through without an operator. No data is lost, `DataStaysWhole` holds |
| `ProbedHeadSurvives` | `ControlPlane` | probe.go:168-170: a probe of one family may rewrite the other from a shadow that a failed write or a heartbeat made stale |
| `RelaysDialPool` | `ControlPlane` | server.go:205-206: a relay that reconnects may be sent a profile rendered before an address change whose refresh has already looked at it |
| `OldLinkIsDead` | `ControlPlane` | docs/proxy-node-manager-design.md:858, "rotation or revocation invalidates the old URL immediately": a request that found its link before a reset is answered with the new credentials |
| `RuleSetsAreBounded` | `ControlPlane` | docs/proxy-node-manager-design.md:897-898, "retains at most 128 converted entries / 64 MiB": an entry evicted during a fetch that fails is put back without being counted |

Others are not formulas but can be seen in the models. Racing renderings of one
subscription count its bytes twice, so the cache of subscriptions shrinks over time.
A cutover that is lost together with its session leaves an Agent with a recorded
address it dials only after its next start (runner.go:502-519). In the user plane:
a mismatch repair retains the members of the suspended configuration until the next
authority, against the comment at profile_sync.go:101; a synchronisation compiled
before an address refresh or a rollout spends its revision, so a granted user may be
missing until the next user revision (`RevisionSpent`); after a suspension, an
authority equal to the stopped configuration is answered as applied while sing-box
stays stopped, when the replay was refused (manager.go:880); a repair may keep
superseding the rollback of a recovery, which the operator sees as an open
transaction.

Limits the models leave out: a profile repair that was read before and queued after
a whole refresh (server.go:1089; reading and queueing are one step here); an
`EnrollResponse` that is lost leaves a spent token (server.go:270, the operator
issues another); the pool record of a Server revoked during its connection can be
created again (server.go:475-480); a stage directory without a marker blocks later
uploads until it is removed (restore.go:36); on a host with both roles an update of
one program may put an older helper over the other's (update.go:611); an update
command lost with its session leaves the master's entry `requested`
(server.go:1270); a helper that cannot restart the service rewrites its result under
the same request (update.go:150).

## 12. Not modelled

* Formats: the JSON document compiled for sing-box, the three subscription texts,
  archives, URIs, protobuf code, cryptography, downloads. They are opaque values,
  order, success or failure in the models.
* Pages, forms, translations, style sheets, rate limiters, the list of releases
  (a stateless request), the usage by hour and the latency history: they are
  presentation or measurements that nothing else reads.
* The installer beyond the path units and the token file; process flags and
  listeners; the ACME relay, TLS readiness and policy checks of a candidate, which
  only decide whether it is refused.
