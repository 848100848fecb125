--------------------------- MODULE FleetDeployment ---------------------------
(***************************************************************************)
(* The master's fleet rollout of a Proxy Node topology                     *)
(* (internal/proxynode/deployer.go, topology_transaction.go,               *)
(* topology_reconciler.go) together with the parts it drives: the per      *)
(* Agent deployment records (internal/deployment), the control sessions    *)
(* that carry configurations and replay a profile on every reconnect       *)
(* (internal/control), and the serial activation loop of the Agents        *)
(* (internal/agent).                                                       *)
(*                                                                         *)
(* A configuration document is an opaque value, the compiler the constant  *)
(* function Compile.  The clock is not modelled: a deadline that passes is *)
(* a step that spends some of budget["timeout"].  Every event the          *)
(* environment may inflict (an edit, a crash, a lost session, a failed     *)
(* write, a rejected activation ...) spends its own bounded budget.        *)
(***************************************************************************)
EXTENDS Integers, Sequences, FiniteSets

CONSTANTS
    Agents,       \* identities of the enrolled Agents
    NoAgent,      \* "no Agent"
    Topologies,   \* the saved Proxy Node graphs that can be edited in
    InitialTopology, \* the graph without any Proxy Node
    NoTopology,   \* "no graph": nothing is reserved
    Cfgs,         \* the configuration documents the compiler can emit
    Empty,        \* emptyManagedConfig, also DisabledManagedConfig
    NoCfg,        \* "no configuration"
    Compile,      \* Compile[t][a]: the configuration of Agent a under t
    Depth,        \* Depth[t][a]: hop depth of a in t, -1 when t has no hop on a
    Retire,       \* Retire[old][new]: old without the listeners that clash with new, or NoCfg
    NoTx,         \* "no transaction journal"
    Ids,          \* deployment identifiers, reused once nothing names them
    Budgets       \* how many events of each kind the environment may inflict

Kinds == {"edit", "manual", "refresh", "crash", "drop", "timeout",
          "reject", "exit", "write", "unlinkUndone", "unlinkCommitted",
          "compile", "address", "disowned"}

ASSUME ConstantsAssumption ==
    /\ NoAgent \notin Agents
    /\ InitialTopology \in Topologies
    /\ NoTopology \notin Topologies
    /\ Empty \in Cfgs
    /\ NoCfg \notin Cfgs
    /\ Compile \in [Topologies -> [Agents -> Cfgs]]
    /\ Depth \in [Topologies -> [Agents -> Nat \cup {-1}]]
    /\ \A t \in Topologies, a \in Agents : Depth[t][a] = -1 => Compile[t][a] = Empty
    /\ \A a \in Agents : Depth[InitialTopology][a] = -1
    /\ Retire \in [Cfgs -> [Cfgs -> Cfgs \cup {NoCfg}]]
    /\ Ids \subseteq Nat \ {0}
    /\ Budgets \subseteq [Kinds -> Nat]

VARIABLES
    store,    \* proxynode.Store: desired and applied topology with their revisions, and its file
    journal,  \* durable topology transaction file, or NoTx
    rec,      \* durable latest deployment record of every Agent
    tx,       \* Deployer.transaction, the journal held in memory
    job,      \* Deployer.job, the current fleet deployment
    run,      \* the goroutine of that job: Deployer.run or rollbackTopology
    reserved, \* Deployer.mutationReserved with the edit saved under it, and a refused edit to undo
    rc,       \* TopologyReconciler.loop: the forced and the blocked revision
    online,   \* whether the Agent has a control session, its profile replay queued
    wire,     \* deploy commands queued on the session, oldest first
    back,     \* deployment reports on their way to the master
    work,     \* the activation the Agent is busy with
    running,  \* the configuration the Agent's sing-box runs
    budget    \* what is left of the budget

masterVars == <<tx, job, run, reserved, rc>>
netVars == <<online, wire, back>>
vars == <<store, journal, rec, tx, job, run, reserved, rc,
          online, wire, back, work, running, budget>>

Spend(k) == budget[k] > 0 /\ budget' = [budget EXCEPT ![k] = @ - 1]

-----------------------------------------------------------------------------
(* What the Store holds in memory and what its file holds.  A write that   *)
(* fails leaves memory alone, but replaceStateFile may have renamed the    *)
(* new file into place before it failed.                                   *)

Contents == [revision : Nat, applied : Nat, desired : Topologies, active : Topologies]

Held == [revision |-> store.revision, applied |-> store.applied,
         desired |-> store.desired, active |-> store.active]
Edited(t) == [Held EXCEPT !.revision = @ + 1, !.desired = t]
Committed == [Held EXCEPT !.applied = store.revision, !.active = store.desired]

Saved(c) == [revision |-> c.revision, applied |-> c.applied,
             desired |-> c.desired, active |-> c.active, file |-> c]

Persist(c) == store' = Saved(c)
PersistFails(c) == Spend("write") /\ store' \in {store, [store EXCEPT !.file = c]}

(* The file holds a commit that MarkTopologyApplied reported as failed.    *)
Disowned == store.file.applied # store.applied \/ store.file.active # store.active

-----------------------------------------------------------------------------
(* Deployment records.  "failed" stands for the terminal failures          *)
(* (validation, activation, internal, delivery); the queued state lives    *)
(* only inside QueueDeployment.                                            *)

Statuses == {"none", "deploying", "applied", "runtime_failed", "failed"}
Record == [id : Ids \cup {0}, status : Statuses, cfg : Cfgs, last : Cfgs \cup {NoCfg}]

NoRecord == [id |-> 0, status |-> "none", cfg |-> Empty, last |-> NoCfg]

AppliedConfiguration(r) ==
    IF r.status \in {"applied", "runtime_failed"} THEN r.cfg ELSE r.last

deploymentRecordBusy(r) == r.status = "deploying"

isTerminalDeployment(r) == r.status \in {"applied", "runtime_failed", "failed"}

(* Create followed by the transition to deploying: the new record replaces *)
(* the previous one and inherits what the Agent last confirmed.            *)
Create(a, i, c, status) ==
    [id |-> i, status |-> status, cfg |-> c, last |-> AppliedConfiguration(rec[a])]

(* Transition, with setLastApplied when the new status is "applied".       *)
Transition(r, status) ==
    [r EXCEPT !.status = status,
              !.last = IF status = "applied" THEN r.cfg ELSE @]

-----------------------------------------------------------------------------
(* Topologies.                                                             *)

AgentsOf(t) == {a \in Agents : Depth[t][a] # -1}

(* topologyTransaction: rb is RollbackConfig, from the topology whose hop  *)
(* depths gave Agents their recorded order.                                *)
Transaction == [rev : Nat, phase : {"deploying", "committing"}, from : Topologies,
                agents : SUBSET Agents, touched : SUBSET Agents, rb : [Agents -> Cfgs]]

ASSUME NoTxAssumption == NoTx \notin Transaction

(* changedTopologyAgents: every Agent of the candidate and of the applied  *)
(* topology whose last confirmed configuration is not the candidate's.     *)
changedTopologyAgents ==
    {a \in AgentsOf(store.desired) \cup AgentsOf(store.active) :
        AppliedConfiguration(rec[a]) # Compile[store.desired][a]}

(* changedAgents, for the refresh of the applied topology.                 *)
changedAgents ==
    {a \in AgentsOf(store.active) :
        rec[a].status # "applied" \/ rec[a].cfg # Compile[store.active][a]}

(* Mutant: the rollback is rendered from the draft.                        *)
compileDesiredFleet == Compile[store.desired]

(* compileAppliedFleet: what a rollback reinstalls on each Agent.          *)
compileAppliedFleet ==
    [a \in Agents |->
        IF a \in AgentsOf(store.active) /\ AppliedConfiguration(rec[a]) # NoCfg
        THEN AppliedConfiguration(rec[a]) ELSE Empty]

(* Mutant: senders before receivers.                                       *)
Shallowest(t, S) == {a \in S : \A b \in S : Depth[t][a] <= Depth[t][b]}

(* deploymentOrder and orderedAgentSubset: deepest hop first.  The code    *)
(* breaks ties by identifier, the model either way.                        *)
Deepest(t, S) == {a \in S : \A b \in S : Depth[t][b] <= Depth[t][a]}

Waiting(S) == {a \in S : ~online[a] \/ deploymentRecordBusy(rec[a])}

-----------------------------------------------------------------------------
(* The fleet job.                                                          *)

NoJob == [status |-> "none", plane |-> "topology", rev |-> 0]
Job == [status : {"none", "pending", "active", "failed", "applied"},
        plane : {"topology", "recovery", "refresh"}, rev : Nat]
Active == job.status = "active"

(* pc and stage give the point the goroutine has reached: picking the next *)
(* Agent of todo, queueing on cur, waiting for deployment id, ...; stage   *)
(* is what it is installing.                                               *)
Run == [pc : {"idle", "pick", "queue", "wait", "confirm", "mark", "clear"},
        stage : {"retire", "deploy", "undo"},
        plane : {"topology", "refresh"}, cand : Topologies, rev : Nat,
        agents : SUBSET Agents, todo : SUBSET Agents, touched : SUBSET Agents,
        cur : Agents \cup {NoAgent}, id : Ids \cup {0}, failed : BOOLEAN]
NoRun == [pc |-> "idle", stage |-> "deploy", plane |-> "topology",
          cand |-> InitialTopology, rev |-> 0, agents |-> {}, todo |-> {},
          touched |-> {}, cur |-> NoAgent, id |-> 0, failed |-> FALSE]

NewJob(status, plane, rev) == [status |-> status, plane |-> plane, rev |-> rev]
NewRun(plane, cand, rev, S) ==
    [NoRun EXCEPT !.pc = "pick", !.plane = plane, !.cand = cand, !.rev = rev,
                  !.agents = S, !.todo = S]

(* pendingTopologyDeploymentLocked *)
Pending == job' = NewJob("pending", "topology", store.revision)

(* startTransactionRecoveryLocked.  The phase of the journal is not read.  *)
StartRecovery ==
    /\ tx # NoTx
    /\ \/ /\ Waiting(tx.touched) # {}
          /\ Pending
          /\ UNCHANGED <<tx, journal, run>>
       \/ /\ tx.touched = {}     \* cut off before its first Agent
          /\ Pending
          /\ journal' = NoTx
          /\ tx' = NoTx
          /\ UNCHANGED run
       \/ /\ tx.touched # {}
          /\ Waiting(tx.touched) = {}
          /\ job' = NewJob("active", "recovery", tx.rev)
          /\ run' = [NewRun("topology", tx.from, tx.rev, tx.touched)
                       EXCEPT !.stage = "undo", !.touched = tx.touched]
          /\ UNCHANGED <<tx, journal>>

(* The transaction of a rollout that changes the Agents of S.              *)
NewTransaction(S) ==
    [rev |-> store.revision, phase |-> "deploying", from |-> store.active,
     agents |-> S, touched |-> {}, rb |-> compileAppliedFleet]

(* start for the topology plane, past the recovery check: the edit waits   *)
(* for its Agents, or the journal is written and the run starts.  A run    *)
(* that changes no Agent writes no journal.                                *)
Rollout ==
    LET changed == changedTopologyAgents IN
    \/ /\ Waiting(changed) # {}
       /\ Pending
       /\ UNCHANGED <<tx, journal, run>>
    \/ /\ Waiting(changed) = {}
       /\ IF changed = {} THEN UNCHANGED <<tx, journal>>
          ELSE tx' = NewTransaction(changed) /\ journal' = tx'
       /\ job' = NewJob("active", "topology", store.revision)
       /\ run' = NewRun("topology", store.desired, store.revision, changed)

(* Mutant: a new rollout does not wait for the recovery of the last one.   *)
StartRolloutOverJournal == Rollout

StartRollout == tx = NoTx /\ Rollout

(* start(deploymentTopology): an interrupted transaction is recovered      *)
(* before anything newer is compiled.                                      *)
StartTopology == StartRecovery \/ StartRollout

(* A hop whose Agent has no known address parks the edit.                  *)
AddressUnavailable ==
    /\ tx = NoTx
    /\ Spend("address")
    /\ Pending
    /\ UNCHANGED <<tx, journal, run>>

(* start returns an error and no job: the candidate does not compile, its  *)
(* journal cannot be written (though it may have replaced the file), or    *)
(* the journal of a transaction without a touched Agent stays.             *)
StartError ==
    /\ \/ tx = NoTx /\ Spend("compile") /\ UNCHANGED journal
       \/ /\ tx = NoTx
          /\ Spend("write")
          /\ changedTopologyAgents # {} /\ Waiting(changedTopologyAgents) = {}
          /\ journal' \in {journal, NewTransaction(changedTopologyAgents)}
       \/ tx # NoTx /\ tx.touched = {} /\ Spend("unlinkUndone") /\ UNCHANGED journal
    /\ UNCHANGED <<tx, job, run>>

-----------------------------------------------------------------------------
(* Operator and reconciler: who calls start.                               *)

(* Trigger: the reconciler is woken for the revision desired right now.    *)
Triggered == [rc EXCEPT !.force = store.revision]

(* reserved.edit is the graph an edit has replaced, until start has been   *)
(* called for it; reserved.undo the graph that a refused edit still has to *)
(* restore, and reserved.rev the revision it was refused at.               *)
NoReservation == [edit |-> NoTopology, undo |-> NoTopology, rev |-> 0]
Reserved == reserved.edit # NoTopology

(* MutateAndStart, first half: the reservation is taken and the edit saved.*)
Mutate(t) ==
    /\ ~Active
    /\ ~Reserved
    /\ t # store.desired
    /\ Spend("edit")
    /\ reserved' = [reserved EXCEPT !.edit = store.desired]
    /\ Persist(Edited(t))
    /\ UNCHANGED <<journal, rec, tx, job, run, rc, netVars, work, running>>

(* The edit cannot be saved, and the reservation is given back.            *)
MutateFails(t) ==
    /\ ~Active
    /\ ~Reserved
    /\ t # store.desired
    /\ PersistFails(Edited(t))
    /\ UNCHANGED <<journal, rec, masterVars, netVars, work, running>>

(* A later write of the Store (users, memberships, usage) succeeds.        *)
SaveStore ==
    /\ store.file # Held
    /\ Persist(Held)
    /\ UNCHANGED <<journal, rec, masterVars, netVars, work, running, budget>>

(* MutateAndStart, second half: start under the reservation, which it      *)
(* gives back; a pending edit wakes the reconciler.                        *)
StartReserved ==
    /\ Reserved
    /\ reserved' = [reserved EXCEPT !.edit = NoTopology]
    /\ (StartTopology /\ UNCHANGED budget) \/ AddressUnavailable
    /\ rc' = IF job'.status = "pending" THEN Triggered ELSE rc
    /\ UNCHANGED <<store, rec, netVars, work, running>>

(* start fails: its deferred call has given the reservation back before    *)
(* MutateAndStart restores anything.  One refused edit at a time waits.    *)
RefuseEdit ==
    /\ Reserved
    /\ reserved.undo = NoTopology
    /\ StartError
    /\ reserved' = [edit |-> NoTopology, undo |-> reserved.edit, rev |-> store.revision]
    /\ UNCHANGED <<store, rec, rc, netVars, work, running>>

(* RestoreTopology saves the previous graph under a new revision; it       *)
(* answers ErrConflict when the revision has moved since it was read.      *)
RestoreTopology ==
    /\ reserved.undo # NoTopology
    /\ \/ Persist(Edited(reserved.undo)) /\ UNCHANGED budget
       \/ reserved.rev # store.revision /\ UNCHANGED <<store, budget>>
       \/ PersistFails(Edited(reserved.undo))
    /\ reserved' = [reserved EXCEPT !.undo = NoTopology, !.rev = 0]
    /\ UNCHANGED <<journal, rec, tx, job, run, rc, netVars, work, running>>

(* The operator presses Deploy.                                            *)
ManualStart ==
    /\ ~Active
    /\ ~Reserved
    /\ Spend("manual")
    /\ StartTopology
    /\ UNCHANGED <<store, rec, reserved, rc, netVars, work, running>>

(* StartAppliedRefresh: re-render the applied topology, never a draft.     *)
StartAppliedRefresh ==
    /\ ~Active
    /\ ~Reserved
    /\ tx = NoTx
    /\ Spend("refresh")
    /\ job' = NewJob("active", "refresh", store.applied)
    /\ run' = NewRun("refresh", store.active, store.applied, changedAgents)
    /\ UNCHANGED <<store, journal, rec, tx, reserved, rc, netVars, work, running>>

(* One pass of TopologyReconciler.loop.  A failed job blocks its revision  *)
(* until a trigger forces it; revisions only grow, so a blocked older      *)
(* revision needs no clearing.                                             *)
FailedHere ==
    /\ job.status = "failed"
    /\ job.rev = store.revision
    /\ \/ job.plane = "topology" /\ tx = NoTx
       \/ job.plane = "recovery" /\ tx # NoTx

Blocked == rc.force # store.revision /\ (rc.blocked = store.revision \/ FailedHere)

(* Mutant: no periodic retry, only triggers start a pending edit.          *)
ShouldAttemptOnTrigger == store.revision # store.applied /\ rc.force = store.revision

ShouldAttempt == store.revision # store.applied /\ ~Blocked

(* The pass that starts nothing: no attempt is due, or start answers       *)
(* ErrDeploymentActive.  The trigger is consumed all the same.             *)
TickIdle ==
    /\ ~ShouldAttempt \/ Active \/ Reserved
    /\ rc' = [force |-> 0, blocked |-> IF Blocked THEN store.revision ELSE 0]
    /\ UNCHANGED <<store, journal, rec, tx, job, run, reserved, netVars, work, running, budget>>

(* The pass that starts the desired topology or a recovery.                *)
TickStart ==
    /\ ShouldAttempt
    /\ ~Active
    /\ ~Reserved
    /\ \/ StartTopology /\ rc' = [force |-> 0, blocked |-> 0] /\ UNCHANGED budget
       \/ AddressUnavailable /\ rc' = [force |-> 0, blocked |-> 0]
       \/ StartError /\ rc' = [force |-> 0, blocked |-> store.revision]
    /\ UNCHANGED <<store, rec, reserved, netVars, work, running>>

-----------------------------------------------------------------------------
(* QueueDeployment and the goroutine of the job.                           *)

NoWork == [id |-> 0, cfg |-> Empty, live |-> FALSE]
Work == {w \in [id : Ids \cup {0}, cfg : Cfgs, live : BOOLEAN] : w.live => w.id # 0}
Idle(a) == work[a].id = 0

UsedIds(a) ==
    {rec[a].id, work[a].id} \cup {wire[a][i].id : i \in DOMAIN wire[a]}
        \cup {back[a][i].id : i \in DOMAIN back[a]}
        \cup (IF run.cur = a THEN {run.id} ELSE {})

(* A fresh random identifier: the least one nothing refers to.             *)
FreshId(a, i) ==
    /\ i \in Ids \ UsedIds(a)
    /\ \A j \in Ids : j < i => j \in UsedIds(a)

(* queueDeployment for a ready session; a record still awaiting its report *)
(* refuses the next one.                                                   *)
CanQueue(a) == online[a] /\ ~deploymentRecordBusy(rec[a])

Queue(a, c, i) ==
    /\ rec' = [rec EXCEPT ![a] = Create(a, i, c, "deploying")]
    /\ wire' = [wire EXCEPT ![a] = Append(@, [id |-> i, cfg |-> c])]

(* What the end of a session takes with it; the activation under way goes  *)
(* on without anybody to report to.                                        *)
SessionEnds(a) ==
    /\ online' = [online EXCEPT ![a] = FALSE]
    /\ wire' = [wire EXCEPT ![a] = <<>>]
    /\ back' = [back EXCEPT ![a] = <<>>]
    /\ work' = [work EXCEPT ![a].live = FALSE]

(* rollbackTopology entered with the Agents this run recorded as touched.  *)
ToRollback ==
    run' = [run EXCEPT !.pc = "pick", !.stage = "undo", !.todo = run.touched,
                       !.cur = NoAgent, !.id = 0, !.failed = FALSE]

(* deployAgentConfig returned: an error rolls a rollout back, and is only  *)
(* collected by a refresh or a rollback.                                   *)
StepDone(ok) ==
    IF ~ok /\ run.plane = "topology" /\ run.stage # "undo" THEN ToRollback
    ELSE run' = IF ok /\ run.stage = "retire"
                THEN [run EXCEPT !.pc = "queue", !.stage = "deploy", !.id = 0]
                ELSE [run EXCEPT !.pc = "pick", !.todo = @ \ {run.cur}, !.cur = NoAgent,
                                 !.id = 0, !.failed = @ \/ ~ok]

Finish(status) ==
    /\ job' = [job EXCEPT !.status = status]
    /\ run' = NoRun

(* The next Agent of a rollout: its touch is durable before any command.   *)
(* A failed write may have reached the journal all the same.               *)
RunTouch(a) ==
    /\ run.pc = "pick" /\ run.stage = "deploy" /\ run.plane = "topology"
    /\ a \in Deepest(run.cand, run.todo)
    /\ tx' = [tx EXCEPT !.touched = @ \cup {a}]
    /\ \/ /\ journal' = tx'
          /\ run' = [run EXCEPT !.pc = "queue", !.cur = a, !.touched = @ \cup {a},
                        !.stage = IF Retire[tx.rb[a]][Compile[run.cand][a]] = NoCfg
                                  THEN "deploy" ELSE "retire"]
          /\ UNCHANGED budget
       \/ /\ Spend("write")
          /\ journal' \in {journal, tx'}
          /\ ToRollback
    /\ UNCHANGED <<store, rec, job, reserved, rc, netVars, work, running>>

(* The traffic sample taken from an applied entrance before it is touched  *)
(* fails: the Agent is gone or does not answer in time.                    *)
SampleFails(a) ==
    /\ run.pc = "pick" /\ run.stage = "deploy" /\ run.plane = "topology"
    /\ a \in Deepest(run.cand, run.todo) \cap AgentsOf(store.active)
    /\ IF online[a] THEN Spend("timeout") ELSE UNCHANGED budget
    /\ ToRollback
    /\ UNCHANGED <<store, journal, rec, tx, job, reserved, rc, netVars, work, running>>

(* The next Agent of a refresh or of a rollback.                           *)
RunNext(a) ==
    /\ run.pc = "pick"
    /\ \/ run.stage = "deploy" /\ run.plane = "refresh" /\ a \in Deepest(run.cand, run.todo)
       \/ run.stage = "undo" /\ tx # NoTx /\ a \in Deepest(tx.from, run.todo)
    /\ run' = [run EXCEPT !.pc = "queue", !.cur = a]
    /\ UNCHANGED <<store, journal, rec, tx, job, reserved, rc, netVars, work, running, budget>>

(* The configuration deployAgentConfig sends to cur.                       *)
StageCfg ==
    CASE run.stage = "retire" -> Retire[tx.rb[run.cur]][Compile[run.cand][run.cur]]
      [] run.stage = "deploy" -> Compile[run.cand][run.cur]
      [] run.stage = "undo" -> tx.rb[run.cur]

RunQueue ==
    /\ run.pc = "queue"
    /\ CanQueue(run.cur)
    /\ \E i \in Ids :
          /\ FreshId(run.cur, i)
          /\ \/ /\ Queue(run.cur, StageCfg, i)
                /\ run' = [run EXCEPT !.pc = "wait", !.id = i]
                /\ UNCHANGED <<online, back, work, budget>>
             \/ /\ Spend("drop")
                /\ rec' = [rec EXCEPT ![run.cur] = Create(run.cur, i, StageCfg, "failed")]
                /\ SessionEnds(run.cur)
                /\ StepDone(FALSE)
    /\ UNCHANGED <<store, journal, tx, job, reserved, rc, running>>

(* The Agent is offline, or its record awaits a report.                    *)
RunRefused ==
    /\ run.pc = "queue"
    /\ ~CanQueue(run.cur)
    /\ StepDone(FALSE)
    /\ UNCHANGED <<store, journal, rec, tx, job, reserved, rc, netVars, work, running, budget>>

(* waitForDeployment: the same record must become terminal.                *)
RunReported ==
    /\ run.pc = "wait"
    /\ rec[run.cur].id = run.id
    /\ isTerminalDeployment(rec[run.cur])
    /\ StepDone(rec[run.cur].status = "applied")
    /\ UNCHANGED <<store, journal, rec, tx, job, reserved, rc, netVars, work, running, budget>>

(* The wait times out: always, once another record has replaced the one    *)
(* waited for.                                                             *)
RunTimeout ==
    /\ run.pc = "wait"
    /\ IF rec[run.cur].id = run.id
       THEN deploymentRecordBusy(rec[run.cur]) /\ Spend("timeout")
       ELSE UNCHANGED budget
    /\ StepDone(FALSE)
    /\ UNCHANGED <<store, journal, rec, tx, job, reserved, rc, netVars, work, running>>

(* Every Agent has answered: a refresh is over, and has failed too when    *)
(* the user revision (not modelled) moved meanwhile; a rollout goes on to  *)
(* the confirmation unless the desired revision moved.                     *)
RunDeployed ==
    /\ run.pc = "pick" /\ run.stage = "deploy" /\ run.todo = {}
    /\ \/ /\ run.plane = "refresh"
          /\ \E usersMoved \in BOOLEAN :
                Finish(IF run.failed \/ usersMoved THEN "failed" ELSE "applied")
       \/ /\ run.plane = "topology"
          /\ IF store.revision = run.rev
             THEN run' = [run EXCEPT !.pc = "confirm", !.todo = run.agents]
             ELSE ToRollback
          /\ UNCHANGED job
    /\ UNCHANGED <<store, journal, rec, tx, reserved, rc, netVars, work, running, budget>>

(* confirmExpectedConfiguration: waits while the record is busy.           *)
RunConfirm(a) ==
    LET r == rec[a] IN
    /\ run.pc = "confirm"
    /\ a \in Deepest(run.cand, run.todo)
    /\ \/ /\ r.status = "applied" /\ r.cfg = Compile[run.cand][a]
          /\ run' = [run EXCEPT !.todo = @ \ {a}]
          /\ UNCHANGED budget
       \/ /\ isTerminalDeployment(r)
          /\ ~(r.status = "applied" /\ r.cfg = Compile[run.cand][a])
          /\ ToRollback
          /\ UNCHANGED budget
       \/ /\ ~isTerminalDeployment(r)
          /\ Spend("timeout")
          /\ ToRollback
    /\ UNCHANGED <<store, journal, rec, tx, job, reserved, rc, netVars, work, running>>

(* markTransactionCommitting *)
RunCommitting ==
    /\ run.pc = "confirm" /\ run.todo = {} /\ run.agents # {}
    /\ tx' = [tx EXCEPT !.phase = "committing"]
    /\ \/ /\ journal' = tx'
          /\ run' = [run EXCEPT !.pc = "mark"]
          /\ UNCHANGED budget
       \/ /\ Spend("write")
          /\ journal' \in {journal, tx'}
          /\ ToRollback
    /\ UNCHANGED <<store, rec, job, reserved, rc, netVars, work, running>>

(* MarkTopologyApplied; it refuses a revision that is no longer current.   *)
(* When it fails, the file may hold the commit that is now rolled back.    *)
RunMarkApplied ==
    /\ \/ run.pc = "mark"
       \/ run.pc = "confirm" /\ run.todo = {} /\ run.agents = {}
    /\ \/ /\ store.revision = run.rev
          /\ Persist(Committed)
          /\ IF run.agents = {} THEN Finish("applied")
             ELSE run' = [run EXCEPT !.pc = "clear"] /\ UNCHANGED job
          /\ UNCHANGED budget
       \/ /\ IF store.revision = run.rev THEN PersistFails(Committed)
             ELSE UNCHANGED <<store, budget>>
          /\ ToRollback
          /\ UNCHANGED job
    /\ UNCHANGED <<journal, rec, tx, reserved, rc, netVars, work, running>>

(* clearTransaction after the commit.  When the journal cannot be removed  *)
(* the job fails and the transaction stays in memory.                      *)
RunClear ==
    /\ run.pc = "clear"
    /\ \/ journal' = NoTx /\ tx' = NoTx /\ Finish("applied") /\ UNCHANGED budget
       \/ Spend("unlinkCommitted") /\ Finish("failed") /\ UNCHANGED <<journal, tx>>
    /\ UNCHANGED <<store, rec, reserved, rc, netVars, work, running>>

(* Mutant: the journal goes although an Agent kept the candidate.          *)
RunUndoneRegardless ==
    /\ run.pc = "pick" /\ run.stage = "undo" /\ run.todo = {}
    /\ journal' = NoTx /\ tx' = NoTx
    /\ Finish("failed")
    /\ UNCHANGED <<store, rec, reserved, rc, netVars, work, running, budget>>

(* Mutant: a complete rollback leaves its journal behind.                  *)
RunUndoneKeepsJournal ==
    /\ run.pc = "pick" /\ run.stage = "undo" /\ run.todo = {}
    /\ Finish("failed")
    /\ UNCHANGED <<store, journal, rec, tx, reserved, rc, netVars, work, running, budget>>

(* The end of rollbackTopology: the journal goes only when every touched   *)
(* Agent took its old configuration back.                                  *)
RunUndone ==
    /\ run.pc = "pick" /\ run.stage = "undo" /\ run.todo = {}
    /\ \/ ~run.failed /\ tx # NoTx /\ journal' = NoTx /\ tx' = NoTx /\ UNCHANGED budget
       \/ (run.failed \/ tx = NoTx) /\ UNCHANGED <<journal, tx, budget>>
       \/ ~run.failed /\ tx # NoTx /\ Spend("unlinkUndone") /\ UNCHANGED <<journal, tx>>
    /\ Finish("failed")
    /\ UNCHANGED <<store, rec, reserved, rc, netVars, work, running>>

-----------------------------------------------------------------------------
(* Control sessions and Agents.                                            *)

(* Mutant: no empty profile for an Agent that never confirmed one.         *)
ConfirmedProfile(a) ==
    IF a \in AgentsOf(store.active) /\ ~(tx # NoTx /\ a \in tx.touched)
    THEN Compile[store.active][a] ELSE AppliedConfiguration(rec[a])

(* Mutant: a touched Agent is sent the applied topology too.               *)
AppliedProfile(a) ==
    IF a \in AgentsOf(store.active) THEN Compile[store.active][a]
    ELSE IF AppliedConfiguration(rec[a]) # NoCfg THEN AppliedConfiguration(rec[a]) ELSE Empty

(* AuthoritativeAppliedProfile as profile_sync uses it: an Agent the open  *)
(* transaction has touched keeps what it last confirmed, any other managed *)
(* Agent gets the applied topology.                                        *)
AuthoritativeProfile(a) ==
    IF a \in AgentsOf(store.active) /\ ~(tx # NoTx /\ a \in tx.touched)
    THEN Compile[store.active][a]
    ELSE IF AppliedConfiguration(rec[a]) # NoCfg THEN AppliedConfiguration(rec[a]) ELSE Empty

(* Connect: the session is registered, a record still awaiting a report is *)
(* superseded, the profile is queued before the session becomes ready, and *)
(* the reconciler is told.  Nothing else can queue for this Agent between  *)
(* these steps.                                                            *)
Connect(a) ==
    /\ ~online[a]
    /\ online' = [online EXCEPT ![a] = TRUE]
    /\ \E i \in Ids : FreshId(a, i) /\ Queue(a, AuthoritativeProfile(a), i)
    /\ rc' = Triggered
    /\ UNCHANGED <<store, journal, tx, job, run, reserved, back, work, running, budget>>

DropSession(a) ==
    /\ online[a]
    /\ Spend("drop")
    /\ SessionEnds(a)
    /\ UNCHANGED <<store, journal, rec, masterVars, running>>

(* The Agent runner holds back the next command while one is activating;   *)
(* the supervisor also finishes the activation of an earlier session first.*)
AgentTake(a) ==
    /\ Idle(a)
    /\ wire[a] # <<>>
    /\ work' = [work EXCEPT ![a] = [id |-> Head(wire[a]).id, cfg |-> Head(wire[a]).cfg,
                                    live |-> TRUE]]
    /\ wire' = [wire EXCEPT ![a] = Tail(@)]
    /\ UNCHANGED <<store, journal, rec, masterVars, online, back, running, budget>>

(* ApplyWithMode: the candidate runs, or the previous configuration still  *)
(* does.  An activation whose session is gone may be cancelled, and nobody *)
(* hears of it.                                                            *)
AgentFinish(a) ==
    /\ ~Idle(a)
    /\ work' = [work EXCEPT ![a] = NoWork]
    /\ \E ok \in BOOLEAN :
          /\ running' = IF ok THEN [running EXCEPT ![a] = work[a].cfg] ELSE running
          /\ IF ok \/ ~work[a].live THEN UNCHANGED budget ELSE Spend("reject")
          /\ back' = IF work[a].live
                     THEN [back EXCEPT ![a] = Append(@, [id |-> work[a].id, ok |-> ok])]
                     ELSE back
    /\ UNCHANGED <<store, journal, rec, masterVars, online, wire>>

(* Mutant: any report answers the record that is waiting.                  *)
HandleAnyReport(a) ==
    /\ back[a] # <<>> /\ deploymentRecordBusy(rec[a])
    /\ rec' = [rec EXCEPT ![a] = Transition(@, IF Head(back[a]).ok THEN "applied" ELSE "failed")]
    /\ back' = [back EXCEPT ![a] = Tail(@)]
    /\ UNCHANGED <<store, journal, masterVars, online, wire, work, running, budget>>

(* handleDeploymentReport: a report nobody awaits ends the session.        *)
HandleReport(a) ==
    /\ back[a] # <<>>
    /\ IF Head(back[a]).id = rec[a].id /\ deploymentRecordBusy(rec[a])
       THEN /\ rec' = [rec EXCEPT ![a] =
                          Transition(@, IF Head(back[a]).ok THEN "applied" ELSE "failed")]
            /\ back' = [back EXCEPT ![a] = Tail(@)]
            /\ UNCHANGED <<online, wire, work>>
       ELSE SessionEnds(a) /\ UNCHANGED rec
    /\ UNCHANGED <<store, journal, masterVars, running, budget>>

(* LatestDeployment and queueDeployment past DeploymentReportGrace.  The   *)
(* grace outlasts every wait of the deployer for the same record.          *)
ExpireRecord(a) ==
    /\ deploymentRecordBusy(rec[a])
    /\ ~(run.pc = "wait" /\ run.cur = a /\ run.id = rec[a].id)
    /\ Spend("timeout")
    /\ rec' = [rec EXCEPT ![a] = Transition(@, "failed")]
    /\ UNCHANGED <<store, journal, masterVars, netVars, work, running>>

(* handleRuntimeReport: sing-box exits, or is running again, under the     *)
(* configuration the record describes.                                     *)
RuntimeReport(a) ==
    /\ online[a]
    /\ Idle(a)
    /\ back[a] = <<>>
    /\ running[a] = rec[a].cfg
    /\ \/ /\ rec[a].status = "applied"
          /\ Spend("exit")
          /\ rec' = [rec EXCEPT ![a] = Transition(@, "runtime_failed")]
       \/ /\ rec[a].status = "runtime_failed"
          /\ rec' = [rec EXCEPT ![a] = Transition(@, "applied")]
          /\ UNCHANGED budget
    /\ UNCHANGED <<store, journal, masterVars, netVars, work, running>>

(* Mutant: a restart keeps the journal of a completed transaction.         *)
RestartKeepsJournal ==
    /\ IF Disowned THEN Spend("disowned") ELSE Spend("crash")
    /\ Persist(store.file)
    /\ tx' = journal
    /\ job' = NoJob /\ run' = NoRun /\ reserved' = NoReservation
    /\ rc' = [force |-> store.file.revision, blocked |-> 0]
    /\ online' = [a \in Agents |-> FALSE]
    /\ wire' = [a \in Agents |-> <<>>] /\ back' = [a \in Agents |-> <<>>]
    /\ work' = [a \in Agents |-> [work[a] EXCEPT !.live = FALSE]]
    /\ UNCHANGED <<journal, rec, running>>

(* The master stops anywhere and starts again: the Store reads its file,   *)
(* NewDeployer drops a journal whose commit is recorded there and keeps    *)
(* any other; the reconciler starts with a forced pass; every session is   *)
(* gone.  A start that reads a disowned commit has a budget of its own.    *)
Restart ==
    /\ IF Disowned THEN Spend("disowned") ELSE Spend("crash")
    /\ Persist(store.file)
    /\ journal' = IF /\ journal # NoTx /\ journal.phase = "committing"
                     /\ store.file.applied = journal.rev
                  THEN NoTx ELSE journal
    /\ tx' = journal'
    /\ job' = NoJob
    /\ run' = NoRun
    /\ reserved' = NoReservation
    /\ rc' = [force |-> store.file.revision, blocked |-> 0]
    /\ online' = [a \in Agents |-> FALSE]
    /\ wire' = [a \in Agents |-> <<>>]
    /\ back' = [a \in Agents |-> <<>>]
    /\ work' = [a \in Agents |-> [work[a] EXCEPT !.live = FALSE]]
    /\ UNCHANGED <<rec, running>>

-----------------------------------------------------------------------------
Init ==
    /\ store = Saved([revision |-> 1, applied |-> 1,
                      desired |-> InitialTopology, active |-> InitialTopology])
    /\ journal = NoTx
    /\ rec = [a \in Agents |-> NoRecord]
    /\ tx = NoTx
    /\ job = NoJob
    /\ run = NoRun
    /\ reserved = NoReservation
    /\ rc = [force |-> 1, blocked |-> 0]
    /\ online = [a \in Agents |-> FALSE]
    /\ wire = [a \in Agents |-> <<>>]
    /\ back = [a \in Agents |-> <<>>]
    /\ work = [a \in Agents |-> NoWork]
    /\ running = [a \in Agents |-> Empty]
    /\ budget \in Budgets

RunStep ==
    \/ \E a \in Agents : RunTouch(a) \/ SampleFails(a) \/ RunNext(a) \/ RunConfirm(a)
    \/ RunQueue \/ RunRefused \/ RunReported \/ RunTimeout \/ RunDeployed
    \/ RunCommitting \/ RunMarkApplied \/ RunClear \/ RunUndone

OperatorStep ==
    \/ \E t \in Topologies : Mutate(t) \/ MutateFails(t)
    \/ SaveStore \/ StartReserved \/ RefuseEdit \/ RestoreTopology
    \/ ManualStart \/ StartAppliedRefresh

AgentStep(a) ==
    \/ Connect(a) \/ DropSession(a) \/ AgentTake(a) \/ AgentFinish(a)
    \/ HandleReport(a) \/ ExpireRecord(a) \/ RuntimeReport(a)

Next ==
    \/ RunStep \/ OperatorStep \/ TickIdle \/ TickStart \/ Restart
    \/ \E a \in Agents : AgentStep(a)

Spec == Init /\ [][Next]_vars

(* The goroutine of a job runs to its end, the reconciler's timer always   *)
(* fires again, a saved edit is always started, an Agent reconnects after  *)
(* a lost session, works its commands off, and its reports are read.       *)
Fairness ==
    /\ WF_vars(RunStep)
    /\ WF_vars(StartReserved \/ RefuseEdit)
    /\ WF_vars(RestoreTopology)
    /\ WF_vars(TickIdle \/ TickStart)
    /\ \A a \in Agents :
          /\ WF_vars(Connect(a))
          /\ WF_vars(AgentTake(a))
          /\ WF_vars(AgentFinish(a))
          /\ WF_vars(HandleReport(a))

FairSpec == Spec /\ Fairness

-----------------------------------------------------------------------------
Command == [id : Ids, cfg : Cfgs]
Report == [id : Ids, ok : BOOLEAN]

(* The type invariant of the whole system.                                 *)
TypeOK ==
    /\ store \in [revision : Nat, applied : Nat, desired : Topologies, active : Topologies,
                  file : Contents]
    /\ journal \in Transaction \cup {NoTx}
    /\ rec \in [Agents -> Record]
    /\ tx \in Transaction \cup {NoTx}
    /\ job \in Job
    /\ run \in Run
    /\ reserved \in [edit : Topologies \cup {NoTopology}, undo : Topologies \cup {NoTopology},
                     rev : Nat]
    /\ rc \in [force : Nat, blocked : Nat]
    /\ online \in [Agents -> BOOLEAN]
    /\ wire \in [Agents -> Seq(Command)]
    /\ back \in [Agents -> Seq(Report)]
    /\ work \in [Agents -> Work]
    /\ running \in [Agents -> Cfgs]
    /\ budget \in [Kinds -> Nat]

(* The journal still describes a transaction to undo: NewDeployer would    *)
(* keep it.                                                                *)
Uncommitted ==
    journal # NoTx /\ ~(journal.phase = "committing" /\ store.applied = journal.rev)

(* Write-ahead and atomic commit: an Agent runs something other than the   *)
(* recorded applied topology only while the journal on disk would survive  *)
(* a restart and names that Agent, so the rollout can always be undone,    *)
(* and once it is committed every Agent runs it.                           *)
JournalCoversAgents ==
    \A a \in Agents :
        running[a] # Compile[store.active][a] => Uncommitted /\ a \in journal.touched

(* What an uncommitted journal would reinstall, once it names an Agent, is *)
(* the topology the store still records as applied, in that topology's     *)
(* order.                                                                  *)
JournalRestoresApplied ==
    Uncommitted /\ journal.touched # {} =>
        /\ journal.from = store.active
        /\ \A a \in journal.agents : journal.rb[a] = Compile[store.active][a]

(* A deployment record that says "applied" (or that the applied process    *)
(* failed later) is the truth about the Agent: it runs that configuration  *)
(* and nothing older or newer is still on its way to it.                   *)
RecordsAreTruthful ==
    \A a \in Agents :
        rec[a].status \in {"applied", "runtime_failed"} =>
            running[a] = rec[a].cfg /\ wire[a] = <<>> /\ Idle(a)

(* Receiver before sender: while a rollout moves forward, an Agent that    *)
(* already runs its candidate has every deeper changed hop running its own.*)
ReceiverFirst ==
    run.pc # "idle" /\ run.plane = "topology" /\ run.stage # "undo" =>
        \A a, b \in run.agents :
            /\ Depth[run.cand][a] < Depth[run.cand][b]
            /\ running[a] = Compile[run.cand][a]
            /\ running[a] # tx.rb[a]
            => running[b] = Compile[run.cand][b]

(* A recovery undoes only a transaction that was not completed: the        *)
(* committing marker and the recorded applied revision tell them apart.    *)
CompletedIsNotRecovered == Active /\ job.plane = "recovery" => Uncommitted

(* The rollout implements the atomic fleet transaction: the store's        *)
(* applied topology is the committed one, and the Agents a restart would   *)
(* still roll back are the moving ones.                                    *)
Atomic == INSTANCE AtomicFleet WITH
    committed <- store.active,
    moving <- IF Uncommitted THEN journal.touched ELSE {},
    cfg <- running

ImplementsAtomicFleet == Atomic!Spec

(* A saved edit is never forgotten: it is applied, a newer revision takes  *)
(* its place, or the reconciler holds it back until the next event.        *)
EditSettles ==
    store.revision # store.applied ~>
        store.revision = store.applied \/ (~Active /\ ~Reserved /\ Blocked)

(* A rollout interrupted by a restart of the master, or one whose rollback *)
(* was incomplete, is undone or found complete in the end.                 *)
InterruptedIsRecovered == (tx # NoTx /\ ~Active) ~> tx = NoTx

=====================
