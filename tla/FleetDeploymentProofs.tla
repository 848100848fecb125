------------------------ MODULE FleetDeploymentProofs ------------------------
(***************************************************************************)
(* Machine-checked facts about FleetDeployment, for every set of Agents,   *)
(* every topology and every budget of events.                              *)
(***************************************************************************)
EXTENDS FleetDeployment, SequenceTheorems, TLAPS

-----------------------------------------------------------------------------
(* What the goroutine of a job relies on.  A rollout or a rollback that    *)
(* has an Agent to visit holds a transaction, the Agent it is queueing on  *)
(* is one of the job's, listeners are retired only where retireConflicting-*)
(* Listeners found a configuration to send, and there is no goroutine      *)
(* unless a job is active, which no reserved edit can be.                  *)
RunHoldsTransaction ==
    /\ run.pc # "idle" => job.status = "active"
    /\ reserved.edit # NoTopology => job.status # "active"
    /\ run.todo \subseteq run.agents /\ run.touched \subseteq run.agents
    /\ run.pc \in {"queue", "wait"} => run.cur \in run.agents
    /\ run.pc # "idle" /\ run.plane = "topology" /\ run.agents # {} => tx # NoTx
    /\ run.pc \in {"confirm", "mark", "clear"} => run.plane = "topology"
    /\ run.plane = "refresh" => run.stage = "deploy"
    /\ run.stage = "retire" =>
          /\ run.pc \in {"queue", "wait"}
          /\ Retire[tx.rb[run.cur]][Compile[run.cand][run.cur]] # NoCfg

TypeInv == TypeOK /\ RunHoldsTransaction

(* Where the deployment of the record of an Agent can be.  While it is     *)
(* unanswered it is in exactly one place, and nothing is queued behind it. *)
Tracked(a) ==
    /\ rec[a].status \in {"applied", "runtime_failed"} =>
          running[a] = rec[a].cfg /\ wire[a] = <<>> /\ Idle(a)
    /\ \A i \in DOMAIN wire[a] :
          wire[a][i].id = rec[a].id => i = Len(wire[a]) /\ wire[a][i].cfg = rec[a].cfg
    /\ work[a].live /\ work[a].id = rec[a].id =>
          wire[a] = <<>> /\ work[a].cfg = rec[a].cfg
    /\ \A i \in DOMAIN back[a] :
          back[a][i].id = rec[a].id =>
             /\ i = Len(back[a]) /\ wire[a] = <<>> /\ Idle(a)
             /\ back[a][i].ok => running[a] = rec[a].cfg
    /\ ~online[a] => wire[a] = <<>> /\ back[a] = <<>> /\ ~work[a].live

TrackInv == \A a \in Agents : Tracked(a)

-----------------------------------------------------------------------------
(* The helpers return values of their types. *)

LEMMA AppliedConfigurationType ==
  ASSUME NEW r \in Record
  PROVE  AppliedConfiguration(r) \in Cfgs \cup {NoCfg}
BY DEF AppliedConfiguration, Record

LEMMA TransitionType ==
  ASSUME NEW r \in Record, NEW s \in Statuses
  PROVE  Transition(r, s) \in Record
BY DEF Transition, Record

LEMMA CreateType ==
  ASSUME TypeOK, NEW a \in Agents, NEW i \in Ids, NEW c \in Cfgs, NEW s \in Statuses
  PROVE  Create(a, i, c, s) \in Record
BY AppliedConfigurationType DEF TypeOK, Create, Record

LEMMA NoRunType == NoRun \in Run
BY ConstantsAssumption DEF NoRun, Run

LEMMA NewRunType ==
  ASSUME NEW p \in {"topology", "refresh"}, NEW t \in Topologies, NEW n \in Nat,
         NEW S \in SUBSET Agents
  PROVE  LET r == NewRun(p, t, n, S) IN
         /\ r \in Run
         /\ r.pc = "pick" /\ r.stage = "deploy" /\ r.plane = p /\ r.cand = t
         /\ r.agents = S /\ r.todo = S /\ r.touched = {}
BY ConstantsAssumption DEF NewRun, NoRun, Run

LEMMA RollbackType ==
  ASSUME TypeInv
  PROVE  compileAppliedFleet \in [Agents -> Cfgs]
BY ConstantsAssumption, AppliedConfigurationType DEF TypeInv, TypeOK, compileAppliedFleet

LEMMA NewTransactionType ==
  ASSUME TypeInv, NEW S \in SUBSET Agents
  PROVE  /\ NewTransaction(S) \in Transaction /\ NewTransaction(S) # NoTx
         /\ NewTransaction(S).touched = {} /\ NewTransaction(S).phase = "deploying"
<1>1. compileAppliedFleet \in [Agents -> Cfgs]
  BY RollbackType
<1>2. store.revision \in Nat /\ store.active \in Topologies
  BY DEF TypeInv, TypeOK
<1>3. NewTransaction(S) \in Transaction
  BY <1>1, <1>2 DEF NewTransaction, Transaction
<1> QED BY <1>3, NoTxAssumption DEF NewTransaction

(* What the Store may save. *)
LEMMA ContentsType ==
  ASSUME TypeOK
  PROVE  /\ Held \in Contents /\ Committed \in Contents /\ store.file \in Contents
         /\ \A t \in Topologies : Edited(t) \in Contents
<1>1. /\ store.revision \in Nat /\ store.applied \in Nat /\ store.revision + 1 \in Nat
      /\ store.desired \in Topologies /\ store.active \in Topologies
      /\ store.file \in Contents
  BY DEF TypeOK
<1>2. Held \in Contents /\ Committed \in Contents
  BY <1>1 DEF Held, Contents, Committed
<1>3. ASSUME NEW t \in Topologies PROVE Edited(t) \in Contents
  BY <1>1, <1>3 DEF Held, Contents, Edited
<1> QED BY <1>1, <1>2, <1>3

LEMMA ProfileType ==
  ASSUME TypeInv, NEW a \in Agents
  PROVE  AuthoritativeProfile(a) \in Cfgs
BY ConstantsAssumption, AppliedConfigurationType
    DEF TypeInv, TypeOK, AuthoritativeProfile, Record

(* Whatever the goroutine is installing is a configuration. *)
LEMMA StageCfgType ==
  ASSUME TypeInv, run.pc \in {"queue", "wait"}
  PROVE  run.cur \in Agents /\ StageCfg \in Cfgs
<1> USE DEF TypeInv, TypeOK, RunHoldsTransaction
<1>1. run \in Run /\ run.cur \in run.agents /\ run.cur \in Agents /\ run.cand \in Topologies
      /\ run.agents # {} /\ run.stage \in {"retire", "deploy", "undo"}
  BY DEF Run
<1>2. Compile[run.cand][run.cur] \in Cfgs
  BY <1>1, ConstantsAssumption
<1>3. run.stage # "deploy" => tx \in Transaction /\ tx.rb[run.cur] \in Cfgs
  <2>1. run.stage # "deploy" => run.plane = "topology"
    BY <1>1 DEF Run
  <2>2. run.stage # "deploy" => tx \in Transaction
    BY <1>1, <2>1
  <2> QED BY <1>1, <2>2 DEF Transaction
<1>4. run.stage = "retire" => Retire[tx.rb[run.cur]][Compile[run.cand][run.cur]] \in Cfgs
  BY <1>2, <1>3, ConstantsAssumption
<1> QED BY <1>1, <1>2, <1>3, <1>4 DEF StageCfg

-----------------------------------------------------------------------------
(* Every step keeps the types.                                             *)

LEMMA SpendType ==
  ASSUME TypeOK, NEW k \in Kinds, Spend(k)
  PROVE  budget' \in [Kinds -> Nat]
BY DEF TypeOK, Spend

(* What a step of the goroutine leaves alone.                              *)
LEMMA RunLeaves ==
  ASSUME RunStep
  PROVE  /\ RunQueue \/ UNCHANGED <<rec, running, wire, back, work, online>>
         /\ RunMarkApplied \/ UNCHANGED store
<1>1. ASSUME NEW a \in Agents, RunTouch(a) \/ SampleFails(a) \/ RunNext(a) \/ RunConfirm(a)
      PROVE  UNCHANGED <<store, rec, running, wire, back, work, online>>
  BY <1>1 DEF RunTouch, SampleFails, RunNext, RunConfirm, netVars
<1>2. RunRefused \/ RunReported \/ RunTimeout \/ RunDeployed \/ RunCommitting \/ RunClear \/ RunUndone
      => UNCHANGED <<store, rec, running, wire, back, work, online>>
  BY DEF RunRefused, RunReported, RunTimeout, RunDeployed, RunCommitting, RunClear, RunUndone, netVars
<1>3. RunQueue => UNCHANGED store
  BY DEF RunQueue
<1>4. RunMarkApplied => UNCHANGED <<rec, running, wire, back, work, online>>
  BY DEF RunMarkApplied, netVars
<1> QED BY <1>1, <1>2, <1>3, <1>4 DEF RunStep

(* Every way in which a step can change the Store.                         *)
StoreSteps ==
    \/ UNCHANGED store
    \/ \E t \in Topologies : store' \in {Saved(Edited(t)), [store EXCEPT !.file = Edited(t)]}
    \/ run.pc \in {"confirm", "mark"} /\ store' \in {Saved(Committed), [store EXCEPT !.file = Committed]}
    \/ store' = Saved(Held)
    \/ Restart /\ store' = Saved(store.file)

LEMMA StoreChanges ==
  ASSUME TypeOK, Next
  PROVE  StoreSteps
<1>1. ASSUME NEW t \in Topologies, Mutate(t) \/ MutateFails(t) PROVE StoreSteps
  BY <1>1 DEF Mutate, MutateFails, Persist, PersistFails, StoreSteps
<1>2. CASE RestoreTopology
  <2>1. reserved.undo \in Topologies
    BY <1>2 DEF RestoreTopology, TypeOK
  <2> QED BY <1>2, <2>1 DEF RestoreTopology, Persist, PersistFails, StoreSteps
<1>3. CASE SaveStore \/ StartReserved \/ RefuseEdit
  BY <1>3 DEF SaveStore, StartReserved, RefuseEdit, Persist, StoreSteps
<1>4. CASE ManualStart \/ StartAppliedRefresh \/ TickIdle \/ TickStart
  BY <1>4 DEF ManualStart, StartAppliedRefresh, TickIdle, TickStart, StoreSteps
<1>5. CASE Restart
  BY <1>5 DEF Restart, Persist, StoreSteps
<1>6. CASE RunMarkApplied
  <2>1. /\ run.pc \in {"confirm", "mark"}
        /\ Persist(Committed) \/ PersistFails(Committed) \/ UNCHANGED store
    BY <1>6 DEF RunMarkApplied
  <2> QED BY <2>1 DEF Persist, PersistFails, StoreSteps
<1>7. CASE RunStep /\ ~RunMarkApplied
  <2>1. UNCHANGED store
    BY <1>7, RunLeaves
  <2> QED BY <2>1 DEF StoreSteps
<1>8. ASSUME NEW a \in Agents, AgentStep(a) PROVE StoreSteps
  BY <1>8 DEF AgentStep, Connect, DropSession, AgentTake, AgentFinish, HandleReport,
     ExpireRecord, RuntimeReport, StoreSteps
<1> QED BY <1>1, <1>2, <1>3, <1>4, <1>5, <1>6, <1>7, <1>8 DEF Next, OperatorStep

StoreType == store \in [revision : Nat, applied : Nat, desired : Topologies,
                        active : Topologies, file : Contents]

LEMMA StoreTyped ==
  ASSUME TypeOK, Next
  PROVE  StoreType'
<1>1. ASSUME NEW c \in Contents PROVE Saved(c) \in [revision : Nat, applied : Nat,
              desired : Topologies, active : Topologies, file : Contents]
  BY DEF Saved, Contents
<1>2. ASSUME NEW c \in Contents PROVE [store EXCEPT !.file = c] \in [revision : Nat,
              applied : Nat, desired : Topologies, active : Topologies, file : Contents]
  BY DEF TypeOK
<1>3. StoreType
  BY DEF TypeOK, StoreType
<1>4. /\ Held \in Contents /\ Committed \in Contents /\ store.file \in Contents
      /\ \A t \in Topologies : Edited(t) \in Contents
  BY ContentsType
<1> QED BY <1>1, <1>2, <1>3, <1>4, StoreChanges DEF StoreSteps, StoreType

StartTypes == /\ tx' \in Transaction \cup {NoTx}
              /\ journal' \in Transaction \cup {NoTx}
              /\ job' \in Job /\ run' \in Run

LEMMA StartTopologyType ==
  ASSUME TypeInv, ~Active, reserved'.edit = NoTopology,
         StartTopology \/ AddressUnavailable \/ StartError
  PROVE  StartTypes /\ RunHoldsTransaction'
<1> USE DEF TypeInv, TypeOK, StartTypes, Active
<1>0. /\ store.revision \in Nat /\ store.desired \in Topologies /\ store.active \in Topologies
      /\ run.pc = "idle" /\ tx \in Transaction \cup {NoTx}
  BY DEF RunHoldsTransaction, Job
<1>1. ASSUME Pending, run' = run,
             \/ UNCHANGED <<tx, journal>>
             \/ tx' = NoTx /\ journal' = NoTx
      PROVE  StartTypes /\ RunHoldsTransaction'
  BY <1>0, <1>1 DEF Pending, NewJob, Job, RunHoldsTransaction
<1>2. CASE AddressUnavailable
  BY <1>1, <1>2 DEF AddressUnavailable
<1>3. CASE StartError
  <2>1. changedTopologyAgents \in SUBSET Agents
    BY DEF changedTopologyAgents, AgentsOf
  <2>2. journal' \in Transaction \cup {NoTx}
    BY <1>3, <2>1, NewTransactionType DEF StartError
  <2> QED BY <1>0, <1>3, <2>2 DEF StartError, RunHoldsTransaction
<1>4. CASE StartRecovery
  <2>1. CASE Waiting(tx.touched) # {} /\ Pending /\ UNCHANGED <<tx, journal, run>>
    BY <1>1, <2>1
  <2>2. CASE tx.touched = {} /\ Pending /\ journal' = NoTx /\ tx' = NoTx /\ UNCHANGED run
    BY <1>1, <2>2
  <2>3. CASE /\ tx # NoTx /\ tx.touched # {}
             /\ job' = NewJob("active", "recovery", tx.rev)
             /\ run' = [NewRun("topology", tx.from, tx.rev, tx.touched)
                          EXCEPT !.stage = "undo", !.touched = tx.touched]
             /\ UNCHANGED <<tx, journal>>
    <3> DEFINE r == NewRun("topology", tx.from, tx.rev, tx.touched)
    <3>1. tx \in Transaction /\ tx.from \in Topologies /\ tx.rev \in Nat
          /\ tx.touched \in SUBSET Agents
      BY <1>0, <2>3 DEF Transaction
    <3>2. /\ r \in Run
          /\ r.pc = "pick" /\ r.stage = "deploy" /\ r.plane = "topology"
          /\ r.agents = tx.touched /\ r.todo = tx.touched
      BY <3>1, NewRunType
    <3>3. run' = [r EXCEPT !.stage = "undo", !.touched = tx.touched]
      BY <2>3
    <3> HIDE DEF r
    <3>4. /\ run' \in Run /\ run'.pc = "pick" /\ run'.stage = "undo"
          /\ run'.plane = "topology" /\ run'.agents = tx.touched
          /\ run'.todo = tx.touched /\ run'.touched = tx.touched
      BY <3>1, <3>2, <3>3 DEF Run
    <3>5. job' \in Job /\ job'.status = "active"
      BY <2>3, <3>1 DEF Job, NewJob
    <3> QED BY <2>3, <3>1, <3>4, <3>5 DEF RunHoldsTransaction
  <2> QED BY <1>4, <2>1, <2>2, <2>3 DEF StartRecovery
<1>5. CASE StartRollout
  <2> DEFINE changed == changedTopologyAgents
             r == NewRun("topology", store.desired, store.revision, changed)
  <2>1. CASE Pending /\ UNCHANGED <<tx, journal, run>>
    BY <1>1, <2>1
  <2>2. CASE /\ IF changed = {} THEN UNCHANGED <<tx, journal>>
                ELSE tx' = NewTransaction(changed) /\ journal' = tx'
             /\ job' = NewJob("active", "topology", store.revision)
             /\ run' = r
    <3>1. changed \in SUBSET Agents
      BY DEF changedTopologyAgents, AgentsOf
    <3> HIDE DEF changed
    <3> HIDE DEF TypeInv, TypeOK
    <3>2. /\ r \in Run
          /\ r.pc = "pick" /\ r.stage = "deploy" /\ r.plane = "topology"
          /\ r.agents = changed /\ r.todo = changed /\ r.touched = {}
      BY <1>0, <3>1, NewRunType
    <3>3. job' \in Job /\ job'.status = "active"
      BY <1>0, <2>2 DEF Job, NewJob
    <3> HIDE DEF r
    <3>4. NewTransaction(changed) \in Transaction /\ NewTransaction(changed) # NoTx
      BY <3>1, NewTransactionType
    <3>5. journal \in Transaction \cup {NoTx}
      BY DEF TypeInv, TypeOK
    <3>6. /\ tx' \in Transaction \cup {NoTx} /\ journal' \in Transaction \cup {NoTx}
          /\ changed # {} => tx' # NoTx
      BY <1>0, <2>2, <3>4, <3>5
    <3> QED BY <2>2, <3>2, <3>3, <3>6 DEF RunHoldsTransaction
  <2> QED BY <1>5, <2>1, <2>2 DEF StartRollout, Rollout
<1> QED BY <1>2, <1>3, <1>4, <1>5 DEF StartTopology

-----------------------------------------------------------------------------
LEMMA ToRollbackType ==
  ASSUME TypeInv, run.pc # "idle", run.plane = "topology", ToRollback,
         job' = job, reserved' = reserved, tx # NoTx => tx' # NoTx
  PROVE  run' \in Run /\ RunHoldsTransaction'
<1>1. run \in Run
  BY DEF TypeInv, TypeOK
<1>2. /\ run' \in Run /\ run'.pc = "pick" /\ run'.stage = "undo" /\ run'.todo = run.touched
      /\ run'.touched = run.touched /\ run'.agents = run.agents /\ run'.plane = run.plane
  BY <1>1 DEF ToRollback, Run
<1> QED BY <1>2 DEF TypeInv, RunHoldsTransaction

LEMMA StepDoneType ==
  ASSUME TypeInv, run.pc \in {"queue", "wait"}, NEW ok \in BOOLEAN, StepDone(ok),
         job' = job, reserved' = reserved, tx' = tx
  PROVE  run' \in Run /\ RunHoldsTransaction'
<1>1. run \in Run /\ run.cur \in run.agents
  BY DEF TypeInv, TypeOK, RunHoldsTransaction
<1>2. CASE ~ok /\ run.plane = "topology" /\ run.stage # "undo"
  BY <1>2, ToRollbackType DEF StepDone
<1>3. CASE ok /\ run.stage = "retire"
  <2>1. run' = [run EXCEPT !.pc = "queue", !.stage = "deploy", !.id = 0]
    BY <1>3 DEF StepDone
  <2>2. /\ run' \in Run /\ run'.pc = "queue" /\ run'.stage = "deploy"
        /\ run'.cur = run.cur /\ run'.agents = run.agents /\ run'.plane = run.plane
        /\ run'.todo = run.todo /\ run'.touched = run.touched
    BY <1>1, <2>1 DEF Run
  <2> QED BY <1>1, <2>2 DEF TypeInv, RunHoldsTransaction
<1>4. CASE ~(~ok /\ run.plane = "topology" /\ run.stage # "undo") /\ ~(ok /\ run.stage = "retire")
  <2>1. run' = [run EXCEPT !.pc = "pick", !.todo = @ \ {run.cur}, !.cur = NoAgent,
                           !.id = 0, !.failed = @ \/ ~ok]
    BY <1>4 DEF StepDone
  <2>2. /\ run' \in Run /\ run'.pc = "pick" /\ run'.stage = run.stage
        /\ run'.agents = run.agents /\ run'.plane = run.plane
        /\ run'.todo = run.todo \ {run.cur} /\ run'.touched = run.touched
    BY <1>1, <2>1 DEF Run
  <2>3. run.stage # "retire"
    BY <1>1, <1>4 DEF Run, TypeInv, RunHoldsTransaction
  <2> QED BY <1>1, <2>2, <2>3 DEF TypeInv, RunHoldsTransaction
<1> QED BY <1>2, <1>3, <1>4

LEMMA FinishType ==
  ASSUME TypeInv, NEW s \in {"failed", "applied"}, Finish(s), reserved' = reserved
  PROVE  job' \in Job /\ run' \in Run /\ RunHoldsTransaction'
<1>1. job' \in Job /\ job'.status # "active"
  BY DEF TypeInv, TypeOK, Finish, Job
<1>2. run' = NoRun /\ run' \in Run
  BY NoRunType DEF Finish
<1> QED BY <1>1, <1>2 DEF NoRun, RunHoldsTransaction

LEMMA DetachedWork ==
  ASSUME NEW w \in Work
  PROVE  /\ [w EXCEPT !.live = FALSE] \in Work
         /\ ~[w EXCEPT !.live = FALSE].live
         /\ [w EXCEPT !.live = FALSE].id = w.id
         /\ w.live => w.id \in Ids
BY DEF Work

LEMMA NoWorkType == NoWork \in Work
BY ConstantsAssumption DEF Work, NoWork

LEMMA SessionEndsType ==
  ASSUME TypeOK, NEW a \in Agents, SessionEnds(a)
  PROVE  /\ online' \in [Agents -> BOOLEAN]
         /\ wire' \in [Agents -> Seq(Command)]
         /\ back' \in [Agents -> Seq(Report)]
         /\ work' \in [Agents -> Work]
<1>1. <<>> \in Seq(Command) /\ <<>> \in Seq(Report)
  OBVIOUS
<1>2. work' \in [Agents -> Work]
  BY DetachedWork DEF TypeOK, SessionEnds
<1> QED BY <1>1, <1>2 DEF TypeOK, SessionEnds

LEMMA QueueType ==
  ASSUME TypeOK, NEW a \in Agents, NEW c \in Cfgs, NEW i \in Ids, Queue(a, c, i)
  PROVE  rec' \in [Agents -> Record] /\ wire' \in [Agents -> Seq(Command)]
<1>1. Create(a, i, c, "deploying") \in Record
  BY CreateType DEF Statuses
<1>2. [id |-> i, cfg |-> c] \in Command
  BY DEF Command
<1>3. Append(wire[a], [id |-> i, cfg |-> c]) \in Seq(Command)
  BY <1>2 DEF TypeOK
<1> QED BY <1>1, <1>3 DEF TypeOK, Queue

-----------------------------------------------------------------------------
LEMMA RunStepType ==
  ASSUME TypeInv, RunStep
  PROVE  TypeInv'
<1>0. /\ TypeOK /\ RunHoldsTransaction /\ run \in Run /\ job \in Job
      /\ tx \in Transaction \cup {NoTx} /\ journal \in Transaction \cup {NoTx}
  BY DEF TypeInv, TypeOK
<1>k. {"write", "drop", "timeout", "unlinkCommitted", "unlinkUndone"} \subseteq Kinds
  BY DEF Kinds
<1>1. ASSUME NEW a \in Agents, RunTouch(a) PROVE TypeInv'
  <2> USE <1>1
  <2>1. /\ run.pc = "pick" /\ run.stage = "deploy" /\ run.plane = "topology"
        /\ a \in run.todo /\ a \in run.agents /\ run.agents # {}
    BY <1>0 DEF RunTouch, Deepest, RunHoldsTransaction
  <2>2. tx \in Transaction /\ tx # NoTx
    BY <1>0, <2>1 DEF RunHoldsTransaction
  <2>3. tx' \in Transaction /\ tx'.rb = tx.rb
    BY <2>2 DEF RunTouch, Transaction
  <2>4. tx' # NoTx
    BY <2>3, NoTxAssumption
  <2>5. UNCHANGED <<store, rec, job, reserved, rc, netVars, work, running>>
    BY DEF RunTouch
  <2>6. CASE Spend("write") /\ ToRollback /\ journal' \in {journal, tx'}
    <3>1. run' \in Run /\ RunHoldsTransaction'
      BY <1>0, <2>1, <2>4, <2>5, <2>6, ToRollbackType
    <3>2. budget' \in [Kinds -> Nat]
      BY <1>0, <1>k, <2>6, SpendType
    <3> QED BY <1>0, <2>3, <2>5, <2>6, <3>1, <3>2 DEF TypeInv, TypeOK, netVars
  <2>7. CASE /\ journal' = tx' /\ UNCHANGED budget
             /\ run' = [run EXCEPT !.pc = "queue", !.cur = a, !.touched = @ \cup {a},
                          !.stage = IF Retire[tx.rb[a]][Compile[run.cand][a]] = NoCfg
                                    THEN "deploy" ELSE "retire"]
    <3>1. /\ run' \in Run /\ run'.pc = "queue" /\ run'.cur = a /\ run'.cand = run.cand
          /\ run'.touched = run.touched \cup {a} /\ run'.todo = run.todo
          /\ run'.agents = run.agents /\ run'.plane = "topology"
          /\ run'.stage = "retire" =>
                Retire[tx.rb[a]][Compile[run.cand][a]] # NoCfg
      <4>1. PICK stage \in {"deploy", "retire"} :
              /\ run' = [run EXCEPT !.pc = "queue", !.cur = a, !.touched = @ \cup {a}, !.stage = stage]
              /\ stage = "retire" => Retire[tx.rb[a]][Compile[run.cand][a]] # NoCfg
        BY <2>7
      <4> QED BY <1>0, <2>1, <4>1 DEF Run
    <3>2. RunHoldsTransaction'
      BY <1>0, <2>1, <2>3, <2>4, <2>5, <3>1 DEF RunHoldsTransaction
    <3> QED BY <1>0, <2>3, <2>5, <2>7, <3>1, <3>2 DEF TypeInv, TypeOK, netVars
  <2> QED BY <2>6, <2>7 DEF RunTouch
<1>2. ASSUME NEW a \in Agents, SampleFails(a) PROVE TypeInv'
  <2>1. budget' \in [Kinds -> Nat]
    BY <1>0, <1>k, <1>2, SpendType DEF SampleFails, TypeOK
  <2>2. run' \in Run /\ RunHoldsTransaction'
    BY <1>2, ToRollbackType DEF SampleFails
  <2> QED BY <1>0, <1>2, <2>1, <2>2 DEF SampleFails, TypeInv, TypeOK, netVars
<1>3. ASSUME NEW a \in Agents, RunNext(a) PROVE TypeInv'
  <2>1. a \in run.todo /\ run.pc = "pick" /\ run' = [run EXCEPT !.pc = "queue", !.cur = a]
        /\ run.stage # "retire"
    BY <1>3 DEF RunNext, Deepest
  <2>2. /\ run' \in Run /\ run'.pc = "queue" /\ run'.cur = a /\ run'.stage = run.stage
        /\ run'.touched = run.touched /\ run'.todo = run.todo
        /\ run'.agents = run.agents /\ run'.plane = run.plane
    BY <1>0, <2>1 DEF Run
  <2>3. RunHoldsTransaction'
    BY <1>0, <1>3, <2>1, <2>2 DEF RunHoldsTransaction, RunNext
  <2> QED BY <1>0, <1>3, <2>2, <2>3 DEF RunNext, TypeInv, TypeOK, netVars
<1>4. ASSUME NEW a \in Agents, RunConfirm(a) PROVE TypeInv'
  <2>1. CASE UNCHANGED budget /\ run' = [run EXCEPT !.todo = @ \ {a}]
    <3>1. /\ run' \in Run /\ run'.pc = run.pc /\ run'.cur = run.cur /\ run'.stage = run.stage
          /\ run'.touched = run.touched /\ run'.todo = run.todo \ {a}
          /\ run'.agents = run.agents /\ run'.plane = run.plane
      BY <1>0, <2>1 DEF Run
    <3>2. RunHoldsTransaction'
      BY <1>0, <1>4, <2>1, <3>1 DEF RunHoldsTransaction, RunConfirm
    <3> QED BY <1>0, <1>4, <2>1, <3>1, <3>2 DEF RunConfirm, TypeInv, TypeOK, netVars
  <2>2. CASE ToRollback /\ (UNCHANGED budget \/ Spend("timeout"))
    <3>1. budget' \in [Kinds -> Nat]
      BY <1>0, <1>k, <2>2, SpendType DEF TypeOK
    <3>2. run.plane = "topology"
      BY <1>0, <1>4 DEF RunHoldsTransaction, RunConfirm, Run
    <3>3. run' \in Run /\ RunHoldsTransaction'
      BY <1>4, <2>2, <3>2, ToRollbackType DEF RunConfirm
    <3> QED BY <1>0, <1>4, <3>1, <3>3 DEF RunConfirm, TypeInv, TypeOK, netVars
  <2> QED BY <1>4, <2>1, <2>2 DEF RunConfirm
<1>5. CASE RunQueue
  <2>1. run.pc = "queue" /\ run.cur \in Agents /\ run.cur \in run.agents /\ StageCfg \in Cfgs
    BY <1>0, <1>5, StageCfgType DEF RunQueue, RunHoldsTransaction
  <2>2. PICK i \in Ids :
          \/ /\ Queue(run.cur, StageCfg, i)
             /\ run' = [run EXCEPT !.pc = "wait", !.id = i]
             /\ UNCHANGED <<online, back, work, budget>>
          \/ /\ Spend("drop")
             /\ rec' = [rec EXCEPT ![run.cur] = Create(run.cur, i, StageCfg, "failed")]
             /\ SessionEnds(run.cur)
             /\ StepDone(FALSE)
    BY <1>5, Zenon DEF RunQueue
  <2>3. CASE /\ Queue(run.cur, StageCfg, i)
             /\ run' = [run EXCEPT !.pc = "wait", !.id = i]
             /\ UNCHANGED <<online, back, work, budget>>
    <3>1. /\ run' \in Run /\ run'.pc = "wait" /\ run'.cur = run.cur /\ run'.stage = run.stage
          /\ run'.touched = run.touched /\ run'.todo = run.todo /\ run'.cand = run.cand
          /\ run'.agents = run.agents /\ run'.plane = run.plane
      BY <1>0, <2>3 DEF Run
    <3>2. RunHoldsTransaction'
      BY <1>0, <1>5, <2>1, <3>1 DEF RunHoldsTransaction, RunQueue
    <3>3. rec' \in [Agents -> Record] /\ wire' \in [Agents -> Seq(Command)]
      BY <1>0, <2>1, <2>3, QueueType
    <3> QED BY <1>0, <1>5, <2>3, <3>1, <3>2, <3>3 DEF RunQueue, TypeInv, TypeOK
  <2>4. CASE /\ Spend("drop")
             /\ rec' = [rec EXCEPT ![run.cur] = Create(run.cur, i, StageCfg, "failed")]
             /\ SessionEnds(run.cur)
             /\ StepDone(FALSE)
    <3>1. Create(run.cur, i, StageCfg, "failed") \in Record
      BY <1>0, <2>1, CreateType DEF Statuses
    <3>2. rec' \in [Agents -> Record]
      BY <1>0, <2>4, <3>1 DEF TypeOK
    <3>3. budget' \in [Kinds -> Nat]
      BY <1>0, <1>k, <2>4, SpendType
    <3>4. run' \in Run /\ RunHoldsTransaction'
      BY <1>5, <2>1, <2>4, StepDoneType DEF RunQueue
    <3> QED BY <1>0, <1>5, <2>1, <2>4, <3>2, <3>3, <3>4, SessionEndsType
            DEF RunQueue, TypeInv, TypeOK
  <2> QED BY <2>2, <2>3, <2>4
<1>6. CASE RunRefused
  <2>1. run' \in Run /\ RunHoldsTransaction'
    BY <1>6, StepDoneType DEF RunRefused
  <2> QED BY <1>0, <1>6, <2>1 DEF RunRefused, TypeInv, TypeOK, netVars
<1>7. CASE RunReported
  <2>1. run' \in Run /\ RunHoldsTransaction'
    BY <1>7, StepDoneType DEF RunReported
  <2> QED BY <1>0, <1>7, <2>1 DEF RunReported, TypeInv, TypeOK, netVars
<1>8. CASE RunTimeout
  <2>1. run' \in Run /\ RunHoldsTransaction'
    BY <1>8, StepDoneType DEF RunTimeout
  <2>2. budget' \in [Kinds -> Nat]
    BY <1>0, <1>k, <1>8, SpendType DEF RunTimeout, TypeOK
  <2> QED BY <1>0, <1>8, <2>1, <2>2 DEF RunTimeout, TypeInv, TypeOK, netVars
<1>9. CASE RunDeployed
  <2>1. CASE run.plane = "refresh"
    <3>1. job' \in Job /\ run' \in Run /\ RunHoldsTransaction'
      BY <1>9, <2>1, FinishType DEF RunDeployed
    <3> QED BY <1>0, <1>9, <3>1 DEF RunDeployed, TypeInv, TypeOK, netVars
  <2>2. CASE run.plane = "topology" /\ ToRollback /\ UNCHANGED job
    <3>1. run' \in Run /\ RunHoldsTransaction'
      BY <1>9, <2>2, ToRollbackType DEF RunDeployed
    <3> QED BY <1>0, <1>9, <2>2, <3>1 DEF RunDeployed, TypeInv, TypeOK, netVars
  <2>3. CASE /\ run.plane = "topology" /\ UNCHANGED job
             /\ run' = [run EXCEPT !.pc = "confirm", !.todo = run.agents]
    <3>1. run.pc = "pick" /\ run.stage = "deploy"
      BY <1>9 DEF RunDeployed
    <3>2. /\ run' \in Run /\ run'.pc = "confirm" /\ run'.stage = "deploy"
          /\ run'.touched = run.touched /\ run'.todo = run.agents
          /\ run'.agents = run.agents /\ run'.plane = "topology"
      BY <1>0, <2>3, <3>1 DEF Run
    <3>3. RunHoldsTransaction'
      BY <1>0, <1>9, <2>3, <3>1, <3>2 DEF RunHoldsTransaction, RunDeployed
    <3> QED BY <1>0, <1>9, <2>3, <3>2, <3>3 DEF RunDeployed, TypeInv, TypeOK, netVars
  <2> QED BY <1>9, <2>1, <2>2, <2>3 DEF RunDeployed
<1>10. CASE RunCommitting
  <2>1. run.pc = "confirm" /\ run.agents # {} /\ run.plane = "topology"
    BY <1>0, <1>10 DEF RunCommitting, RunHoldsTransaction
  <2>2. tx \in Transaction
    BY <1>0, <2>1 DEF RunHoldsTransaction
  <2>3. tx' \in Transaction /\ tx' # NoTx
    BY <1>10, <2>2, NoTxAssumption DEF RunCommitting, Transaction
  <2>4. CASE Spend("write") /\ ToRollback /\ journal' \in {journal, tx'}
    <3>1. run' \in Run /\ RunHoldsTransaction'
      BY <1>10, <2>1, <2>3, <2>4, ToRollbackType DEF RunCommitting
    <3>2. budget' \in [Kinds -> Nat]
      BY <1>0, <1>k, <2>4, SpendType
    <3> QED BY <1>0, <1>10, <2>3, <2>4, <3>1, <3>2
        DEF RunCommitting, TypeInv, TypeOK, netVars
  <2>5. CASE journal' = tx' /\ run' = [run EXCEPT !.pc = "mark"] /\ UNCHANGED budget
    <3>1. /\ run' \in Run /\ run'.pc = "mark" /\ run'.stage = run.stage
          /\ run'.touched = run.touched /\ run'.todo = run.todo
          /\ run'.agents = run.agents /\ run'.plane = run.plane
      BY <1>0, <2>5 DEF Run
    <3>2. RunHoldsTransaction'
      BY <1>0, <1>10, <2>1, <2>3, <3>1 DEF RunHoldsTransaction, RunCommitting
    <3> QED BY <1>0, <1>10, <2>3, <2>5, <3>1, <3>2
        DEF RunCommitting, TypeInv, TypeOK, netVars
  <2> QED BY <1>10, <2>4, <2>5 DEF RunCommitting
<1>11. CASE RunMarkApplied
  <2>1. run.pc # "idle" /\ run.pc \in {"confirm", "mark"} /\ run.plane = "topology"
    BY <1>0, <1>11 DEF RunMarkApplied, RunHoldsTransaction
  <2>0. StoreType'
    BY <1>0, <1>11, StoreTyped DEF Next, RunStep
  <2>2. CASE ToRollback /\ UNCHANGED job /\ (Spend("write") \/ UNCHANGED budget)
    <3>1. run' \in Run /\ RunHoldsTransaction'
      BY <1>11, <2>1, <2>2, ToRollbackType DEF RunMarkApplied
    <3>2. budget' \in [Kinds -> Nat]
      BY <1>0, <1>k, <2>2, SpendType DEF TypeOK
    <3> QED BY <1>0, <1>11, <2>0, <2>2, <3>1, <3>2
        DEF RunMarkApplied, TypeInv, TypeOK, StoreType, netVars
  <2>3. CASE /\ IF run.agents = {} THEN Finish("applied")
                ELSE run' = [run EXCEPT !.pc = "clear"] /\ UNCHANGED job
             /\ UNCHANGED budget
    <3>2. CASE run.agents = {}
      <4>1. job' \in Job /\ run' \in Run /\ RunHoldsTransaction'
        BY <1>11, <2>3, <3>2, FinishType DEF RunMarkApplied
      <4> QED BY <1>0, <1>11, <2>0, <2>3, <4>1
          DEF RunMarkApplied, TypeInv, TypeOK, StoreType, netVars
    <3>3. CASE run.agents # {}
      <4>1. /\ run' \in Run /\ run'.pc = "clear" /\ run'.stage = run.stage
            /\ run'.touched = run.touched /\ run'.todo = run.todo
            /\ run'.agents = run.agents /\ run'.plane = run.plane
        BY <1>0, <2>3, <3>3 DEF Run
      <4>2. RunHoldsTransaction' /\ job' = job
        BY <1>0, <1>11, <2>1, <2>3, <3>3, <4>1 DEF RunHoldsTransaction, RunMarkApplied
      <4> QED BY <1>0, <1>11, <2>0, <2>3, <4>1, <4>2
          DEF RunMarkApplied, TypeInv, TypeOK, StoreType, netVars
    <3> QED BY <3>2, <3>3
  <2> QED BY <1>11, <2>2, <2>3 DEF RunMarkApplied, PersistFails
<1>12. CASE RunClear \/ RunUndone
  <2>1. job' \in Job /\ run' \in Run /\ RunHoldsTransaction'
    BY <1>12, FinishType DEF RunClear, RunUndone
  <2>2. budget' \in [Kinds -> Nat]
    BY <1>0, <1>k, <1>12, SpendType DEF RunClear, RunUndone, TypeOK
  <2> QED BY <1>0, <1>12, <2>1, <2>2 DEF RunClear, RunUndone, TypeInv, TypeOK, netVars
<1> QED BY <1>1, <1>2, <1>3, <1>4, <1>5, <1>6, <1>7, <1>8, <1>9, <1>10, <1>11, <1>12
    DEF RunStep

-----------------------------------------------------------------------------
ReservedType == reserved \in [edit : Topologies \cup {NoTopology},
                              undo : Topologies \cup {NoTopology}, rev : Nat]

LEMMA OperatorStepType ==
  ASSUME TypeInv, OperatorStep \/ TickIdle \/ TickStart
  PROVE  TypeInv'
<1>0. /\ TypeOK /\ RunHoldsTransaction /\ run \in Run /\ job \in Job
      /\ StoreType /\ StoreType' /\ ReservedType
      /\ rc \in [force : Nat, blocked : Nat]
  BY StoreTyped DEF TypeInv, TypeOK, StoreType, ReservedType, Next
<1>k. {"edit", "manual", "refresh", "compile", "address", "write", "unlinkUndone"} \subseteq Kinds
  BY DEF Kinds
<1>a. AddressUnavailable \/ StartError => budget' \in [Kinds -> Nat]
  BY <1>0, <1>k, SpendType DEF AddressUnavailable, StartError
<1>r. Triggered \in [force : Nat, blocked : Nat]
  BY <1>0 DEF Triggered, StoreType
<1>1. ASSUME NEW t \in Topologies, Mutate(t) PROVE TypeInv'
  <2>1. budget' \in [Kinds -> Nat]
    BY <1>0, <1>k, <1>1, SpendType DEF Mutate
  <2>2. RunHoldsTransaction'
    BY <1>0, <1>1 DEF RunHoldsTransaction, Mutate, Active
  <2>3. ReservedType'
    BY <1>0, <1>1 DEF Mutate, ReservedType, StoreType
  <2> QED BY <1>0, <1>1, <2>1, <2>2, <2>3
      DEF Mutate, TypeInv, TypeOK, StoreType, ReservedType, netVars
<1>8. ASSUME (\E t \in Topologies : MutateFails(t)) \/ SaveStore PROVE TypeInv'
  <2>1. budget' \in [Kinds -> Nat]
    BY <1>0, <1>k, <1>8, SpendType DEF MutateFails, PersistFails, SaveStore, TypeOK
  <2>2. UNCHANGED <<journal, rec, masterVars, netVars, work, running>>
    BY <1>8 DEF MutateFails, SaveStore
  <2>3. RunHoldsTransaction'
    BY <1>0, <2>2 DEF RunHoldsTransaction, masterVars
  <2> QED BY <1>0, <2>1, <2>2, <2>3 DEF TypeInv, TypeOK, StoreType, masterVars, netVars
<1>2. CASE StartReserved
  <2>0. ReservedType' /\ reserved'.edit = NoTopology
    BY <1>0, <1>2 DEF StartReserved, ReservedType, Reserved
  <2>1. StartTypes /\ RunHoldsTransaction'
    BY <1>0, <1>2, <2>0, StartTopologyType DEF StartReserved, RunHoldsTransaction, Active, Reserved
  <2>2. budget' \in [Kinds -> Nat]
    BY <1>0, <1>2, <1>a DEF StartReserved, TypeOK
  <2> QED BY <1>0, <1>2, <1>r, <2>0, <2>1, <2>2
          DEF StartReserved, StartTypes, TypeInv, TypeOK, ReservedType, netVars
<1>9. CASE RefuseEdit
  <2>0. ReservedType' /\ reserved'.edit = NoTopology
    BY <1>0, <1>9 DEF RefuseEdit, ReservedType, Reserved, StoreType
  <2>1. StartTypes /\ RunHoldsTransaction'
    BY <1>0, <1>9, <2>0, StartTopologyType DEF RefuseEdit, RunHoldsTransaction, Active, Reserved
  <2>2. budget' \in [Kinds -> Nat]
    BY <1>9, <1>a DEF RefuseEdit
  <2> QED BY <1>0, <1>9, <2>0, <2>1, <2>2
      DEF RefuseEdit, StartTypes, TypeInv, TypeOK, ReservedType, netVars
<1>3. CASE RestoreTopology
  <2>0. ReservedType' /\ reserved'.edit = reserved.edit
    BY <1>0, <1>3 DEF RestoreTopology, ReservedType, Reserved
  <2>1. RunHoldsTransaction'
    BY <1>0, <1>3, <2>0 DEF RestoreTopology, RunHoldsTransaction
  <2>2. budget' \in [Kinds -> Nat]
    BY <1>0, <1>k, <1>3, SpendType DEF RestoreTopology, PersistFails, TypeOK
  <2> QED BY <1>0, <1>3, <2>0, <2>1, <2>2
      DEF RestoreTopology, TypeInv, TypeOK, StoreType, ReservedType, netVars
<1>4. CASE ManualStart
  <2>1. StartTypes /\ RunHoldsTransaction'
    BY <1>4, StartTopologyType DEF ManualStart, Reserved
  <2>2. budget' \in [Kinds -> Nat]
    BY <1>0, <1>k, <1>4, SpendType DEF ManualStart
  <2> QED BY <1>0, <1>4, <2>1, <2>2 DEF ManualStart, StartTypes, TypeInv, TypeOK, netVars
<1>5. CASE StartAppliedRefresh
  <2>1. budget' \in [Kinds -> Nat]
    BY <1>0, <1>k, <1>5, SpendType DEF StartAppliedRefresh
  <2>2. changedAgents \in SUBSET Agents
    BY DEF changedAgents, AgentsOf
  <2>3. /\ store.active \in Topologies /\ store.applied \in Nat
    BY <1>0 DEF StoreType
  <2>4. run' = NewRun("refresh", store.active, store.applied, changedAgents)
    BY <1>5 DEF StartAppliedRefresh
  <2>5. /\ run' \in Run /\ run'.pc = "pick" /\ run'.stage = "deploy" /\ run'.plane = "refresh"
        /\ run'.agents = run'.todo /\ run'.touched = {}
    BY <2>2, <2>3, <2>4, NewRunType
  <2>6. job' \in Job /\ job'.status = "active"
    BY <1>5, <2>3 DEF StartAppliedRefresh, Job, NewJob
  <2>7. RunHoldsTransaction'
    <3>1. reserved'.edit = NoTopology
      BY <1>5 DEF StartAppliedRefresh, Reserved
    <3> QED BY <2>5, <2>6, <3>1 DEF RunHoldsTransaction
  <2> QED BY <1>0, <1>5, <2>1, <2>5, <2>6, <2>7
      DEF StartAppliedRefresh, TypeInv, TypeOK, netVars
<1>6. CASE TickIdle
  <2>1. rc' \in [force : Nat, blocked : Nat]
    BY <1>0, <1>6 DEF TickIdle, StoreType
  <2>2. RunHoldsTransaction'
    BY <1>0, <1>6 DEF RunHoldsTransaction, TickIdle
  <2> QED BY <1>0, <1>6, <2>1, <2>2 DEF TickIdle, TypeInv, TypeOK, netVars
<1>7. CASE TickStart
  <2>1. StartTypes /\ RunHoldsTransaction'
    BY <1>7, StartTopologyType DEF TickStart, Reserved
  <2>2. budget' \in [Kinds -> Nat]
    BY <1>0, <1>7, <1>a DEF TickStart, TypeOK
  <2>3. rc' \in [force : Nat, blocked : Nat]
    BY <1>0, <1>7 DEF TickStart, StoreType
  <2> QED BY <1>0, <1>7, <2>1, <2>2, <2>3
      DEF TickStart, StartTypes, TypeInv, TypeOK, netVars
<1> QED BY <1>1, <1>2, <1>3, <1>4, <1>5, <1>6, <1>7, <1>8, <1>9 DEF OperatorStep

LEMMA AgentStepType ==
  ASSUME TypeInv, NEW a \in Agents, AgentStep(a)
  PROVE  TypeInv'
<1>0. /\ TypeOK /\ rec[a] \in Record
      /\ wire[a] \in Seq(Command) /\ back[a] \in Seq(Report)
      /\ work[a] \in Work
  BY DEF TypeInv, TypeOK
<1>k. {"drop", "reject", "timeout", "exit"} \subseteq Kinds
  BY DEF Kinds
<1>1. run' = run /\ tx' = tx /\ job' = job /\ reserved' = reserved
      /\ store' = store /\ journal' = journal
  BY DEF AgentStep, Connect, DropSession, AgentTake, AgentFinish, HandleReport,
         ExpireRecord, RuntimeReport, masterVars
<1>2. RunHoldsTransaction'
  BY <1>1 DEF TypeInv, RunHoldsTransaction
<1>3. CASE Connect(a)
  <2>1. PICK i \in Ids : Queue(a, AuthoritativeProfile(a), i)
    BY <1>3 DEF Connect
  <2>2. rec' \in [Agents -> Record] /\ wire' \in [Agents -> Seq(Command)]
    BY <1>0, <2>1, ProfileType, QueueType
  <2>3. rc' \in [force : Nat, blocked : Nat]
    BY <1>0, <1>3 DEF TypeOK, Connect, Triggered
  <2> QED BY <1>0, <1>1, <1>2, <1>3, <2>2, <2>3 DEF Connect, TypeInv, TypeOK
<1>4. CASE DropSession(a)
  <2>1. budget' \in [Kinds -> Nat]
    BY <1>0, <1>k, <1>4, SpendType DEF DropSession
  <2> QED BY <1>0, <1>1, <1>2, <1>4, <2>1, SessionEndsType
          DEF DropSession, TypeInv, TypeOK, masterVars
<1>5. CASE AgentTake(a)
  <2>1. Head(wire[a]) \in Command /\ Tail(wire[a]) \in Seq(Command)
    BY <1>0, <1>5 DEF AgentTake
  <2>2. [id |-> Head(wire[a]).id, cfg |-> Head(wire[a]).cfg, live |-> TRUE] \in Work
    BY <2>1, ConstantsAssumption DEF Command, Work
  <2> QED BY <1>0, <1>1, <1>2, <1>5, <2>1, <2>2 DEF AgentTake, TypeInv, TypeOK, masterVars
<1>6. CASE AgentFinish(a)
  <2>1. PICK ok \in BOOLEAN :
          /\ running' = IF ok THEN [running EXCEPT ![a] = work[a].cfg] ELSE running
          /\ IF ok \/ ~work[a].live THEN UNCHANGED budget ELSE Spend("reject")
          /\ back' = IF work[a].live
                     THEN [back EXCEPT ![a] = Append(@, [id |-> work[a].id, ok |-> ok])]
                     ELSE back
    BY <1>6 DEF AgentFinish
  <2>2. budget' \in [Kinds -> Nat]
    BY <1>0, <1>k, <2>1, SpendType DEF TypeOK
  <2>3. running' \in [Agents -> Cfgs]
    BY <1>0, <2>1 DEF TypeOK, Work
  <2>5. back' \in [Agents -> Seq(Report)]
    <3>1. work[a].live => [id |-> work[a].id, ok |-> ok] \in Report
      BY <1>0, DetachedWork DEF Report
    <3>2. work[a].live => Append(back[a], [id |-> work[a].id, ok |-> ok]) \in Seq(Report)
      BY <1>0, <3>1
    <3> QED BY <1>0, <2>1, <3>2 DEF TypeOK
  <2> QED BY <1>0, <1>1, <1>2, <1>6, <2>2, <2>3, <2>5, NoWorkType
          DEF AgentFinish, TypeInv, TypeOK, masterVars
<1>7. CASE HandleReport(a)
  <2>1. Tail(back[a]) \in Seq(Report)
    BY <1>0, <1>7 DEF HandleReport
  <2>2. \A s \in {"applied", "failed"} : Transition(rec[a], s) \in Record
    BY <1>0, TransitionType DEF Statuses
  <2>3. rec' \in [Agents -> Record]
    <3>1. rec \in [Agents -> Record]
      BY <1>0 DEF TypeOK
    <3>2. rec' = rec \/ \E s \in {"applied", "failed"} : rec' = [rec EXCEPT ![a] = Transition(@, s)]
      BY <1>7, Zenon DEF HandleReport
    <3> QED BY <2>2, <3>1, <3>2
  <2>4. CASE UNCHANGED <<online, wire, work>> /\ back' = [back EXCEPT ![a] = Tail(@)]
    BY <1>0, <1>1, <1>2, <1>7, <2>1, <2>3, <2>4
    DEF HandleReport, TypeInv, TypeOK, masterVars
  <2>5. CASE SessionEnds(a)
    BY <1>0, <1>1, <1>2, <1>7, <2>3, <2>5, SessionEndsType
    DEF HandleReport, TypeInv, TypeOK, masterVars
  <2> QED BY <1>7, <2>4, <2>5 DEF HandleReport
<1>8. CASE ExpireRecord(a) \/ RuntimeReport(a)
  <2>1. budget' \in [Kinds -> Nat]
    BY <1>0, <1>k, <1>8, SpendType DEF ExpireRecord, RuntimeReport, TypeOK
  <2>2. \A s \in {"applied", "failed", "runtime_failed"} : Transition(rec[a], s) \in Record
    BY <1>0, TransitionType DEF Statuses
  <2>3. rec' \in [Agents -> Record]
    BY <1>0, <1>8, <2>2 DEF ExpireRecord, RuntimeReport, TypeOK
  <2> QED BY <1>0, <1>1, <1>2, <1>8, <2>1, <2>3
          DEF ExpireRecord, RuntimeReport, TypeInv, TypeOK, masterVars, netVars
<1> QED BY <1>3, <1>4, <1>5, <1>6, <1>7, <1>8 DEF AgentStep

LEMMA RestartType ==
  ASSUME TypeInv, Restart
  PROVE  TypeInv'
<1>1. budget' \in [Kinds -> Nat]
  BY SpendType DEF TypeInv, Restart, Kinds
<1>2. run' \in Run /\ job' \in Job /\ RunHoldsTransaction'
  BY NoRunType DEF Restart, NoRun, NoJob, Job, RunHoldsTransaction, NoReservation, Reserved
<1>3. <<>> \in Seq(Command) /\ <<>> \in Seq(Report)
  OBVIOUS
<1>4. journal' \in Transaction \cup {NoTx} /\ tx' \in Transaction \cup {NoTx}
  BY DEF TypeInv, TypeOK, Restart
<1>5. work' \in [Agents -> Work]
  BY DetachedWork DEF TypeInv, TypeOK, Restart
<1>6. rc' \in [force : Nat, blocked : Nat] /\ ReservedType'
  BY ContentsType DEF TypeInv, Restart, Contents, ReservedType, NoReservation
<1>8. StoreType'
  BY StoreTyped DEF TypeInv, Next
<1>7. wire' \in [Agents -> Seq(Command)] /\ back' \in [Agents -> Seq(Report)]
      /\ online' \in [Agents -> BOOLEAN]
  BY <1>3 DEF Restart
<1> QED BY <1>1, <1>2, <1>4, <1>5, <1>6, <1>7, <1>8
    DEF Restart, TypeInv, TypeOK, StoreType, ReservedType

LEMMA TypeInit == Init => TypeInv
<1> SUFFICES ASSUME Init PROVE TypeInv
  OBVIOUS
<1>1. <<>> \in Seq(Command) /\ <<>> \in Seq(Report)
  OBVIOUS
<1>2. NoRecord \in Record
  BY ConstantsAssumption DEF NoRecord, Record, Statuses
<1>3. run \in Run /\ job \in Job /\ RunHoldsTransaction
  BY NoRunType DEF Init, NoRun, NoJob, Job, RunHoldsTransaction, NoReservation, Reserved
<1>4. work \in [Agents -> Work]
  BY NoWorkType DEF Init
<1>5. StoreType /\ ReservedType /\ rc \in [force : Nat, blocked : Nat]
  BY ConstantsAssumption
  DEF Init, Saved, Contents, StoreType, ReservedType, NoReservation
<1> QED BY <1>1, <1>2, <1>3, <1>4, <1>5, ConstantsAssumption
    DEF Init, TypeInv, TypeOK, StoreType, ReservedType

LEMMA TypeStep == TypeInv /\ [Next]_vars => TypeInv'
<1>1. ASSUME TypeInv, UNCHANGED vars PROVE TypeInv'
  BY <1>1 DEF vars, TypeInv, TypeOK, RunHoldsTransaction
<1> QED BY <1>1, RunStepType, OperatorStepType, AgentStepType, RestartType DEF Next

(* Type correctness: whatever the order of edits, sessions, reports,       *)
(* timeouts and crashes, the deployer's job, goroutine and journal, the    *)
(* records and the queues of the sessions stay well formed.                *)
THEOREM TypeCorrect == Spec => []TypeOK
<1>1. TypeInv => TypeOK
  BY DEF TypeInv
<1> QED BY <1>1, TypeInit, TypeStep, PTL DEF Spec

-----------------------------------------------------------------------------
(* Where the deployment of a record can be. *)

LEMMA FrameTracked ==
  ASSUME NEW b \in Agents, Tracked(b), rec'[b] = rec[b], running'[b] = running[b],
         wire'[b] = wire[b], back'[b] = back[b], work'[b] = work[b], online'[b] = online[b]
  PROVE  Tracked(b)'
BY DEF Tracked, Idle

LEMMA SessionEndsTracked ==
  ASSUME TypeOK, NEW a \in Agents, Tracked(a), SessionEnds(a), running'[a] = running[a],
         rec'[a] = rec[a] \/ rec'[a].status = "failed"
  PROVE  Tracked(a)'
<1>1. wire'[a] = <<>> /\ back'[a] = <<>> /\ online'[a] = FALSE
  BY DEF TypeOK, SessionEnds
<1>2. work'[a] = [work[a] EXCEPT !.live = FALSE] /\ work[a] \in Work
  BY DEF TypeOK, SessionEnds
<1>3. ~work'[a].live /\ (Idle(a) => Idle(a)')
  BY <1>2, DetachedWork DEF Idle
<1>4. DOMAIN wire'[a] = {} /\ DOMAIN back'[a] = {}
  BY <1>1
<1> QED BY <1>1, <1>3, <1>4 DEF Tracked

(* A fresh identifier makes the new command the only trace of its record. *)
LEMMA QueueTracked ==
  ASSUME TypeOK, NEW a \in Agents, NEW c, NEW i \in Ids, Tracked(a), FreshId(a, i),
         Queue(a, c, i), online'[a] = TRUE, UNCHANGED <<back, work, running>>
  PROVE  Tracked(a)'
<1> DEFINE m == [id |-> i, cfg |-> c]
<1>1. /\ rec'[a].id = i /\ rec'[a].cfg = c /\ rec'[a].status = "deploying"
      /\ wire'[a] = Append(wire[a], m)
  BY DEF TypeOK, Queue, Create
<1>2. /\ work[a].id # i
      /\ \A j \in DOMAIN wire[a] : wire[a][j].id # i
      /\ \A j \in DOMAIN back[a] : back[a][j].id # i
  BY DEF FreshId, UsedIds
<1>3. wire[a] \in Seq(Command)
  BY DEF TypeOK
<1>4. \A j \in DOMAIN wire'[a] :
         wire'[a][j].id = i => j = Len(wire'[a]) /\ wire'[a][j].cfg = c
  <2>1. /\ DOMAIN wire[a] = 1..Len(wire[a]) /\ Len(wire[a]) \in Nat
        /\ DOMAIN wire'[a] = 1..(Len(wire[a]) + 1) /\ Len(wire'[a]) = Len(wire[a]) + 1
        /\ \A j \in 1..Len(wire[a]) : wire'[a][j] = wire[a][j]
        /\ wire'[a][Len(wire[a]) + 1] = m
    BY <1>1, <1>3
  <2> QED BY <1>2, <2>1
<1> QED BY <1>1, <1>2, <1>4 DEF Tracked

LEMMA AgentTracked ==
  ASSUME TypeInv, TrackInv, NEW a \in Agents, AgentStep(a)
  PROVE  TrackInv'
<1>0. /\ TypeOK /\ Tracked(a)
      /\ wire[a] \in Seq(Command) /\ back[a] \in Seq(Report) /\ work[a] \in Work
      /\ rec[a] \in Record
  BY DEF TypeInv, TypeOK, TrackInv
<1>1. ASSUME NEW b \in Agents \ {a} PROVE Tracked(b)'
  <2>1. /\ rec'[b] = rec[b] /\ running'[b] = running[b] /\ wire'[b] = wire[b]
        /\ back'[b] = back[b] /\ work'[b] = work[b] /\ online'[b] = online[b]
    BY <1>0, <1>1 DEF TypeOK, AgentStep, Connect, DropSession, AgentTake, AgentFinish,
       HandleReport, ExpireRecord, RuntimeReport, Queue, SessionEnds, netVars
  <2> QED BY <1>1, <2>1, FrameTracked DEF TrackInv
<1> SUFFICES Tracked(a)'
  BY <1>1 DEF TrackInv
<1>2. CASE Connect(a)
  <2>1. PICK i \in Ids : FreshId(a, i) /\ Queue(a, AuthoritativeProfile(a), i)
    BY <1>2 DEF Connect
  <2>2. online'[a] = TRUE /\ UNCHANGED <<back, work, running>>
    BY <1>0, <1>2 DEF Connect, TypeOK
  <2> QED BY <1>0, <2>1, <2>2, QueueTracked
<1>3. CASE DropSession(a)
  BY <1>0, <1>3, SessionEndsTracked DEF DropSession
<1>4. CASE AgentTake(a)
  <2>1. /\ Idle(a) /\ wire[a] # <<>> /\ UNCHANGED <<rec, online, back, running>>
        /\ work'[a] = [id |-> Head(wire[a]).id, cfg |-> Head(wire[a]).cfg, live |-> TRUE]
        /\ wire'[a] = Tail(wire[a])
    BY <1>0, <1>4 DEF AgentTake, TypeOK
  <2>2. /\ DOMAIN wire[a] = 1..Len(wire[a]) /\ Len(wire[a]) \in Nat \ {0}
        /\ Head(wire[a]) = wire[a][1] /\ Head(wire[a]) \in Command
        /\ DOMAIN wire'[a] = 1..(Len(wire[a]) - 1) /\ Len(wire'[a]) = Len(wire[a]) - 1
        /\ \A j \in 1..(Len(wire[a]) - 1) : wire'[a][j] = wire[a][j + 1]
    BY <1>0, <2>1
  <2>t. \A j \in 1..Len(wire[a]) :
           wire[a][j].id = rec[a].id => j = Len(wire[a]) /\ wire[a][j].cfg = rec[a].cfg
    BY <1>0, <2>2 DEF Tracked
  <2>3. Head(wire[a]).id = rec[a].id =>
           wire'[a] = <<>> /\ Head(wire[a]).cfg = rec[a].cfg
    <3>1. Head(wire[a]).id = rec[a].id => Len(wire[a]) = 1 /\ Head(wire[a]).cfg = rec[a].cfg
      <4>1. 1 \in 1..Len(wire[a])
        BY <2>2
      <4> QED BY <2>2, <2>t, <4>1
    <3>2. wire'[a] \in Seq(Command)
      BY <1>0, <2>1
    <3> QED BY <2>2, <3>1, <3>2, EmptySeq
  <2>4. \A j \in DOMAIN wire'[a] :
           wire'[a][j].id = rec[a].id => j = Len(wire'[a]) /\ wire'[a][j].cfg = rec[a].cfg
    <3> SUFFICES ASSUME NEW j \in 1..(Len(wire[a]) - 1), wire'[a][j].id = rec[a].id
                 PROVE  j = Len(wire[a]) - 1 /\ wire'[a][j].cfg = rec[a].cfg
      BY <2>2
    <3>1. j + 1 \in 1..Len(wire[a]) /\ wire'[a][j] = wire[a][j + 1]
      BY <2>2
    <3>2. j + 1 = Len(wire[a]) /\ wire[a][j + 1].cfg = rec[a].cfg
      BY <2>t, <3>1
    <3> QED BY <2>2, <3>1, <3>2
  <2>5. /\ online[a] /\ rec[a].status \notin {"applied", "runtime_failed"}
        /\ \A j \in DOMAIN back[a] : back[a][j].id # rec[a].id
    BY <1>0, <2>1 DEF Tracked
  <2> QED BY <2>1, <2>3, <2>4, <2>5 DEF Tracked
<1>5. CASE AgentFinish(a)
  <2>1. /\ ~Idle(a) /\ UNCHANGED <<rec, online, wire>>
        /\ work'[a] = NoWork
    BY <1>0, <1>5 DEF AgentFinish, TypeOK
  <2>2. Idle(a)' /\ ~work'[a].live
    BY <2>1 DEF NoWork, Idle
  <2>3. /\ rec[a].status \notin {"applied", "runtime_failed"}
        /\ \A j \in DOMAIN back[a] : back[a][j].id # rec[a].id
    BY <1>0, <2>1 DEF Tracked
  <2>4. CASE ~work[a].live
    <3>1. back' = back
      BY <1>5, <2>4 DEF AgentFinish
    <3> QED BY <1>0, <2>1, <2>2, <2>3, <3>1 DEF Tracked
  <2>5. CASE work[a].live
    <3>1. PICK ok \in BOOLEAN :
            /\ running' = IF ok THEN [running EXCEPT ![a] = work[a].cfg] ELSE running
            /\ back' = [back EXCEPT ![a] = Append(@, [id |-> work[a].id, ok |-> ok])]
      BY <1>5, <2>5 DEF AgentFinish
    <3>2. /\ back'[a] = Append(back[a], [id |-> work[a].id, ok |-> ok])
          /\ ok => running'[a] = work[a].cfg
      BY <1>0, <3>1 DEF TypeOK
    <3>3. /\ DOMAIN back[a] = 1..Len(back[a]) /\ Len(back[a]) \in Nat
          /\ DOMAIN back'[a] = 1..(Len(back[a]) + 1) /\ Len(back'[a]) = Len(back[a]) + 1
          /\ \A j \in 1..Len(back[a]) : back'[a][j] = back[a][j]
          /\ back'[a][Len(back[a]) + 1] = [id |-> work[a].id, ok |-> ok]
      BY <1>0, <3>2
    <3>4. online[a] /\ (work[a].id = rec[a].id => wire[a] = <<>> /\ work[a].cfg = rec[a].cfg)
      BY <1>0, <2>5 DEF Tracked
    <3>5. \A j \in DOMAIN back'[a] : back'[a][j].id = rec[a].id =>
             /\ j = Len(back'[a]) /\ wire[a] = <<>>
             /\ back'[a][j].ok => running'[a] = rec[a].cfg
      BY <2>3, <3>2, <3>3, <3>4
    <3> QED BY <1>0, <2>1, <2>2, <2>3, <3>4, <3>5 DEF Tracked
  <2> QED BY <2>4, <2>5
<1>6. CASE HandleReport(a)
  <2>1. back[a] # <<>> /\ running' = running
    BY <1>6 DEF HandleReport
  <2>2. CASE SessionEnds(a) /\ UNCHANGED rec
    BY <1>0, <2>1, <2>2, SessionEndsTracked
  <2>3. CASE /\ Head(back[a]).id = rec[a].id
             /\ rec' = [rec EXCEPT ![a] =
                          Transition(@, IF Head(back[a]).ok THEN "applied" ELSE "failed")]
             /\ back' = [back EXCEPT ![a] = Tail(@)]
             /\ UNCHANGED <<online, wire, work>>
    <3>1. /\ Len(back[a]) \in Nat \ {0} /\ 1 \in DOMAIN back[a] /\ Head(back[a]) = back[a][1]
      BY <1>0, <2>1
    <3>2. /\ Len(back[a]) = 1 /\ wire[a] = <<>> /\ Idle(a)
          /\ Head(back[a]).ok => running[a] = rec[a].cfg
      BY <1>0, <2>3, <3>1 DEF Tracked
    <3>3. back'[a] = <<>>
      <4>1. back'[a] = Tail(back[a])
        BY <1>0, <2>3 DEF TypeOK
      <4>2. Tail(back[a]) \in Seq(Report) /\ Len(Tail(back[a])) = 0
        BY <1>0, <2>1, <3>2
      <4> QED BY <4>1, <4>2, EmptySeq
    <3>4. /\ rec'[a].id = rec[a].id /\ rec'[a].cfg = rec[a].cfg
          /\ rec'[a].status \in {"applied", "runtime_failed"} => Head(back[a]).ok
      BY <1>0, <2>3 DEF TypeOK, Transition, Record
    <3>5. Idle(a)' /\ wire'[a] = <<>> /\ DOMAIN wire'[a] = {} /\ DOMAIN back'[a] = {}
      BY <2>3, <3>2, <3>3 DEF Idle
    <3>6. ~work'[a].live
      BY <1>0, <2>3, <3>2 DEF Work, Idle
    <3> QED BY <2>1, <3>2, <3>3, <3>4, <3>5, <3>6 DEF Tracked
  <2> QED BY <1>6, <2>2, <2>3 DEF HandleReport
<1>7. CASE ExpireRecord(a) \/ RuntimeReport(a)
  <2>1. UNCHANGED <<online, wire, back, work, running>>
    BY <1>7 DEF ExpireRecord, RuntimeReport, netVars
  <2>2. \E s \in Statuses :
           /\ rec'[a] = Transition(rec[a], s)
           /\ s \in {"applied", "runtime_failed"} =>
                 rec[a].status \in {"applied", "runtime_failed"}
    BY <1>0, <1>7 DEF ExpireRecord, RuntimeReport, TypeOK, Statuses
  <2>3. /\ rec'[a].id = rec[a].id /\ rec'[a].cfg = rec[a].cfg
        /\ rec'[a].status \in {"applied", "runtime_failed"} =>
              rec[a].status \in {"applied", "runtime_failed"}
    BY <1>0, <2>2 DEF Transition, Record
  <2> QED BY <1>0, <2>1, <2>3 DEF Tracked, Idle
<1> QED BY <1>2, <1>3, <1>4, <1>5, <1>6, <1>7 DEF AgentStep

LEMMA RunTracked ==
  ASSUME TypeInv, TrackInv, RunStep
  PROVE  TrackInv'
<1>0. TypeOK
  BY DEF TypeInv
<1>1. CASE UNCHANGED <<rec, running, wire, back, work, online>>
  BY <1>1 DEF TrackInv, Tracked, Idle
<1>2. CASE RunQueue
  <2>0. PICK a \in Agents : a = run.cur
    BY <1>2, StageCfgType DEF RunQueue
  <2>1. ASSUME NEW b \in Agents \ {a} PROVE Tracked(b)'
    <3>1. /\ rec'[b] = rec[b] /\ running'[b] = running[b] /\ wire'[b] = wire[b]
          /\ back'[b] = back[b] /\ work'[b] = work[b] /\ online'[b] = online[b]
      BY <1>0, <1>2, <2>0, <2>1 DEF TypeOK, RunQueue, Queue, SessionEnds
    <3> QED BY <2>1, <3>1, FrameTracked DEF TrackInv
  <2>2. PICK i \in Ids :
          /\ FreshId(a, i)
          /\ \/ /\ Queue(a, StageCfg, i)
                /\ UNCHANGED <<online, back, work>>
             \/ /\ rec' = [rec EXCEPT ![a] = Create(a, i, StageCfg, "failed")]
                /\ SessionEnds(a)
    BY <1>2, <2>0 DEF RunQueue
  <2>3. Tracked(a) /\ online[a] = TRUE /\ running' = running
    BY <1>0, <1>2, <2>0 DEF TrackInv, RunQueue, CanQueue, TypeOK
  <2>4. Tracked(a)'
    <3>1. CASE Queue(a, StageCfg, i) /\ UNCHANGED <<online, back, work>>
      BY <1>0, <2>2, <2>3, <3>1, QueueTracked
    <3>2. CASE rec' = [rec EXCEPT ![a] = Create(a, i, StageCfg, "failed")] /\ SessionEnds(a)
      <4>1. rec'[a].status = "failed"
        BY <1>0, <3>2 DEF TypeOK, Create
      <4> QED BY <1>0, <2>3, <3>2, <4>1, SessionEndsTracked
    <3> QED BY <2>2, <3>1, <3>2
  <2> QED BY <2>1, <2>4 DEF TrackInv
<1> QED BY <1>1, <1>2, RunLeaves

LEMMA RestartTracked ==
  ASSUME TypeInv, TrackInv, Restart
  PROVE  TrackInv'
<1> SUFFICES ASSUME NEW a \in Agents PROVE Tracked(a)'
  BY DEF TrackInv
<1>1. /\ wire'[a] = <<>> /\ back'[a] = <<>> /\ rec' = rec /\ running' = running
      /\ work'[a] = [work[a] EXCEPT !.live = FALSE] /\ work[a] \in Work
  BY DEF Restart, TypeInv, TypeOK
<1>2. ~work'[a].live /\ (Idle(a) => Idle(a)')
  BY <1>1, DetachedWork DEF Idle
<1>3. DOMAIN wire'[a] = {} /\ DOMAIN back'[a] = {}
  BY <1>1
<1> QED BY <1>1, <1>2, <1>3 DEF TrackInv, Tracked

(* Starting, editing and the passes of the reconciler reach no Agent.      *)
LEMMA QuietStep ==
  ASSUME OperatorStep \/ TickIdle \/ TickStart
  PROVE  UNCHANGED <<rec, running, wire, back, work, online>>
<1>1. CASE \E t \in Topologies : Mutate(t) \/ MutateFails(t)
  BY <1>1, Zenon DEF Mutate, MutateFails, netVars
<1>2. CASE SaveStore \/ StartReserved \/ RefuseEdit \/ RestoreTopology
  BY <1>2, Zenon DEF SaveStore, StartReserved, RefuseEdit, RestoreTopology, netVars
<1>3. CASE ManualStart \/ StartAppliedRefresh
  BY <1>3, Zenon DEF ManualStart, StartAppliedRefresh, netVars
<1>4. CASE TickIdle \/ TickStart
  BY <1>4, Zenon DEF TickIdle, TickStart, netVars
<1> QED BY <1>1, <1>2, <1>3, <1>4 DEF OperatorStep

LEMMA TrackedInit == Init => TrackInv
BY DEF Init, TrackInv, Tracked, NoRecord, NoWork, Idle

LEMMA TrackedStep == TypeInv /\ TrackInv /\ [Next]_vars => TrackInv'
<1>1. ASSUME TypeInv, TrackInv, UNCHANGED vars PROVE TrackInv'
  BY <1>1 DEF vars, TrackInv, Tracked, Idle
<1>2. ASSUME TypeInv, TrackInv, OperatorStep \/ TickIdle \/ TickStart PROVE TrackInv'
  BY <1>2, QuietStep DEF TrackInv, Tracked, Idle
<1> QED BY <1>1, <1>2, RunTracked, AgentTracked, RestartTracked DEF Next

(* The deployment record is the truth: queueDeployment's refusal of a busy *)
(* record, the fresh identifiers, the superseding profile on reconnect and *)
(* the report that must match its record are together enough, for any      *)
(* interleaving and any number of lost sessions, timeouts and restarts.    *)
THEOREM RecordsTruthful == Spec => []RecordsAreTruthful
<1>1. Init => TypeInv /\ TrackInv
  BY TypeInit, TrackedInit
<1>2. TypeInv /\ TrackInv /\ [Next]_vars => TypeInv' /\ TrackInv'
  BY TypeStep, TrackedStep
<1>3. TrackInv => RecordsAreTruthful
  BY DEF TrackInv, Tracked, RecordsAreTruthful
<1> QED BY <1>1, <1>2, <1>3, PTL DEF Spec

(***************************************************************************)
(* The atomicity of a fleet rollout, for every set of Agents, every        *)
(* topology and every number of edits, crashes, lost sessions, timeouts,   *)
(* refused activations and failed writes: what the Agents run, the journal *)
(* on disk and the recorded applied topology agree in every reachable      *)
(* state, and the whole implements AtomicFleet.                            *)
(*                                                                         *)
(* The argument follows each Agent's configuration.  An Agent is settled   *)
(* on c when it runs c and every command, activation and record that can   *)
(* still reach it says c.  Agents the journal on disk does not name are    *)
(* settled on the applied topology (HomeInv); while a rollout moves        *)
(* forward, the Agents it is done with are settled on the candidate        *)
(* (ForwardInv); while it is undone, the Agents it is done with are back   *)
(* (UndoInv).                                                              *)
(*                                                                         *)
(* Two failures are excluded by hypothesis.  One is that the journal of a  *)
(* committed transaction cannot be removed: the next start would then undo *)
(* a rollout that was completed, which is what the run FleetUnlink shows.  *)
(* The other is that a restart reads a commit that MarkTopologyApplied     *)
(* reported as failed although its file had been renamed into place: that  *)
(* start would drop the journal of a rollout that is being undone.  Every  *)
(* other outcome of the failed write is covered.                           *)
(***************************************************************************)
(* The journal file of a committed transaction can always be removed       *)
(* (clearTransaction in deployer.go).                                      *)
CommittedJournalsGo == \A b \in Budgets : b["unlinkCommitted"] = 0

(* A commit reported as failed is written over before the master stops     *)
(* (replaceStateFile in replace_file_unix.go).                             *)
DisownedCommitsGo == \A b \in Budgets : b["disowned"] = 0

-----------------------------------------------------------------------------
(* The inductive invariant.                                                *)

(* The Agent last confirmed c, or nothing and c is the empty configuration. *)
Confirmed(r, c) ==
    \/ AppliedConfiguration(r) = c
    \/ AppliedConfiguration(r) = NoCfg /\ c = Empty

(* The Agent runs c, and whatever is on its way to it is c as well.        *)
Settled(a, c) ==
    /\ running[a] = c
    /\ \A i \in DOMAIN wire[a] : wire[a][i].cfg = c
    /\ ~Idle(a) => work[a].cfg = c
    /\ deploymentRecordBusy(rec[a]) => rec[a].cfg = c
    /\ Confirmed(rec[a], c)

Home(a) == Settled(a, Compile[store.active][a])

(* The Agent has confirmed some configuration to the master, ever. *)
Known(a) == AppliedConfiguration(rec[a]) # NoCfg

Arrived(a) == Settled(a, Compile[run.cand][a]) /\ Known(a)

(* The Agents an open transaction may have changed.                        *)
Moving == IF Uncommitted THEN journal.touched ELSE {}

(* Revisions only grow, and the newest is applied only with its topology.  *)
Sound(c) ==
    /\ c.applied <= c.revision
    /\ c.applied = c.revision => c.desired = c.active

StoreInv == Sound(Held) /\ Sound(store.file)

(* The transaction in memory is at work, or has changed Agents.            *)
Live == tx # NoTx /\ (run.pc # "idle" \/ tx.touched # {})

(* The journal in memory is the one on disk, but for a touch or a phase    *)
(* that could not be written; a journal that is only on disk, or that      *)
(* names no Agent, is left over from a rollout that did not begin.  Until  *)
(* the commit a live one restores the applied topology.                    *)
JournalInv ==
    /\ tx # NoTx =>
          /\ journal # NoTx
          /\ journal.rev = tx.rev /\ journal.from = tx.from /\ journal.rb = tx.rb
          /\ journal.touched \subseteq tx.touched
    /\ tx = NoTx /\ journal # NoTx => journal.touched = {}
    /\ journal # NoTx /\ journal.touched = {} => journal.phase = "deploying"
    /\ Live /\ run.pc # "clear" =>
          /\ store.applied < journal.rev
          /\ journal.from = store.active
          /\ \A a \in Agents : journal.rb[a] = Compile[store.active][a]
    /\ run.pc = "clear" =>
          tx # NoTx /\ journal.phase = "committing" /\ store.applied = journal.rev

HomeInv == \A a \in Agents \ Moving : Home(a)

KnownInv == \A a \in AgentsOf(store.active) : Known(a)

(* A goroutine that moves a rollout forward.                               *)
Forward == run.pc # "idle" /\ run.plane = "topology" /\ run.stage # "undo"
Deploying == {"pick", "queue", "wait"}

ForwardRun ==
    /\ run.rev <= store.revision
    /\ run.rev = store.revision => run.cand = store.desired
    /\ run.agents = {} => tx = NoTx
    /\ run.agents # {} =>
          /\ tx # NoTx /\ journal.rev = run.rev
          /\ run.touched = journal.touched /\ run.touched = tx.touched
    /\ run.pc # "clear" =>
          \A a \in Agents \ run.agents :
             /\ Compile[run.cand][a] = Compile[store.active][a]
             /\ a \in AgentsOf(run.cand) => Known(a)
    /\ run.pc \in {"mark", "clear"} => run.agents # {} /\ journal.phase = "committing"

ForwardAgents ==
    /\ run.pc \in Deploying =>
          /\ run.agents \subseteq run.todo \cup run.touched
          /\ \A a \in run.agents \ run.todo : Arrived(a)
          /\ \A a \in run.agents \ run.todo, b \in run.todo :
                Depth[run.cand][b] <= Depth[run.cand][a]
    /\ run.pc = "pick" => run.todo \cap run.touched = {}
    /\ run.pc \in {"queue", "wait"} =>
          /\ run.cur \in Deepest(run.cand, run.todo)
          /\ run.todo \cap run.touched = {run.cur}
    /\ run.pc \notin Deploying =>
          /\ run.agents \subseteq run.touched
          /\ \A a \in run.agents : Arrived(a)

ForwardInv == Forward => ForwardRun /\ ForwardAgents

(* A rollback, and what it has put back so far.                            *)
UndoInv ==
    run.pc # "idle" /\ run.stage = "undo" =>
        /\ run.plane = "topology" /\ run.pc \in Deploying
        /\ tx # NoTx /\ ~run.failed => \A a \in journal.touched \ run.todo : Home(a)

(* A refresh re-renders the applied topology and has no journal.           *)
RefreshInv ==
    run.pc # "idle" /\ run.plane = "refresh" =>
        tx = NoTx /\ run.cand = store.active /\ run.pc \in Deploying

(* The deployment a goroutine waits for carries what it is installing.     *)
WaitInv == run.pc = "wait" /\ rec[run.cur].id = run.id => rec[run.cur].cfg = StageCfg

(* An active job has its goroutine, a recovery an undoing one.             *)
JobInv ==
    Active => /\ run.pc # "idle"
              /\ job.plane = "recovery" => run.stage = "undo" /\ run.agents # {}

Inv == /\ TypeInv /\ TrackInv /\ StoreInv /\ JournalInv /\ HomeInv /\ KnownInv
       /\ ForwardInv /\ UndoInv /\ RefreshInv /\ WaitInv /\ JobInv
       /\ budget["unlinkCommitted"] = 0 /\ budget["disowned"] = 0

-----------------------------------------------------------------------------
(* Settled Agents stay settled.                                            *)

(* A step that does not reach the Agent.                                   *)
LEMMA SettledFrame ==
  ASSUME NEW a \in Agents, NEW c \in Cfgs, Settled(a, c), rec'[a] = rec[a],
         running'[a] = running[a], wire'[a] = wire[a], work'[a] = work[a]
  PROVE  Settled(a, c)'
BY DEF Settled, Idle

(* A record that changes without a command: it fails, or keeps what it     *)
(* says of the Agent.                                                      *)
LEMMA SettledRecord ==
  ASSUME NEW a \in Agents, NEW c \in Cfgs, Settled(a, c),
         running'[a] = running[a], work'[a].id = work[a].id, work'[a].cfg = work[a].cfg,
         wire'[a] = wire[a] \/ wire'[a] = <<>>,
         rec'[a].status # "deploying" \/ rec'[a] = rec[a],
         AppliedConfiguration(rec'[a]) \in {AppliedConfiguration(rec[a]), c}
  PROVE  Settled(a, c)'
<1>1. \A i \in DOMAIN wire'[a] : wire'[a][i].cfg = c
  <2>1. CASE wire'[a] = wire[a] BY <2>1 DEF Settled
  <2>2. CASE wire'[a] = <<>> BY <2>2
  <2> QED BY <2>1, <2>2
<1>2. Confirmed(rec'[a], c)
  BY DEF Settled, Confirmed
<1> QED BY <1>1, <1>2 DEF Settled, Idle, deploymentRecordBusy

(* The end of a session takes commands away and adds none.                 *)
LEMMA SettledSessionEnds ==
  ASSUME TypeOK, NEW a \in Agents, NEW b \in Agents, NEW c \in Cfgs, Settled(a, c),
         SessionEnds(b), running' = running, rec'[a] = rec[a]
  PROVE  Settled(a, c)'
<1>1. /\ work'[a].id = work[a].id /\ work'[a].cfg = work[a].cfg
      /\ wire'[a] = wire[a] \/ wire'[a] = <<>>
  BY DEF TypeOK, SessionEnds, Work
<1> QED BY <1>1, SettledRecord

(* The new record inherits what the Agent last confirmed.                  *)
LEMMA SettledQueue ==
  ASSUME TypeOK, NEW a \in Agents, NEW c \in Cfgs, NEW i \in Ids, Settled(a, c),
         Queue(a, c, i), work' = work, running' = running
  PROVE  Settled(a, c)'
<1>1. /\ rec'[a].cfg = c /\ rec'[a].status = "deploying"
      /\ rec'[a].last = AppliedConfiguration(rec[a])
      /\ wire'[a] = Append(wire[a], [id |-> i, cfg |-> c]) /\ wire[a] \in Seq(Command)
  BY DEF TypeOK, Queue, Create
<1>2. \A j \in DOMAIN wire'[a] : wire'[a][j].cfg = c
  BY <1>1 DEF Settled
<1>3. Confirmed(rec[a], c)'
  BY <1>1 DEF Settled, Confirmed, AppliedConfiguration
<1> QED BY <1>1, <1>2, <1>3 DEF Settled, Idle

(* A record that says applied settles the Agent on its configuration.      *)
LEMMA AppliedSettles ==
  ASSUME TypeInv, TrackInv, NEW a \in Agents, rec[a].status = "applied"
  PROVE  Settled(a, rec[a].cfg)
BY DEF TrackInv, Tracked, Settled, Confirmed, AppliedConfiguration, deploymentRecordBusy

(* What a reconnecting Agent is sent, when it is settled.                  *)
LEMMA ProfileOfSettled ==
  ASSUME TypeInv, NEW a \in Agents, NEW c \in Cfgs, Settled(a, c),
         c = Compile[store.active][a] \/ (tx # NoTx /\ a \in tx.touched)
  PROVE  AuthoritativeProfile(a) = c
BY ConstantsAssumption DEF Settled, Confirmed, AuthoritativeProfile

(* No step of any Agent or session unsettles a settled one.                *)
LEMMA AgentSettled ==
  ASSUME TypeInv, NEW a \in Agents, NEW c \in Cfgs, Settled(a, c),
         AuthoritativeProfile(a) = c, NEW b \in Agents, AgentStep(b)
  PROVE  Settled(a, c)'
<1>0. /\ TypeOK /\ rec[a] \in Record /\ work[a] \in Work /\ wire[a] \in Seq(Command)
  BY DEF TypeInv, TypeOK
<1>1. CASE a # b
  <2>1. rec'[a] = rec[a] /\ running'[a] = running[a] /\ wire'[a] = wire[a] /\ work'[a] = work[a]
    BY <1>0, <1>1 DEF TypeOK, AgentStep, Connect, DropSession, AgentTake, AgentFinish,
       HandleReport, ExpireRecord, RuntimeReport, Queue, SessionEnds, netVars
  <2> QED BY <2>1, SettledFrame
<1>2. CASE a = b
  <2>1. CASE Connect(a)
    <3>1. PICK i \in Ids : Queue(a, c, i)
      BY <2>1 DEF Connect
    <3> QED BY <1>0, <2>1, <3>1, SettledQueue DEF Connect
  <2>2. CASE DropSession(a)
    BY <1>0, <2>2, SettledSessionEnds DEF DropSession
  <2>3. CASE AgentTake(a)
    <3>1. /\ wire[a] # <<>> /\ rec' = rec /\ running' = running
          /\ work'[a].cfg = Head(wire[a]).cfg /\ wire'[a] = Tail(wire[a])
      BY <1>0, <2>3 DEF AgentTake, TypeOK
    <3>2. Head(wire[a]).cfg = c
      BY <1>0, <3>1 DEF Settled
    <3>3. \A i \in DOMAIN wire'[a] : wire'[a][i].cfg = c
      BY <1>0, <3>1 DEF Settled
    <3> QED BY <3>1, <3>2, <3>3 DEF Settled, Idle
  <2>4. CASE AgentFinish(a)
    <3>1. /\ ~Idle(a) /\ rec' = rec /\ wire' = wire
          /\ running'[a] \in {running[a], work[a].cfg} /\ work'[a] = NoWork
      BY <1>0, <2>4 DEF AgentFinish, TypeOK
    <3>2. work'[a].id = 0
      BY <3>1 DEF NoWork
    <3> QED BY <3>1, <3>2 DEF Settled, Idle
  <2>5. CASE HandleReport(a)
    <3>1. CASE SessionEnds(a) /\ UNCHANGED rec
      BY <1>0, <2>5, <3>1, SettledSessionEnds DEF HandleReport
    <3>2. CASE /\ deploymentRecordBusy(rec[a]) /\ UNCHANGED <<online, wire, work>>
               /\ \E s \in {"applied", "failed"} : rec'[a] = Transition(rec[a], s)
      <4>1. PICK s \in {"applied", "failed"} : rec'[a] = Transition(rec[a], s)
        BY <3>2
      <4>2. /\ rec'[a].status = s /\ rec'[a].cfg = rec[a].cfg
            /\ rec'[a].last = IF s = "applied" THEN rec[a].cfg ELSE rec[a].last
        BY <1>0, <4>1 DEF Transition, Record
      <4>3. AppliedConfiguration(rec'[a]) \in {AppliedConfiguration(rec[a]), c}
        BY <3>2, <4>2 DEF AppliedConfiguration, deploymentRecordBusy, Settled
      <4> QED BY <2>5, <3>2, <4>2, <4>3, SettledRecord DEF HandleReport, deploymentRecordBusy
    <3> QED BY <1>0, <2>5, <3>1, <3>2 DEF HandleReport, TypeOK
  <2>6. CASE ExpireRecord(a) \/ RuntimeReport(a)
    <3>1. UNCHANGED <<wire, work, running>>
      BY <2>6 DEF ExpireRecord, RuntimeReport, netVars
    <3>2. PICK s \in {"failed", "applied", "runtime_failed"} :
            /\ rec' = [rec EXCEPT ![a] = Transition(@, s)]
            /\ IF s = "failed" THEN deploymentRecordBusy(rec[a])
               ELSE rec[a].status \in {"applied", "runtime_failed"}
      BY <2>6 DEF ExpireRecord, RuntimeReport
    <3>3. rec'[a] = Transition(rec[a], s)
      BY <1>0, <3>2 DEF TypeOK
    <3>4. /\ rec'[a].status # "deploying"
          /\ AppliedConfiguration(rec'[a]) = AppliedConfiguration(rec[a])
      <4>1. /\ rec'[a].status = s /\ rec'[a].cfg = rec[a].cfg
            /\ rec'[a].last = IF s = "applied" THEN rec[a].cfg ELSE rec[a].last
        BY <1>0, <3>3 DEF Transition, Record
      <4> QED BY <3>2, <4>1 DEF AppliedConfiguration, deploymentRecordBusy
    <3> QED BY <3>1, <3>4, SettledRecord
  <2> QED BY <1>2, <2>1, <2>2, <2>3, <2>4, <2>5, <2>6 DEF AgentStep
<1> QED BY <1>1, <1>2

(* The goroutine unsettles at most the Agent it queues on.                 *)
LEMMA RunSettled ==
  ASSUME TypeInv, NEW a \in Agents, NEW c \in Cfgs, Settled(a, c), RunStep,
         run.pc = "queue" /\ run.cur = a => StageCfg = c
  PROVE  Settled(a, c)'
<1>0. TypeOK /\ rec[a] \in Record
  BY DEF TypeInv, TypeOK
<1>1. CASE UNCHANGED <<rec, running, wire, work>>
  BY <1>1, SettledFrame
<1>2. CASE RunQueue
  <2>0. run.cur \in Agents
    BY <1>2, StageCfgType DEF RunQueue
  <2>2. PICK i \in Ids :
          \/ /\ Queue(run.cur, StageCfg, i)
             /\ UNCHANGED <<online, back, work>>
          \/ /\ rec' = [rec EXCEPT ![run.cur] = Create(run.cur, i, StageCfg, "failed")]
             /\ SessionEnds(run.cur)
    BY <1>2 DEF RunQueue
  <2>3. running' = running
    BY <1>2 DEF RunQueue
  <2>4. CASE Queue(run.cur, StageCfg, i) /\ UNCHANGED <<online, back, work>>
    <3>1. CASE a = run.cur
      BY <1>0, <1>2, <2>3, <2>4, <3>1, SettledQueue DEF RunQueue
    <3>2. CASE a # run.cur
      <4>1. rec'[a] = rec[a] /\ wire'[a] = wire[a]
        BY <1>0, <2>4, <3>2 DEF Queue, TypeOK
      <4> QED BY <2>3, <2>4, <4>1, SettledFrame
    <3> QED BY <3>1, <3>2
  <2>5. CASE /\ rec' = [rec EXCEPT ![run.cur] = Create(run.cur, i, StageCfg, "failed")]
             /\ SessionEnds(run.cur)
    <3>1. CASE a = run.cur
      <4>1. rec'[a] = Create(a, i, StageCfg, "failed")
        BY <1>0, <2>5, <3>1 DEF TypeOK
      <4>2. /\ rec'[a].status # "deploying"
            /\ AppliedConfiguration(rec'[a]) = AppliedConfiguration(rec[a])
        BY <4>1 DEF Create, AppliedConfiguration, deploymentRecordBusy
      <4>3. /\ work'[a].id = work[a].id /\ work'[a].cfg = work[a].cfg /\ wire'[a] = <<>>
        <5>1. work[a] \in Work /\ work'[a] = [work[a] EXCEPT !.live = FALSE] /\ wire'[a] = <<>>
          BY <1>0, <2>5, <3>1 DEF TypeOK, SessionEnds
        <5> QED BY <5>1 DEF Work
      <4> QED BY <2>3, <4>2, <4>3, SettledRecord
    <3>2. CASE a # run.cur
      <4>1. rec'[a] = rec[a]
        BY <1>0, <2>5, <3>2 DEF TypeOK
      <4> QED BY <1>0, <2>0, <2>3, <2>5, <4>1, SettledSessionEnds
    <3> QED BY <3>1, <3>2
  <2> QED BY <2>2, <2>4, <2>5
<1> QED BY <1>1, <1>2, RunLeaves

(* A restart of the master takes commands away and adds none.              *)
LEMMA RestartSettled ==
  ASSUME TypeInv, NEW a \in Agents, NEW c \in Cfgs, Settled(a, c), Restart
  PROVE  Settled(a, c)'
<1>1. /\ work'[a].id = work[a].id /\ work'[a].cfg = work[a].cfg /\ wire'[a] = <<>>
      /\ rec' = rec /\ running' = running
  BY DEF Restart, TypeInv, TypeOK, Work
<1> QED BY <1>1, SettledRecord

-----------------------------------------------------------------------------
(* Readings of the invariant.                                              *)

LEMMA Facts ==
  ASSUME TypeInv
  PROVE  /\ store.revision \in Nat /\ store.applied \in Nat /\ run.rev \in Nat
         /\ store.desired \in Topologies /\ store.active \in Topologies
         /\ run \in Run /\ run.cand \in Topologies /\ run.agents \in SUBSET Agents
         /\ run.todo \subseteq run.agents /\ run.touched \subseteq run.agents
         /\ run.stage \in {"retire", "deploy", "undo"} /\ run.plane \in {"topology", "refresh"}
         /\ run.pc \in {"idle", "pick", "queue", "wait", "confirm", "mark", "clear"}
         /\ run.pc \in {"queue", "wait"} => run.cur \in run.agents /\ run.cur \in Agents
         /\ run.pc # "idle" => Active
         /\ run.pc # "idle" /\ run.plane = "topology" /\ run.agents # {} => tx # NoTx
         /\ run.pc \in {"confirm", "mark", "clear"} => run.plane = "topology"
         /\ run.plane = "refresh" => run.stage = "deploy"
         /\ run.stage = "retire" => run.pc \in {"queue", "wait"}
         /\ \A t \in Topologies, a \in Agents : Compile[t][a] \in Cfgs
BY ConstantsAssumption DEF TypeInv, TypeOK, RunHoldsTransaction, Run, Active

LEMMA JournalFacts ==
  ASSUME TypeInv
  PROVE  /\ journal # NoTx =>
              /\ journal \in Transaction /\ journal.rev \in Nat /\ journal.from \in Topologies
              /\ journal.touched \in SUBSET Agents
         /\ tx # NoTx =>
              /\ tx \in Transaction /\ tx.rev \in Nat /\ tx.from \in Topologies
              /\ tx.touched \in SUBSET Agents
BY DEF TypeInv, TypeOK, Transaction

(* The journal on disk describes something to undo until the commit.       *)
LEMMA OpenUntilCommit ==
  ASSUME TypeInv, JournalInv
  PROVE  /\ Uncommitted <=> journal # NoTx /\ run.pc # "clear"
         /\ Moving = IF journal # NoTx /\ run.pc # "clear" THEN journal.touched ELSE {}
<1>1. store.applied \in Nat /\ (journal # NoTx => journal.rev \in Nat)
  BY Facts, JournalFacts
<1>2. ASSUME journal # NoTx, run.pc # "clear" PROVE Uncommitted
  <2>1. CASE journal.touched = {}
    BY <1>2, <2>1 DEF JournalInv, Uncommitted
  <2>2. CASE journal.touched # {}
    <3>1. Live
      BY <1>2, <2>2 DEF JournalInv, Live
    <3> QED BY <1>1, <1>2, <3>1 DEF JournalInv, Uncommitted
  <2> QED BY <2>1, <2>2
<1>3. Uncommitted => journal # NoTx /\ run.pc # "clear"
  BY DEF JournalInv, Uncommitted
<1> QED BY <1>2, <1>3 DEF Moving

(* A journal without its transaction names no Agent.                       *)
LEMMA NothingMoves ==
  ASSUME TypeInv, JournalInv, tx = NoTx
  PROVE  Moving = {}
BY OpenUntilCommit DEF JournalInv

(* What the goroutine installs: the candidate on an Agent the journal      *)
(* names, or the applied topology.                                         *)
LEMMA Installs ==
  ASSUME Inv, run.pc \in {"queue", "wait"}
  PROVE  /\ run.cur \in Agents /\ StageCfg \in Cfgs
         /\ run.stage = "deploy" => StageCfg = Compile[run.cand][run.cur]
         /\ Forward => run.cur \in Moving /\ run.cur \in run.todo
         /\ ~Forward => StageCfg = Compile[store.active][run.cur]
<1>0. /\ TypeInv /\ JournalInv /\ ForwardInv /\ UndoInv /\ RefreshInv
  BY DEF Inv
<1>1. run.cur \in Agents /\ StageCfg \in Cfgs /\ run.cur \in run.agents
  BY <1>0, StageCfgType, Facts
<1>2. run.stage = "deploy" => StageCfg = Compile[run.cand][run.cur]
  BY DEF StageCfg
<1>3. ASSUME Forward PROVE run.cur \in Moving /\ run.cur \in run.todo
  <2>1. run.cur \in run.touched /\ run.cur \in run.todo /\ run.touched = journal.touched
        /\ tx # NoTx
    BY <1>0, <1>1, <1>3 DEF ForwardInv, ForwardRun, ForwardAgents
  <2>2. journal # NoTx /\ run.pc # "clear"
    BY <1>0, <2>1 DEF JournalInv
  <2> QED BY <1>0, <2>1, <2>2, OpenUntilCommit
<1>4. ASSUME ~Forward PROVE StageCfg = Compile[store.active][run.cur]
  <2>1. CASE run.stage = "undo"
    <3>1. run.plane = "topology" /\ tx # NoTx
      BY <1>0, <1>1, <2>1, Facts DEF UndoInv
    <3>2. tx.rb[run.cur] = Compile[store.active][run.cur]
      BY <1>0, <1>1, <3>1 DEF JournalInv, Live
    <3> QED BY <2>1, <3>2 DEF StageCfg
  <2>2. CASE run.stage # "undo"
    <3>1. run.plane = "refresh" /\ run.stage = "deploy" /\ run.cand = store.active
      BY <1>0, <1>4, <2>2, Facts DEF Forward, RefreshInv
    <3> QED BY <1>2, <3>1
  <2> QED BY <2>1, <2>2
<1> QED BY <1>1, <1>2, <1>3, <1>4

-----------------------------------------------------------------------------
(* What every step leaves in place.                                        *)

LEMMA SettledStays ==
  ASSUME Inv, Next, NEW a \in Agents, NEW c \in Cfgs, Settled(a, c),
         AuthoritativeProfile(a) = c, run.pc = "queue" /\ run.cur = a => StageCfg = c
  PROVE  Settled(a, c)'
<1>1. CASE OperatorStep \/ TickIdle \/ TickStart
  BY <1>1, QuietStep, SettledFrame
<1> QED BY <1>1, AgentSettled, RunSettled, RestartSettled DEF Inv, Next

(* An Agent that is home stays home, unless a rollout queues on it.        *)
LEMMA HomeStays ==
  ASSUME Inv, Next, NEW a \in Agents, Home(a), ~(Forward /\ run.pc = "queue" /\ run.cur = a),
         Compile[store'.active][a] = Compile[store.active][a]
  PROVE  Home(a)'
<1>1. PICK c \in Cfgs : c = Compile[store.active][a]
  BY Facts DEF Inv
<1>2. Settled(a, c)
  BY <1>1 DEF Home
<1>3. AuthoritativeProfile(a) = c
  BY <1>1, <1>2, ProfileOfSettled DEF Inv
<1>4. run.pc = "queue" /\ run.cur = a => StageCfg = c
  BY <1>1, Installs
<1>5. Settled(a, c)'
  BY <1>2, <1>3, <1>4, SettledStays
<1> QED BY <1>1, <1>5 DEF Home, Settled

(* What an Agent has confirmed, no record forgets.                         *)
LEMMA KnownStays ==
  ASSUME Inv, Next, NEW a \in Agents, Known(a)
  PROVE  Known(a)'
<1>0. /\ TypeOK /\ rec[a] \in Record /\ rec[a].cfg \in Cfgs /\ NoCfg \notin Cfgs
      /\ run.pc = "queue" => run.cur \in Agents
  BY ConstantsAssumption, Facts DEF Inv, TypeInv, TypeOK, Record
<1> SUFFICES AppliedConfiguration(rec'[a]) # NoCfg
  BY DEF Known
<1>1. CASE rec'[a] = rec[a]
  BY <1>1 DEF Known
<1>2. ASSUME NEW i, NEW c, NEW s \in {"deploying", "failed"}, rec'[a] = Create(a, i, c, s)
      PROVE  AppliedConfiguration(rec'[a]) # NoCfg
  <2>1. AppliedConfiguration(rec'[a]) = AppliedConfiguration(rec[a])
    BY <1>2 DEF Create, AppliedConfiguration
  <2> QED BY <2>1 DEF Known
<1>3. ASSUME NEW s \in {"applied", "runtime_failed", "failed"}, rec'[a] = Transition(rec[a], s),
             s = "failed" => rec[a].status = "deploying"
      PROVE  AppliedConfiguration(rec'[a]) # NoCfg
  <2>1. /\ rec'[a].status = s /\ rec'[a].cfg = rec[a].cfg
        /\ s # "applied" => rec'[a].last = rec[a].last
    BY <1>0, <1>3 DEF Transition, Record
  <2>2. CASE s \in {"applied", "runtime_failed"}
    BY <1>0, <2>1, <2>2 DEF AppliedConfiguration
  <2>3. CASE s = "failed"
    BY <1>3, <2>1, <2>3 DEF AppliedConfiguration, Known
  <2> QED BY <2>2, <2>3
<1>4. CASE RunStep
  <2>1. CASE RunQueue
    <3>1. PICK i \in Ids :
            \/ rec' = [rec EXCEPT ![run.cur] = Create(run.cur, i, StageCfg, "deploying")]
            \/ rec' = [rec EXCEPT ![run.cur] = Create(run.cur, i, StageCfg, "failed")]
      BY <2>1 DEF RunQueue, Queue
    <3>2. rec'[a] = rec[a] \/ \E s \in {"deploying", "failed"} : rec'[a] = Create(a, i, StageCfg, s)
      BY <1>0, <2>1, <3>1 DEF RunQueue, TypeOK
    <3> QED BY <1>1, <1>2, <3>2
  <2>2. CASE UNCHANGED rec
    BY <1>1, <2>2
  <2>3. \A b \in Agents :
          RunTouch(b) \/ SampleFails(b) \/ RunNext(b) \/ RunConfirm(b) => UNCHANGED rec
    BY DEF RunTouch, SampleFails, RunNext, RunConfirm
  <2>4. RunRefused \/ RunReported \/ RunTimeout \/ RunDeployed => UNCHANGED rec
    BY DEF RunRefused, RunReported, RunTimeout, RunDeployed
  <2>5. RunCommitting \/ RunMarkApplied \/ RunClear \/ RunUndone => UNCHANGED rec
    BY DEF RunCommitting, RunMarkApplied, RunClear, RunUndone
  <2> QED BY <1>4, <2>1, <2>2, <2>3, <2>4, <2>5 DEF RunStep
<1>5. CASE OperatorStep \/ TickIdle \/ TickStart \/ Restart
  BY <1>1, <1>5, QuietStep DEF Restart
<1>6. ASSUME NEW b \in Agents, AgentStep(b)
      PROVE  AppliedConfiguration(rec'[a]) # NoCfg
  <2>1. CASE UNCHANGED rec
    BY <1>1, <2>1
  <2>2. CASE Connect(b)
    <3>1. PICK i \in Ids : rec' = [rec EXCEPT ![b] =
                              Create(b, i, AuthoritativeProfile(b), "deploying")]
      BY <2>2 DEF Connect, Queue
    <3>2. rec'[a] = rec[a] \/ rec'[a] = Create(a, i, AuthoritativeProfile(a), "deploying")
      BY <1>0, <3>1 DEF TypeOK
    <3> QED BY <1>1, <1>2, <3>2
  <2>3. CASE HandleReport(b) \/ ExpireRecord(b) \/ RuntimeReport(b)
    <3>1. \/ UNCHANGED rec
          \/ \E s \in {"applied", "runtime_failed", "failed"} :
                /\ rec' = [rec EXCEPT ![b] = Transition(rec[b], s)]
                /\ s = "failed" => rec[b].status = "deploying"
      BY <1>0, <2>3 DEF HandleReport, ExpireRecord, RuntimeReport, deploymentRecordBusy, TypeOK
    <3>2. \/ rec'[a] = rec[a]
          \/ \E s \in {"applied", "runtime_failed", "failed"} :
                /\ rec'[a] = Transition(rec[a], s)
                /\ s = "failed" => rec[a].status = "deploying"
      BY <1>0, <3>1 DEF TypeOK
    <3> QED BY <1>1, <1>3, <3>2
  <2> QED BY <1>6, <2>1, <2>2, <2>3 DEF AgentStep, DropSession, AgentTake, AgentFinish
<1> QED BY <1>4, <1>5, <1>6 DEF Next

(* An Agent the rollout is done with.                                      *)
Done(a) ==
    /\ Forward /\ a \in run.touched /\ Arrived(a)
    /\ run.pc = "queue" => run.cur # a

LEMMA ArrivedStays ==
  ASSUME Inv, Next, NEW a \in Agents, Done(a)
  PROVE  /\ Compile[run'.cand][a] = Compile[run.cand][a] => Arrived(a)'
         /\ Compile[store'.active][a] = Compile[run.cand][a] => Home(a)'
<1>1. PICK c \in Cfgs : c = Compile[run.cand][a]
  BY Facts DEF Inv
<1>2. Settled(a, c)
  BY <1>1 DEF Done, Arrived
<1>3. tx # NoTx /\ a \in tx.touched
  <2>1. run.agents # {}
    BY Facts DEF Inv, Done
  <2> QED BY <2>1 DEF Inv, Done, ForwardInv, ForwardRun, JournalInv
<1>4. AuthoritativeProfile(a) = c
  BY <1>2, <1>3, ProfileOfSettled DEF Inv
<1>5. Settled(a, c)'
  BY <1>2, <1>4, SettledStays DEF Done
<1>6. Known(a)'
  BY KnownStays DEF Done, Arrived
<1> QED BY <1>1, <1>5, <1>6 DEF Home, Arrived, Settled

(* While the applied topology stays, Agents leave home only into the       *)
(* journal.                                                                *)
LEMMA HomeStep ==
  ASSUME Inv, Next, store'.active = store.active, Moving \subseteq Moving'
  PROVE  HomeInv' /\ KnownInv'
<1>1. ASSUME NEW a \in Agents, a \notin Moving' PROVE Home(a)'
  <2>1. Home(a) /\ a \notin Moving
    BY <1>1 DEF Inv, HomeInv
  <2>2. ~(Forward /\ run.pc = "queue" /\ run.cur = a)
    BY <2>1, Installs
  <2> QED BY <2>1, <2>2, HomeStays
<1>2. KnownInv'
  BY KnownStays DEF Inv, KnownInv, AgentsOf
<1> QED BY <1>1, <1>2 DEF HomeInv

-----------------------------------------------------------------------------
(* The Store stays sound, in memory and on disk.                           *)

LEMMA StoreStays ==
  ASSUME Inv, Next
  PROVE  StoreInv'
<1>1. TypeOK /\ Sound(Held) /\ Sound(store.file)
  BY DEF Inv, TypeInv, StoreInv
<1>2. /\ Held \in Contents /\ Committed \in Contents /\ store.file \in Contents
      /\ \A t \in Topologies : Edited(t) \in Contents
  BY <1>1, ContentsType
<1>3. store.revision \in Nat /\ store.applied \in Nat
  BY <1>1 DEF TypeOK
<1>4. Sound(Committed) /\ \A t \in Topologies : Sound(Edited(t))
  BY <1>1, <1>3 DEF Sound, Held, Committed, Edited
<1>5. ASSUME NEW c \in Contents, Sound(c), store' = Saved(c) PROVE StoreInv'
  <2>1. Held' = c /\ store'.file = c
    BY <1>5 DEF Held, Saved, Contents
  <2> QED BY <1>5, <2>1 DEF StoreInv, Sound
<1>6. ASSUME NEW c \in Contents, Sound(c), store' = [store EXCEPT !.file = c] PROVE StoreInv'
  <2>1. Held' = Held /\ store'.file = c
    BY <1>1, <1>6 DEF Held, TypeOK
  <2> QED BY <1>1, <1>6, <2>1 DEF StoreInv, Sound
<1>7. CASE UNCHANGED store
  BY <1>1, <1>7 DEF StoreInv, Sound, Held
<1> QED BY <1>1, <1>2, <1>4, <1>5, <1>6, <1>7, StoreChanges DEF StoreSteps

-----------------------------------------------------------------------------
(* Steps of sessions and Agents, passes that start nothing, and the edits  *)
(* of the Store, which leave what is applied: journal and goroutine stay.  *)

StoreStands ==
    /\ store'.revision = store.revision /\ store'.desired = store.desired
    /\ store'.applied = store.applied /\ store'.active = store.active

StoreEdited ==
    /\ store'.revision = store.revision + 1
    /\ store'.applied = store.applied /\ store'.active = store.active

Rest == /\ JournalInv /\ HomeInv /\ KnownInv
        /\ ForwardInv /\ UndoInv /\ RefreshInv /\ JobInv

LEMMA StillStep ==
  ASSUME Inv, Next, StoreStands \/ StoreEdited, UNCHANGED <<journal, tx, run, job>>
  PROVE  Rest'
<1>0. store'.applied = store.applied /\ store'.active = store.active
  BY DEF StoreStands, StoreEdited
<1>1. JournalInv' /\ RefreshInv' /\ JobInv'
  BY <1>0 DEF Inv, JournalInv, Live, RefreshInv, JobInv, Active
<1>2. HomeInv' /\ KnownInv'
  BY <1>0, HomeStep DEF Moving, Uncommitted
<1>3. ForwardInv'
  <2> SUFFICES ASSUME Forward PROVE ForwardRun' /\ ForwardAgents'
    BY DEF ForwardInv, Forward
  <2>1. ForwardRun /\ ForwardAgents
    BY DEF Inv, ForwardInv
  <2>2. ForwardRun'
    <3>1. \A a \in Agents : Known(a) => Known(a)'
      BY KnownStays
    <3>2. store.revision \in Nat /\ run.rev \in Nat
      BY Facts DEF Inv
    <3>3. /\ run.rev <= store'.revision
          /\ run.rev = store'.revision => run.cand = store'.desired
      BY <2>1, <3>2 DEF ForwardRun, StoreStands, StoreEdited
    <3> QED BY <1>0, <2>1, <3>1, <3>3 DEF ForwardRun, AgentsOf
  <2>3. \A a \in Agents : Done(a) => Arrived(a)'
    BY ArrivedStays
  <2>4. \A a \in run.agents \ run.todo : run.pc \in Deploying => Arrived(a)'
    <3> SUFFICES ASSUME NEW a \in run.agents \ run.todo, run.pc \in Deploying
                 PROVE  Done(a) /\ a \in Agents
      BY <2>3
    <3>1. a \in Agents /\ a \in run.touched /\ Arrived(a)
      BY <2>1, Facts DEF ForwardAgents, Inv
    <3>2. run.pc = "queue" => run.cur # a
      BY Installs
    <3> QED BY <3>1, <3>2 DEF Done
  <2>5. \A a \in run.agents : run.pc \notin Deploying => Arrived(a)'
    <3> SUFFICES ASSUME NEW a \in run.agents, run.pc \notin Deploying
                 PROVE  Done(a) /\ a \in Agents
      BY <2>3
    <3>1. a \in Agents /\ a \in run.touched /\ Arrived(a)
      BY <2>1, Facts DEF ForwardAgents, Inv
    <3> QED BY <3>1 DEF Done, Deploying
  <2> QED BY <2>1, <2>2, <2>4, <2>5 DEF ForwardAgents
<1>4. UndoInv'
  <2> SUFFICES ASSUME run.pc # "idle", run.stage = "undo"
               PROVE  /\ run.plane = "topology" /\ run.pc \in Deploying
                      /\ tx # NoTx /\ ~run.failed =>
                            \A a \in journal.touched \ run.todo : Home(a)'
    BY DEF UndoInv
  <2>1. UndoInv /\ TypeInv /\ JournalInv
    BY DEF Inv
  <2>2. ASSUME tx # NoTx, ~run.failed, NEW a \in journal.touched \ run.todo PROVE Home(a)'
    <3>1. a \in Agents /\ Home(a)
      BY <2>1, <2>2, JournalFacts DEF UndoInv, JournalInv
    <3> QED BY <1>0, <3>1, HomeStays DEF Forward
  <2> QED BY <2>1, <2>2 DEF UndoInv
<1> QED BY <1>1, <1>2, <1>3, <1>4 DEF Rest

(* A new record of an Agent never reuses the identifier waited for.        *)
LEMMA AgentWaits ==
  ASSUME Inv, NEW a \in Agents, AgentStep(a)
  PROVE  WaitInv'
<1> SUFFICES ASSUME run.pc = "wait", rec'[run.cur].id = run.id
             PROVE  rec'[run.cur].cfg = StageCfg
  <2>1. run' = run /\ tx' = tx
    BY DEF AgentStep, Connect, DropSession, AgentTake, AgentFinish, HandleReport,
           ExpireRecord, RuntimeReport, masterVars
  <2> QED BY <2>1 DEF WaitInv, StageCfg
<1>0. TypeOK /\ run.cur \in Agents
  BY Installs DEF Inv, TypeInv
<1>1. rec'[run.cur].id = rec[run.cur].id /\ rec'[run.cur].cfg = rec[run.cur].cfg
  <2>1. CASE Connect(a)
    <3>1. PICK i \in Ids : FreshId(a, i) /\ rec' = [rec EXCEPT ![a] =
                              Create(a, i, AuthoritativeProfile(a), "deploying")]
      BY <2>1 DEF Connect, Queue
    <3>2. run.cur = a => i # run.id
      BY <3>1 DEF FreshId, UsedIds
    <3>3. run.cur = a => rec'[a].id = i
      BY <1>0, <3>1 DEF TypeOK, Create
    <3> QED BY <1>0, <3>1, <3>2, <3>3 DEF TypeOK
  <2>2. CASE DropSession(a) \/ AgentTake(a) \/ AgentFinish(a)
    BY <2>2 DEF DropSession, AgentTake, AgentFinish
  <2>3. CASE HandleReport(a) \/ ExpireRecord(a) \/ RuntimeReport(a)
    <3>1. rec' = rec \/ \E s \in Statuses : rec' = [rec EXCEPT ![a] = Transition(rec[a], s)]
      BY <1>0, <2>3 DEF HandleReport, ExpireRecord, RuntimeReport, TypeOK, Statuses
    <3>2. \A s \in Statuses : /\ Transition(rec[a], s).id = rec[a].id
                              /\ Transition(rec[a], s).cfg = rec[a].cfg
      BY <1>0 DEF TypeOK, Transition, Record
    <3> QED BY <1>0, <3>1, <3>2 DEF TypeOK
  <2> QED BY <2>1, <2>2, <2>3 DEF AgentStep
<1> QED BY <1>1 DEF Inv, WaitInv

-----------------------------------------------------------------------------
(* What the steps of the goroutine have in common.                         *)

Stays == Rest /\ WaitInv

(* The journal may gain Agents; its transaction stays open.                *)
JournalGrows ==
    /\ StoreStands
    /\ tx = NoTx => journal' = journal /\ tx' = NoTx
    /\ tx # NoTx =>
          /\ journal' # NoTx /\ tx' # NoTx
          /\ journal'.rev = journal.rev /\ journal'.from = journal.from /\ journal'.rb = journal.rb
          /\ tx'.rev = tx.rev /\ tx'.from = tx.from /\ tx'.rb = tx.rb
          /\ journal.touched \subseteq journal'.touched /\ journal'.touched \subseteq tx'.touched
          /\ journal'.touched = {} => journal'.phase = "deploying"

(* No transaction comes to life.                                           *)
KeepsLife ==
    \/ run.pc # "idle" \/ tx = NoTx \/ tx.touched # {}
    \/ run'.pc = "idle" /\ tx' = tx

LEMMA OpenStep ==
  ASSUME Inv, Next, run.pc # "clear", run'.pc # "clear", JournalGrows, KeepsLife
  PROVE  JournalInv' /\ HomeInv' /\ KnownInv'
<1>1. /\ TypeInv /\ JournalInv
      /\ store'.applied = store.applied /\ store'.active = store.active
  BY DEF Inv, JournalGrows, StoreStands
<1>2. JournalInv'
  <2>1. CASE tx = NoTx
    BY <1>1, <2>1 DEF JournalGrows, JournalInv, Live
  <2>2. CASE tx # NoTx
    <3>1. Live' => Live
      BY <2>2 DEF KeepsLife, Live
    <3> QED BY <1>1, <2>2, <3>1 DEF JournalGrows, JournalInv
  <2> QED BY <2>1, <2>2
<1>3. Moving \subseteq Moving'
  <2>1. CASE tx = NoTx
    BY <1>1, <2>1, NothingMoves
  <2>2. CASE tx # NoTx /\ journal.touched = {}
    BY <1>1, <2>2, OpenUntilCommit DEF JournalInv
  <2>3. CASE tx # NoTx /\ journal.touched # {}
    <3>1. Live
      BY <1>1, <2>3 DEF JournalInv, Live
    <3>2. store'.applied \in Nat /\ journal'.rev \in Nat /\ store'.applied < journal'.rev
      BY <1>1, <2>3, <3>1, Facts, JournalFacts DEF JournalGrows, JournalInv
    <3>3. Moving' = journal'.touched
      BY <2>3, <3>2 DEF JournalGrows, Moving, Uncommitted
    <3> QED BY <1>1, <2>3, <3>3, OpenUntilCommit DEF JournalGrows
  <2> QED BY <2>1, <2>2, <2>3
<1>4. HomeInv' /\ KnownInv'
  BY <1>1, <1>3, HomeStep
<1> QED BY <1>2, <1>4

LEMMA SameJournal ==
  ASSUME Inv, StoreStands, UNCHANGED <<journal, tx>>
  PROVE  JournalGrows
BY DEF Inv, JournalInv, JournalGrows

(* A goroutine that holds a transaction keeps it alive.                    *)
LEMMA Running ==
  ASSUME run.pc # "idle"
  PROVE  KeepsLife
BY DEF KeepsLife

LEMMA SameStore ==
  ASSUME UNCHANGED store
  PROVE  StoreStands
BY DEF StoreStands

(* The Agents a moving rollout is done with.                               *)
LEMMA DoneAgents ==
  ASSUME Inv, Forward, NEW a \in run.agents,
         run.pc \in Deploying => a \notin run.todo
  PROVE  a \in Agents /\ Done(a)
<1>1. a \in Agents /\ ForwardRun /\ ForwardAgents
  BY Facts DEF Inv, ForwardInv
<1>2. a \in run.touched /\ Arrived(a)
  BY <1>1 DEF ForwardAgents
<1>3. run.pc = "queue" => run.cur # a
  BY Installs DEF Deploying
<1> QED BY <1>1, <1>2, <1>3 DEF Done

(* A rollout that gives up: everything it touched is to be put back; an    *)
(* Agent that the journal gains with the step has not been sent anything.  *)
LEMMA RollbackStep ==
  ASSUME Inv, Next, Forward, run.pc # "clear", ToRollback, JournalGrows,
         journal' # journal => \A a \in journal'.touched \ journal.touched : a \in Agents /\ Home(a),
         UNCHANGED job
  PROVE  Stays'
<1>1. /\ run'.pc = "pick" /\ run'.stage = "undo" /\ run'.todo = run.touched
      /\ run'.plane = "topology" /\ run'.agents = run.agents
  BY Facts DEF Inv, ToRollback, Run, Forward
<1>2. JournalInv' /\ HomeInv' /\ KnownInv'
  BY <1>1, OpenStep, Running DEF Forward
<1>3. ForwardInv' /\ RefreshInv' /\ WaitInv'
  BY <1>1 DEF ForwardInv, Forward, RefreshInv, WaitInv
<1>4. UndoInv'
  <2>1. tx' # NoTx => journal.touched = run.touched
    BY DEF Inv, ForwardInv, ForwardRun, JournalInv, JournalGrows
  <2>2. ASSUME tx' # NoTx, NEW a \in journal'.touched \ run.touched PROVE Home(a)'
    <3>1. a \in Agents /\ Home(a) /\ a \notin journal.touched
      BY <2>1, <2>2
    <3>2. ~(Forward /\ run.pc = "queue" /\ run.cur = a)
      BY <3>1, Installs, OpenUntilCommit DEF Inv
    <3> QED BY <3>1, <3>2, HomeStays DEF JournalGrows, StoreStands
  <2> QED BY <1>1, <2>2 DEF UndoInv, Deploying
<1>5. JobInv'
  BY <1>1, Facts DEF Inv, JobInv, Forward, Active
<1> QED BY <1>2, <1>3, <1>4, <1>5 DEF Stays, Rest

(* A goroutine that has ended.                                             *)
LEMMA FinishStep ==
  ASSUME Inv, Next, NEW s \in {"applied", "failed"}, Finish(s),
         JournalInv', HomeInv', KnownInv'
  PROVE  Stays'
<1>1. run'.pc = "idle" /\ job'.status = s
  BY DEF Finish, NoRun, Inv, TypeInv, TypeOK, Job
<1> QED BY <1>1 DEF Stays, Rest, ForwardInv, Forward, UndoInv, RefreshInv, WaitInv, JobInv, Active

(* A rollout that goes on, with the same candidate and the same Agents.    *)
LEMMA ForwardRunStep ==
  ASSUME Inv, Next, Forward, JournalGrows,
         run'.rev = run.rev, run'.cand = run.cand, run'.agents = run.agents,
         tx # NoTx => run'.touched = journal'.touched /\ run'.touched = tx'.touched,
         run.pc # "clear", run'.pc \in {"mark", "clear"} => run.agents # {} /\ journal'.phase = "committing"
  PROVE  ForwardRun'
<1>1. ForwardRun
  BY DEF Inv, ForwardInv
<1>2. \A a \in Agents : Known(a) => Known(a)'
  BY KnownStays
<1> QED BY <1>1, <1>2 DEF ForwardRun, JournalGrows, StoreStands, AgentsOf

-----------------------------------------------------------------------------
(* The steps of the goroutine, one by one.                                 *)

(* The Agents a rollout is done with stay so when it goes on.              *)
LEMMA DoneStays ==
  ASSUME Inv, Next, Forward, run'.cand = run.cand
  PROVE  \A a \in run.agents : (run.pc \in Deploying => a \notin run.todo) => Arrived(a)'
BY DoneAgents, ArrivedStays

(* deployAgentConfig returned for the current Agent.                       *)
LEMMA StepDoneStays ==
  ASSUME Inv, Next, run.pc \in {"queue", "wait"}, NEW ok \in BOOLEAN, StepDone(ok),
         UNCHANGED <<store, journal, tx, job>>,
         ok => /\ run.pc = "wait" /\ rec[run.cur].status = "applied"
               /\ rec[run.cur].cfg = StageCfg
               /\ UNCHANGED <<rec, running, wire, work>>
  PROVE  Stays'
<1>0. /\ TypeInv /\ TrackInv /\ run \in Run /\ run.cur \in Agents /\ run.cur \in run.agents
      /\ run.pc # "clear" /\ run.pc # "idle" /\ JournalGrows
  BY Facts, SameJournal, SameStore DEF Inv
<1>1. ASSUME ok, NEW a \in Agents, NEW c \in Cfgs, a = run.cur, c = StageCfg
      PROVE  Settled(a, c)' /\ Known(a)'
  <2>1. Settled(a, c)
    BY <1>0, <1>1, AppliedSettles
  <2>2. Known(a)
    BY <1>1, ConstantsAssumption DEF Known, AppliedConfiguration
  <2> QED BY <1>1, <2>1, <2>2, SettledFrame, KnownStays
<1>2. CASE Forward /\ ~ok
  BY <1>0, <1>2, RollbackStep DEF StepDone, Forward
<1>3. CASE Forward /\ ok
  <2>1. ForwardRun /\ ForwardAgents /\ run.plane = "topology" /\ run.stage \in {"retire", "deploy"}
    BY <1>3, Facts DEF Inv, ForwardInv, Forward
  <2>2. /\ run'.plane = "topology" /\ run'.cand = run.cand /\ run'.rev = run.rev
        /\ run'.agents = run.agents /\ run'.touched = run.touched
        /\ run'.stage = "deploy" /\ run'.pc \in {"pick", "queue"}
        /\ run.stage = "retire" => run'.pc = "queue" /\ run'.todo = run.todo /\ run'.cur = run.cur
        /\ run.stage = "deploy" => run'.pc = "pick" /\ run'.todo = run.todo \ {run.cur}
    BY <1>0, <1>3, <2>1 DEF StepDone, Run
  <2>3. JournalInv' /\ HomeInv' /\ KnownInv'
    BY <1>0, <2>2, OpenStep, Running
  <2>4. ForwardRun'
    BY <1>0, <1>3, <2>1, <2>2, ForwardRunStep DEF ForwardRun
  <2>5. \A a \in run.agents \ run.todo : Arrived(a)'
    BY <1>3, <2>2, DoneStays
  <2>6. ForwardAgents'
    <3>1. CASE run.stage = "retire"
      BY <1>0, <2>1, <2>2, <2>5, <3>1 DEF ForwardAgents, Deploying, Deepest
    <3>2. CASE run.stage = "deploy"
      <4>2. PICK a \in Agents, c \in Cfgs : a = run.cur /\ c = StageCfg
        BY Installs
      <4>3. c = Compile[run.cand][a]
        BY <3>2, <4>2, Installs
      <4>4. Arrived(a)'
        BY <1>1, <1>3, <2>2, <4>2, <4>3 DEF Arrived, Settled
      <4>5. \A b \in run.agents \ run'.todo : Arrived(b)'
        BY <2>2, <2>5, <3>2, <4>2, <4>4
      <4>6. \A x \in run.agents \ run'.todo, b \in run'.todo :
               Depth[run.cand][b] <= Depth[run.cand][x]
        BY <1>0, <2>1, <2>2, <3>2 DEF ForwardAgents, Deploying, Deepest
      <4> QED BY <1>0, <2>1, <2>2, <3>2, <4>5, <4>6 DEF ForwardAgents, Deploying
    <3> QED BY <2>1, <3>1, <3>2
  <2>7. UndoInv' /\ RefreshInv' /\ WaitInv'
    BY <2>2 DEF UndoInv, RefreshInv, WaitInv
  <2>8. JobInv'
    BY <1>3, <2>2 DEF Inv, JobInv, Forward, Active
  <2> QED BY <2>3, <2>4, <2>6, <2>7, <2>8 DEF Stays, Rest, ForwardInv
<1>4. CASE ~Forward
  <2>1. run.stage = "undo" \/ (run.plane = "refresh" /\ run.stage = "deploy")
    BY <1>0, <1>4, Facts DEF Forward
  <2>2. /\ run'.pc = "pick" /\ run'.todo = run.todo \ {run.cur}
        /\ run'.stage = run.stage /\ run'.plane = run.plane /\ run'.cand = run.cand
        /\ run'.agents = run.agents /\ (~run'.failed => ~run.failed /\ ok)
    <3>1. run' = [run EXCEPT !.pc = "pick", !.todo = run.todo \ {run.cur}, !.cur = NoAgent,
                             !.id = 0, !.failed = run.failed \/ ~ok]
      BY <2>1 DEF StepDone
    <3> QED BY <1>0, <3>1 DEF Run
  <2>3. JournalInv' /\ HomeInv' /\ KnownInv'
    BY <1>0, <2>2, OpenStep, Running
  <2>4. UndoInv'
    <3> SUFFICES ASSUME run.stage = "undo"
                 PROVE  /\ run.plane = "topology"
                        /\ tx # NoTx /\ ~run.failed /\ ok =>
                              \A a \in journal.touched \ (run.todo \ {run.cur}) : Home(a)'
      BY <2>2 DEF UndoInv, Deploying
    <3>1. UndoInv /\ JournalInv
      BY DEF Inv
    <3>2. ASSUME tx # NoTx, ~run.failed, ok, NEW a \in journal.touched \ (run.todo \ {run.cur})
          PROVE  Home(a)'
      <4>1. a \in Agents
        BY <1>0, <3>1, <3>2, JournalFacts DEF JournalInv
      <4>2. CASE a = run.cur
        <5>1. PICK c \in Cfgs : c = StageCfg /\ c = Compile[store.active][a]
          BY <1>4, <4>2, Installs
        <5> QED BY <1>1, <3>2, <4>1, <4>2, <5>1 DEF Home, Settled
      <4>3. CASE a # run.cur
        BY <1>0, <1>4, <3>1, <3>2, <4>1, <4>3, HomeStays DEF UndoInv
      <4> QED BY <4>2, <4>3
    <3> QED BY <1>0, <3>1, <3>2 DEF UndoInv
  <2>5. ForwardInv' /\ RefreshInv' /\ WaitInv' /\ JobInv'
    BY <1>0, <1>4, <2>1, <2>2
       DEF Inv, ForwardInv, RefreshInv, WaitInv, JobInv, Active, Forward, Deploying
  <2> QED BY <2>3, <2>4, <2>5 DEF Stays, Rest
<1> QED BY <1>2, <1>3, <1>4

LEMMA RunTouchStays ==
  ASSUME Inv, Next, NEW a \in Agents, RunTouch(a)
  PROVE  Stays'
<1>0. /\ TypeInv /\ JournalInv /\ run \in Run /\ run.pc = "pick" /\ run.stage = "deploy"
      /\ run.plane = "topology" /\ Forward /\ a \in run.todo /\ a \in run.agents
      /\ ForwardRun /\ ForwardAgents
  BY Facts DEF Inv, RunTouch, Forward, Deepest, ForwardInv
<1>1. tx # NoTx /\ journal # NoTx /\ tx \in Transaction /\ journal \in Transaction
  BY <1>0, JournalFacts DEF ForwardRun, JournalInv
<1>2. /\ tx'.rev = tx.rev /\ tx'.from = tx.from /\ tx'.rb = tx.rb
      /\ tx'.touched = tx.touched \cup {a} /\ tx' # NoTx
  BY <1>1, NoTxAssumption DEF RunTouch, Transaction
<1>3. UNCHANGED <<store, job>>
  BY DEF RunTouch
<1>4. CASE journal' \in {journal, tx'} /\ ToRollback
  <2>1. JournalGrows
    BY <1>0, <1>1, <1>2, <1>3, <1>4, SameStore DEF JournalGrows, JournalInv
  <2>2. a \in Agents /\ Home(a)
    <3>1. a \notin journal.touched
      BY <1>0, <1>1 DEF ForwardRun, ForwardAgents
    <3> QED BY <1>0, <1>1, <3>1, OpenUntilCommit DEF Inv, HomeInv
  <2>3. \A b \in journal'.touched \ journal.touched : b = a
    BY <1>0, <1>1, <1>2, <1>4 DEF ForwardRun
  <2> QED BY <1>0, <1>3, <1>4, <2>1, <2>2, <2>3, RollbackStep
<1>5. CASE /\ journal' = tx'
           /\ run' = [run EXCEPT !.pc = "queue", !.cur = a, !.touched = @ \cup {a},
                        !.stage = IF Retire[tx.rb[a]][Compile[run.cand][a]] = NoCfg
                                  THEN "deploy" ELSE "retire"]
  <2>1. JournalGrows
    BY <1>0, <1>1, <1>2, <1>3, <1>5, SameStore DEF JournalGrows, JournalInv
  <2>2. /\ run'.pc = "queue" /\ run'.cur = a /\ run'.touched = run.touched \cup {a}
        /\ run'.stage # "undo" /\ run'.plane = "topology" /\ run'.todo = run.todo
        /\ run'.agents = run.agents /\ run'.cand = run.cand /\ run'.rev = run.rev
    BY <1>0, <1>5 DEF Run
  <2>3. JournalInv' /\ HomeInv' /\ KnownInv'
    BY <1>0, <2>1, <2>2, OpenStep, Running
  <2>4. run'.touched = journal'.touched /\ run'.touched = tx'.touched
    BY <1>0, <1>2, <1>5, <2>2 DEF ForwardRun
  <2>5. ForwardRun'
    BY <1>0, <1>3, <2>1, <2>2, <2>4, ForwardRunStep
  <2>6. \A b \in run.agents \ run.todo : Arrived(b)'
    BY <1>0, <2>2, DoneStays
  <2>7. ForwardAgents'
    BY <1>0, <2>2, <2>6 DEF ForwardAgents, Deploying, RunTouch
  <2>8. UndoInv' /\ RefreshInv' /\ WaitInv'
    BY <2>2 DEF UndoInv, RefreshInv, WaitInv
  <2>9. JobInv'
    BY <1>0, <1>3, <2>2 DEF Inv, JobInv, Active
  <2> QED BY <2>3, <2>5, <2>7, <2>8, <2>9 DEF Stays, Rest, ForwardInv
<1> QED BY <1>4, <1>5 DEF RunTouch

LEMMA RunNextStays ==
  ASSUME Inv, Next, NEW a \in Agents, RunNext(a)
  PROVE  Stays'
<1>0. /\ run \in Run /\ run.pc = "pick" /\ ~Forward /\ UNCHANGED <<store, job, journal, tx>>
      /\ run' = [run EXCEPT !.pc = "queue", !.cur = a]
      /\ TypeInv /\ JournalInv /\ UndoInv
  BY Facts DEF Inv, RunNext, Forward
<1>1. /\ run'.pc = "queue" /\ run'.stage = run.stage /\ run'.plane = run.plane
      /\ run'.cand = run.cand /\ run'.todo = run.todo /\ run'.failed = run.failed
      /\ run'.agents = run.agents
  BY <1>0 DEF Run
<1>2. JournalInv' /\ HomeInv' /\ KnownInv'
  BY <1>0, <1>1, SameJournal, SameStore, OpenStep, Running
<1>3. UndoInv'
  <2> SUFFICES ASSUME run.stage = "undo", tx # NoTx, ~run.failed,
                      NEW b \in journal.touched \ run.todo
               PROVE  Home(b)'
    BY <1>0, <1>1 DEF UndoInv, Deploying
  <2>1. b \in Agents /\ Home(b)
    BY <1>0, JournalFacts DEF UndoInv, JournalInv
  <2> QED BY <1>0, <2>1, HomeStays
<1>4. ForwardInv' /\ RefreshInv' /\ WaitInv' /\ JobInv'
  BY <1>0, <1>1 DEF Inv, ForwardInv, RefreshInv, WaitInv, JobInv, Forward, Active, Deploying
<1> QED BY <1>2, <1>3, <1>4 DEF Stays, Rest

(* The command has been queued under an identifier.                        *)
Queued(i) ==
    /\ Queue(run.cur, StageCfg, i)
    /\ run' = [run EXCEPT !.pc = "wait", !.id = i]

LEMMA RunQueueStays ==
  ASSUME Inv, Next, RunQueue
  PROVE  Stays'
<1>0. /\ TypeInv /\ JournalInv /\ UndoInv /\ TypeOK
      /\ run \in Run /\ run.pc = "queue" /\ UNCHANGED <<store, job, journal, tx>>
      /\ run.cur \in Agents /\ StageCfg \in Cfgs
  BY Facts, Installs DEF Inv, RunQueue, TypeInv
<1>1. CASE StepDone(FALSE)
  BY <1>0, <1>1, StepDoneStays
<1>2. CASE \E i \in Ids : Queued(i)
  <2>0. PICK i \in Ids : Queued(i)
    BY <1>2
  <2>1. /\ run'.pc = "wait" /\ run'.stage = run.stage /\ run'.plane = run.plane
        /\ run'.cand = run.cand /\ run'.todo = run.todo /\ run'.failed = run.failed
        /\ run'.agents = run.agents /\ run'.rev = run.rev /\ run'.touched = run.touched
        /\ run'.cur = run.cur
    BY <1>0, <2>0 DEF Queued, Run
  <2>2. JournalInv' /\ HomeInv' /\ KnownInv'
    BY <1>0, <2>1, SameJournal, SameStore, OpenStep, Running
  <2>3. WaitInv'
    <3>1. StageCfg' = StageCfg
      BY <1>0, <2>1 DEF StageCfg
    <3>2. rec'[run.cur].cfg = StageCfg
      BY <1>0, <2>0 DEF Queued, Queue, Create, TypeOK
    <3> QED BY <2>1, <3>1, <3>2 DEF WaitInv
  <2>4. UndoInv'
    <3> SUFFICES ASSUME run.stage = "undo", tx # NoTx, ~run.failed,
                        NEW b \in journal.touched \ run.todo
                 PROVE  Home(b)'
      BY <1>0, <2>1 DEF UndoInv, Deploying
    <3>1. b \in Agents /\ Home(b)
      BY <1>0, JournalFacts DEF UndoInv, JournalInv
    <3> QED BY <1>0, <3>1, HomeStays DEF Forward
  <2>5. ForwardInv'
    <3> SUFFICES ASSUME Forward PROVE ForwardRun' /\ ForwardAgents'
      BY <1>0, <2>1 DEF ForwardInv, Forward
    <3>1. ForwardRun /\ ForwardAgents
      BY DEF Inv, ForwardInv
    <3>2. ForwardRun'
      <4>1. tx # NoTx => run.touched = journal.touched /\ run.touched = tx.touched
        BY <3>1 DEF ForwardRun
      <4> QED BY <1>0, <2>1, <4>1, SameJournal, SameStore, ForwardRunStep
    <3>3. \A b \in run.agents \ run.todo : Arrived(b)'
      BY <2>1, DoneStays
    <3> QED BY <1>0, <2>1, <3>1, <3>2, <3>3 DEF ForwardAgents, Deploying, Deepest
  <2>6. RefreshInv' /\ JobInv'
    BY <1>0, <2>1 DEF Inv, RefreshInv, JobInv, Active, Deploying
  <2> QED BY <2>2, <2>3, <2>4, <2>5, <2>6 DEF Stays, Rest
<1>3. StepDone(FALSE) \/ \E i \in Ids : Queued(i)
  BY Zenon DEF RunQueue, Queued
<1> QED BY <1>1, <1>2, <1>3

(* waitForDeployment ends, or the Agent refuses the command.               *)
LEMMA RunAnswerStays ==
  ASSUME Inv, Next, RunRefused \/ RunReported \/ RunTimeout
  PROVE  Stays'
<1>0. /\ run.pc \in {"queue", "wait"} /\ UNCHANGED <<store, journal, tx, job>>
  BY DEF RunRefused, RunReported, RunTimeout
<1>1. CASE RunReported /\ rec[run.cur].status = "applied"
  <2>1. /\ run.pc = "wait" /\ rec[run.cur].cfg = StageCfg /\ StepDone(TRUE)
        /\ UNCHANGED <<rec, running, wire, work>>
    BY <1>1, Zenon DEF Inv, WaitInv, RunReported, netVars
  <2> QED BY <1>0, <1>1, <2>1, StepDoneStays
<1>2. CASE ~(RunReported /\ rec[run.cur].status = "applied")
  <2>1. StepDone(FALSE)
    BY <1>2, Zenon DEF RunRefused, RunReported, RunTimeout
  <2> QED BY <1>0, <2>1, StepDoneStays
<1> QED BY <1>1, <1>2

LEMMA RunDeployedStays ==
  ASSUME Inv, Next, RunDeployed
  PROVE  Stays'
<1>0. /\ TypeInv /\ run \in Run /\ run.pc = "pick" /\ run.stage = "deploy" /\ run.todo = {}
      /\ UNCHANGED <<store, journal, tx>> /\ JournalGrows
  BY Facts, SameJournal, SameStore DEF Inv, RunDeployed
<1>1. ASSUME NEW s \in {"applied", "failed"}, Finish(s)
      PROVE  Stays'
  <2>1. run'.pc = "idle"
    BY <1>1 DEF Finish, NoRun
  <2> QED BY <1>0, <1>1, <2>1, OpenStep, Running, FinishStep
<1>2. CASE run.plane = "topology" /\ ToRollback /\ UNCHANGED job
  BY <1>0, <1>2, RollbackStep DEF Forward
<1>3. CASE /\ run.plane = "topology" /\ UNCHANGED job
           /\ run' = [run EXCEPT !.pc = "confirm", !.todo = run.agents]
  <2>1. /\ run'.pc = "confirm" /\ run'.stage = "deploy" /\ run'.plane = "topology"
        /\ run'.cand = run.cand /\ run'.agents = run.agents /\ run'.rev = run.rev
        /\ run'.touched = run.touched
    BY <1>0, <1>3 DEF Run
  <2>2. Forward /\ ForwardRun /\ ForwardAgents
    BY <1>0, <1>3 DEF Inv, Forward, ForwardInv
  <2>3. JournalInv' /\ HomeInv' /\ KnownInv'
    BY <1>0, <2>1, OpenStep, Running
  <2>4. ForwardRun'
    <3>1. tx # NoTx => run.touched = journal.touched /\ run.touched = tx.touched
      BY <2>2 DEF ForwardRun
    <3> QED BY <1>0, <1>3, <2>1, <2>2, <3>1, ForwardRunStep
  <2>5. \A a \in run.agents : Arrived(a)'
    BY <1>0, <2>1, <2>2, DoneStays
  <2>6. ForwardAgents'
    BY <1>0, <2>1, <2>2, <2>5 DEF ForwardAgents, Deploying
  <2>7. UndoInv' /\ RefreshInv' /\ WaitInv'
    BY <2>1 DEF UndoInv, RefreshInv, WaitInv
  <2>8. JobInv'
    BY <1>0, <1>3, <2>1 DEF Inv, JobInv, Active
  <2> QED BY <2>3, <2>4, <2>6, <2>7, <2>8 DEF Stays, Rest, ForwardInv
<1> QED BY <1>1, <1>2, <1>3 DEF RunDeployed

(* A rollout past its deployments has every Agent on the candidate.        *)
LEMMA AllArrived ==
  ASSUME Inv, run.pc \in {"confirm", "mark", "clear"}
  PROVE  /\ Forward /\ ForwardRun /\ ForwardAgents
         /\ \A a \in run.agents : a \in Agents /\ Done(a)
BY Facts, DoneAgents DEF Inv, Forward, ForwardInv, UndoInv, Deploying

LEMMA RunConfirmStays ==
  ASSUME Inv, Next, NEW a \in Agents, RunConfirm(a)
  PROVE  Stays'
<1>0. /\ TypeInv /\ run \in Run /\ run.pc = "confirm" /\ run.plane = "topology"
      /\ UNCHANGED <<store, journal, tx, job>> /\ JournalGrows
      /\ Forward /\ ForwardRun /\ ForwardAgents
  BY Facts, SameJournal, SameStore, AllArrived DEF Inv, RunConfirm
<1>1. CASE ToRollback
  BY <1>0, <1>1, RollbackStep
<1>2. CASE run' = [run EXCEPT !.todo = @ \ {a}]
  <2>1. /\ run'.pc = "confirm" /\ run'.stage = run.stage /\ run'.plane = "topology"
        /\ run'.cand = run.cand /\ run'.agents = run.agents /\ run'.rev = run.rev
        /\ run'.touched = run.touched
    BY <1>0, <1>2 DEF Run
  <2>2. JournalInv' /\ HomeInv' /\ KnownInv'
    BY <1>0, <2>1, OpenStep, Running
  <2>3. ForwardRun'
    <3>1. tx # NoTx => run.touched = journal.touched /\ run.touched = tx.touched
      BY <1>0 DEF ForwardRun
    <3> QED BY <1>0, <2>1, <3>1, ForwardRunStep
  <2>4. \A b \in run.agents : Arrived(b)'
    BY <1>0, <2>1, DoneStays DEF Deploying
  <2>5. ForwardAgents'
    BY <1>0, <2>1, <2>4 DEF ForwardAgents, Deploying
  <2>6. UndoInv' /\ RefreshInv' /\ WaitInv'
    BY <1>0, <2>1 DEF UndoInv, RefreshInv, WaitInv, Forward
  <2>7. JobInv'
    BY <1>0, <2>1 DEF Inv, JobInv, Active
  <2> QED BY <2>2, <2>3, <2>5, <2>6, <2>7 DEF Stays, Rest, ForwardInv
<1> QED BY <1>1, <1>2 DEF RunConfirm

LEMMA RunCommittingStays ==
  ASSUME Inv, Next, RunCommitting
  PROVE  Stays'
<1>0. /\ TypeInv /\ JournalInv /\ run \in Run /\ run.pc = "confirm" /\ run.plane = "topology"
      /\ run.agents # {} /\ UNCHANGED <<store, job>>
      /\ Forward /\ ForwardRun /\ ForwardAgents
  BY Facts, AllArrived DEF Inv, RunCommitting
<1>1. tx # NoTx /\ journal # NoTx /\ tx \in Transaction /\ journal \in Transaction
  BY <1>0, JournalFacts DEF ForwardRun, JournalInv
<1>2. /\ tx'.rev = tx.rev /\ tx'.from = tx.from /\ tx'.rb = tx.rb
      /\ tx'.touched = tx.touched /\ tx' # NoTx /\ tx'.phase = "committing"
  BY <1>1, NoTxAssumption DEF RunCommitting, Transaction
<1>t. tx.touched = journal.touched /\ tx.touched # {}
  BY <1>0 DEF ForwardRun, ForwardAgents, Deploying
<1>3. CASE journal' \in {journal, tx'} /\ ToRollback
  <2>1. JournalGrows
    BY <1>0, <1>1, <1>2, <1>t, <1>3, SameStore DEF JournalGrows, JournalInv
  <2>2. journal'.touched = journal.touched
    BY <1>1, <1>2, <1>t, <1>3
  <2> QED BY <1>0, <1>3, <2>1, <2>2, RollbackStep
<1>4. CASE journal' = tx' /\ run' = [run EXCEPT !.pc = "mark"]
  <2>1. JournalGrows
    BY <1>0, <1>1, <1>2, <1>t, <1>4, SameStore DEF JournalGrows, JournalInv
  <2>2. /\ run'.pc = "mark" /\ run'.stage = run.stage /\ run'.plane = "topology"
        /\ run'.cand = run.cand /\ run'.agents = run.agents /\ run'.rev = run.rev
        /\ run'.touched = run.touched
    BY <1>0, <1>4 DEF Run
  <2>3. JournalInv' /\ HomeInv' /\ KnownInv'
    BY <1>0, <2>1, <2>2, OpenStep, Running
  <2>4. ForwardRun'
    <3>1. run'.touched = journal'.touched /\ run'.touched = tx'.touched
      BY <1>0, <1>2, <1>4, <2>2 DEF ForwardRun
    <3> QED BY <1>0, <1>2, <1>4, <2>1, <2>2, <3>1, ForwardRunStep
  <2>5. \A b \in run.agents : Arrived(b)'
    BY <1>0, <2>2, DoneStays DEF Deploying
  <2>6. ForwardAgents'
    BY <1>0, <2>2, <2>5 DEF ForwardAgents, Deploying
  <2>7. UndoInv' /\ RefreshInv' /\ WaitInv'
    BY <1>0, <2>2 DEF UndoInv, RefreshInv, WaitInv, Forward
  <2>8. JobInv'
    BY <1>0, <2>2 DEF Inv, JobInv, Active
  <2> QED BY <2>3, <2>4, <2>6, <2>7, <2>8 DEF Stays, Rest, ForwardInv
<1> QED BY <1>3, <1>4 DEF RunCommitting

(* The commit: every Agent is on the candidate, which becomes the applied  *)
(* topology.                                                               *)
LEMMA CommitHomes ==
  ASSUME Inv, Next, Forward, run.pc \in {"confirm", "mark"},
         store'.active = run.cand
  PROVE  HomeInv' /\ KnownInv' /\ \A a \in Agents : Home(a)'
<1>0. TypeInv /\ ForwardRun /\ ForwardAgents /\ run.cand \in Topologies
  BY AllArrived, Facts DEF Inv
<1>1. ASSUME NEW a \in Agents
      PROVE  /\ Home(a)'
             /\ a \in AgentsOf(run.cand) => Known(a)'
  <2>1. CASE a \in run.agents
    <3>1. Done(a) /\ Known(a)
      BY <2>1, AllArrived DEF Done, Arrived
    <3> QED BY <3>1, ArrivedStays, KnownStays
  <2>2. CASE a \notin run.agents
    <3>1. /\ Compile[run.cand][a] = Compile[store.active][a]
          /\ a \in AgentsOf(run.cand) => Known(a)
      BY <1>0, <2>2 DEF ForwardRun
    <3>2. a \notin Moving
      <4>1. CASE tx = NoTx
        BY <1>0, <4>1, NothingMoves DEF Inv
      <4>2. CASE tx # NoTx
        <5>1. journal.touched = run.touched /\ run.touched \subseteq run.agents
          BY <1>0, <4>2, Facts DEF ForwardRun
        <5> QED BY <1>0, <2>2, <5>1, OpenUntilCommit DEF Inv
      <4> QED BY <4>1, <4>2
    <3>3. Home(a)
      BY <3>2 DEF Inv, HomeInv
    <3> QED BY <3>1, <3>3, HomeStays, KnownStays
  <2> QED BY <2>1, <2>2
<1> QED BY <1>1 DEF HomeInv, KnownInv, AgentsOf

LEMMA RunMarkAppliedStays ==
  ASSUME Inv, Next, RunMarkApplied
  PROVE  Stays'
<1>0. /\ TypeInv /\ JournalInv /\ run \in Run /\ run.pc \in {"confirm", "mark"}
      /\ UNCHANGED <<journal, tx>> /\ run.plane = "topology"
      /\ Forward /\ ForwardRun /\ ForwardAgents
  BY Facts, AllArrived DEF Inv, RunMarkApplied
<1>1. CASE ToRollback /\ UNCHANGED job /\ (UNCHANGED store \/ PersistFails(Committed))
  <2>1. StoreStands
    BY <1>0, <1>1 DEF StoreStands, PersistFails, TypeInv, TypeOK
  <2> QED BY <1>0, <1>1, <2>1, SameJournal, RollbackStep DEF Inv
<1>2. CASE /\ store.revision = run.rev
           /\ Persist(Committed)
           /\ IF run.agents = {} THEN Finish("applied")
              ELSE run' = [run EXCEPT !.pc = "clear"] /\ UNCHANGED job
  <2>1. /\ store'.active = run.cand /\ store'.desired = run.cand
        /\ store'.applied = store.revision /\ store'.revision = store.revision
    BY <1>0, <1>2 DEF ForwardRun, Persist, Saved, Committed, Held
  <2>2. HomeInv' /\ KnownInv'
    BY <1>0, <2>1, CommitHomes
  <2>4. CASE run.agents = {}
    <3>1. JournalInv'
      <4>1. tx = NoTx /\ run'.pc = "idle"
        BY <1>0, <1>2, <2>4 DEF ForwardRun, Finish, NoRun
      <4> QED BY <1>0, <4>1 DEF JournalInv, Live
    <3> QED BY <1>2, <2>2, <2>4, <3>1, FinishStep
  <2>5. CASE run.agents # {}
    <3>1. /\ run'.pc = "clear" /\ run'.stage = run.stage /\ run'.plane = "topology"
          /\ run'.cand = run.cand /\ run'.agents = run.agents /\ run'.rev = run.rev
          /\ run'.touched = run.touched
      BY <1>0, <1>2, <2>5 DEF Run
    <3>2. tx # NoTx /\ journal.phase = "committing" /\ journal.rev = run.rev
      BY <1>0, <2>5 DEF RunMarkApplied, ForwardRun
    <3>3. JournalInv'
      BY <1>0, <1>2, <2>1, <3>1, <3>2 DEF JournalInv
    <3>4. ForwardRun'
      BY <1>0, <1>2, <2>1, <2>5, <3>1, <3>2, Facts DEF ForwardRun
    <3>5. \A b \in run.agents : Arrived(b)'
      BY <1>0, <3>1, DoneStays DEF Deploying
    <3>6. ForwardAgents'
      BY <1>0, <3>1, <3>5 DEF ForwardAgents, Deploying
    <3>7. UndoInv' /\ RefreshInv' /\ WaitInv'
      BY <1>0, <3>1 DEF UndoInv, RefreshInv, WaitInv, Forward
    <3>8. JobInv'
      BY <1>0, <1>2, <2>5, <3>1 DEF Inv, JobInv, Active
    <3> QED BY <2>2, <3>3, <3>4, <3>6, <3>7, <3>8 DEF Stays, Rest, ForwardInv
  <2> QED BY <2>4, <2>5
<1> QED BY <1>1, <1>2 DEF RunMarkApplied

LEMMA RunClearStays ==
  ASSUME Inv, Next, RunClear
  PROVE  Stays'
<1>0. TypeInv /\ JournalInv /\ run.pc = "clear" /\ UNCHANGED store
  BY DEF Inv, RunClear
<1>1. ~Spend("unlinkCommitted")
  BY DEF Inv, Spend
<1>2. journal' = NoTx /\ tx' = NoTx /\ Finish("applied")
  BY <1>1 DEF RunClear
<1>3. JournalInv'
  <2>1. run'.pc = "idle"
    BY <1>2 DEF Finish, NoRun
  <2> QED BY <1>2, <2>1 DEF JournalInv, Live
<1>4. Moving = {}
  BY <1>0, OpenUntilCommit
<1>5. HomeInv' /\ KnownInv'
  BY <1>0, <1>4, HomeStep
<1> QED BY <1>2, <1>3, <1>5, FinishStep

LEMMA RunUndoneStays ==
  ASSUME Inv, Next, RunUndone
  PROVE  Stays'
<1>0. /\ TypeInv /\ JournalInv /\ UndoInv /\ run.pc = "pick" /\ run.stage = "undo"
      /\ run.todo = {} /\ UNCHANGED store /\ Finish("failed")
  BY DEF Inv, RunUndone
<1>1. run'.pc = "idle"
  BY <1>0 DEF Finish, NoRun
<1>2. CASE UNCHANGED <<journal, tx>>
  BY <1>0, <1>1, <1>2, SameJournal, SameStore, OpenStep, Running, FinishStep
<1>3. CASE ~run.failed /\ tx # NoTx /\ journal' = NoTx /\ tx' = NoTx
  <2>1. JournalInv'
    BY <1>1, <1>3 DEF JournalInv, Live
  <2>2. ASSUME NEW a \in Agents PROVE Home(a)'
    <3>1. Home(a)
      <4>1. CASE a \in Moving
        BY <1>0, <1>3, <4>1, OpenUntilCommit DEF UndoInv, JournalInv
      <4>2. CASE a \notin Moving
        BY <4>2 DEF Inv, HomeInv
      <4> QED BY <4>1, <4>2
    <3> QED BY <1>0, <3>1, HomeStays
  <2>3. KnownInv'
    BY <1>0, KnownStays DEF Inv, KnownInv, AgentsOf
  <2> QED BY <1>0, <2>1, <2>2, <2>3, FinishStep DEF HomeInv
<1> QED BY <1>2, <1>3 DEF RunUndone

LEMMA RunStays ==
  ASSUME Inv, Next, RunStep
  PROVE  Stays'
<1>1. ASSUME NEW a \in Agents, SampleFails(a) PROVE Stays'
  <2>1. /\ Forward /\ run.pc = "pick" /\ ToRollback /\ UNCHANGED <<store, journal, tx, job>>
    BY <1>1 DEF SampleFails, Forward
  <2> QED BY <2>1, SameJournal, SameStore, RollbackStep
<1> QED BY <1>1, RunTouchStays, RunNextStays, RunQueueStays, RunAnswerStays, RunDeployedStays,
     RunConfirmStays, RunCommittingStays, RunMarkAppliedStays, RunClearStays, RunUndoneStays
     DEF RunStep

-----------------------------------------------------------------------------
(* Starting a deployment, and the steps around it.                         *)

(* A step with no goroutine before or after it.                            *)
LEMMA IdleStep ==
  ASSUME Inv, Next, run.pc = "idle", UNCHANGED run, job'.status # "active",
         JournalInv', HomeInv', KnownInv'
  PROVE  Stays'
BY DEF Stays, Rest, ForwardInv, Forward, UndoInv, RefreshInv, WaitInv, JobInv, Active

(* What a rollback of the rollout would reinstall is the applied topology. *)
LEMMA RollbackIsApplied ==
  ASSUME Inv, NEW a \in Agents, Home(a)
  PROVE  compileAppliedFleet[a] = Compile[store.active][a]
<1>1. /\ a \notin AgentsOf(store.active) => Compile[store.active][a] = Empty
      /\ Compile[store.active][a] # NoCfg
  <2>1. store.active \in Topologies /\ Compile[store.active][a] \in Cfgs
    BY Facts DEF Inv
  <2> QED BY <2>1, ConstantsAssumption DEF AgentsOf
<1> QED BY <1>1 DEF Home, Settled, Confirmed, compileAppliedFleet

(* An Agent the rollout leaves out has the same configuration under both   *)
(* topologies, and has confirmed it if the candidate needs it.             *)
LEMMA UnchangedAgents ==
  ASSUME Inv, NEW a \in Agents, Home(a), a \notin changedTopologyAgents
  PROVE  /\ Compile[store.desired][a] = Compile[store.active][a]
         /\ a \in AgentsOf(store.desired) => Known(a)
<1>0. /\ store.desired \in Topologies /\ store.active \in Topologies
      /\ Compile[store.desired][a] \in Cfgs /\ NoCfg \notin Cfgs
  BY Facts, ConstantsAssumption DEF Inv
<1>1. CASE a \in AgentsOf(store.desired) \cup AgentsOf(store.active)
  <2>1. AppliedConfiguration(rec[a]) = Compile[store.desired][a]
    BY <1>1 DEF changedTopologyAgents
  <2> QED BY <1>0, <2>1 DEF Home, Settled, Confirmed, Known
<1>2. CASE a \notin AgentsOf(store.desired) \cup AgentsOf(store.active)
  BY <1>0, <1>2, ConstantsAssumption DEF AgentsOf
<1> QED BY <1>1, <1>2

(* A rollout with something to change has a draft that is not applied.     *)
LEMMA ChangesAreDrafts ==
  ASSUME Inv, NEW a \in changedTopologyAgents, Home(a)
  PROVE  store.applied < store.revision
<1>0. /\ a \in Agents /\ AppliedConfiguration(rec[a]) # Compile[store.desired][a]
      /\ a \in AgentsOf(store.desired) \cup AgentsOf(store.active)
      /\ store.applied \in Nat /\ store.revision \in Nat /\ StoreInv
  BY Facts DEF Inv, changedTopologyAgents, AgentsOf
<1>1. store.desired # store.active
  <2> SUFFICES ASSUME store.desired = store.active PROVE FALSE
    OBVIOUS
  <2>1. Known(a)
    BY <1>0 DEF Inv, KnownInv
  <2> QED BY <1>0, <2>1 DEF Home, Settled, Confirmed, Known
<1> QED BY <1>0, <1>1 DEF StoreInv, Sound, Held

LEMMA StartTopologyStays ==
  ASSUME Inv, Next, ~Active, UNCHANGED store, StartTopology \/ AddressUnavailable
  PROVE  Stays'
<1>0. TypeInv /\ JournalInv /\ run.pc = "idle" /\ run \in Run
  BY Facts DEF Inv
<1>1. ASSUME Pending, UNCHANGED <<tx, journal, run>>
      PROVE  Stays'
  <2>1. job'.status # "active"
    BY <1>1 DEF Pending, NewJob
  <2>2. JournalInv' /\ HomeInv' /\ KnownInv'
    BY <1>0, <1>1, SameJournal, SameStore, OpenStep DEF KeepsLife
  <2> QED BY <1>0, <1>1, <2>1, <2>2, IdleStep
<1>2. CASE tx # NoTx /\ tx.touched = {} /\ Pending /\ journal' = NoTx /\ tx' = NoTx /\ UNCHANGED run
  <2>1. job'.status # "active" /\ JournalInv'
    BY <1>0, <1>2 DEF Pending, NewJob, JournalInv, Live
  <2>2. Moving = {}
    BY <1>0, <1>2, OpenUntilCommit DEF JournalInv
  <2>3. HomeInv' /\ KnownInv'
    BY <2>2, HomeStep
  <2> QED BY <1>0, <1>2, <2>1, <2>3, IdleStep
<1>3. CASE /\ tx # NoTx /\ tx.touched # {}
           /\ job' = NewJob("active", "recovery", tx.rev)
           /\ run' = [NewRun("topology", tx.from, tx.rev, tx.touched)
                        EXCEPT !.stage = "undo", !.touched = tx.touched]
           /\ UNCHANGED <<tx, journal>>
  <2> DEFINE r == NewRun("topology", tx.from, tx.rev, tx.touched)
  <2>1. tx.from \in Topologies /\ tx.rev \in Nat /\ tx.touched \in SUBSET Agents
    BY <1>0, <1>3, JournalFacts
  <2>2. r \in Run /\ r.pc = "pick" /\ r.plane = "topology" /\ r.agents = tx.touched
        /\ r.todo = tx.touched
    BY <2>1, NewRunType
  <2>3. run' = [r EXCEPT !.stage = "undo", !.touched = tx.touched]
    BY <1>3
  <2> HIDE DEF r
  <2>4. /\ run'.pc = "pick" /\ run'.plane = "topology" /\ run'.agents = tx.touched
        /\ run'.todo = tx.touched /\ run'.stage = "undo"
    BY <2>1, <2>2, <2>3 DEF Run
  <2>5. JournalInv' /\ HomeInv' /\ KnownInv'
    BY <1>0, <1>3, <2>4, SameJournal, SameStore, OpenStep DEF KeepsLife
  <2>6. UndoInv'
    BY <1>0, <1>3, <2>4 DEF UndoInv, JournalInv, Deploying
  <2>7. ForwardInv' /\ RefreshInv' /\ WaitInv'
    BY <2>4 DEF ForwardInv, Forward, RefreshInv, WaitInv
  <2>8. JobInv'
    BY <1>3, <2>4 DEF JobInv
  <2> QED BY <1>0, <2>5, <2>6, <2>7, <2>8 DEF Stays, Rest
<1>4. ASSUME tx = NoTx, Waiting(changedTopologyAgents) = {},
             IF changedTopologyAgents = {} THEN UNCHANGED <<tx, journal>>
             ELSE tx' = NewTransaction(changedTopologyAgents) /\ journal' = tx',
             job' = NewJob("active", "topology", store.revision),
             run' = NewRun("topology", store.desired, store.revision, changedTopologyAgents)
      PROVE  Stays'
  <2>1. /\ changedTopologyAgents \in SUBSET Agents
        /\ store.revision \in Nat /\ store.applied \in Nat
        /\ store.desired \in Topologies /\ store.active \in Topologies
    BY <1>0, Facts DEF changedTopologyAgents, AgentsOf
  <2>2. /\ run' \in Run /\ run'.pc = "pick" /\ run'.plane = "topology" /\ run'.stage = "deploy"
        /\ run'.cand = store.desired /\ run'.agents = changedTopologyAgents
        /\ run'.todo = changedTopologyAgents /\ run'.touched = {}
    BY <1>4, <2>1, NewRunType
  <2>3. run'.rev = store.revision
    BY <1>4 DEF NewRun, NoRun
  <2>4. Moving = {} /\ \A a \in Agents : Home(a)
    BY <1>0, <1>4, NothingMoves DEF Inv, HomeInv
  <2>5. HomeInv' /\ KnownInv'
    BY <2>4, HomeStep
  <2>6. changedTopologyAgents # {} =>
           /\ tx' # NoTx /\ journal' = tx' /\ tx'.touched = {}
           /\ tx'.phase = "deploying" /\ tx'.rev = store.revision
           /\ tx'.from = store.active /\ tx'.rb = compileAppliedFleet
           /\ store.applied < store.revision
    <3> SUFFICES ASSUME changedTopologyAgents # {}
                 PROVE  tx' # NoTx /\ store.applied < store.revision
      BY <1>4 DEF NewTransaction
    <3>1. tx' # NoTx
      BY <1>0, <1>4, <2>1, NewTransactionType
    <3>2. PICK a \in changedTopologyAgents : Home(a)
      BY <2>1, <2>4
    <3> QED BY <3>1, <3>2, ChangesAreDrafts
  <2>7. JournalInv'
    <3>1. \A a \in Agents : compileAppliedFleet[a] = Compile[store.active][a]
      BY <2>4, RollbackIsApplied
    <3>2. CASE changedTopologyAgents = {}
      BY <1>0, <1>4, <2>2, <3>2 DEF JournalInv, Live
    <3>3. CASE changedTopologyAgents # {}
      BY <1>4, <2>2, <2>6, <3>1, <3>3 DEF JournalInv
    <3> QED BY <3>2, <3>3
  <2>8. ForwardRun'
    <3>1. \A a \in Agents \ changedTopologyAgents :
             /\ Compile[store.desired][a] = Compile[store.active][a]
             /\ a \in AgentsOf(store.desired) => Known(a)'
      BY <2>4, UnchangedAgents, KnownStays
    <3>2. changedTopologyAgents = {} => tx' = NoTx
      BY <1>4
    <3>3. store' = store /\ run'.rev <= store.revision
      BY <2>1, <2>3, <1>0
    <3>4. run'.agents # {} => /\ tx' # NoTx /\ journal'.rev = run'.rev
                              /\ run'.touched = journal'.touched /\ run'.touched = tx'.touched
      BY <2>2, <2>3, <2>6
    <3>5. \A a \in Agents \ run'.agents :
             /\ Compile[run'.cand][a] = Compile[store.active][a]
             /\ a \in AgentsOf(run'.cand) => Known(a)'
      BY <2>2, <3>1 DEF AgentsOf
    <3> QED BY <2>2, <3>2, <3>3, <3>4, <3>5 DEF ForwardRun, AgentsOf
  <2>9. ForwardAgents'
    BY <2>2 DEF ForwardAgents, Deploying
  <2>10. UndoInv' /\ RefreshInv' /\ WaitInv'
    BY <2>2 DEF UndoInv, RefreshInv, WaitInv
  <2>11. JobInv'
    BY <1>4, <2>2 DEF JobInv, NewJob
  <2> QED BY <1>0, <2>5, <2>7, <2>8, <2>9, <2>10, <2>11 DEF Stays, Rest, ForwardInv
<1>5. CASE AddressUnavailable
  BY <1>1, <1>5 DEF AddressUnavailable
<1>6. CASE StartRecovery
  BY <1>1, <1>2, <1>3, <1>6 DEF StartRecovery
<1>7. CASE StartRollout
  BY <1>1, <1>4, <1>7 DEF StartRollout, Rollout
<1> QED BY <1>5, <1>6, <1>7 DEF StartTopology

LEMMA RefreshStays ==
  ASSUME Inv, Next, StartAppliedRefresh
  PROVE  Stays'
<1>0. /\ TypeInv /\ JournalInv /\ run.pc = "idle" /\ tx = NoTx
      /\ UNCHANGED <<store, journal, tx>>
  BY Facts DEF Inv, StartAppliedRefresh
<1>1. store.active \in Topologies /\ store.applied \in Nat /\ changedAgents \in SUBSET Agents
  BY <1>0, Facts DEF changedAgents, AgentsOf
<1>2. /\ run'.pc = "pick" /\ run'.plane = "refresh" /\ run'.stage = "deploy"
      /\ run'.cand = store.active
  BY <1>1, NewRunType DEF StartAppliedRefresh
<1>3. JournalInv' /\ HomeInv' /\ KnownInv'
  BY <1>0, <1>2, SameJournal, SameStore, OpenStep DEF KeepsLife
<1>4. /\ ForwardInv' /\ UndoInv' /\ RefreshInv' /\ WaitInv'
  BY <1>0, <1>2 DEF ForwardInv, Forward, UndoInv, RefreshInv, WaitInv, Deploying
<1>5. JobInv'
  BY <1>2 DEF StartAppliedRefresh, JobInv, NewJob
<1> QED BY <1>3, <1>4, <1>5 DEF Stays, Rest

(* start fails: at most a journal without Agents is left on disk.          *)
LEMMA StartErrorStays ==
  ASSUME Inv, Next, ~Active, UNCHANGED store, StartError
  PROVE  Stays'
<1>0. /\ TypeInv /\ JournalInv /\ run.pc = "idle" /\ UNCHANGED <<tx, job, run>>
      /\ job'.status # "active"
  BY Facts DEF Inv, StartError, Active
<1>1. CASE journal' = journal
  <2>1. JournalInv' /\ HomeInv' /\ KnownInv'
    BY <1>0, <1>1, SameJournal, SameStore, OpenStep DEF KeepsLife
  <2> QED BY <1>0, <2>1, IdleStep
<1>2. CASE tx = NoTx /\ journal' = NewTransaction(changedTopologyAgents)
  <2>1. /\ journal' # NoTx /\ journal'.touched = {} /\ journal'.phase = "deploying"
    <3>1. changedTopologyAgents \in SUBSET Agents
      BY DEF changedTopologyAgents, AgentsOf
    <3> QED BY <1>0, <1>2, <3>1, NewTransactionType
  <2>2. JournalInv'
    BY <1>0, <1>2, <2>1 DEF JournalInv, Live
  <2>3. Moving = {}
    BY <1>0, <1>2, NothingMoves
  <2>4. HomeInv' /\ KnownInv'
    BY <2>3, HomeStep
  <2> QED BY <1>0, <2>2, <2>4, IdleStep
<1> QED BY <1>1, <1>2 DEF StartError

(* An edit is saved, taken back, or only reaches the file.                 *)
EditsStore ==
    \/ \E t \in Topologies : Mutate(t) \/ MutateFails(t)
    \/ SaveStore \/ RestoreTopology

LEMMA EditsOnly ==
  ASSUME Inv, EditsStore
  PROVE  (StoreStands \/ StoreEdited) /\ UNCHANGED <<journal, rec, tx, job, run>>
<1>0. TypeOK
  BY DEF Inv, TypeInv
<1>1. ASSUME NEW t, store' = Saved(Edited(t)) PROVE StoreEdited
  BY <1>1 DEF StoreEdited, Saved, Edited, Held
<1>2. ASSUME NEW c, store' \in {store, [store EXCEPT !.file = c]} PROVE StoreStands
  BY <1>0, <1>2 DEF StoreStands, TypeOK
<1>3. ASSUME store' = Saved(Held) PROVE StoreStands
  BY <1>3 DEF StoreStands, Saved, Held
<1>4. ASSUME NEW t \in Topologies, Mutate(t) \/ MutateFails(t)
      PROVE  (StoreStands \/ StoreEdited) /\ UNCHANGED <<journal, rec, tx, job, run>>
  BY <1>1, <1>2, <1>4 DEF Mutate, MutateFails, Persist, PersistFails, masterVars
<1>5. CASE SaveStore
  BY <1>3, <1>5 DEF SaveStore, Persist, masterVars
<1>6. CASE RestoreTopology
  <2>1. UNCHANGED <<journal, rec, tx, job, run>>
    BY <1>6 DEF RestoreTopology
  <2>2. \/ store' = Saved(Edited(reserved.undo))
        \/ store' \in {store, [store EXCEPT !.file = Edited(reserved.undo)]}
    BY <1>6 DEF RestoreTopology, Persist, PersistFails
  <2> QED BY <1>1, <1>2, <2>1, <2>2
<1> QED BY <1>4, <1>5, <1>6 DEF EditsStore

LEMMA StillStays ==
  ASSUME Inv, Next, StoreStands \/ StoreEdited, UNCHANGED <<journal, rec, tx, job, run>>
  PROVE  Stays'
BY StillStep DEF Stays, Inv, WaitInv, StageCfg

LEMMA OperatorStays ==
  ASSUME Inv, Next, OperatorStep \/ TickIdle \/ TickStart
  PROVE  Stays'
<1>1. CASE EditsStore
  BY <1>1, EditsOnly, StillStays
<1>2. CASE StartReserved \/ RefuseEdit
  <2>1. /\ StartTopology \/ AddressUnavailable \/ StartError
        /\ UNCHANGED store /\ Reserved
    BY <1>2, Zenon DEF StartReserved, RefuseEdit
  <2>2. ~Active
    BY <2>1 DEF Inv, TypeInv, RunHoldsTransaction, Active, Reserved
  <2> QED BY <2>1, <2>2, StartTopologyStays, StartErrorStays
<1>3. CASE ManualStart
  <2>1. StartTopology /\ ~Active /\ UNCHANGED store
    BY <1>3, Zenon DEF ManualStart
  <2> QED BY <2>1, StartTopologyStays
<1>4. CASE StartAppliedRefresh
  BY <1>4, RefreshStays
<1>5. CASE TickIdle
  <2>1. UNCHANGED <<store, journal, rec, tx, job, run>>
    BY <1>5, Zenon DEF TickIdle
  <2> QED BY <2>1, SameStore, StillStays
<1>6. CASE TickStart
  <2>1. /\ StartTopology \/ AddressUnavailable \/ StartError
        /\ UNCHANGED store /\ ~Active
    BY <1>6, Zenon DEF TickStart
  <2> QED BY <2>1, StartTopologyStays, StartErrorStays
<1> QED BY <1>1, <1>2, <1>3, <1>4, <1>5, <1>6 DEF OperatorStep, EditsStore

LEMMA AgentStays ==
  ASSUME Inv, Next, NEW a \in Agents, AgentStep(a)
  PROVE  Stays'
<1>1. UNCHANGED <<store, journal, tx, run, job>>
  BY DEF AgentStep, Connect, DropSession, AgentTake, AgentFinish, HandleReport,
         ExpireRecord, RuntimeReport, masterVars
<1> QED BY <1>1, SameStore, StillStep, AgentWaits DEF Stays

(* NewDeployer keeps the journal of an open transaction only.              *)
LEMMA RestartStays ==
  ASSUME Inv, Next, Restart
  PROVE  Stays'
<1>0. /\ TypeInv /\ JournalInv
      /\ run'.pc = "idle" /\ job'.status # "active" /\ tx' = journal'
  BY DEF Inv, Restart, NoRun, NoJob
<1>d. store'.applied = store.applied /\ store'.active = store.active /\ ~Disowned
  <2>1. ~Spend("disowned")
    BY DEF Inv, Spend
  <2>2. ~Disowned
    BY <2>1 DEF Restart
  <2> QED BY <2>2 DEF Restart, Disowned, Persist, Saved
<1>e. journal' = IF journal # NoTx /\ ~Uncommitted THEN NoTx ELSE journal
  BY <1>d DEF Restart, Uncommitted, Disowned
<1>1. journal' = IF run.pc = "clear" THEN NoTx ELSE journal
  BY <1>0, <1>e, OpenUntilCommit DEF JournalInv
<1>2. JournalInv'
  <2>1. CASE run.pc = "clear"
    BY <1>0, <1>1, <2>1 DEF JournalInv, Live
  <2>2. CASE run.pc # "clear"
    <3>1. journal # NoTx /\ journal.touched # {} => Live
      BY <1>0 DEF JournalInv, Live
    <3> QED BY <1>0, <1>d, <1>1, <2>2, <3>1 DEF JournalInv, Live
  <2> QED BY <2>1, <2>2
<1>3. Moving \subseteq Moving'
  <2>1. CASE run.pc = "clear"
    BY <1>0, <2>1, OpenUntilCommit
  <2>2. CASE run.pc # "clear"
    BY <1>0, <1>d, <1>1, <2>2 DEF Moving, Uncommitted
  <2> QED BY <2>1, <2>2
<1>4. HomeInv' /\ KnownInv'
  BY <1>d, <1>3, HomeStep
<1> QED BY <1>0, <1>2, <1>4
     DEF Stays, Rest, ForwardInv, Forward, UndoInv, RefreshInv, WaitInv, JobInv, Active

-----------------------------------------------------------------------------
(* The excluded failures stay excluded.                                    *)

LEMMA BudgetStays ==
  ASSUME Inv, Next
  PROVE  budget'["unlinkCommitted"] = 0 /\ budget'["disowned"] = 0
<1>0. TypeOK /\ budget["unlinkCommitted"] = 0 /\ budget["disowned"] = 0
  BY DEF Inv, TypeInv
<1>1. ASSUME NEW k \in Kinds, Spend(k)
      PROVE  budget'["unlinkCommitted"] = 0 /\ budget'["disowned"] = 0
  BY <1>0, <1>1 DEF Spend, TypeOK
<1> DEFINE Paid == UNCHANGED budget \/ \E k \in Kinds : Spend(k)
<1>2. Kinds = {"edit", "manual", "refresh", "crash", "drop", "timeout", "reject", "exit",
               "write", "unlinkUndone", "unlinkCommitted", "compile", "address", "disowned"}
  BY DEF Kinds
<1>3. ASSUME NEW a \in Agents, RunTouch(a) \/ SampleFails(a) \/ RunNext(a) \/ RunConfirm(a)
      PROVE  Paid
  BY <1>2, <1>3 DEF RunTouch, SampleFails, RunNext, RunConfirm
<1>4. ASSUME RunQueue \/ RunRefused \/ RunReported \/ RunTimeout \/ RunDeployed
      PROVE  Paid
  <2>1. CASE RunQueue
    BY <1>2, <2>1, Zenon DEF RunQueue
  <2>2. CASE RunTimeout
    BY <1>2, <2>2, Zenon DEF RunTimeout
  <2>3. CASE RunRefused \/ RunReported \/ RunDeployed
    BY <2>3, Zenon DEF RunRefused, RunReported, RunDeployed
  <2> QED BY <1>4, <2>1, <2>2, <2>3
<1>5. ASSUME RunCommitting \/ RunMarkApplied \/ RunClear \/ RunUndone
      PROVE  Paid
  <2>1. CASE RunCommitting
    BY <1>2, <2>1, Zenon DEF RunCommitting
  <2>2. CASE RunMarkApplied
    BY <1>2, <2>2, Zenon DEF RunMarkApplied, PersistFails
  <2>3. CASE RunClear \/ RunUndone
    BY <1>2, <2>3, Zenon DEF RunClear, RunUndone
  <2> QED BY <1>5, <2>1, <2>2, <2>3
<1>6. ASSUME EditsStore \/ StartReserved \/ RefuseEdit
      PROVE  Paid
  <2>1. CASE \E t \in Topologies : Mutate(t) \/ MutateFails(t)
    BY <1>2, <2>1, Zenon DEF Mutate, MutateFails, PersistFails
  <2>2. CASE StartReserved
    BY <1>2, <2>2, Zenon DEF StartReserved, AddressUnavailable
  <2>3. CASE RefuseEdit
    BY <1>2, <2>3, Zenon DEF RefuseEdit, StartError
  <2>4. CASE SaveStore \/ RestoreTopology
    BY <1>2, <2>4, Zenon DEF SaveStore, RestoreTopology, PersistFails
  <2> QED BY <1>6, <2>1, <2>2, <2>3, <2>4 DEF EditsStore
<1>7. ASSUME ManualStart \/ StartAppliedRefresh \/ TickIdle \/ TickStart \/ Restart
      PROVE  Paid
  BY <1>2, <1>7 DEF ManualStart, StartAppliedRefresh, TickIdle, TickStart, Restart,
     AddressUnavailable, StartError
<1>8. ASSUME NEW a \in Agents, AgentStep(a)
      PROVE  Paid
  BY <1>2, <1>8 DEF AgentStep, Connect, DropSession, AgentTake, AgentFinish, HandleReport,
     ExpireRecord, RuntimeReport
<1>9. Paid
  BY <1>3, <1>4, <1>5, <1>6, <1>7, <1>8 DEF Next, RunStep, OperatorStep, EditsStore
<1> QED BY <1>0, <1>1, <1>9


-----------------------------------------------------------------------------
LEMMA InvInit == CommittedJournalsGo /\ DisownedCommitsGo /\ Init => Inv
<1> SUFFICES ASSUME CommittedJournalsGo, DisownedCommitsGo, Init PROVE Inv
  OBVIOUS
<1>1. TypeInv /\ TrackInv
  BY TypeInit, TrackedInit
<1>2. run.pc = "idle" /\ job.status # "active" /\ journal = NoTx /\ tx = NoTx
  BY DEF Init, NoRun, NoJob
<1>3. StoreInv /\ JournalInv
  BY <1>2 DEF Init, StoreInv, Sound, Held, Saved, JournalInv, Live
<1>4. ForwardInv /\ UndoInv /\ RefreshInv /\ WaitInv /\ JobInv
  BY <1>2 DEF ForwardInv, Forward, UndoInv, RefreshInv, WaitInv, JobInv, Active
<1>5. HomeInv
  <2>1. \A a \in Agents : Compile[InitialTopology][a] = Empty
    BY ConstantsAssumption
  <2> QED BY <2>1 DEF HomeInv, Home, Settled, Confirmed, Init, Saved, NoRecord, NoWork, Idle,
       AppliedConfiguration, deploymentRecordBusy
<1>6. KnownInv
  BY ConstantsAssumption DEF KnownInv, AgentsOf, Init, Saved
<1>7. budget["unlinkCommitted"] = 0 /\ budget["disowned"] = 0
  BY DEF Init, CommittedJournalsGo, DisownedCommitsGo
<1> QED BY <1>1, <1>3, <1>4, <1>5, <1>6, <1>7 DEF Inv

LEMMA InvNext ==
  ASSUME Inv, Next
  PROVE  Inv'
<1>1. TypeInv' /\ TrackInv'
  BY TypeStep, TrackedStep DEF Inv
<1>2. Stays'
  BY RunStays, OperatorStays, AgentStays, RestartStays DEF Next
<1> QED BY <1>1, <1>2, StoreStays, BudgetStays DEF Inv, Stays, Rest

LEMMA InvStep == Inv /\ [Next]_vars => Inv'
<1> SUFFICES ASSUME Inv, [Next]_vars PROVE Inv'
  OBVIOUS
<1>1. CASE Next
  BY <1>1, InvNext
<1>2. CASE UNCHANGED vars
  <2>1. TypeInv' /\ TrackInv' /\ budget'["unlinkCommitted"] = 0 /\ budget'["disowned"] = 0
    BY <1>2, TypeStep, TrackedStep DEF Inv, vars
  <2>2. StoreInv' /\ JournalInv' /\ RefreshInv' /\ WaitInv' /\ JobInv'
    BY <1>2 DEF vars, Inv, StoreInv, Sound, Held, JournalInv, Live, RefreshInv, WaitInv,
       StageCfg, JobInv, Active
  <2>3. (\A a \in Agents : Home(a)' <=> Home(a)) /\ (\A a \in Agents : Arrived(a)' <=> Arrived(a))
    BY <1>2 DEF vars, Home, Arrived, Settled, Known, Confirmed, Idle
  <2>4. HomeInv' /\ KnownInv' /\ UndoInv'
    BY <1>2, <2>3, JournalFacts DEF vars, Inv, HomeInv, Moving, Uncommitted, KnownInv, Known,
       AgentsOf, UndoInv, JournalInv
  <2>5. ForwardInv'
    BY <1>2, <2>3, Facts DEF vars, Inv, ForwardInv, Forward, ForwardRun, ForwardAgents, Known,
       AgentsOf, Deepest
  <2> QED BY <2>1, <2>2, <2>4, <2>5 DEF Inv
<1> QED BY <1>1, <1>2


LEMMA AlwaysInv ==
  ASSUME CommittedJournalsGo, DisownedCommitsGo
  PROVE  Spec => []Inv
<1>1. Init => Inv
  BY InvInit
<1>2. Inv /\ [Next]_vars => Inv'
  BY InvStep
<1> QED BY <1>1, <1>2, PTL DEF Spec

-----------------------------------------------------------------------------
(* The safety properties.                                                  *)

(* Write-ahead and atomic commit: an Agent that runs something else than   *)
(* the applied topology is named by a journal that a restart would undo.   *)
(* RunTouch writes the journal before RunQueue sends anything, and         *)
(* RunUndone and RunMarkApplied end it only when every Agent has answered. *)
THEOREM JournalCovers ==
  ASSUME CommittedJournalsGo, DisownedCommitsGo
  PROVE  Spec => []JournalCoversAgents
<1>1. Inv => JournalCoversAgents
  BY DEF Inv, HomeInv, Moving, Home, Settled, JournalCoversAgents
<1> QED BY <1>1, AlwaysInv, PTL

(* What an open journal would reinstall is the applied topology, rendered  *)
(* as the Agents run it: compileAppliedFleet reads it off the last         *)
(* confirmed configurations when Rollout writes the journal.               *)
THEOREM JournalRestores ==
  ASSUME CommittedJournalsGo, DisownedCommitsGo
  PROVE  Spec => []JournalRestoresApplied
<1>1. Inv => JournalRestoresApplied
  <2> SUFFICES ASSUME Inv, Uncommitted, journal.touched # {}
               PROVE  /\ journal.from = store.active
                      /\ \A a \in journal.agents : journal.rb[a] = Compile[store.active][a]
    BY DEF JournalRestoresApplied
  <2>1. TypeInv /\ JournalInv
    BY DEF Inv
  <2>2. journal # NoTx /\ run.pc # "clear" /\ Live
    BY <2>1, OpenUntilCommit DEF JournalInv, Live
  <2>3. journal.agents \subseteq Agents
    BY <2>1, <2>2, JournalFacts DEF Transaction
  <2> QED BY <2>1, <2>2, <2>3 DEF JournalInv
<1> QED BY <1>1, AlwaysInv, PTL

(* startTransactionRecoveryLocked never undoes a rollout that was          *)
(* completed: the journal it reads is one NewDeployer would keep.          *)
THEOREM RecoveryOfOpen ==
  ASSUME CommittedJournalsGo, DisownedCommitsGo
  PROVE  Spec => []CompletedIsNotRecovered
<1>1. Inv => CompletedIsNotRecovered
  <2> SUFFICES ASSUME Inv, Active, job.plane = "recovery" PROVE Uncommitted
    BY DEF CompletedIsNotRecovered
  <2>1. run.pc # "idle" /\ run.stage = "undo" /\ run.agents # {}
    BY DEF Inv, JobInv
  <2>2. run.plane = "topology" /\ run.pc # "clear"
    BY <2>1 DEF Inv, UndoInv, Deploying
  <2>3. tx # NoTx
    BY <2>1, <2>2, Facts DEF Inv
  <2> QED BY <2>2, <2>3, OpenUntilCommit DEF Inv, JournalInv
<1> QED BY <1>1, AlwaysInv, PTL

(* Receiver before sender: deploymentOrder visits the deepest hop first,   *)
(* and waitForDeployment does not go on before it runs the candidate.      *)
THEOREM ReceiversFirst ==
  ASSUME CommittedJournalsGo, DisownedCommitsGo
  PROVE  Spec => []ReceiverFirst
<1>1. Inv => ReceiverFirst
  <2> SUFFICES ASSUME Inv, Forward, NEW a \in run.agents, NEW b \in run.agents,
                      Depth[run.cand][a] < Depth[run.cand][b],
                      running[a] # tx.rb[a]
               PROVE  running[b] = Compile[run.cand][b]
    BY DEF ReceiverFirst, Forward
  <2>0. /\ TypeInv /\ JournalInv /\ ForwardRun /\ ForwardAgents
        /\ a \in Agents /\ b \in Agents /\ run.agents # {}
    BY Facts DEF Inv, ForwardInv
  <2>1. ASSUME Arrived(b) PROVE running[b] = Compile[run.cand][b]
    BY <2>1 DEF Arrived, Settled
  <2>2. CASE run.pc \notin Deploying
    BY <2>0, <2>1, <2>2 DEF ForwardAgents
  <2>3. CASE run.pc \in Deploying /\ b \notin run.todo
    BY <2>0, <2>1, <2>3 DEF ForwardAgents
  <2>4. CASE run.pc \in Deploying /\ b \in run.todo
    <3>1. journal # NoTx /\ run.pc # "clear" /\ run.touched = journal.touched
      BY <2>0, <2>4 DEF ForwardRun, JournalInv, Deploying
    <3>2. tx.rb[a] = Compile[store.active][a]
      BY <2>0, <3>1 DEF JournalInv, Live, ForwardRun, Forward
    <3>3. a \in run.touched
      BY <2>0, <3>1, <3>2, OpenUntilCommit DEF Inv, HomeInv, Home, Settled
    <3>4. Depth[run.cand][a] \in Int /\ Depth[run.cand][b] \in Int
      BY <2>0, Facts, ConstantsAssumption DEF Inv
    <3>5. a \in run.todo
      BY <2>0, <2>4, <3>4 DEF ForwardAgents
    <3>6. run.pc \in {"queue", "wait"} /\ a = run.cur
      BY <2>0, <2>4, <3>3, <3>5 DEF ForwardAgents, Deploying
    <3> QED BY <2>0, <2>4, <3>4, <3>6 DEF ForwardAgents, Deepest
  <2> QED BY <2>2, <2>3, <2>4
<1> QED BY <1>1, AlwaysInv, PTL

-----------------------------------------------------------------------------
(* The refinement of the atomic fleet transaction.                         *)

LEMMA AtomicInit == Init => Atomic!Init
<1> SUFFICES ASSUME Init PROVE Atomic!Init
  OBVIOUS
<1>1. \A a \in Agents : Compile[InitialTopology][a] = Empty
  BY ConstantsAssumption
<1>2. running = Compile[InitialTopology]
  BY <1>1, ConstantsAssumption DEF Init
<1> QED BY <1>2 DEF Init, Saved, Atomic!Init, Uncommitted

Same == store'.active = store.active /\ Moving' = Moving /\ running' = running

(* A rollout declares the next Agent.                                      *)
LEMMA TouchDeclares ==
  ASSUME Inv, Inv', NEW a \in Agents, RunTouch(a)
  PROVE  Atomic!Declare(a) \/ Same
<1>0. /\ TypeInv /\ JournalInv /\ ForwardRun /\ run.pc = "pick" /\ a \in run.agents
      /\ UNCHANGED <<store, running>>
  BY Facts DEF Inv, RunTouch, Forward, Deepest, ForwardInv
<1>1. /\ tx \in Transaction /\ journal # NoTx /\ journal.rev \in Nat
      /\ tx.touched = journal.touched /\ store.applied < journal.rev /\ store.applied \in Nat
      /\ tx.rev = journal.rev
  BY <1>0, JournalFacts, Facts DEF ForwardRun, JournalInv, Live
<1>2. CASE journal' = journal
  BY <1>0, <1>2 DEF Same, Moving, Uncommitted
<1>3. CASE journal' = tx'
  <2>1. /\ journal'.touched = journal.touched \cup {a} /\ journal'.rev = journal.rev
    BY <1>1, <1>3 DEF RunTouch, Transaction
  <2>2. journal' # NoTx
    BY <1>1, <1>3, NoTxAssumption DEF RunTouch, Transaction
  <2>3. Uncommitted /\ Uncommitted'
    BY <1>0, <1>1, <2>1, <2>2 DEF Uncommitted
  <2> QED BY <1>0, <2>1, <2>3 DEF Atomic!Declare
<1> QED BY <1>2, <1>3 DEF RunTouch

(* Only a declared Agent changes what it runs.                             *)
LEMMA FinishInstalls ==
  ASSUME Inv, NEW a \in Agents, AgentFinish(a)
  PROVE  Atomic!Install(a) \/ Same
<1>0. /\ UNCHANGED <<store, journal>> /\ ~Idle(a)
      /\ running' \in {running, [running EXCEPT ![a] = work[a].cfg]}
      /\ work[a].cfg \in Cfgs /\ running \in [Agents -> Cfgs]
  BY DEF AgentFinish, Inv, TypeInv, TypeOK, Work
<1>1. Moving' = Moving
  BY <1>0 DEF Moving, Uncommitted
<1>2. CASE running' = running
  BY <1>0, <1>1, <1>2 DEF Same
<1>3. CASE a \notin Moving /\ running' = [running EXCEPT ![a] = work[a].cfg]
  <2>1. running[a] = work[a].cfg
    BY <1>0, <1>3 DEF Inv, HomeInv, Home, Settled
  <2> QED BY <1>0, <1>1, <1>3, <2>1 DEF Same
<1>4. CASE a \in Moving /\ running' = [running EXCEPT ![a] = work[a].cfg]
  BY <1>0, <1>1, <1>4 DEF Atomic!Install, Moving
<1> QED BY <1>0, <1>2, <1>3, <1>4

(* The commit of the store commits the transaction.                        *)
LEMMA MarkCommits ==
  ASSUME Inv, Inv', RunMarkApplied
  PROVE  (\E t \in Topologies : Atomic!Commit(t)) \/ Same
<1>0. UNCHANGED <<journal, running>> /\ run.pc # "clear" /\ store.active \in Topologies
  BY Facts DEF RunMarkApplied, Inv
<1>1. CASE UNCHANGED store \/ PersistFails(Committed)
  <2>1. store'.applied = store.applied /\ store'.active = store.active
    BY <1>1 DEF PersistFails, Inv, TypeInv, TypeOK
  <2> QED BY <1>0, <2>1 DEF Same, Moving, Uncommitted
<1>2. CASE /\ IF run.agents = {} THEN Finish("applied")
              ELSE run' = [run EXCEPT !.pc = "clear"] /\ UNCHANGED job
           /\ UNCHANGED tx
  <2>1. (run.agents = {} => tx = NoTx) /\ (run.agents # {} => run'.pc = "clear")
    <3>1. run.agents = {} => tx = NoTx
      BY Facts, AllArrived DEF Inv, RunMarkApplied, ForwardRun
    <3> QED BY <1>2, <3>1, Facts DEF Run, Inv
  <2>3. Moving' = {}
    <3>1. TypeInv' /\ JournalInv'
      BY DEF Inv
    <3>2. CASE run.agents = {}
      <4>2. journal' # NoTx => journal'.touched = {}
        BY <1>0, <2>1, <3>2 DEF Inv, JournalInv
      <4> QED BY <4>2 DEF Moving, Uncommitted
    <3>3. CASE run.agents # {}
      BY <2>1, <3>1, <3>3 DEF JournalInv, Moving, Uncommitted
    <3> QED BY <3>2, <3>3
  <2>4. \A a \in Agents : running[a] = Compile[store'.active][a]
    BY <1>0, <2>3 DEF Inv, HomeInv, Home, Settled
  <2>5. store'.active \in Topologies
    BY DEF Inv, TypeInv, TypeOK
  <2> QED BY <1>0, <2>3, <2>4, <2>5 DEF Atomic!Commit, Atomic!Runs, Moving
<1> QED BY <1>1, <1>2 DEF RunMarkApplied

(* The end of a complete rollback ends the transaction.                    *)
LEMMA UndoneAborts ==
  ASSUME Inv', RunUndone
  PROVE  Atomic!Abort \/ Same
<1>0. UNCHANGED <<store, running>>
  BY DEF RunUndone
<1>1. CASE UNCHANGED journal
  BY <1>0, <1>1 DEF Same, Moving, Uncommitted
<1>2. CASE journal' = NoTx
  <2>1. ~Uncommitted' /\ Moving' = {}
    BY <1>2 DEF Uncommitted, Moving
  <2>2. \A a \in Agents : running[a] = Compile[store.active][a]
    BY <1>0, <2>1 DEF Inv, HomeInv, Home, Settled
  <2> QED BY <1>0, <2>1, <2>2 DEF Atomic!Abort, Atomic!Runs
<1> QED BY <1>1, <1>2 DEF RunUndone


(* Every other step leaves the transaction as it is.                       *)
LEMMA SameJournalSame ==
  ASSUME UNCHANGED <<store, journal, running>>
  PROVE  Same
BY DEF Same, Moving, Uncommitted

LEMMA RunSame ==
  ASSUME Inv, Inv', RunStep, ~RunMarkApplied, ~RunUndone, \A a \in Agents : ~RunTouch(a)
  PROVE  Same
<1>0. TypeInv /\ JournalInv /\ JournalInv'
  BY DEF Inv
<1>1. ASSUME NEW a \in Agents, SampleFails(a) \/ RunNext(a) \/ RunConfirm(a)
      PROVE  Same
  BY <1>1, SameJournalSame, Zenon DEF SampleFails, RunNext, RunConfirm
<1>2. CASE RunQueue \/ RunRefused \/ RunReported
  BY <1>2, SameJournalSame, Zenon DEF RunQueue, RunRefused, RunReported
<1>3. CASE RunTimeout \/ RunDeployed
  BY <1>3, SameJournalSame, Zenon DEF RunTimeout, RunDeployed
<1>4. CASE RunCommitting
  <2>0. UNCHANGED <<store, running>> /\ run.pc = "confirm" /\ run.agents # {}
    BY <1>4 DEF RunCommitting
  <2>1. CASE journal' = journal
    BY <2>0, <2>1, SameJournalSame
  <2>2. CASE journal' = tx'
    <3>1. /\ tx \in Transaction /\ journal # NoTx /\ tx.touched = journal.touched
          /\ tx.rev = journal.rev
      BY <1>0, <2>0, AllArrived, JournalFacts DEF Inv, ForwardRun, JournalInv
    <3>2. /\ journal'.touched = journal.touched /\ journal'.rev = journal.rev
          /\ journal' # NoTx
      BY <1>4, <2>2, <3>1, NoTxAssumption DEF RunCommitting, Transaction
    <3>3. store.applied < journal.rev /\ store.applied \in Nat /\ journal.rev \in Nat
      BY <1>0, <2>0, <3>1, Facts, JournalFacts DEF JournalInv, Live
    <3>4. Uncommitted /\ Uncommitted'
      BY <2>0, <3>1, <3>2, <3>3 DEF Uncommitted
    <3> QED BY <2>0, <3>2, <3>4 DEF Same, Moving
  <2> QED BY <1>4, <2>1, <2>2 DEF RunCommitting
<1>5. CASE RunClear
  <2>1. Moving = {} /\ UNCHANGED <<store, running>>
    BY <1>0, <1>5, OpenUntilCommit DEF RunClear
  <2>2. journal' = NoTx \/ UNCHANGED journal
    BY <1>5, Zenon DEF RunClear
  <2> QED BY <2>1, <2>2 DEF Same, Moving, Uncommitted
<1> QED BY <1>1, <1>2, <1>3, <1>4, <1>5 DEF RunStep

LEMMA StartSame ==
  ASSUME Inv, StartTopology \/ AddressUnavailable \/ StartError,
         UNCHANGED <<store, running>>, ~Active
  PROVE  Same
<1>0. TypeInv /\ JournalInv /\ run.pc = "idle"
  BY Facts DEF Inv
<1>1. CASE UNCHANGED journal
  BY <1>1, SameJournalSame
<1>2. CASE StartRecovery /\ tx.touched = {} /\ journal' = NoTx
  <2>1. Moving = {}
    BY <1>0, <1>2, OpenUntilCommit DEF JournalInv, StartRecovery
  <2> QED BY <1>2, <2>1 DEF Same, Moving, Uncommitted
<1>3. CASE tx = NoTx /\ \E S \in SUBSET Agents : journal' = NewTransaction(S)
  <2>1. Moving = {}
    BY <1>0, <1>3, NothingMoves
  <2>2. journal'.touched = {}
    BY <1>3 DEF NewTransaction
  <2>3. Moving' = {}
    BY <2>2 DEF Moving
  <2> QED BY <1>3, <2>1, <2>3 DEF Same
<1>c. changedTopologyAgents \in SUBSET Agents
  BY DEF changedTopologyAgents, AgentsOf
<1>4. CASE AddressUnavailable \/ StartError
  <2>1. UNCHANGED journal \/ (tx = NoTx /\ journal' = NewTransaction(changedTopologyAgents))
    BY <1>4 DEF AddressUnavailable, StartError
  <2> QED BY <1>1, <1>3, <1>c, <2>1
<1>6. CASE StartRollout
  <2>1. UNCHANGED journal \/ (tx = NoTx /\ journal' = NewTransaction(changedTopologyAgents))
    BY <1>6 DEF StartRollout, Rollout
  <2> QED BY <1>1, <1>3, <1>c, <2>1
<1>5. CASE StartRecovery
  BY <1>1, <1>2, <1>5 DEF StartRecovery
<1> QED BY <1>4, <1>5, <1>6 DEF StartTopology

LEMMA OperatorSame ==
  ASSUME Inv, OperatorStep \/ TickIdle \/ TickStart
  PROVE  Same
<1>0. UNCHANGED running
  BY QuietStep
<1>1. CASE EditsStore
  <2>1. /\ store'.applied = store.applied /\ store'.active = store.active
        /\ UNCHANGED journal
    BY <1>1, EditsOnly DEF StoreStands, StoreEdited
  <2> QED BY <1>0, <2>1 DEF Same, Moving, Uncommitted
<1>3. CASE StartReserved \/ RefuseEdit
  <2>1. (StartTopology \/ AddressUnavailable \/ StartError) /\ UNCHANGED store /\ Reserved
    BY <1>3, Zenon DEF StartReserved, RefuseEdit
  <2>2. ~Active
    BY <2>1 DEF Inv, TypeInv, RunHoldsTransaction, Active, Reserved
  <2> QED BY <1>0, <2>1, <2>2, StartSame
<1>4. CASE ManualStart
  <2>1. StartTopology /\ UNCHANGED store /\ ~Active
    BY <1>4, Zenon DEF ManualStart
  <2> QED BY <1>0, <2>1, StartSame
<1>5. CASE StartAppliedRefresh \/ TickIdle
  BY <1>5, SameJournalSame, Zenon DEF StartAppliedRefresh, TickIdle
<1>6. CASE TickStart
  <2>1. (StartTopology \/ AddressUnavailable \/ StartError) /\ UNCHANGED store /\ ~Active
    BY <1>6, Zenon DEF TickStart
  <2> QED BY <1>0, <2>1, StartSame
<1> QED BY <1>1, <1>3, <1>4, <1>5, <1>6 DEF OperatorStep, EditsStore

LEMMA AgentSame ==
  ASSUME NEW a \in Agents, AgentStep(a), ~AgentFinish(a)
  PROVE  Same
<1>1. CASE Connect(a) \/ DropSession(a) \/ AgentTake(a)
  BY <1>1, SameJournalSame, Zenon DEF Connect, DropSession, AgentTake
<1>2. CASE HandleReport(a) \/ ExpireRecord(a) \/ RuntimeReport(a)
  BY <1>2, SameJournalSame, Zenon DEF HandleReport, ExpireRecord, RuntimeReport
<1> QED BY <1>1, <1>2 DEF AgentStep

LEMMA RestartSame ==
  ASSUME Inv, Restart
  PROVE  Same
<1>1. UNCHANGED running /\ store'.applied = store.applied /\ store'.active = store.active
      /\ journal' = IF journal # NoTx /\ ~Uncommitted THEN NoTx ELSE journal
  <2>1. ~Spend("disowned")
    BY DEF Inv, Spend
  <2>2. ~Disowned
    BY <2>1 DEF Restart
  <2> QED BY <2>2 DEF Restart, Disowned, Persist, Saved, Uncommitted
<1>2. CASE journal # NoTx /\ ~Uncommitted
  BY <1>1, <1>2 DEF Same, Moving, Uncommitted
<1>3. CASE ~(journal # NoTx /\ ~Uncommitted)
  BY <1>1, <1>3 DEF Same, Moving, Uncommitted
<1> QED BY <1>2, <1>3

(* The rollout of internal/proxynode/deployer.go, with its journal, its    *)
(* rollbacks and its recovery after a restart, is an atomic transaction    *)
(* over the fleet: Agents leave the applied topology only while a          *)
(* transaction declares them, and it ends when all are on the new          *)
(* topology or all are back.                                               *)
THEOREM RolloutIsAtomic ==
  ASSUME CommittedJournalsGo, DisownedCommitsGo
  PROVE  Spec => ImplementsAtomicFleet
<1>1. Init => Atomic!Init
  BY AtomicInit
<1>2. Inv /\ Inv' /\ [Next]_vars => [Atomic!Next]_(Atomic!vars)
  <2> SUFFICES ASSUME Inv, Inv', [Next]_vars PROVE Atomic!Next \/ UNCHANGED Atomic!vars
    OBVIOUS
  <2>0. Same => UNCHANGED Atomic!vars
    BY DEF Same, Moving, Atomic!vars
  <2>1. CASE UNCHANGED vars
    BY <2>0, <2>1, SameJournalSame DEF vars
  <2>2. CASE RunStep
    <3>1. (\E a \in Agents : Atomic!Declare(a)) \/ (\E t \in Topologies : Atomic!Commit(t))
          \/ Atomic!Abort \/ Same
      BY <2>2, TouchDeclares, MarkCommits, UndoneAborts, RunSame
    <3> QED BY <2>0, <3>1 DEF Atomic!Next
  <2>3. CASE OperatorStep \/ TickIdle \/ TickStart \/ Restart
    BY <2>0, <2>3, OperatorSame, RestartSame
  <2>4. ASSUME NEW a \in Agents, AgentStep(a)
        PROVE  Atomic!Next \/ UNCHANGED Atomic!vars
    <3>1. Atomic!Install(a) \/ Same
      BY <2>4, FinishInstalls, AgentSame
    <3> QED BY <2>0, <3>1 DEF Atomic!Next
  <2> QED BY <2>1, <2>2, <2>3, <2>4 DEF Next
<1> QED BY <1>1, <1>2, AlwaysInv, PTL DEF Spec, ImplementsAtomicFleet, Atomic!Spec
=============================================================================
