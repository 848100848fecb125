--------------------------- MODULE MCFleetLiveness ---------------------------
(* What a rollout promises in the end, for the topology of a fleet and for  *)
(* the users of one Agent.  focus is the one a behaviour is about; the      *)
(* other stays where it began.  The fleet is checked on environments that   *)
(* lose a session and on one that does not.                                 *)
EXTENDS MCFleetDeployment, UserPlane

CONSTANTS x1, plain, y1, y2

VARIABLES
    focus,      \* "fleet" or "users"
    lossy       \* whether the fleet may lose a session in this behaviour

FewEvents == CHOOSE b \in BudgetsRecovery : TRUE
LivenessBudgets == BudgetsRecovery \cup BudgetsReconnect

(* Users: one membership that is granted or revoked around a rollout that   *)
(* adds a relay whose address moves, one that removes it across a restart   *)
(* of the master, and around moves with a lost session, a refused           *)
(* configuration or a restart of the Agent.                                 *)
Events(ch, ed, mv, dr, cr, rj, rs) ==
    [changes |-> ch, edits |-> ed, moves |-> mv, drops |-> dr, crashes |-> cr, rejections |-> rj, restarts |-> rs]
OneMove == Events(1, 0, 2, 0, 0, 0, 0)
MCPlaneBudgets ==
    {Events(1, 1, 1, 0, 0, 0, 0), Events(1, 1, 0, 0, 0, 0, 1), Events(1, 0, 1, 1, 0, 0, 0),
     Events(1, 0, 1, 0, 1, 0, 0), Events(1, 0, 1, 0, 0, 1, 0), OneMove}

-----------------------------------------------------------------------------
Parked ==
    /\ focus # "fleet" => budget = FewEvents
    /\ focus # "users" => reserve = OneMove /\ roster.applied = plain
    /\ focus = "users" /\ reserve.edits > 0 => roster.applied = IF reserve.moves > 0 THEN plain ELSE relayed

LivenessInit ==
    /\ focus \in {"fleet", "users"}
    /\ Init /\ PlaneInit
    /\ lossy = (budget["drop"] > 0)
    /\ Parked

FleetTurn == focus = "fleet" /\ Next /\ UNCHANGED <<planeVars, focus, lossy>>
PlaneTurn == focus = "users" /\ PlaneNext /\ UNCHANGED <<vars, focus, lossy>>
LivenessNext == FleetTurn \/ PlaneTurn

(* The fairness of each, while it is in focus: of the request that saved an *)
(* edit, the rollout, the reconciler, and the loops of Agent and session.   *)
(* It asks less than Fairness, which is fair to each step of a loop.        *)
LivenessFairness ==
    /\ WF_vars(focus = "fleet" /\ RunStep)
    /\ WF_vars(focus = "fleet" /\ (StartReserved \/ RefuseEdit \/ RestoreTopology))
    /\ WF_vars(focus = "fleet" /\ (TickIdle \/ TickStart))
    /\ \A a \in Agents :
          /\ WF_vars(focus = "fleet" /\ (Connect(a) \/ HandleReport(a)))
          /\ WF_vars(focus = "fleet" /\ (AgentTake(a) \/ AgentFinish(a)))
    /\ WF_planeVars(focus = "users" /\ MasterRuns)
    /\ WF_planeVars(focus = "users" /\ StartRefresh)
    /\ WF_planeVars(focus = "users" /\ SyncStep)
    /\ WF_planeVars(focus = "users" /\ SessionRuns)
    /\ WF_planeVars(focus = "users" /\ AgentRuns)

LivenessSpec ==
    LivenessInit /\ [][LivenessNext]_<<vars, planeVars, focus, lossy>> /\ LivenessFairness

(* While no session is lost, a rollout interrupted by a restart of the      *)
(* master, or one whose rollback was incomplete, is undone or found         *)
(* complete in the end (topology_reconciler.go, startTransactionRecovery).  *)
InterruptedIsRecoveredOnline == (~lossy /\ tx # NoTx /\ ~Active) ~> tx = NoTx
=============================================================================
