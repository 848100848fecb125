-------------------------- MODULE MCFleetDeployment --------------------------
(* Small instances of FleetDeployment for TLC. *)
EXTENDS FleetDeployment, TLC

CONSTANTS entrance, relay, none, blank, direct, relayed, noGraph,
          empty, noCfg, e1, e2, r2, noTx

MCAgents == {entrance, relay}
MCTopologies == {blank, direct, relayed}
MCCfgs == {empty, e1, e2, r2}

MCCompile ==
    (blank :> [a \in MCAgents |-> empty]) @@
    (direct :> (entrance :> e1 @@ relay :> empty)) @@
    (relayed :> (entrance :> e2 @@ relay :> r2))

MCDepth ==
    (blank :> [a \in MCAgents |-> -1]) @@
    (direct :> (entrance :> 0 @@ relay :> -1)) @@
    (relayed :> (entrance :> 0 @@ relay :> 1))

(* direct and relayed claim the entrance's port with different protocols. *)
MCRetire == [old \in MCCfgs |-> [new \in MCCfgs |->
                IF {old, new} = {e1, e2} THEN empty ELSE noCfg]]

(* The events the environment may inflict, by the question of the run. *)
Give(f) == f @@ [k \in Kinds |-> 0]
BudgetsSafety ==
    {Give("edit" :> 2 @@ "crash" :> 1 @@ "drop" :> 1),
     Give("edit" :> 2 @@ "crash" :> 1 @@ "write" :> 1),
     Give("edit" :> 2 @@ "timeout" :> 1 @@ "reject" :> 1 @@ "exit" :> 1),
     Give("edit" :> 2 @@ "timeout" :> 1 @@ "write" :> 1),
     Give("edit" :> 2 @@ "manual" :> 1 @@ "compile" :> 1 @@ "reject" :> 1 @@ "unlinkUndone" :> 2),
     Give("edit" :> 2 @@ "refresh" :> 1 @@ "address" :> 1 @@ "reject" :> 2)}
BudgetsRecovery == {Give("edit" :> 2 @@ "crash" :> 1)}
BudgetsReconnect == {Give("edit" :> 1 @@ "crash" :> 1 @@ "drop" :> 1)}
BudgetsUnlink == {Give("edit" :> 2 @@ "unlinkCommitted" :> 1)}
=============================================================================
