-------------------------- MODULE MCSingBoxManager --------------------------
(* Small instances of SingBoxManager: two topologies known to the master,  *)
(* one it retired, a configuration without managed users and the disabled  *)
(* one; two memberships.                                                   *)
EXTENDS SingBoxManager, TLC

CONSTANTS S1, S2, Manual, Off, U1, U2

MCShapes == {S1, S2, Manual, Off}
MCManaged == {S1, S2}
MCUsers == {U1, U2}

Cfg(s, U) == [shape |-> s, users |-> U]
Dep(m, s, U) == [mode |-> m, cfg |-> Cfg(s, U)]

(* Deploy commands: both topologies with all memberships (a command        *)
(* compiled before a revocation), a refresh, the disabled configuration    *)
(* and one without the managed-user service in two modes.                  *)
MCDeployments ==
    {Dep("topology", S1, MCUsers), Dep("topology", S2, MCUsers), Dep("users", S1, {U1}),
     Dep("topology", Off, {}), Dep("generic", Manual, {}), Dep("topology", Manual, {})}

Auth(r, S, U) == [rev |-> r, shapes |-> S, users |-> U]

(* Authorities for the first topology alone and for both, granting all     *)
(* memberships, one or none; two of them conflict.                         *)
MCAuthorities ==
    {Auth(1, {S1}, MCUsers), Auth(1, {S1, S2}, MCUsers),
     Auth(2, {S1}, {U1}), Auth(3, {S1}, {}), Auth(3, {S1, S2}, {U2}),
     Auth(4, {S1}, {})}

BudgetOf(b) == [k \in Kinds |-> IF k \in DOMAIN b THEN b[k] ELSE 0]

(* Every single fault of an activation, and a sequence of authorities      *)
(* around two deployments; no fault strikes a repair or a restore.         *)
SafetyBudgets ==
    {BudgetOf([deploy |-> 2, authority |-> 1, invalid |-> 1, timeout |-> 1, reconcile |-> 1,
               io |-> 1, stop |-> 1, launch |-> 2, exit |-> 1, crash |-> 1]),
     BudgetOf([deploy |-> 2, authority |-> 3, reconcile |-> 1, io |-> 1, launch |-> 1,
               stop |-> 1, exit |-> 1, crash |-> 1, enroll |-> 1])}

(* Faults of the repair or of the restore as well, and enrolment with      *)
(* another master; two failing launches and exits let the restart fail and *)
(* come back.                                                              *)
RepairsBudgets ==
    {BudgetOf([deploy |-> 2, authority |-> 1, io |-> 1, repair |-> 1, launch |-> 2,
               reconcile |-> 1, exit |-> 2, crash |-> 1, enroll |-> 1]),
     BudgetOf([deploy |-> 3, authority |-> 1, launch |-> 2, restore |-> 1, exit |-> 1,
               crash |-> 1])}

(* One failed repair between two authorities.                              *)
LostRepairBudgets ==
    {BudgetOf([deploy |-> 1, authority |-> 3, io |-> 1, repair |-> 1])}

(* One failed restore before an authority and a deployment.                *)
LostRestoreBudgets ==
    {BudgetOf([deploy |-> 3, authority |-> 2, launch |-> 1, restore |-> 1])}

=============================================================================
