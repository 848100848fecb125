----------------------------- MODULE AtomicFleet -----------------------------
(***************************************************************************)
(* What the fleet transaction of internal/proxynode/deployer.go promises.  *)
(* The committed topology changes in one step for the whole fleet.  An     *)
(* Agent may leave it only while a transaction has declared it as moving,  *)
(* and a transaction ends in one of two ways: every Agent runs the new     *)
(* topology, which thereby becomes the committed one, or every Agent runs  *)
(* the committed one again.                                                *)
(***************************************************************************)
CONSTANTS Agents, Topologies, Cfgs, Compile, InitialTopology

VARIABLES
    committed,  \* the topology the fleet is known to run
    moving,     \* the Agents an open transaction may have changed
    cfg         \* what each Agent runs

vars == <<committed, moving, cfg>>

Runs(t) == \A a \in Agents : cfg[a] = Compile[t][a]

Init == committed = InitialTopology /\ moving = {} /\ cfg = Compile[InitialTopology]

(* A transaction declares an Agent before it changes it. *)
Declare(a) ==
    /\ moving' = moving \cup {a}
    /\ UNCHANGED <<committed, cfg>>

(* A declared Agent installs some configuration. *)
Install(a) ==
    /\ a \in moving
    /\ \E c \in Cfgs : cfg' = [cfg EXCEPT ![a] = c]
    /\ UNCHANGED <<committed, moving>>

Commit(t) ==
    /\ Runs(t)
    /\ committed' = t
    /\ moving' = {}
    /\ UNCHANGED cfg

Abort ==
    /\ Runs(committed)
    /\ moving' = {}
    /\ UNCHANGED <<committed, cfg>>

Next ==
    \/ \E a \in Agents : Declare(a) \/ Install(a)
    \/ \E t \in Topologies : Commit(t)
    \/ Abort

Spec == Init /\ [][Next]_vars
=============================================================================
