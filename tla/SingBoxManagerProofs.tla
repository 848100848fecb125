----------------------- MODULE SingBoxManagerProofs -----------------------
(***************************************************************************)
(* Proofs about SingBoxManager, for any shapes, memberships, commands and  *)
(* budgets.  The argument has three layers, each resting on the one below: *)
(* the types, the supervision of at most one process (Supervised), and the *)
(* agreement of file, memory and process through every step of an          *)
(* activation (Agreement), from which the memberships follow (Enforced).   *)
(***************************************************************************)
EXTENDS SingBoxManager, TLAPS

USE ConstantsAssumption

(* NoConfig is no configuration, and configurations are contents.          *)
LEMMA NoConfigFacts == Configs \subseteq Contents /\ NoConfig \notin Configs
    BY DEF Configs

(* An authority grants memberships only.                                   *)
LEMMA AuthorityFacts ==
    /\ \A a \in Authority : a.users \in SUBSET Users /\ a # NoAuthority
    /\ \A a \in Authority \cup {NoAuthority} : Held(a) \in SUBSET Users
    BY DEF Authority, Held

(* The idle request, and a request as it begins.                           *)
LEMMA IdleFacts == Idle \in Op /\ Idle.pc = "idle" /\ Idle.dirty = FALSE
    BY DEF Idle, Op

LEMMA RequestFacts ==
    ASSUME NEW c \in Configs
    PROVE  /\ Request("deploy", c) \in Op /\ Request("authority", c) \in Op
           /\ Request("deploy", c).pc = "check" /\ Request("authority", c).pc = "check"
           /\ Request("deploy", c).cand = c /\ Request("authority", c).cand = c
           /\ Request("deploy", c).kind = "deploy" /\ Request("authority", c).kind = "authority"
           /\ ~Request("deploy", c).dirty /\ ~Request("authority", c).dirty
    BY DEF Request, Idle, Op

(* Budgets stay natural numbers.                                           *)
LEMMA SpendType ==
    ASSUME budget \in [Kinds -> Nat]
    PROVE  /\ \A k \in Kinds : Spend(k) => budget' \in [Kinds -> Nat]
           /\ \A k \in Kinds : Fault(k) => budget' \in [Kinds -> Nat]
           /\ \A k, l \in Kinds : k # l /\ SpendBoth(k, l) => budget' \in [Kinds -> Nat]
    <1>1. \A k \in Kinds : Spend(k) => budget' \in [Kinds -> Nat]
        BY DEF Spend
    <1>2. \A k \in Kinds : Fault(k) => budget' \in [Kinds -> Nat]
        BY <1>1 DEF Fault, Kinds
    <1>3. \A k, l \in Kinds : k # l /\ SpendBoth(k, l) => budget' \in [Kinds -> Nat]
        BY DEF SpendBoth
    <1>. QED BY <1>1, <1>2, <1>3

(* Configurations that differ in their users are configurations.           *)
LEMMA UsersConfigs ==
    ASSUME NEW c \in Configs, NEW U \in SUBSET Users, c.shape \in Managed \/ U = {}
    PROVE  [c EXCEPT !.users = U] \in Configs
    BY DEF Configs, Contents

(* Overlaying an authority that matches gives a configuration.             *)
LEMMA OverlayType ==
    ASSUME NEW c \in Configs, NEW a \in Authority, Matched(c, a)
    PROVE  /\ Overlay(c, a) \in Configs
           /\ Overlay(c, a).users \subseteq a.users
    BY UsersConfigs DEF Overlay, Matched, Configs, Contents, Authority

(* Retaining memberships gives a configuration with fewer of them.         *)
LEMMA RetainType ==
    ASSUME NEW c \in Configs, NEW d \in Configs \cup {NoConfig}
    PROVE  /\ retainAuthorizedMemberships(d, c) \in Configs
           /\ d = NoConfig => retainAuthorizedMemberships(d, c).users = {}
           /\ d # NoConfig => retainAuthorizedMemberships(d, c).users \subseteq d.users
    BY DEF retainAuthorizedMemberships, Configs, Contents

(* What a deploy command leads to is a configuration; with an authority in *)
(* force it lets in memberships of the authority or of the active          *)
(* configuration only.                                                     *)
LEMMA CandidateType ==
    ASSUME TypeOK, NEW d \in Deployments
    PROVE  /\ Candidate(d.mode, d.cfg) \in Configs
           /\ authority # NoAuthority =>
                 Candidate(d.mode, d.cfg).users \subseteq
                     authority.users \cup (IF active = NoConfig THEN {} ELSE active.users)
    <1>1. d.cfg \in Configs /\ d.mode \in Modes /\ (d.mode = "generic" => d.cfg.users = {})
        OBVIOUS
    <1>2. CASE d.mode = "generic" \/ (d.mode = "users" /\ authority = NoAuthority)
        BY <1>1, <1>2 DEF Candidate
    <1>3. CASE ~(d.mode = "generic" \/ (d.mode = "users" /\ authority = NoAuthority))
               /\ authority # NoAuthority /\ Matched(d.cfg, authority)
        BY <1>1, <1>3, OverlayType DEF Candidate, TypeOK
    <1>4. CASE ~(d.mode = "generic" \/ (d.mode = "users" /\ authority = NoAuthority))
               /\ ~(authority # NoAuthority /\ Matched(d.cfg, authority))
        BY <1>1, <1>4, RetainType DEF Candidate, TypeOK
    <1>. QED BY <1>2, <1>3, <1>4

(* What Start loads is a configuration within the persisted authority when *)
(* it may be started.                                                      *)
LEMMA OverlaidType ==
    ASSUME TypeOK
    PROVE  /\ Overlaid \in Configs \cup {NoConfig}
           /\ (Overlaid = NoConfig) <=> (file = NoConfig)
           /\ Overlaid # file => sidecar # NoAuthority /\ Overlaid.users \subseteq sidecar.users
           /\ Startable /\ sidecar # NoAuthority => Overlaid.users \subseteq sidecar.users
    <1>1. CASE file # NoConfig /\ sidecar # NoAuthority /\ Parses(file) /\ Matched(file, sidecar)
        <2>1. file \in Configs /\ sidecar \in Authority /\ Overlaid = Overlay(file, sidecar)
            BY <1>1 DEF TypeOK, Overlaid
        <2>2. Overlaid \in Configs /\ Overlaid.users \subseteq sidecar.users
            BY <1>1, <2>1, OverlayType
        <2>. QED BY <1>1, <2>2, NoConfigFacts
    <1>2. CASE ~(file # NoConfig /\ sidecar # NoAuthority /\ Parses(file) /\ Matched(file, sidecar))
        <2>1. Overlaid = file
            BY <1>2 DEF Overlaid
        <2>. QED BY <1>2, <2>1 DEF TypeOK, Startable
    <1>. QED BY <1>1, <1>2

(* A process whose users are replaced in part serves some memberships.     *)
LEMMA PartlyReplacedType ==
    ASSUME NEW c \in Contents, NEW d \in Contents
    PROVE  PartlyReplaced(c, d) \subseteq Contents
    BY DEF PartlyReplaced, Contents

-----------------------------------------------------------------------------
(* Initially everything is well typed.                                     *)
LEMMA TypeInit == Init => TypeOK
    <1>. SUFFICES ASSUME Init PROVE TypeOK
        OBVIOUS
    <1>1. file \in Configs \cup {NoConfig}
        <2>1. \A d \in Deployments : d.cfg \in Configs
            OBVIOUS
        <2>. QED BY <2>1 DEF Init
    <1>2. op \in Op
        BY DEF Init, Idle, Op
    <1>. QED BY <1>1, <1>2 DEF Init, TypeOK, Idle

(* Every step keeps the types.                                             *)
LEMMA TypeStep ==
    ASSUME TypeOK, [Next]_vars
    PROVE  TypeOK'
    <1>. USE DEF TypeOK
    <1>1. CASE ResetConfig
        <2>b. budget' \in [Kinds -> Nat]
            BY SpendType, <1>1 DEF Kinds, ResetConfig
        <2>. QED BY NoConfigFacts, IdleFacts, <1>1, <2>b DEF ResetConfig, Op
    <1>2. CASE ResetAuthority
        BY NoConfigFacts, <1>2 DEF ResetAuthority, Op
    <1>3. CASE Quarantine
        BY NoConfigFacts, <1>3 DEF Quarantine, Op
    <1>4. CASE Start
        <2>b. budget' \in [Kinds -> Nat]
            BY SpendType, <1>4 DEF Kinds, Start, Load
        <2>. QED BY NoConfigFacts, IdleFacts, OverlaidType, <1>4, <2>b DEF Start, Load
    <1>5. CASE Crash
        <2>b. budget' \in [Kinds -> Nat]
            BY SpendType, <1>5 DEF Kinds, Crash
        <2>. QED BY NoConfigFacts, IdleFacts, <1>5, <2>b DEF Crash, Op
    <1>6. ASSUME NEW s \in Slots, Exit(s) PROVE TypeOK'
        <2>b. budget' \in [Kinds -> Nat]
            BY SpendType, <1>6 DEF Kinds, Exit
        <2>. QED BY NoConfigFacts, IdleFacts, <1>6, <2>b
            DEF Exit, Alive, durable, supervisor, Op
    <1>7. CASE Deploy
        <2>b. budget' \in [Kinds -> Nat]
            BY SpendType, <1>7 DEF Kinds, Deploy
        <2>1. PICK d \in Deployments : op' = Idle \/ op' = Request("deploy", Candidate(d.mode, d.cfg))
            BY <1>7 DEF Deploy
        <2>2. Candidate(d.mode, d.cfg) \in Configs
            BY CandidateType DEF TypeOK
        <2>3. Request("deploy", Candidate(d.mode, d.cfg)) \in Op
              /\ Request("deploy", Candidate(d.mode, d.cfg)).cand = Candidate(d.mode, d.cfg)
            BY <2>2, RequestFacts
        <2>o. op' \in Op /\ (op'.pc # "idle" => op'.cand # NoConfig)
            BY NoConfigFacts, IdleFacts, <2>1, <2>2, <2>3
        <2>. QED BY <1>7, <2>b, <2>o DEF Deploy, durable, supervisor
    <1>8. CASE RefuseAuthority
        <2>b. budget' \in [Kinds -> Nat]
            BY SpendType, <1>8 DEF Kinds, RefuseAuthority
        <2>. QED BY NoConfigFacts, IdleFacts, <1>8, <2>b
            DEF RefuseAuthority, Ready, durable, supervisor, Op
    <1>9. ASSUME NEW a \in Authorities, AuthorityHolds(a) PROVE TypeOK'
        <2>b. budget' \in [Kinds -> Nat]
            BY SpendType, <1>9 DEF Kinds, AuthorityHolds
        <2>. QED BY NoConfigFacts, IdleFacts, AuthorityFacts, <1>9, <2>b
            DEF AuthorityHolds, PersistAuthority, Ready, Op
    <1>10. ASSUME NEW a \in Authorities, AuthorityUnusable(a) PROVE TypeOK'
        <2>b. budget' \in [Kinds -> Nat]
            BY SpendType, <1>10 DEF Kinds, AuthorityUnusable
        <2>. QED BY NoConfigFacts, IdleFacts, AuthorityFacts, <1>10, <2>b
            DEF AuthorityUnusable, PersistAuthority, Ready, Op
    <1>11. ASSUME NEW a \in Authorities, Suspend(a) PROVE TypeOK'
        <2>b. budget' \in [Kinds -> Nat]
            BY SpendType, <1>11 DEF Kinds, Suspend
        <2>p. procs' \in [Slots -> Contents \cup {NoConfig}] /\ child' \in Slots \cup {NoProc}
            BY <1>11 DEF Suspend
        <2>r. retry' \in BOOLEAN /\ restart' \in BOOLEAN /\ granted' \in SUBSET Users /\ UNCHANGED op
            BY AuthorityFacts, <1>11 DEF Suspend
        <2>. QED BY AuthorityFacts, <1>11, <2>b, <2>p, <2>r DEF Suspend, PersistAuthority
    <1>12. ASSUME NEW a \in Authorities, ReplaceUsers(a) PROVE TypeOK'
        <2>b. budget' \in [Kinds -> Nat]
            BY SpendType, <1>12 DEF Kinds, ReplaceUsers
        <2>1. Overlay(active, a) \in Configs
            BY <1>12, NoConfigFacts, OverlayType DEF ReplaceUsers
        <2>2. Request("authority", Overlay(active, a)) \in Op
              /\ Request("authority", Overlay(active, a)).cand = Overlay(active, a)
            BY <2>1, RequestFacts
        <2>o. op' \in Op /\ (op'.pc # "idle" => op'.cand # NoConfig)
            BY NoConfigFacts, <1>12, <2>1, <2>2 DEF ReplaceUsers
        <2>. QED BY AuthorityFacts, <1>12, <2>b, <2>o DEF ReplaceUsers, PersistAuthority
    <1>13. CASE HandleExit
        BY NoConfigFacts, <1>13 DEF HandleExit, Ready, durable, supervisor, Alive, Op
    <1>14. CASE Retry
        <2>b. budget' \in [Kinds -> Nat]
            BY SpendType, <1>14 DEF Kinds, Retry, LaunchReady, LaunchStuck, LaunchDead
        <2>l. \/ UNCHANGED procs /\ (child' = child \/ child' = NoProc)
              \/ \E s \in Slots : Launch(s) /\ child' = s
            BY <1>14 DEF Retry, LaunchReady, LaunchStuck, LaunchDead
        <2>p. procs' \in [Slots -> Contents \cup {NoConfig}] /\ child' \in Slots \cup {NoProc}
            BY NoConfigFacts, <2>l DEF Launch
        <2>r. restart' \in BOOLEAN /\ retry' \in BOOLEAN
            BY <1>14 DEF Retry
        <2>. QED BY <1>14, <2>b, <2>p, <2>r DEF Retry, durable, supervisor
    <1>15. CASE Validate
        BY NoConfigFacts, <1>15 DEF Validate, durable, supervisor, Op
    <1>16. CASE Reconcile
        <2>b. budget' \in [Kinds -> Nat]
            BY SpendType, <1>16 DEF Kinds, Reconcile
        <2>u. op.pc = "reconcile" /\ UNCHANGED <<durable, supervisor, child, restart, retry, granted>>
            BY <1>16 DEF Reconcile
        <2>1. CASE Alive(child) /\ procs' = [procs EXCEPT ![child] = op.cand]
                  /\ op' = [op EXCEPT !.pc = "save", !.dirty = TRUE] /\ UNCHANGED budget
            BY NoConfigFacts, <2>b, <2>u, <2>1 DEF Op, Alive, durable, supervisor
        <2>2. ASSUME NEW c \in PartlyReplaced(procs[child], op.cand), Alive(child), Spend("reconcile"),
                     procs' = [procs EXCEPT ![child] = c],
                     op' = [op EXCEPT !.pc = "stage", !.dirty = TRUE]
              PROVE  TypeOK'
            <3>1. procs[child] \in Contents /\ op.cand \in Contents
                BY NoConfigFacts, <2>u, <2>2 DEF Alive, Op
            <3>2. c \in Contents
                BY <2>2, <3>1, PartlyReplacedType
            <3>. QED BY <2>b, NoConfigFacts, <2>u, <2>2, <3>2 DEF Op, durable, supervisor
        <2>3. CASE ~Alive(child) /\ op' = [op EXCEPT !.pc = "stage", !.dirty = TRUE]
                  /\ UNCHANGED <<procs, budget>>
            BY <2>b, <2>u, <2>3 DEF Op, durable, supervisor
        <2>. QED BY <1>16, <2>1, <2>2, <2>3 DEF Reconcile
    <1>17. CASE SaveUsers
        BY NoConfigFacts, IdleFacts, AuthorityFacts, <1>17 DEF SaveUsers, AnswerApplied, Op
    <1>18. CASE Stage
        BY NoConfigFacts, <1>18 DEF Stage, durable, supervisor, Op
    <1>19. CASE StopPrevious
        BY NoConfigFacts, <1>19 DEF StopPrevious, durable, supervisor, Op
    <1>20. CASE Install
        BY NoConfigFacts, <1>20 DEF Install, supervisor, Op
    <1>21. CASE Activate
        <2>b. budget' \in [Kinds -> Nat]
            BY SpendType, <1>21 DEF Kinds, Activate, LaunchReady, LaunchStuck
        <2>p. procs' \in [Slots -> Contents \cup {NoConfig}] /\ child' \in Slots \cup {NoProc}
            BY NoConfigFacts, <1>21 DEF Activate, LaunchReady, LaunchStuck, Launch
        <2>i. op' = Idle
            BY <1>21 DEF Activate, Answer, AnswerApplied
        <2>o. op' \in Op /\ (op'.pc # "idle" => op'.cand # NoConfig)
            BY IdleFacts, <2>i
        <2>r. restart' \in BOOLEAN /\ granted' \in SUBSET Users
            BY AuthorityFacts, <1>21 DEF Activate, AnswerApplied
        <2>. QED BY <1>21, <2>b, <2>o, <2>p, <2>r DEF Activate, durable, Op
    <1>22. CASE Restore
        BY NoConfigFacts, <1>22 DEF Restore, Previous, supervisor, Op
    <1>23. CASE Relaunch
        <2>b. budget' \in [Kinds -> Nat]
            BY SpendType, <1>23 DEF Kinds, Relaunch, LaunchReady, LaunchStuck, LaunchDead
        <2>. QED BY NoConfigFacts, IdleFacts, <1>23, <2>b
            DEF Relaunch, LaunchReady, LaunchStuck, LaunchDead, Launch, Answer, durable,
                supervisor, Op
    <1>24. CASE Reject
        <2>b. budget' \in [Kinds -> Nat]
            BY SpendType, <1>24 DEF Kinds, Reject
        <2>. QED BY NoConfigFacts, IdleFacts, <1>24, <2>b
            DEF Reject, Answer, durable, supervisor
    <1>25. CASE SaveUsersFails
        <2>b. budget' \in [Kinds -> Nat]
            BY SpendType, <1>25 DEF Kinds, SaveUsersFails
        <2>. QED BY NoConfigFacts, IdleFacts, <1>25, <2>b DEF SaveUsersFails, supervisor, Op
    <1>26. CASE StageFails
        <2>b. budget' \in [Kinds -> Nat]
            BY SpendType, <1>26 DEF Kinds, StageFails
        <2>. QED BY NoConfigFacts, IdleFacts, <1>26, <2>b
            DEF StageFails, Answer, durable, supervisor
    <1>27. CASE StopFails
        <2>b. budget' \in [Kinds -> Nat]
            BY SpendType, <1>27 DEF Kinds, StopFails
        <2>. QED BY NoConfigFacts, IdleFacts, <1>27, <2>b
            DEF StopFails, Answer, Alive, durable, supervisor, Op
    <1>28. CASE InstallFails
        <2>b. budget' \in [Kinds -> Nat]
            BY SpendType, <1>28 DEF Kinds, InstallFails
        <2>o. op' \in Op /\ (op'.pc # "idle" => op'.cand # NoConfig)
            BY <1>28 DEF InstallFails, Op
        <2>f. file' \in Configs \cup {NoConfig}
            BY <1>28 DEF InstallFails, Op
        <2>. QED BY <1>28, <2>b, <2>o, <2>f DEF InstallFails, supervisor
    <1>29. CASE ActivateFails
        <2>b. budget' \in [Kinds -> Nat]
            BY SpendType, <1>29 DEF Kinds, ActivateFails, LaunchDead
        <2>o. op' \in Op /\ (op'.pc # "idle" => op'.cand # NoConfig)
            BY <1>29 DEF ActivateFails, Op
        <2>. QED BY <1>29, <2>b, <2>o DEF ActivateFails, LaunchDead, durable, supervisor
    <1>30. CASE RestoreFails
        <2>b. budget' \in [Kinds -> Nat]
            BY SpendType, <1>30 DEF Kinds, RestoreFails
        <2>. QED BY NoConfigFacts, IdleFacts, <1>30, <2>b DEF RestoreFails, Answer, Previous
    <1>31. CASE PersistAuthorityFails
        <2>b. budget' \in [Kinds -> Nat]
            BY SpendType, <1>31 DEF Kinds, PersistAuthorityFails
        <2>. QED BY NoConfigFacts, IdleFacts, AuthorityFacts, <1>31, <2>b
            DEF PersistAuthorityFails, Ready, supervisor, Op
    <1>32. CASE UNCHANGED vars
        BY <1>32 DEF vars
    <1>. QED
        BY <1>1, <1>2, <1>3, <1>4, <1>5, <1>6, <1>7, <1>8, <1>9, <1>10, <1>11, <1>12,
            <1>13, <1>14,
           <1>15, <1>16, <1>17, <1>18, <1>19, <1>20, <1>21, <1>22, <1>23, <1>24,
           <1>25, <1>26, <1>27, <1>28, <1>29, <1>30, <1>31, <1>32
        DEF Next, Supervise, Faults, ApplyManagedUserAuthority

(* Every reachable state is type correct: the manager's bookkeeping keeps  *)
(* its shape through every failed step of an activation.                   *)
THEOREM TypeCorrect == Spec => []TypeOK
    BY TypeInit, TypeStep, PTL DEF Spec

-----------------------------------------------------------------------------
(* Supervision.  While the process is being replaced the request holds the *)
(* previous child; no timer is armed and nothing restarts by itself.       *)

Late == {"stop", "install", "launch", "restore", "relaunch"}

Down ==
    mgr # "running" =>
        /\ child = NoProc /\ ~restart /\ ~retry /\ op = Idle
        /\ ~hasActive /\ active = NoConfig /\ authority = NoAuthority
        /\ \A s \in Slots : procs[s] = NoConfig

TimerAlone == retry => child = NoProc
Handover == op.pc \in Late => child = NoProc /\ ~retry /\ ~restart
OnlyChild == \A s \in Slots : procs[s] # NoConfig => s = child \/ (op.pc = "stop" /\ s = op.child)
Armed == restart /\ hasActive /\ op.pc \notin Late => child # NoProc \/ retry
Reconciling == op.pc \in {"reconcile", "save"} => hasActive /\ child # NoProc

Supervised == Down /\ TimerAlone /\ Handover /\ OnlyChild /\ Armed /\ Reconciling

(* Initially nothing runs.                                                 *)
LEMMA SupervisedInit == Init => Supervised
    BY IdleFacts
        DEF Init, Supervised, Down, TimerAlone, Handover, OnlyChild, Armed, Reconciling,
            Late

(* Every step keeps the supervision.                                       *)
LEMMA SupervisedStep ==
    ASSUME TypeOK, Supervised, [Next]_vars
    PROVE  Supervised'
    <1>. USE DEF Supervised, Down, TimerAlone, Handover, OnlyChild, Armed, Reconciling,
            Late, Op, TypeOK
    <1>1. CASE ResetConfig
        BY IdleFacts, <1>1 DEF ResetConfig
    <1>2. CASE ResetAuthority
        BY IdleFacts, <1>2 DEF ResetAuthority
    <1>3. CASE Quarantine
        BY IdleFacts, <1>3 DEF Quarantine
    <1>4. CASE Start
        BY IdleFacts, <1>4 DEF Start, Load
    <1>5. CASE Crash
        BY IdleFacts, <1>5 DEF Crash
    <1>6. ASSUME NEW s \in Slots, Exit(s) PROVE Supervised'
        BY IdleFacts, <1>6 DEF Exit, Alive, durable, supervisor
    <1>7. CASE Deploy
        <2>1. op'.pc \in {"idle", "check"} /\ op.pc = "idle"
            <3>1. PICK d \in Deployments : op' = Idle \/ op' = Request("deploy", Candidate(d.mode, d.cfg))
                BY <1>7 DEF Deploy
            <3>2. Request("deploy", Candidate(d.mode, d.cfg)).pc = "check"
                BY CandidateType, RequestFacts
            <3>. QED BY <1>7, <3>1, <3>2, IdleFacts DEF Deploy, Ready
        <2>. QED BY <1>7, <2>1 DEF Deploy, Ready, durable, supervisor
    <1>8. CASE RefuseAuthority
        BY IdleFacts, <1>8 DEF RefuseAuthority, Ready, durable, supervisor
    <1>9. ASSUME NEW a \in Authorities, AuthorityHolds(a) PROVE Supervised'
        BY IdleFacts, <1>9 DEF AuthorityHolds, PersistAuthority, Ready
    <1>10. ASSUME NEW a \in Authorities, AuthorityUnusable(a) PROVE Supervised'
        BY IdleFacts, <1>10 DEF AuthorityUnusable, PersistAuthority, Ready
    <1>11. ASSUME NEW a \in Authorities, Suspend(a) PROVE Supervised'
        BY IdleFacts, <1>11 DEF Suspend, PersistAuthority, Ready, Alive
    <1>12. ASSUME NEW a \in Authorities, ReplaceUsers(a) PROVE Supervised'
        <2>1. op'.pc = "check" /\ op.pc = "idle"
            BY <1>12, NoConfigFacts, OverlayType, RequestFacts
                DEF ReplaceUsers, PersistAuthority, Ready, TypeOK
        <2>. QED BY <1>12, <2>1 DEF ReplaceUsers, PersistAuthority, Ready
    <1>13. CASE HandleExit
        BY IdleFacts, <1>13 DEF HandleExit, Ready, durable, supervisor, Alive
    <1>14. CASE Retry
        <2>1. child = NoProc /\ op.pc = "idle" /\ (\A s \in Slots : procs[s] = NoConfig)
            BY <1>14 DEF Retry, Ready
        <2>2. UNCHANGED <<mgr, op, active, hasActive>> /\ mgr = "running"
            BY <1>14 DEF Retry, Ready, supervisor
        <2>3. \/ UNCHANGED <<child, procs>> /\ ~retry' /\ (restart' => ~hasActive)
              \/ ~retry' /\ \E s \in Slots : Launch(s) /\ child' = s
              \/ UNCHANGED <<child, procs, restart, retry>>
            BY <1>14, <2>1 DEF Retry, LaunchReady, LaunchStuck, LaunchDead
        <2>. QED BY <1>14, <2>1, <2>2, <2>3 DEF Launch
    <1>15. CASE Validate
        BY IdleFacts, <1>15 DEF Validate, durable, supervisor
    <1>16. CASE Reconcile
        <2>1. UNCHANGED <<mgr, active, hasActive, child, restart, retry>> /\ op.pc = "reconcile"
            BY <1>16 DEF Reconcile, supervisor
        <2>2. op'.pc \in {"save", "stage"} /\ mgr = "running"
            BY <1>16, IdleFacts DEF Reconcile
        <2>3. \A s \in Slots : procs'[s] # NoConfig => procs[s] # NoConfig
            BY <1>16 DEF Reconcile, Alive
        <2>. QED BY <2>1, <2>2, <2>3
    <1>17. CASE SaveUsers
        BY IdleFacts, <1>17 DEF SaveUsers, AnswerApplied
    <1>18. CASE Stage
        BY IdleFacts, <1>18 DEF Stage, durable, supervisor
    <1>19. CASE StopPrevious
        BY IdleFacts, <1>19 DEF StopPrevious, durable, supervisor
    <1>20. CASE Install
        BY IdleFacts, <1>20 DEF Install, supervisor
    <1>21. CASE Activate
        BY IdleFacts, <1>21
            DEF Activate, LaunchReady, LaunchStuck, Launch, Answer, AnswerApplied, durable
    <1>22. CASE Restore
        BY IdleFacts, <1>22 DEF Restore, supervisor
    <1>23. CASE Relaunch
        BY IdleFacts, <1>23
            DEF Relaunch, LaunchReady, LaunchStuck, LaunchDead, Launch, Answer, durable,
                supervisor
    <1>24. CASE Reject
        BY IdleFacts, <1>24 DEF Reject, Answer, durable, supervisor
    <1>25. CASE SaveUsersFails
        BY IdleFacts, <1>25 DEF SaveUsersFails, supervisor
    <1>26. CASE StageFails
        BY IdleFacts, <1>26 DEF StageFails, Answer, durable, supervisor
    <1>27. CASE StopFails
        BY IdleFacts, <1>27 DEF StopFails, Answer, Alive, durable, supervisor
    <1>28. CASE InstallFails
        BY IdleFacts, <1>28 DEF InstallFails, supervisor
    <1>29. CASE ActivateFails
        BY IdleFacts, <1>29 DEF ActivateFails, LaunchDead, durable, supervisor
    <1>30. CASE RestoreFails
        BY IdleFacts, <1>30 DEF RestoreFails, Answer
    <1>31. CASE PersistAuthorityFails
        BY IdleFacts, <1>31 DEF PersistAuthorityFails, Ready, supervisor
    <1>32. CASE UNCHANGED vars
        BY <1>32 DEF vars
    <1>. QED
        BY <1>1, <1>2, <1>3, <1>4, <1>5, <1>6, <1>7, <1>8, <1>9, <1>10, <1>11, <1>12,
            <1>13, <1>14,
           <1>15, <1>16, <1>17, <1>18, <1>19, <1>20, <1>21, <1>22, <1>23, <1>24,
           <1>25, <1>26, <1>27, <1>28, <1>29, <1>30, <1>31, <1>32
        DEF Next, Supervise, Faults, ApplyManagedUserAuthority

(* Supervision holds in every reachable state.                             *)
LEMMA AlwaysSupervised == Spec => []Supervised
    BY SupervisedInit, SupervisedStep, TypeCorrect, PTL DEF Spec

(* At most one sing-box of the Agent is alive in every reachable state,    *)
(* whatever fails to stop, to start or to be persisted.                    *)
THEOREM OneProcessAlways == Spec => []OneProcess
    <1>1. Supervised => OneProcess
        BY DEF Supervised, OnlyChild, Handover, OneProcess, Alive, Late
    <1>. QED BY <1>1, AlwaysSupervised, PTL

(* A configuration that is to be kept running is never forgotten.          *)
THEOREM RestartArmedAlways == Spec => []RestartArmed
    <1>1. Supervised => RestartArmed
        BY DEF Supervised, Armed, RestartArmed, Ready, Late
    <1>. QED BY <1>1, AlwaysSupervised, PTL

-----------------------------------------------------------------------------
(* Agreement.  A request that has changed the users of the running process *)
(* is dirty until it ends; every other step leaves file, memory and        *)
(* process in agreement or holds the candidate that they are to agree on.  *)

Untouched(s) == file = active /\ (s # NoProc => procs[s] \in {NoConfig, active})

NoRepairFault == budget["repair"] = 0
CleanStart == op.pc \in {"idle", "check", "reconcile"} => ~op.dirty
BeforeStop == hasActive /\ op.pc \in {"idle", "check", "reconcile", "stage"} =>
                  op.dirty \/ Untouched(child)
DuringStop == hasActive /\ op.pc = "stop" => op.dirty \/ Untouched(op.child)
BeforeInstall == hasActive /\ op.pc = "install" => op.dirty \/ file = active
AfterInstall == op.pc = "launch" => file = op.cand
BeforeRelaunch == hasActive /\ op.pc = "relaunch" => file = active
BeforeSave == op.pc = "save" => op.dirty /\ procs[child] \in {NoConfig, op.cand}

Agreement ==
    /\ NoRepairFault /\ CleanStart /\ BeforeStop /\ DuringStop /\ BeforeInstall
    /\ AfterInstall /\ BeforeRelaunch /\ BeforeSave

(* A spent kind of event stays spent, and no fault strikes a dirty request *)
(* when the repairs are spent.                                             *)
LEMMA SpentStays ==
    ASSUME budget \in [Kinds -> Nat], NEW m \in Kinds, budget[m] = 0
    PROVE  /\ \A k \in Kinds : Spend(k) => budget'[m] = 0 /\ k # m
           /\ \A k \in Kinds : Fault(k) => budget'[m] = 0 /\ (m = "repair" => ~op.dirty)
           /\ \A k, l \in Kinds : SpendBoth(k, l) => budget'[m] = 0
    <1>1. \A k \in Kinds : Spend(k) => budget'[m] = 0 /\ k # m
        BY DEF Spend
    <1>2. \A k \in Kinds : Fault(k) => budget'[m] = 0 /\ (m = "repair" => ~op.dirty)
        BY <1>1 DEF Fault, Kinds
    <1>3. \A k, l \in Kinds : SpendBoth(k, l) => budget'[m] = 0
        BY DEF SpendBoth
    <1>. QED BY <1>1, <1>2, <1>3

(* No budget allows an event of the given kind.                            *)
Never(k) == \A b \in Budgets : b[k] = 0

(* Initially nothing is active.                                            *)
LEMMA AgreementInit == Init /\ Never("repair") => Agreement
    BY IdleFacts
        DEF Never, Init, Agreement, NoRepairFault, CleanStart, BeforeStop, DuringStop,
            BeforeInstall, AfterInstall, BeforeRelaunch, BeforeSave, Untouched

(* Every step keeps the agreement when no repair is disturbed.             *)
LEMMA AgreementStep ==
    ASSUME TypeOK, Supervised, Agreement, [Next]_vars
    PROVE  Agreement'
    <1>. USE DEF Agreement, NoRepairFault, CleanStart, BeforeStop, DuringStop,
            BeforeInstall, AfterInstall, BeforeRelaunch, BeforeSave, Untouched,
            Supervised, Down, TimerAlone, Handover, OnlyChild, Armed, Reconciling, Late,
            Op, TypeOK
    <1>1. CASE ResetConfig
        <2>b. NoRepairFault'
            BY SpentStays, <1>1 DEF Kinds, ResetConfig, NoRepairFault
        <2>. QED BY IdleFacts, <1>1, <2>b DEF ResetConfig
    <1>2. CASE ResetAuthority
        BY IdleFacts, <1>2 DEF ResetAuthority
    <1>3. CASE Quarantine
        BY IdleFacts, <1>3 DEF Quarantine
    <1>4. CASE Start
        <2>b. NoRepairFault'
            BY SpentStays, <1>4 DEF Kinds, Start, Load, NoRepairFault
        <2>. QED BY IdleFacts, OverlaidType, <1>4, <2>b DEF Start, Load
    <1>5. CASE Crash
        <2>b. NoRepairFault'
            BY SpentStays, <1>5 DEF Kinds, Crash, NoRepairFault
        <2>. QED BY IdleFacts, <1>5, <2>b DEF Crash
    <1>6. ASSUME NEW s \in Slots, Exit(s) PROVE Agreement'
        <2>b. NoRepairFault'
            BY SpentStays, <1>6 DEF Kinds, Exit, NoRepairFault
        <2>. QED BY IdleFacts, <1>6, <2>b DEF Exit, Alive, durable, supervisor
    <1>7. CASE Deploy
        <2>b. NoRepairFault'
            BY SpentStays, <1>7 DEF Kinds, Deploy, NoRepairFault
        <2>1. op'.pc \in {"idle", "check"} /\ ~op'.dirty /\ op.pc = "idle"
            <3>1. PICK d \in Deployments : op' = Idle \/ op' = Request("deploy", Candidate(d.mode, d.cfg))
                BY <1>7 DEF Deploy
            <3>2. /\ Request("deploy", Candidate(d.mode, d.cfg)).pc = "check"
                  /\ ~Request("deploy", Candidate(d.mode, d.cfg)).dirty
                BY CandidateType, RequestFacts
            <3>. QED BY <1>7, <3>1, <3>2, IdleFacts DEF Deploy, Ready
        <2>. QED BY <1>7, <2>b, <2>1 DEF Deploy, durable, supervisor
    <1>8. CASE RefuseAuthority
        <2>b. NoRepairFault'
            BY SpentStays, <1>8 DEF Kinds, RefuseAuthority, NoRepairFault
        <2>. QED BY IdleFacts, <1>8, <2>b DEF RefuseAuthority, Ready, durable, supervisor
    <1>9. ASSUME NEW a \in Authorities, AuthorityHolds(a) PROVE Agreement'
        <2>b. NoRepairFault'
            BY SpentStays, <1>9 DEF Kinds, AuthorityHolds, NoRepairFault
        <2>. QED BY IdleFacts, <1>9, <2>b DEF AuthorityHolds, PersistAuthority, Ready
    <1>10. ASSUME NEW a \in Authorities, AuthorityUnusable(a) PROVE Agreement'
        <2>b. NoRepairFault'
            BY SpentStays, <1>10 DEF Kinds, AuthorityUnusable, NoRepairFault
        <2>. QED BY IdleFacts, <1>10, <2>b DEF AuthorityUnusable, PersistAuthority, Ready
    <1>11. ASSUME NEW a \in Authorities, Suspend(a) PROVE Agreement'
        <2>b. NoRepairFault'
            BY SpentStays, <1>11 DEF Kinds, Suspend, NoRepairFault
        <2>. QED BY IdleFacts, <1>11, <2>b DEF Suspend, PersistAuthority, Ready, Alive
    <1>12. ASSUME NEW a \in Authorities, ReplaceUsers(a) PROVE Agreement'
        <2>b. NoRepairFault'
            BY SpentStays, <1>12 DEF Kinds, ReplaceUsers, NoRepairFault
        <2>1. op'.pc = "check" /\ ~op'.dirty /\ op.pc = "idle"
            BY <1>12, NoConfigFacts, OverlayType, RequestFacts
                DEF ReplaceUsers, PersistAuthority, Ready, TypeOK
        <2>. QED BY <1>12, <2>b, <2>1 DEF ReplaceUsers, PersistAuthority
    <1>13. CASE HandleExit
        BY IdleFacts, <1>13 DEF HandleExit, Ready, durable, supervisor, Alive
    <1>14. CASE Retry
        <2>b. NoRepairFault'
            BY SpentStays, <1>14
                DEF Kinds, Retry, LaunchReady, LaunchStuck, LaunchDead, NoRepairFault
        <2>1. child = NoProc /\ op.pc = "idle" /\ (\A s \in Slots : procs[s] = NoConfig)
            BY <1>14 DEF Retry, Ready
        <2>2. UNCHANGED <<mgr, op, active, hasActive, file>>
            BY <1>14 DEF Retry, durable, supervisor
        <2>3. \/ UNCHANGED <<child, procs>>
              \/ file = active /\ \E s \in Slots : Launch(s) /\ child' = s
            BY <1>14, <2>1 DEF Retry, LaunchReady, LaunchStuck, LaunchDead
        <2>4. hasActive' => Untouched(child)'
            BY <2>1, <2>2, <2>3 DEF Launch
        <2>. QED BY <2>b, <2>1, <2>2, <2>4
    <1>15. CASE Validate
        BY IdleFacts, <1>15 DEF Validate, durable, supervisor
    <1>16. CASE Reconcile
        <2>b. NoRepairFault'
            BY SpentStays, <1>16 DEF Kinds, Reconcile, NoRepairFault
        <2>1. UNCHANGED <<mgr, active, hasActive, file, child>> /\ op.pc = "reconcile" /\ op \in Op
            BY <1>16 DEF Reconcile, durable, supervisor
        <2>2. op' = [op EXCEPT !.pc = "save", !.dirty = TRUE] \/ op' = [op EXCEPT !.pc = "stage", !.dirty = TRUE]
            BY <1>16 DEF Reconcile
        <2>3. op'.pc \in {"save", "stage"} /\ op'.dirty /\ op'.cand = op.cand
            BY <2>1, <2>2
        <2>4. op'.pc = "save" => procs'[child] = op.cand
            <3>1. op'.pc = "save" => Alive(child) /\ procs' = [procs EXCEPT ![child] = op.cand]
                BY <1>16, <2>1 DEF Reconcile
            <3>. QED BY <3>1 DEF Alive
        <2>. QED BY <2>b, <2>1, <2>3, <2>4
    <1>17. CASE SaveUsers
        BY IdleFacts, <1>17 DEF SaveUsers, AnswerApplied
    <1>18. CASE Stage
        BY IdleFacts, <1>18 DEF Stage, durable, supervisor
    <1>19. CASE StopPrevious
        BY IdleFacts, <1>19 DEF StopPrevious, durable, supervisor
    <1>20. CASE Install
        BY IdleFacts, <1>20 DEF Install, supervisor
    <1>21. CASE Activate
        <2>b. NoRepairFault'
            BY SpentStays, <1>21
                DEF Kinds, Activate, LaunchReady, LaunchStuck, NoRepairFault
        <2>. QED BY IdleFacts, <1>21, <2>b
            DEF Activate, LaunchReady, LaunchStuck, Launch, Answer, AnswerApplied, durable
    <1>22. CASE Restore
        BY IdleFacts, <1>22 DEF Restore, Previous, supervisor
    <1>23. CASE Relaunch
        <2>b. NoRepairFault'
            BY SpentStays, <1>23
                DEF Kinds, Relaunch, LaunchReady, LaunchStuck, LaunchDead, NoRepairFault
        <2>. QED BY IdleFacts, <1>23, <2>b
            DEF Relaunch, LaunchReady, LaunchStuck, LaunchDead, Launch, Answer, durable,
                supervisor
    <1>24. CASE Reject
        <2>b. NoRepairFault'
            BY SpentStays, <1>24 DEF Kinds, Reject, NoRepairFault
        <2>. QED BY IdleFacts, <1>24, <2>b DEF Reject, Answer, durable, supervisor
    <1>25. CASE SaveUsersFails
        <2>b. NoRepairFault'
            BY SpentStays, <1>25 DEF Kinds, SaveUsersFails, NoRepairFault
        <2>. QED BY IdleFacts, <1>25, <2>b DEF SaveUsersFails, supervisor
    <1>26. CASE StageFails
        <2>b. NoRepairFault' /\ ~op.dirty
            BY SpentStays, <1>26 DEF Kinds, StageFails, NoRepairFault
        <2>. QED BY IdleFacts, <1>26, <2>b DEF StageFails, Answer, durable, supervisor
    <1>27. CASE StopFails
        <2>b. NoRepairFault' /\ ~op.dirty
            BY SpentStays, <1>27 DEF Kinds, StopFails, NoRepairFault
        <2>. QED BY IdleFacts, <1>27, <2>b DEF StopFails, Answer, Alive, durable, supervisor
    <1>28. CASE InstallFails
        <2>b. NoRepairFault' /\ ~op.dirty
            BY SpentStays, <1>28 DEF Kinds, InstallFails, NoRepairFault
        <2>. QED BY IdleFacts, <1>28, <2>b DEF InstallFails, supervisor
    <1>29. CASE ActivateFails
        <2>b. NoRepairFault'
            BY SpentStays, <1>29 DEF Kinds, ActivateFails, LaunchDead, NoRepairFault
        <2>. QED BY IdleFacts, <1>29, <2>b
            DEF ActivateFails, LaunchDead, durable, supervisor
    <1>30. CASE RestoreFails
        <2>b. NoRepairFault'
            BY SpentStays, <1>30 DEF Kinds, RestoreFails, NoRepairFault
        <2>. QED BY IdleFacts, <1>30, <2>b DEF RestoreFails, Answer, Previous
    <1>31. CASE PersistAuthorityFails
        <2>b. NoRepairFault'
            BY SpentStays, <1>31 DEF Kinds, PersistAuthorityFails, NoRepairFault
        <2>. QED BY IdleFacts, <1>31, <2>b DEF PersistAuthorityFails, Ready, supervisor
    <1>32. CASE UNCHANGED vars
        BY <1>32 DEF vars
    <1>. QED
        BY <1>1, <1>2, <1>3, <1>4, <1>5, <1>6, <1>7, <1>8, <1>9, <1>10, <1>11, <1>12,
            <1>13, <1>14,
           <1>15, <1>16, <1>17, <1>18, <1>19, <1>20, <1>21, <1>22, <1>23, <1>24,
           <1>25, <1>26, <1>27, <1>28, <1>29, <1>30, <1>31, <1>32
        DEF Next, Supervise, Faults, ApplyManagedUserAuthority

(* Agreement holds in every reachable state when no repair is disturbed.   *)
LEMMA AlwaysAgreement == Spec /\ Never("repair") => []Agreement
    BY AgreementInit, AgreementStep, AlwaysSupervised, TypeCorrect, PTL DEF Spec

(* Between requests the active file, the manager's memory and its process  *)
(* agree, however many steps of the activations before failed, provided    *)
(* none failed after the users of the running process had been changed.    *)
THEOREM SettledAgreeAlways == Spec /\ Never("repair") => []SettledAgree
    <1>1. Agreement => SettledAgree
        BY DEF Agreement, CleanStart, BeforeStop, Untouched, SettledAgree, Ready, Alive
    <1>. QED BY <1>1, AlwaysAgreement, PTL

-----------------------------------------------------------------------------
(* Enforcement.  Every configuration the manager can still activate, and   *)
(* every authority it can still enforce, lets in granted memberships only. *)

Grants(c) == c # NoConfig => c.users \subseteq granted

NoLostRestore == budget["restore"] = 0
Unmanaged == mgr = "running" /\ ~hasActive =>
    /\ active = NoConfig
    /\ \A s \in Slots : procs[s] = NoConfig
    /\ op.pc \notin {"launch", "restore"} => file = NoConfig
Unrestricted == sidecar = NoAuthority \/ (mgr = "running" /\ authority = NoAuthority) =>
    granted = Users
Reloadable == authority # NoAuthority => sidecar # NoAuthority
Within ==
    /\ Grants(file) /\ Grants(active) /\ \A s \in Slots : Grants(procs[s])
    /\ Held(authority) \subseteq granted /\ Held(sidecar) \subseteq granted
Candidates == op.pc # "idle" => Grants(op.cand)
Overlaying == op.pc # "idle" /\ op.kind = "authority" =>
    authority # NoAuthority /\ op.cand.users \subseteq authority.users

Enforced ==
    /\ NoLostRestore /\ Unmanaged /\ Unrestricted /\ Reloadable /\ Within
    /\ Candidates /\ Overlaying

(* Contents let in memberships, and so does a half-way replacement.        *)
LEMMA UsersFacts ==
    /\ \A c \in Contents : c.users \in SUBSET Users
    /\ \A c \in Configs : c.users \in SUBSET Users
    /\ \A c, d \in Contents : \A e \in PartlyReplaced(c, d) :
          e \in Contents /\ e.users \subseteq c.users \cup d.users
    BY DEF Contents, Configs, PartlyReplaced

(* Initially every membership is granted.                                  *)
LEMMA EnforcedInit == Init /\ Never("restore") => Enforced
    <1>. SUFFICES ASSUME Init, Never("restore") PROVE Enforced
        OBVIOUS
    <1>1. Grants(file)
        BY TypeInit, UsersFacts DEF Init, Grants, TypeOK
    <1>. QED BY <1>1, IdleFacts
        DEF Never, Init, Enforced, Held, NoLostRestore, Unmanaged, Unrestricted, Reloadable,
            Within, Candidates, Overlaying, Grants

(* Every step keeps the enforcement when no repair and no restore is       *)
(* disturbed.                                                              *)
LEMMA EnforcedStep ==
    ASSUME TypeOK, Supervised, Agreement, Enforced, [Next]_vars
    PROVE  Enforced'
    <1>. USE DEF Enforced, NoLostRestore, Unmanaged, Unrestricted, Reloadable, Within,
            Candidates, Overlaying, Grants, Supervised, Down, Handover, OnlyChild,
            Reconciling, Late, Op, TypeOK
    <1>1. CASE ResetConfig
        <2>b. NoLostRestore'
            BY SpentStays, <1>1 DEF Kinds, ResetConfig, NoLostRestore
        <2>. QED BY IdleFacts, UsersFacts, <1>1, <2>b DEF ResetConfig
    <1>2. CASE ResetAuthority
        BY IdleFacts, UsersFacts, <1>2 DEF ResetAuthority, Held
    <1>3. CASE Quarantine
        BY IdleFacts, UsersFacts, <1>3 DEF Quarantine
    <1>4. CASE Start
        <2>b. NoLostRestore'
            BY SpentStays, <1>4 DEF Kinds, Start, Load, NoLostRestore
        <2>1. Load /\ op = Idle /\ UNCHANGED op /\ (\A s \in Slots : procs[s] = NoConfig)
            BY <1>4 DEF Start, Load
        <2>2. Overlaid \in Configs \cup {NoConfig} /\ ((Overlaid = NoConfig) <=> (file = NoConfig))
              /\ Grants(Overlaid)
            <3>1. CASE Overlaid = file
                BY <3>1, OverlaidType
            <3>2. CASE Overlaid # file
                BY <3>2, OverlaidType DEF Held
            <3>. QED BY <3>1, <3>2, OverlaidType
        <2>3. \A s \in Slots : procs'[s] \in {NoConfig, Overlaid} /\ (file = NoConfig => procs'[s] = NoConfig)
            BY <1>4, <2>1, <2>2 DEF Start, Startable
        <2>4. /\ file' = Overlaid /\ active' = Overlaid /\ hasActive' = (file # NoConfig)
              /\ authority' = sidecar /\ mgr' = "running" /\ UNCHANGED <<sidecar, granted>>
            BY <2>1 DEF Load
        <2>5. Unmanaged' /\ Unrestricted' /\ Reloadable'
            BY <2>1, <2>2, <2>3, <2>4, IdleFacts
        <2>6. Within'
            BY <2>2, <2>3, <2>4 DEF Held
        <2>. QED BY <2>1, <2>b, <2>5, <2>6, IdleFacts
    <1>5. CASE Crash
        <2>b. NoLostRestore'
            BY SpentStays, <1>5 DEF Kinds, Crash, NoLostRestore
        <2>. QED BY IdleFacts, UsersFacts, <1>5, <2>b DEF Crash, Held
    <1>6. ASSUME NEW s \in Slots, Exit(s) PROVE Enforced'
        <2>b. NoLostRestore'
            BY SpentStays, <1>6 DEF Kinds, Exit, NoLostRestore
        <2>. QED BY IdleFacts, UsersFacts, <1>6, <2>b DEF Exit, Alive, durable, supervisor
    <1>7. CASE Deploy
        <2>b. NoLostRestore'
            BY SpentStays, <1>7 DEF Kinds, Deploy, NoLostRestore
        <2>1. UNCHANGED <<file, sidecar, mgr, active, hasActive, authority, child, procs, granted>>
              /\ op.pc = "idle" /\ mgr = "running"
            BY <1>7 DEF Deploy, Ready, durable, supervisor
        <2>2. PICK d \in Deployments : op' = Idle \/ op' = Request("deploy", Candidate(d.mode, d.cfg))
            BY <1>7 DEF Deploy
        <2>3. Candidate(d.mode, d.cfg) \in Configs /\ Candidate(d.mode, d.cfg).users \subseteq granted
            BY <2>1, CandidateType, UsersFacts DEF Held
        <2>4. op'.pc \in {"idle", "check"} /\ (op'.pc # "idle" => op'.kind = "deploy" /\ Grants(op.cand)')
            BY <2>1, <2>2, <2>3, IdleFacts, RequestFacts
        <2>. QED BY <2>1, <2>4, <2>b
    <1>8. CASE RefuseAuthority
        <2>b. NoLostRestore'
            BY SpentStays, <1>8 DEF Kinds, RefuseAuthority, NoLostRestore
        <2>. QED BY IdleFacts, UsersFacts, <1>8, <2>b
            DEF RefuseAuthority, Ready, durable, supervisor
    <1>9. ASSUME NEW a \in Authorities, AuthorityHolds(a) PROVE Enforced'
        <2>b. NoLostRestore'
            BY SpentStays, <1>9 DEF Kinds, AuthorityHolds, NoLostRestore
        <2>1. /\ UNCHANGED <<file, mgr, active, hasActive, child, procs, op>> /\ sidecar' = a /\ authority' = a
              /\ granted' = a.users /\ mgr = "running" /\ op.pc = "idle" /\ a \in Authority /\ a # NoAuthority
            BY <1>9 DEF AuthorityHolds, PersistAuthority, Ready
        <2>2. CASE ~hasActive
            BY <2>1, <2>2, <2>b DEF Held
        <2>3. CASE hasActive
            <3>1. active \in Configs /\ Matched(active, a) /\ active = Overlay(active, a)
                BY <1>9, <2>3 DEF AuthorityHolds
            <3>2. active.users \subseteq a.users
                BY <2>1, <3>1, OverlayType
            <3>3. file = active /\ \A s \in Slots : procs[s] \in {NoConfig, active}
                BY <2>1, <2>3 DEF Agreement, CleanStart, BeforeStop, Untouched
            <3>. QED BY <2>1, <2>3, <2>b, <3>2, <3>3 DEF Held
        <2>. QED BY <2>2, <2>3
    <1>10. ASSUME NEW a \in Authorities, AuthorityUnusable(a) PROVE Enforced'
        <2>b. NoLostRestore'
            BY SpentStays, <1>10 DEF Kinds, AuthorityUnusable, NoLostRestore
        <2>. QED BY IdleFacts, UsersFacts, <1>10, <2>b
            DEF AuthorityUnusable, PersistAuthority, Ready, Held
    <1>11. ASSUME NEW a \in Authorities, Suspend(a) PROVE Enforced'
        <2>b. NoLostRestore'
            BY SpentStays, <1>11 DEF Kinds, Suspend, NoLostRestore
        <2>. QED BY IdleFacts, UsersFacts, <1>11, <2>b
            DEF Suspend, PersistAuthority, Ready, Alive, Held
    <1>12. ASSUME NEW a \in Authorities, ReplaceUsers(a) PROVE Enforced'
        <2>b. NoLostRestore'
            BY SpentStays, <1>12 DEF Kinds, ReplaceUsers, NoLostRestore
        <2>1. /\ UNCHANGED <<file, mgr, active, hasActive, child, procs>> /\ sidecar' = a /\ authority' = a
              /\ granted' = granted \cup a.users /\ mgr = "running" /\ a \in Authority /\ a # NoAuthority
              /\ hasActive /\ op' = Request("authority", Overlay(active, a))
            BY <1>12 DEF ReplaceUsers, PersistAuthority, Ready
        <2>2. Overlay(active, a) \in Configs /\ Overlay(active, a).users \subseteq a.users
            BY <1>12, OverlayType DEF ReplaceUsers
        <2>3. op'.pc = "check" /\ op'.cand = Overlay(active, a) /\ op'.kind = "authority"
            BY <2>1, <2>2, RequestFacts
        <2>4. Candidates' /\ Overlaying'
            BY <2>1, <2>2, <2>3
        <2>5. Within'
            BY <2>1 DEF Held
        <2>6. Unmanaged' /\ Unrestricted' /\ Reloadable'
            BY <2>1, AuthorityFacts
        <2>. QED BY <2>b, <2>4, <2>5, <2>6
    <1>13. CASE HandleExit
        BY IdleFacts, UsersFacts, <1>13 DEF HandleExit, Ready, durable, supervisor, Alive
    <1>14. CASE Retry
        <2>b. NoLostRestore'
            BY SpentStays, <1>14
                DEF Kinds, Retry, LaunchReady, LaunchStuck, LaunchDead, NoLostRestore
        <2>1. op.pc = "idle" /\ UNCHANGED <<file, sidecar, mgr, active, hasActive, authority, op, granted>>
            BY <1>14 DEF Retry, Ready, durable, supervisor
        <2>2. \/ UNCHANGED procs
              \/ hasActive /\ \E s \in Slots : Launch(s)
            BY <1>14 DEF Retry, LaunchReady, LaunchStuck, LaunchDead
        <2>3. \A s \in Slots : Grants(procs[s])' /\ (~hasActive => procs'[s] = NoConfig \/ procs'[s] = procs[s])
            BY <2>1, <2>2 DEF Launch
        <2>. QED BY <2>b, <2>1, <2>3
    <1>15. CASE Validate
        BY IdleFacts, UsersFacts, <1>15 DEF Validate, durable, supervisor
    <1>16. CASE Reconcile
        <2>b. NoLostRestore'
            BY SpentStays, <1>16 DEF Kinds, Reconcile, NoLostRestore
        <2>1. UNCHANGED <<file, sidecar, mgr, active, hasActive, authority, child, granted>> /\ op.pc = "reconcile"
            BY <1>16 DEF Reconcile, durable, supervisor
        <2>2. op' = [op EXCEPT !.pc = "save", !.dirty = TRUE] \/ op' = [op EXCEPT !.pc = "stage", !.dirty = TRUE]
            BY <1>16 DEF Reconcile
        <2>3. op'.pc \in {"save", "stage"} /\ op'.kind = op.kind /\ op'.cand = op.cand
            BY <2>2
        <2>4. \/ UNCHANGED procs
              \/ Alive(child) /\ procs' = [procs EXCEPT ![child] = op.cand]
              \/ Alive(child) /\ \E c \in PartlyReplaced(procs[child], op.cand) : procs' = [procs EXCEPT ![child] = c]
            BY <1>16 DEF Reconcile
        <2>5. \A s \in Slots : Grants(procs[s])'
            <3>1. CASE UNCHANGED procs
                BY <2>1, <3>1
            <3>2. CASE Alive(child) /\ procs' = [procs EXCEPT ![child] = op.cand]
                BY <2>1, <3>2
            <3>3. ASSUME NEW c \in PartlyReplaced(procs[child], op.cand), Alive(child),
                         procs' = [procs EXCEPT ![child] = c]
                  PROVE  \A s \in Slots : Grants(procs[s])'
                <4>1. procs[child] \in Contents /\ op.cand \in Contents
                    BY <2>1, <3>3, NoConfigFacts DEF Alive
                <4>2. c.users \subseteq granted
                    BY <2>1, <3>3, <4>1, UsersFacts, NoConfigFacts
                <4>. QED BY <2>1, <3>3, <4>2
            <3>. QED BY <2>4, <3>1, <3>2, <3>3
        <2>6. hasActive
            BY <2>1
        <2>. QED BY <2>b, <2>1, <2>3, <2>5, <2>6
    <1>17. CASE SaveUsers
        <2>1. /\ file' = op.cand /\ active' = op.cand /\ hasActive' /\ op' = Idle /\ op.pc = "save"
              /\ UNCHANGED <<sidecar, mgr, authority, child, procs, budget>>
              /\ granted' = IF op.kind = "authority" THEN Held(authority) \cup Held(sidecar) ELSE granted
            BY <1>17 DEF SaveUsers, AnswerApplied
        <2>2. \A s \in Slots : procs[s] \in {NoConfig, op.cand}
            BY <2>1 DEF Agreement, BeforeSave
        <2>3. CASE op.kind = "authority"
            BY <2>1, <2>2, <2>3, IdleFacts DEF Held
        <2>4. CASE op.kind # "authority"
            BY <2>1, <2>2, <2>4, IdleFacts DEF Held
        <2>. QED BY <2>3, <2>4
    <1>18. CASE Stage
        BY IdleFacts, UsersFacts, <1>18 DEF Stage, durable, supervisor
    <1>19. CASE StopPrevious
        BY IdleFacts, UsersFacts, <1>19 DEF StopPrevious, durable, supervisor
    <1>20. CASE Install
        BY IdleFacts, UsersFacts, <1>20 DEF Install, supervisor
    <1>21. CASE Activate
        <2>b. NoLostRestore'
            BY SpentStays, <1>21
                DEF Kinds, Activate, LaunchReady, LaunchStuck, NoLostRestore
        <2>1. /\ active' = op.cand /\ hasActive' /\ op' = Idle /\ op.pc = "launch"
              /\ UNCHANGED <<file, sidecar, mgr, authority>>
              /\ granted' = granted \/ (op.kind = "authority" /\ granted' = Held(authority) \cup Held(sidecar))
              /\ \E s \in Slots : Launch(s)
            BY <1>21 DEF Activate, Answer, AnswerApplied, LaunchReady, LaunchStuck, durable
        <2>2. file = op.cand /\ \A s \in Slots : procs'[s] \in {NoConfig, op.cand}
            BY <2>1 DEF Agreement, AfterInstall, Launch
        <2>3. CASE granted' = granted
            BY <2>1, <2>2, <2>3, <2>b, IdleFacts DEF Held
        <2>4. CASE op.kind = "authority" /\ granted' = Held(authority) \cup Held(sidecar)
            BY <2>1, <2>2, <2>4, <2>b, IdleFacts DEF Held
        <2>. QED BY <2>1, <2>3, <2>4
    <1>22. CASE Restore
        BY IdleFacts, UsersFacts, <1>22 DEF Restore, Previous, supervisor
    <1>23. CASE Relaunch
        <2>b. NoLostRestore'
            BY SpentStays, <1>23
                DEF Kinds, Relaunch, LaunchReady, LaunchStuck, LaunchDead, NoLostRestore
        <2>. QED BY IdleFacts, UsersFacts, <1>23, <2>b
            DEF Relaunch, LaunchReady, LaunchStuck, LaunchDead, Launch, Answer, durable,
                supervisor
    <1>24. CASE Reject
        <2>b. NoLostRestore'
            BY SpentStays, <1>24 DEF Kinds, Reject, NoLostRestore
        <2>. QED BY IdleFacts, UsersFacts, <1>24, <2>b
            DEF Reject, Answer, durable, supervisor
    <1>25. CASE SaveUsersFails
        <2>b. NoLostRestore'
            BY SpentStays, <1>25 DEF Kinds, SaveUsersFails, NoLostRestore
        <2>. QED BY IdleFacts, UsersFacts, <1>25, <2>b DEF SaveUsersFails, supervisor
    <1>26. CASE StageFails
        <2>b. NoLostRestore'
            BY SpentStays, <1>26 DEF Kinds, StageFails, NoLostRestore
        <2>. QED BY IdleFacts, UsersFacts, <1>26, <2>b
            DEF StageFails, Answer, durable, supervisor
    <1>27. CASE StopFails
        <2>b. NoLostRestore'
            BY SpentStays, <1>27 DEF Kinds, StopFails, NoLostRestore
        <2>. QED BY IdleFacts, UsersFacts, <1>27, <2>b
            DEF StopFails, Answer, Alive, durable, supervisor
    <1>28. CASE InstallFails
        <2>b. NoLostRestore'
            BY SpentStays, <1>28 DEF Kinds, InstallFails, NoLostRestore
        <2>1. /\ UNCHANGED <<sidecar, mgr, active, hasActive, authority, procs, granted>> /\ op.pc = "install"
              /\ \/ UNCHANGED file /\ op'.pc = "relaunch"
                 \/ file' = op.cand /\ op'.pc = "restore"
              /\ op'.cand = op.cand /\ op'.kind = op.kind
            BY <1>28 DEF InstallFails, supervisor
        <2>. QED BY <2>b, <2>1
    <1>29. CASE ActivateFails
        <2>b. NoLostRestore'
            BY SpentStays, <1>29 DEF Kinds, ActivateFails, LaunchDead, NoLostRestore
        <2>. QED BY IdleFacts, UsersFacts, <1>29, <2>b
            DEF ActivateFails, LaunchDead, durable, supervisor
    <1>30. CASE RestoreFails
        <2>1. "restore" \in Kinds /\ Spend("restore") /\ budget["restore"] = 0
            BY <1>30 DEF RestoreFails, Kinds
        <2>. QED BY <2>1 DEF Spend
    <1>31. CASE PersistAuthorityFails
        <2>b. NoLostRestore'
            BY SpentStays, <1>31 DEF Kinds, PersistAuthorityFails, NoLostRestore
        <2>1. /\ UNCHANGED <<file, mgr, active, hasActive, authority, procs, op>> /\ op.pc = "idle"
              /\ \/ UNCHANGED <<sidecar, granted>>
                 \/ \E a \in Authorities : sidecar' = a /\ granted' = granted \cup a.users
            BY <1>31 DEF PersistAuthorityFails, Ready, supervisor
        <2>2. CASE UNCHANGED <<sidecar, granted>>
            BY <2>1, <2>2, <2>b
        <2>3. ASSUME NEW a \in Authorities, sidecar' = a, granted' = granted \cup a.users
              PROVE  Enforced'
            BY <2>1, <2>3, <2>b, AuthorityFacts DEF Held
        <2>. QED BY <2>1, <2>2, <2>3
    <1>32. CASE UNCHANGED vars
        BY <1>32 DEF vars
    <1>. QED
        BY <1>1, <1>2, <1>3, <1>4, <1>5, <1>6, <1>7, <1>8, <1>9, <1>10, <1>11, <1>12,
            <1>13, <1>14,
           <1>15, <1>16, <1>17, <1>18, <1>19, <1>20, <1>21, <1>22, <1>23, <1>24,
           <1>25, <1>26, <1>27, <1>28, <1>29, <1>30, <1>31, <1>32
        DEF Next, Supervise, Faults, ApplyManagedUserAuthority

(* Enforcement holds in every reachable state when no repair and no        *)
(* restore is disturbed.                                                   *)
LEMMA AlwaysEnforced == Spec /\ Never("repair") /\ Never("restore") => []Enforced
    BY EnforcedInit, EnforcedStep, AlwaysAgreement, AlwaysSupervised, TypeCorrect, PTL
        DEF Spec

(* Once an authority was answered as applied, no process lets in a         *)
(* membership outside it, provided no step failed after the users of the   *)
(* running process had been changed and no restore of the previous file    *)
(* failed.  The runs BoxLostRepair and BoxLostRestore show that neither    *)
(* proviso can be dropped.                                                 *)
THEOREM AckedRevocation ==
    Spec /\ Never("repair") /\ Never("restore") => []AckedRevocationHolds
    <1>1. Enforced => AckedRevocationHolds
        BY DEF Enforced, Within, Grants, AckedRevocationHolds, Alive
    <1>. QED BY <1>1, AlwaysEnforced, PTL

(* Start lets in memberships of the persisted authority only, whatever     *)
(* was interrupted before.                                                 *)
THEOREM StartClosed == Spec => StartFailsClosed
    <1>1. ASSUME TypeOK, Supervised, [Next]_vars, mgr = "down", sidecar # NoAuthority, vars' # vars
          PROVE  \A s \in Slots : procs'[s] # NoConfig => procs'[s].users \subseteq sidecar.users
        <2>1. op.pc = "idle" /\ child = NoProc /\ (\A s \in Slots : procs[s] = NoConfig) /\ op = Idle
            BY <1>1, IdleFacts DEF Supervised, Down
        <2>2. CASE Start
            BY <1>1, <2>1, <2>2, OverlaidType DEF Start, TypeOK
        <2>3. CASE ~Start
            <3>1. UNCHANGED procs
                <4>1. ~(\E s \in Slots : Exit(s)) /\ ~Deploy /\ ~RefuseAuthority /\ ~Crash
                    BY <1>1, <2>1 DEF Exit, Alive, Deploy, RefuseAuthority, Ready, Crash
                <4>2. ~ApplyManagedUserAuthority
                    BY <1>1
                        DEF ApplyManagedUserAuthority, AuthorityHolds, AuthorityUnusable,
                            Suspend,
                                ReplaceUsers, PersistAuthority, Ready
                <4>3. ~Supervise /\ ~Faults
                    BY <1>1, <2>1
                        DEF Supervise, Faults, HandleExit, Retry, Ready, Validate,
                            Reconcile,
                        SaveUsers, Stage, StopPrevious, Install, Activate, Restore, Relaunch, Reject,
                        SaveUsersFails, StageFails, StopFails, InstallFails, ActivateFails, RestoreFails,
                        PersistAuthorityFails
                <4>. QED BY <1>1, <2>3, <4>1, <4>2, <4>3
                    DEF Next, ResetConfig, ResetAuthority, Quarantine
            <3>. QED BY <2>1, <3>1
        <2>. QED BY <2>2, <2>3
    <1>2. TypeOK /\ Supervised /\ [Next]_vars =>
            [mgr = "down" /\ sidecar # NoAuthority =>
               \A s \in Slots : procs'[s] # NoConfig => procs'[s].users \subseteq sidecar.users]_vars
        BY <1>1
    <1>. QED BY <1>2, TypeCorrect, AlwaysSupervised, PTL DEF Spec, StartFailsClosed

=============================================================================
