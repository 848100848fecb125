--------------------------- MODULE SingBoxManager ---------------------------
(***************************************************************************)
(* The Agent's manager of one sing-box process                             *)
(* (internal/singbox/manager.go, managed_user_authority.go,                *)
(* managed_users.go, config_generation.go): it validates, persists,        *)
(* activates and supervises a configuration and enforces the newest        *)
(* managed-user authority on whatever it runs.                             *)
(*                                                                         *)
(* A configuration is the topology it describes (the digest that ignores   *)
(* the users arrays) and the memberships it lets in; the credentials of    *)
(* Links belong to the topology.  The supervisor goroutine serialises      *)
(* requests, exits and restarts, so one request at a time is in progress   *)
(* and its steps interleave only with processes that die and with the end  *)
(* of the Agent.  Durations are not modelled: whatever a timeout decides   *)
(* is a step that spends some budget.                                      *)
(***************************************************************************)
EXTENDS Integers, FiniteSets

CONSTANTS
    Shapes,      \* topology digests of configurations
    Managed,     \* the shapes that carry the managed-user service
    Disabled,    \* the shape of DisabledManagedConfig
    Users,       \* memberships
    NoConfig,    \* no active file, or no process
    NoAuthority, \* no persisted managed-user authority
    Slots,       \* places for operating system processes
    NoProc,      \* state.child == nil
    Deployments, \* the deploy commands the master may send: [mode, cfg]
    Authorities, \* the authority commands the master may send
    Budgets      \* how many events of each kind the environment may inflict

Contents == [shape : Shapes, users : SUBSET Users]
Configs == {c \in Contents : c.shape \notin Managed => c.users = {}}
Authority == [rev : Nat, shapes : SUBSET Managed, users : SUBSET Users]
Modes == {"generic", "topology", "users"}

Kinds == {"deploy", "authority", "invalid", "timeout", "reconcile", "io", "repair",
          "restore", "stop", "launch", "exit", "crash", "enroll"}

ASSUME ConstantsAssumption ==
    /\ Managed \subseteq Shapes
    /\ Disabled \in Shapes \ Managed
    /\ NoConfig \notin Contents
    /\ NoAuthority \notin Authority
    /\ NoProc \notin Slots
    /\ Deployments \subseteq [mode : Modes, cfg : Configs]
    /\ \A d \in Deployments : d.mode = "generic" => d.cfg.users = {}
    /\ Authorities \subseteq Authority
    /\ Budgets \subseteq [Kinds -> Nat]

VARIABLES
    file,      \* durable: the active configuration file
    sidecar,   \* durable: the managed-user authority file
    marked,    \* durable: the configuration generation is recorded
    mgr,       \* "down", "enrolling" (the reset before the first start) or "running"
    active,    \* supervisorState.activeConfig, NoConfig when it is empty
    hasActive, \* supervisorState.hasActive
    authority, \* supervisorState.authority
    child,     \* supervisorState.child, whose process may have exited
    restart,   \* supervisorState.restart
    retry,     \* a restart timer is armed
    procs,     \* what each live sing-box process serves
    op,        \* the request in progress (applyCandidate)
    granted,   \* history: the memberships of the newest authority that was answered as
               \* applied and of those persisted since; all before the first answer
    budget     \* what is left of the budget

durable == <<file, sidecar, marked>>
vars == <<file, sidecar, marked, mgr, active, hasActive, authority, child, restart,
          retry, procs, op, granted, budget>>

Spend(k) == budget[k] > 0 /\ budget' = [budget EXCEPT ![k] = @ - 1]

SpendBoth(k, l) ==
    /\ budget[k] > 0 /\ budget[l] > 0
    /\ budget' = [budget EXCEPT ![k] = @ - 1, ![l] = @ - 1]

(* A fault that strikes after the users of the running process were        *)
(* changed through its API hits the repair of that change.                 *)
Fault(k) == IF op.dirty THEN Spend("repair") ELSE Spend(k)

-----------------------------------------------------------------------------
(* Configurations and authorities.                                         *)

(* applyManagedUserAuthority: replace the memberships by those of the      *)
(* authority; matched when the authority describes the shape.              *)
Parses(c) == c.shape \in Managed \cup {Disabled}
Matched(c, a) == c.shape \in a.shapes \cup {Disabled}
Overlay(c, a) == IF c.shape = Disabled THEN c ELSE [c EXCEPT !.users = a.users]

Held(a) == IF a = NoAuthority THEN {} ELSE a.users

(* Mutant: a shape the authority does not know passes as it is.            *)
RetainAll(old, c) == c

(* retainAuthorizedMemberships: only memberships that are already active.  *)
retainAuthorizedMemberships(old, c) ==
    [c EXCEPT !.users = @ \cap (IF old = NoConfig THEN {} ELSE old.users)]

(* The candidate that a deploy command of the given mode leads to.         *)
Candidate(mode, c) ==
    IF mode = "generic" \/ (mode = "users" /\ authority = NoAuthority) THEN c
    ELSE IF authority # NoAuthority /\ Matched(c, authority) THEN Overlay(c, authority)
    ELSE retainAuthorizedMemberships(active, c)

(* reconcileManagedUsers reports whether only the users differ.            *)
UsersOnly(old, new) == old.shape = new.shape /\ new.shape \in Managed

(* What a process serves when the replacement of its users stops half way, *)
(* or when the answer to a replacement that took effect is lost.           *)
PartlyReplaced(old, new) ==
    {[old EXCEPT !.users = X] :
        X \in {Y \in SUBSET (old.users \cup new.users) : old.users \cap new.users \subseteq Y}}

-----------------------------------------------------------------------------
(* Requests and processes.                                                 *)

Idle == [pc |-> "idle", kind |-> "none", cand |-> NoConfig, dirty |-> FALSE,
         child |-> NoProc, restart |-> FALSE]
Op == [pc : {"idle", "check", "reconcile", "save", "stage", "stop", "install",
             "launch", "restore", "relaunch"},
       kind : {"none", "deploy", "authority"}, cand : Configs \cup {NoConfig},
       dirty : BOOLEAN, child : Slots \cup {NoProc}, restart : BOOLEAN]

Request(kind, c) == [Idle EXCEPT !.pc = "check", !.kind = kind, !.cand = c]

Alive(s) == s # NoProc /\ procs[s] # NoConfig

(* launchProcess starts sing-box on the active file and waits until it is  *)
(* ready.  The child that comes back is the new process when it is ready   *)
(* or could not be stopped, and none when it exited or was stopped.        *)
Launch(s) == procs[s] = NoConfig /\ procs' = [procs EXCEPT ![s] = file]
LaunchReady(s) == Launch(s) /\ child' = s /\ UNCHANGED budget
LaunchStuck(s) == Launch(s) /\ child' = s /\ Spend("stop")
LaunchDead == child' = NoProc /\ Spend("launch") /\ UNCHANGED procs

Answer == op' = Idle
AnswerApplied ==
    /\ op' = Idle
    /\ granted' = IF op.kind = "authority" THEN Held(authority) \cup Held(sidecar) ELSE granted

supervisor == <<mgr, active, hasActive, authority>>

-----------------------------------------------------------------------------
(* The Agent process: enrolment, start and end.                            *)

Init ==
    /\ file \in {NoConfig} \cup {d.cfg : d \in {x \in Deployments : x.mode = "generic"}}
    /\ sidecar = NoAuthority
    /\ marked = FALSE
    /\ mgr = "down"
    /\ active = NoConfig
    /\ hasActive = FALSE
    /\ authority = NoAuthority
    /\ child = NoProc
    /\ restart = FALSE
    /\ retry = FALSE
    /\ procs = [s \in Slots |-> NoConfig]
    /\ op = Idle
    /\ granted = Users
    /\ budget \in Budgets

(* ResetForEnrollment, in the order of its two removals.  The enrolment    *)
(* token outlives a crash between them, so that the reset starts over.     *)
ResetConfig ==
    /\ mgr = "down"
    /\ Spend("enroll")
    /\ mgr' = "enrolling"
    /\ file' = NoConfig
    /\ UNCHANGED <<sidecar, marked, active, hasActive, authority, child, restart,
                   retry, procs, op, granted>>

ResetAuthority ==
    /\ mgr = "enrolling"
    /\ mgr' = "down"
    /\ sidecar' = NoAuthority
    /\ granted' = Users
    /\ UNCHANGED <<file, marked, active, hasActive, authority, child, restart,
                   retry, procs, op, budget>>

(* quarantineLegacyConfig: a file without a recorded generation is moved   *)
(* away before the generation is recorded.                                 *)
Quarantine ==
    /\ mgr = "down" /\ ~marked /\ file # NoConfig
    /\ file' = NoConfig
    /\ UNCHANGED <<sidecar, marked, mgr, active, hasActive, authority, child, restart,
                   retry, procs, op, granted, budget>>

Overlaid ==
    IF file # NoConfig /\ sidecar # NoAuthority /\ Parses(file) /\ Matched(file, sidecar)
    THEN Overlay(file, sidecar) ELSE file

(* Mutant: a file the authority does not describe is started.              *)
StartableWithoutMatch == file # NoConfig

Startable ==
    /\ file # NoConfig
    /\ sidecar # NoAuthority => Parses(file) /\ Matched(file, sidecar)

(* Mutant: a recorded generation is taken for an active configuration.     *)
LoadTrustsMarker ==
    /\ mgr = "down" /\ (marked \/ file = NoConfig)
    /\ marked' = TRUE
    /\ file' = Overlaid
    /\ active' = Overlaid
    /\ hasActive' = marked
    /\ authority' = sidecar
    /\ mgr' = "running"
    /\ UNCHANGED <<sidecar, granted>>

(* Start up to the launch: load, overlay the authority, persist the        *)
(* result.  A file the authority does not describe stays on disk and is    *)
(* not started.                                                            *)
Load ==
    /\ mgr = "down" /\ (marked \/ file = NoConfig)
    /\ marked' = TRUE
    /\ file' = Overlaid
    /\ active' = Overlaid
    /\ hasActive' = (file # NoConfig)
    /\ authority' = sidecar
    /\ mgr' = "running"
    /\ UNCHANGED <<sidecar, granted>>

(* Start.  The persisted configuration may fail the local checks, and its  *)
(* process may fail to start: then supervise arms the restart timer.       *)
Start ==
    /\ Load
    /\ \/ /\ ~Startable
          /\ restart' = FALSE
          /\ UNCHANGED <<child, retry, procs, op, budget>>
       \/ /\ Startable
          /\ Spend("invalid")
          /\ restart' = FALSE
          /\ UNCHANGED <<child, retry, procs, op>>
       \/ /\ Startable
          /\ restart' = TRUE
          /\ \E s \in Slots : procs' = [procs EXCEPT ![s] = Overlaid] /\ child' = s
          /\ UNCHANGED budget \/ Spend("stop")
          /\ UNCHANGED <<retry, op>>
       \/ /\ Startable
          /\ Spend("launch")
          /\ restart' = TRUE
          /\ retry' = TRUE
          /\ UNCHANGED <<child, procs, op>>

(* The Agent stops or is killed; the service manager ends what is left of  *)
(* its processes.                                                          *)
Crash ==
    /\ mgr = "running"
    /\ Spend("crash")
    /\ mgr' = "down"
    /\ active' = NoConfig
    /\ hasActive' = FALSE
    /\ authority' = NoAuthority
    /\ child' = NoProc
    /\ restart' = FALSE
    /\ retry' = FALSE
    /\ procs' = [s \in Slots |-> NoConfig]
    /\ op' = Idle
    /\ UNCHANGED <<file, sidecar, marked, granted>>

-----------------------------------------------------------------------------
(* The supervisor between requests.                                        *)

Ready == mgr = "running" /\ op.pc = "idle"

(* A sing-box process exits by itself.                                     *)
Exit(s) ==
    /\ Alive(s)
    /\ Spend("exit")
    /\ procs' = [procs EXCEPT ![s] = NoConfig]
    /\ UNCHANGED <<durable, supervisor, child, restart, retry, op, granted>>

(* Mutant: the exit is noticed and nothing is scheduled.                   *)
HandleExitForgets ==
    /\ Ready /\ child # NoProc /\ ~Alive(child)
    /\ child' = NoProc
    /\ UNCHANGED <<durable, supervisor, restart, retry, procs, op, granted, budget>>

(* The exit channel: forget the child and arm the restart timer.           *)
HandleExit ==
    /\ Ready /\ child # NoProc /\ ~Alive(child)
    /\ child' = NoProc
    /\ retry' = (retry \/ (restart /\ hasActive))
    /\ UNCHANGED <<durable, supervisor, restart, procs, op, granted, budget>>

(* The restart timer fires.                                                *)
Retry ==
    /\ Ready /\ retry
    /\ \/ /\ ~restart \/ ~hasActive \/ file # active
          /\ restart' = (restart /\ ~hasActive)
          /\ retry' = FALSE
          /\ UNCHANGED <<child, procs, budget>>
       \/ /\ restart /\ hasActive /\ file = active
          /\ \E s \in Slots : LaunchReady(s)
          /\ retry' = FALSE
          /\ UNCHANGED restart
       \/ /\ restart /\ hasActive /\ file = active
          /\ \E s \in Slots : LaunchStuck(s)
          /\ restart' = FALSE
          /\ retry' = FALSE
       \/ /\ restart /\ hasActive /\ file = active
          /\ LaunchDead
          /\ UNCHANGED <<restart, retry>>
    /\ UNCHANGED <<durable, supervisor, op, granted>>

-----------------------------------------------------------------------------
(* applyCandidate, up to the validated candidate.                          *)

(* ApplyWithMode: filter the candidate through the authority.  A candidate *)
(* the authority cannot be applied to is answered at once.                 *)
Deploy ==
    /\ Ready
    /\ Spend("deploy")
    /\ \E d \in Deployments :
          LET refused == d.mode # "generic" /\ authority # NoAuthority /\ ~Parses(d.cfg)
          IN  op' = IF refused THEN Idle ELSE Request("deploy", Candidate(d.mode, d.cfg))
    /\ UNCHANGED <<durable, supervisor, child, restart, retry, procs, granted>>

Stale(a) == authority # NoAuthority /\ a.rev < authority.rev
Conflicts(a) == authority # NoAuthority /\ a.rev = authority.rev /\ a # authority

(* ApplyManagedUserAuthority answered without a change: an older revision  *)
(* counts as applied, a different authority of the same revision does not. *)
RefuseAuthority ==
    /\ Ready
    /\ Spend("authority")
    /\ \E a \in Authorities : Stale(a) \/ Conflicts(a)
    /\ UNCHANGED <<durable, supervisor, child, restart, retry, procs, op, granted>>

(* persistManagedUserAuthority fails before or after the file is replaced. *)
PersistAuthorityFails ==
    /\ Ready
    /\ SpendBoth("authority", "io")
    /\ \E a \in Authorities :
          /\ ~Stale(a) /\ ~Conflicts(a)
          /\ \/ UNCHANGED <<sidecar, granted>>
             \/ sidecar' = a /\ granted' = granted \cup a.users
    /\ UNCHANGED <<file, marked, supervisor, child, restart, retry, procs, op>>

(* The authority is persisted; what follows depends on the configuration   *)
(* that is active.                                                         *)
PersistAuthority(a) ==
    /\ Ready
    /\ ~Stale(a) /\ ~Conflicts(a)
    /\ sidecar' = a
    /\ authority' = a
    /\ UNCHANGED <<file, marked, mgr, active, hasActive>>

(* Nothing to change: no active configuration, or the same users.          *)
AuthorityHolds(a) ==
    /\ PersistAuthority(a)
    /\ Spend("authority")
    /\ hasActive => Parses(active) /\ Matched(active, a) /\ Overlay(active, a) = active
    /\ granted' = a.users
    /\ UNCHANGED <<child, restart, retry, procs, op>>

(* The active configuration has no managed-user service.                   *)
AuthorityUnusable(a) ==
    /\ PersistAuthority(a)
    /\ Spend("authority")
    /\ hasActive /\ ~Parses(active)
    /\ granted' = granted \cup a.users
    /\ UNCHANGED <<child, restart, retry, procs, op>>

(* suspendForAuthorityMismatch: the process is stopped, or cannot be.      *)
Suspend(a) ==
    /\ PersistAuthority(a)
    /\ hasActive /\ Parses(active) /\ ~Matched(active, a)
    /\ restart' = FALSE
    /\ retry' = FALSE
    /\ \/ /\ Spend("authority")
          /\ child' = NoProc
          /\ procs' = [s \in Slots |-> IF s = child THEN NoConfig ELSE procs[s]]
       \/ /\ SpendBoth("authority", "stop")
          /\ Alive(child)
          /\ UNCHANGED <<child, procs>>
    /\ granted' = granted \cup a.users
    /\ UNCHANGED <<op>>

(* The users change: continue as a users-plane activation.                 *)
ReplaceUsers(a) ==
    /\ PersistAuthority(a)
    /\ Spend("authority")
    /\ hasActive /\ Parses(active) /\ Matched(active, a)
    /\ Overlay(active, a) # active
    /\ op' = Request("authority", Overlay(active, a))
    /\ granted' = granted \cup a.users
    /\ UNCHANGED <<child, restart, retry, procs>>

ApplyManagedUserAuthority ==
    \E a \in Authorities :
        AuthorityHolds(a) \/ AuthorityUnusable(a) \/ Suspend(a) \/ ReplaceUsers(a)

(* validator.Check accepts the candidate.  A change of users alone goes    *)
(* through the API of the running process.                                 *)
Validate ==
    /\ op.pc = "check"
    /\ op' = [op EXCEPT !.pc = IF hasActive /\ child # NoProc /\ UsersOnly(active, op.cand)
                               THEN "reconcile" ELSE "stage"]
    /\ UNCHANGED <<durable, supervisor, child, restart, retry, procs, granted, budget>>

(* The candidate is invalid or its check fails; the request's deadline     *)
(* passes before the activation has begun.                                 *)
Reject ==
    /\ \/ op.pc = "check" /\ Spend("invalid")
       \/ op.pc \in {"check", "stage"} /\ ~op.dirty /\ Spend("timeout")
    /\ Answer
    /\ UNCHANGED <<durable, supervisor, child, restart, retry, procs, granted>>

-----------------------------------------------------------------------------
(* applyCandidate, users only: replace the users of the running process,   *)
(* then persist.  What fails here falls through to the restart.            *)

Reconcile ==
    /\ op.pc = "reconcile"
    /\ \/ /\ Alive(child)
          /\ procs' = [procs EXCEPT ![child] = op.cand]
          /\ op' = [op EXCEPT !.pc = "save", !.dirty = TRUE]
          /\ UNCHANGED budget
       \/ /\ Alive(child)
          /\ Spend("reconcile")
          /\ \E c \in PartlyReplaced(procs[child], op.cand) :
                procs' = [procs EXCEPT ![child] = c]
          /\ op' = [op EXCEPT !.pc = "stage", !.dirty = TRUE]
       \/ /\ ~Alive(child)
          /\ op' = [op EXCEPT !.pc = "stage", !.dirty = TRUE]
          /\ UNCHANGED <<procs, budget>>
    /\ UNCHANGED <<durable, supervisor, child, restart, retry, granted>>

SaveUsers ==
    /\ op.pc = "save"
    /\ file' = op.cand
    /\ active' = op.cand
    /\ hasActive' = TRUE
    /\ AnswerApplied
    /\ UNCHANGED <<sidecar, marked, mgr, authority, child, restart, retry, procs, budget>>

(* Staging or installing fails, the latter perhaps after the replacement.  *)
SaveUsersFails ==
    /\ op.pc = "save"
    /\ Spend("io")
    /\ file' \in {file, op.cand}
    /\ op' = [op EXCEPT !.pc = "stage"]
    /\ UNCHANGED <<sidecar, marked, supervisor, child, restart, retry, procs, granted>>

-----------------------------------------------------------------------------
(* applyCandidate, replacement of the process.                             *)

(* Mutant: the restart timer stays armed.                                  *)
StageKeepsTimer ==
    /\ op.pc = "stage"
    /\ op' = [op EXCEPT !.pc = "stop", !.child = child, !.restart = restart]
    /\ child' = NoProc
    /\ restart' = FALSE
    /\ UNCHANGED <<durable, supervisor, retry, procs, granted, budget>>

(* stageConfig, then take the supervision off the previous process.        *)
Stage ==
    /\ op.pc = "stage"
    /\ op' = [op EXCEPT !.pc = "stop", !.child = child, !.restart = restart]
    /\ child' = NoProc
    /\ restart' = FALSE
    /\ retry' = FALSE
    /\ UNCHANGED <<durable, supervisor, procs, granted, budget>>

StageFails ==
    /\ op.pc = "stage"
    /\ Fault("io")
    /\ Answer
    /\ UNCHANGED <<durable, supervisor, child, restart, retry, procs, granted>>

StopPrevious ==
    /\ op.pc = "stop"
    /\ procs' = [s \in Slots |-> IF s = op.child THEN NoConfig ELSE procs[s]]
    /\ op' = [op EXCEPT !.pc = "install"]
    /\ UNCHANGED <<durable, supervisor, child, restart, retry, granted, budget>>

(* The previous process outlives its kill: supervision goes on.            *)
StopFails ==
    /\ op.pc = "stop" /\ Alive(op.child)
    /\ Fault("stop")
    /\ child' = op.child
    /\ restart' = op.restart
    /\ Answer
    /\ UNCHANGED <<durable, supervisor, retry, procs, granted>>

Install ==
    /\ op.pc = "install"
    /\ file' = op.cand
    /\ op' = [op EXCEPT !.pc = "launch"]
    /\ UNCHANGED <<sidecar, marked, supervisor, child, restart, retry, procs, granted, budget>>

(* Mutant: a replacement whose sync failed is not undone.                  *)
InstallFailsKeepsFile ==
    /\ op.pc = "install"
    /\ Fault("io")
    /\ file' \in {file, op.cand}
    /\ op' = [op EXCEPT !.pc = "relaunch"]
    /\ UNCHANGED <<sidecar, marked, supervisor, child, restart, retry, procs, granted>>

(* The replacement fails, or its sync after it took effect.                *)
InstallFails ==
    /\ op.pc = "install"
    /\ Fault("io")
    /\ \/ UNCHANGED file /\ op' = [op EXCEPT !.pc = "relaunch"]
       \/ file' = op.cand /\ op' = [op EXCEPT !.pc = "restore"]
    /\ UNCHANGED <<sidecar, marked, supervisor, child, restart, retry, procs, granted>>

(* The candidate's process is ready, or cannot be made ready nor stopped.  *)
Activate ==
    /\ op.pc = "launch"
    /\ active' = op.cand
    /\ hasActive' = TRUE
    /\ \/ \E s \in Slots : LaunchReady(s) /\ restart' = TRUE /\ AnswerApplied
       \/ \E s \in Slots : LaunchStuck(s) /\ restart' = FALSE /\ Answer /\ UNCHANGED granted
    /\ UNCHANGED <<durable, mgr, authority, retry>>

ActivateFails ==
    /\ op.pc = "launch"
    /\ LaunchDead
    /\ op' = [op EXCEPT !.pc = "restore"]
    /\ UNCHANGED <<durable, supervisor, restart, retry, granted>>

(* restoreConfig: the previous file, or none when there was none.          *)
Previous == IF hasActive THEN active ELSE NoConfig

Restore ==
    /\ op.pc = "restore"
    /\ file' = Previous
    /\ op' = [op EXCEPT !.pc = "relaunch"]
    /\ UNCHANGED <<sidecar, marked, supervisor, child, restart, retry, procs, granted, budget>>

(* The previous configuration cannot be restored.  hasActive is cleared,   *)
(* the bytes in activeConfig are not.                                      *)
RestoreFails ==
    /\ op.pc = "restore"
    /\ Spend("restore")
    /\ file' \in {file, Previous}
    /\ hasActive' = FALSE
    /\ restart' = FALSE
    /\ Answer
    /\ UNCHANGED <<sidecar, marked, mgr, active, authority, child, retry, procs, granted>>

(* Mutant: a previous process that does not start is given up.             *)
RelaunchForgets ==
    /\ op.pc = "relaunch"
    /\ restart' = op.restart
    /\ \/ ~op.restart /\ UNCHANGED <<child, procs, budget>>
       \/ op.restart /\ (LaunchDead \/ \E s \in Slots : LaunchReady(s) \/ LaunchStuck(s))
    /\ Answer
    /\ UNCHANGED <<durable, supervisor, retry, granted>>

(* restartPreviousConfig, then the answer.                                 *)
Relaunch ==
    /\ op.pc = "relaunch"
    /\ restart' = op.restart
    /\ \/ /\ ~op.restart
          /\ UNCHANGED <<child, retry, procs, budget>>
       \/ /\ op.restart
          /\ \E s \in Slots : LaunchReady(s) \/ LaunchStuck(s)
          /\ UNCHANGED retry
       \/ /\ op.restart
          /\ LaunchDead
          /\ retry' = hasActive
    /\ Answer
    /\ UNCHANGED <<durable, supervisor, granted>>

-----------------------------------------------------------------------------
Supervise ==
    \/ HandleExit \/ Retry
    \/ Validate \/ Reconcile \/ SaveUsers \/ Stage \/ StopPrevious \/ Install
    \/ Activate \/ Restore \/ Relaunch

Faults ==
    \/ Reject \/ SaveUsersFails \/ StageFails \/ StopFails \/ InstallFails
    \/ ActivateFails \/ RestoreFails \/ PersistAuthorityFails

Next ==
    \/ ResetConfig \/ ResetAuthority \/ Quarantine \/ Start \/ Crash
    \/ \E s \in Slots : Exit(s)
    \/ Deploy \/ RefuseAuthority \/ ApplyManagedUserAuthority
    \/ Supervise \/ Faults

Spec == Init /\ [][Next]_vars

(* The supervisor goroutine runs and its timers fire.                      *)
FairSpec == Spec /\ WF_vars(Supervise)

-----------------------------------------------------------------------------
(* Properties.                                                             *)

(* Types of all variables, with the shape of the manager's bookkeeping.    *)
TypeOK ==
    /\ file \in Configs \cup {NoConfig}
    /\ sidecar \in Authority \cup {NoAuthority}
    /\ marked \in BOOLEAN
    /\ mgr \in {"down", "enrolling", "running"}
    /\ active \in Configs \cup {NoConfig}
    /\ hasActive \in BOOLEAN
    /\ hasActive => active # NoConfig
    /\ authority \in Authority \cup {NoAuthority}
    /\ child \in Slots \cup {NoProc}
    /\ restart \in BOOLEAN
    /\ retry \in BOOLEAN
    /\ procs \in [Slots -> Contents \cup {NoConfig}]
    /\ op \in Op
    /\ op.pc # "idle" => op.cand # NoConfig
    /\ granted \in SUBSET Users
    /\ budget \in [Kinds -> Nat]

(* launchProcess is never called while another sing-box of this Agent is   *)
(* alive: a stopped process is stopped before the next one is started, and *)
(* an armed timer never fires beside a live child.                         *)
OneProcess == \A s, t \in Slots : Alive(s) /\ Alive(t) => s = t

(* Between requests a configuration that is to be kept running has a       *)
(* child whose exit will be noticed or an armed restart timer, whatever    *)
(* failed in the requests before: supervise never forgets it.              *)
RestartArmed == Ready /\ restart /\ hasActive => child # NoProc \/ retry

(* Between requests the active file, the manager's memory and the users    *)
(* and shape its process serves agree, whichever of the steps of the last  *)
(* activation failed.                                                      *)
SettledAgree ==
    Ready /\ hasActive =>
        /\ file = active
        /\ Alive(child) => procs[child] = active

(* Once an authority was answered as applied, no process of the Agent lets *)
(* in a membership outside it, until an authority that holds it again is   *)
(* persisted: delayed deployments, failed activations and their rollback,  *)
(* restarts of the process and of the Agent included.                      *)
AckedRevocationHolds == \A s \in Slots : Alive(s) => procs[s].users \subseteq granted

(* Start never lets in a membership outside the persisted authority,       *)
(* wherever the Agent was interrupted before.                              *)
StartFailsClosed ==
    [][mgr = "down" /\ sidecar # NoAuthority =>
          \A s \in Slots : procs'[s] # NoConfig => procs'[s].users \subseteq sidecar.users]_vars

(* A configuration that is to be kept running runs again in the end.       *)
DataPlaneReturns ==
    (mgr = "running" /\ restart /\ hasActive)
        ~> (Alive(child) \/ ~restart \/ mgr # "running")

=============================================================================
