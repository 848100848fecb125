---------------------------- MODULE HostUpdates ----------------------------
(***************************************************************************)
(* Updates of the programs of one host (internal/agentupdate,              *)
(* internal/singboxupdate, cmd/theatropolis-update-helper, the update      *)
(* commands of internal/control/server.go and internal/agent/runner.go,    *)
(* the master's own update in internal/webui/handler.go and the systemd    *)
(* path units of install.sh).                                              *)
(*                                                                         *)
(* An unprivileged service asks for a release by writing a request file;   *)
(* systemd sees it and starts the root helper, which claims the file by a  *)
(* rename, verifies and installs the release, writes a result file and     *)
(* restarts the service.  The Agent reports results to the master, which   *)
(* keeps the newest request of each of its programs in memory.             *)
(*                                                                         *)
(* The host is the one of install.sh's role "all": master and Agent share  *)
(* the helper binary.  A release is its place in the order of              *)
(* compareReleaseVersions; downloads and signatures succeed or fail.       *)
(***************************************************************************)
EXTENDS Integers, Sequences, Functions

CONSTANTS
    MaxVersion, \* the newest release
    Limits,     \* bound: how many faults of each kind may strike
    Bounds      \* bounds: how many requests are issued and faults strike in all

Components == {"agent", "master", "singbox"}
Own == {"agent", "master"}      \* programs of a Theatropolis release
Remote == {"agent", "singbox"}  \* programs the master updates over a session

Missing == 0
Versions == 1 .. MaxVersion
Files == Versions \cup {Missing}
Ids == Nat \ {0}

FaultKinds == {"crash", "disk", "session", "agent", "master"}

ASSUME ConstantsAssumption ==
    /\ MaxVersion \in Nat \ {0}
    /\ Limits \in [FaultKinds -> Nat]
    /\ Bounds \subseteq [requests : Nat, faults : Nat]

Requests == [id : Ids, target : Versions]
NoRequest == [id |-> 0, target |-> Missing]
Results == [id : Ids, target : Versions, status : {"applied", "failed"}]
NoResult == [id |-> 0, target |-> Missing, status |-> "none"]
Statuses == {"requested", "scheduled", "rejected", "applied", "failed"}
Entries == [id : Ids, target : Versions, status : Statuses]

VARIABLES
    installed,  \* the installed binary of each program
    library,    \* the installed libcronet.so of sing-box
    helper,     \* the installed root helper
    running,    \* the release each own process was started from
    request,    \* update-request.json of each program
    processing, \* .update-request.processing.json
    result,     \* update-result.json
    job,        \* the helper process of each program's update service
    sched,      \* Schedule has seen no request file and goes on with this request
    held,       \* a result read by LoadResult and not yet acknowledged
    entry,      \* Server.updates and Server.singBoxUpdates of this Agent
    session,    \* the Agent's session with the master is up
    commands,   \* update commands on their way to the Agent
    reports,    \* update reports on their way to the master
    issued,     \* the newest request id
    spent,      \* how many faults of each kind have struck
    bound       \* the bounds of this behaviour

disk == <<installed, library, helper>>
files == <<request, processing, result>>
wire == <<session, commands, reports>>
vars == <<installed, library, helper, running, request, processing, result, job, sched,
          held, entry, session, commands, reports, issued, spent, bound>>

(* A fault of the environment strikes.                                     *)
Strike(k) ==
    /\ spent[k] < Limits[k]
    /\ SumFunction(spent) < bound.faults
    /\ spent' = [spent EXCEPT ![k] = @ + 1]

(* Where a helper stands in Apply, what it knows and what it has to put    *)
(* back: the helper binary it replaced, or the two files it moved aside.   *)
Steps == {"idle", "claim", "download", "helper", "binary", "undo", "candidate",
          "backupBinary", "backupLibrary", "installLibrary", "installBinary", "restore",
          "result", "restart", "finish"}
Jobs == [pc : Steps, running : Files, req : Requests \cup {NoRequest},
         status : {"applied", "failed"}, binary : Files, other : Files]
Idle == [pc |-> "idle", running |-> Missing, req |-> NoRequest, status |-> "failed",
         binary |-> Missing, other |-> Missing]

Goto(c, pc) == job' = [job EXCEPT ![c].pc = pc]
Conclude(c, status) == job' = [job EXCEPT ![c].pc = "result", ![c].status = status]

(* The installer puts one release of everything on the host.               *)
Init ==
    /\ installed = [c \in Components |-> 1]
    /\ library = 1
    /\ helper = 1
    /\ running = [c \in Own |-> 1]
    /\ request = [c \in Components |-> NoRequest]
    /\ processing = [c \in Components |-> NoRequest]
    /\ result = [c \in Components |-> NoResult]
    /\ job = [c \in Components |-> Idle]
    /\ sched = [c \in Components |-> NoRequest]
    /\ held = [c \in Components |-> NoResult]
    /\ entry = [c \in Remote |-> NoResult]
    /\ session = FALSE
    /\ commands = << >>
    /\ reports = << >>
    /\ issued = 0
    /\ spent = [k \in FaultKinds |-> 0]
    /\ bound \in Bounds

-----------------------------------------------------------------------------
(* The session between Agent and master.                                   *)

(* The command loop of the Agent is one goroutine.                         *)
AgentBusy == \E c \in Remote : sched[c] # NoRequest \/ held[c] # NoResult

Connect ==
    /\ ~session /\ ~AgentBusy
    /\ session' = TRUE
    /\ UNCHANGED <<disk, running, files, job, sched, held, entry, commands, reports, issued,
                   spent>>

(* Frames on their way are lost with the session.                          *)
EndSession == session' = FALSE /\ commands' = << >> /\ reports' = << >>

LoseSession ==
    /\ session /\ Strike("session")
    /\ EndSession
    /\ UNCHANGED <<disk, running, files, job, sched, held, entry, issued>>

Report(c, req, status) ==
    reports' = IF session
               THEN Append(reports, [component |-> c, id |-> req.id, target |-> req.target,
                                     status |-> status])
               ELSE reports

(* A new Agent process knows what is on disk and nothing else.             *)
AgentStarts ==
    /\ running' = [running EXCEPT !["agent"] = installed["agent"]]
    /\ sched' = [sched EXCEPT !["agent"] = NoRequest, !["singbox"] = NoRequest]
    /\ held' = [held EXCEPT !["agent"] = NoResult, !["singbox"] = NoResult]
    /\ EndSession

(* A new master process has forgotten the requests of its Agents.          *)
MasterStarts ==
    /\ running' = [running EXCEPT !["master"] = installed["master"]]
    /\ sched' = [sched EXCEPT !["master"] = NoRequest]
    /\ held' = [held EXCEPT !["master"] = NoResult]
    /\ entry' = [c \in Remote |-> NoResult]
    /\ EndSession

AgentRestarts ==
    /\ Strike("agent")
    /\ AgentStarts
    /\ UNCHANGED <<disk, files, job, entry, issued>>

MasterRestarts ==
    /\ Strike("master")
    /\ MasterStarts
    /\ UNCHANGED <<disk, files, job, issued>>

-----------------------------------------------------------------------------
(* Requests: the master asks the Agent, or schedules its own update.       *)

Pending == {"requested", "scheduled"}

(* QueueAgentUpdate, QueueSingBoxUpdate.  A Send that fails restores the   *)
(* previous entry.                                                         *)
QueueUpdate(c, v) ==
    /\ session
    /\ entry[c].status \notin Pending
    /\ issued < bound.requests
    /\ issued' = issued + 1
    /\ entry' = [entry EXCEPT ![c] = [id |-> issued', target |-> v, status |-> "requested"]]
    /\ commands' = Append(commands, [component |-> c, id |-> issued', target |-> v])
    /\ UNCHANGED <<disk, running, files, job, sched, held, session, reports, spent>>

(* Mutant: the claimed file is looked at first.                            *)
ClaimedFirst(i, c) == IF i = 1 THEN processing[c] ELSE request[c]

(* Schedule looks for a request and then for a claimed one.  The helper    *)
(* renames the one into the other at any moment.                           *)
PendingFile(i, c) == IF i = 1 THEN request[c] ELSE processing[c]

(* The first look, by the Agent ...                                        *)
ReceiveUpdate ==
    /\ session /\ ~AgentBusy /\ commands # << >>
    /\ LET command == Head(commands)
           c == command.component
           req == [id |-> command.id, target |-> command.target]
       IN IF PendingFile(1, c) # NoRequest
          THEN Report(c, req, "rejected") /\ UNCHANGED sched
          ELSE sched' = [sched EXCEPT ![c] = req] /\ UNCHANGED reports
    /\ commands' = Tail(commands)
    /\ UNCHANGED <<disk, running, files, job, held, entry, session, issued, spent>>

(* ... and by the master, which always updates to the newest release.      *)
UpdateMaster ==
    /\ sched["master"] = NoRequest
    /\ MaxVersion # running["master"]
    /\ issued < bound.requests
    /\ issued' = issued + 1
    /\ sched' = IF PendingFile(1, "master") # NoRequest THEN sched
                ELSE [sched EXCEPT !["master"] = [id |-> issued', target |-> MaxVersion]]
    /\ UNCHANGED <<disk, running, files, job, held, entry, wire, spent>>

Answer(c, status) ==
    IF c \in Remote THEN Report(c, sched[c], status) ELSE UNCHANGED reports

(* The second look, and the request is written.  It may be in place        *)
(* although writeAtomic fails: the directory is synchronised after the     *)
(* rename.                                                                 *)
ScheduleWrite(c) ==
    /\ sched[c] # NoRequest
    /\ \/ /\ PendingFile(2, c) # NoRequest
          /\ Answer(c, "rejected")
          /\ UNCHANGED <<request, spent>>
       \/ /\ PendingFile(2, c) = NoRequest
          /\ request' = [request EXCEPT ![c] = sched[c]]
          /\ Answer(c, "scheduled")
          /\ UNCHANGED spent
       \/ /\ PendingFile(2, c) = NoRequest /\ Strike("disk")
          /\ Answer(c, "rejected")
          /\ \/ UNCHANGED request
             \/ c \in Own /\ request' = [request EXCEPT ![c] = sched[c]]
    /\ sched' = [sched EXCEPT ![c] = NoRequest]
    /\ UNCHANGED <<disk, running, processing, result, job, held, entry, session, commands,
                   issued>>

-----------------------------------------------------------------------------
(* Results: the Agent reports them, the master's settings page discards    *)
(* its own failures.                                                       *)

SendResult(c) ==
    /\ session /\ ~AgentBusy
    /\ result[c] # NoResult
    /\ held' = [held EXCEPT ![c] = result[c]]
    /\ Report(c, result[c], result[c].status)
    /\ UNCHANGED <<disk, running, files, job, sched, entry, session, commands, issued, spent>>

SettingsPage ==
    /\ held["master"] = NoResult
    /\ result["master"].status = "failed"
    /\ held' = [held EXCEPT !["master"] = result["master"]]
    /\ UNCHANGED <<disk, running, files, job, sched, entry, wire, issued, spent>>

(* AcknowledgeResult compares the request id of whatever result is there   *)
(* by now; when it differs the Agent's session ends.                       *)
AcknowledgeResult(c) ==
    /\ held[c] # NoResult
    /\ held' = [held EXCEPT ![c] = NoResult]
    /\ IF result[c].id = held[c].id
       THEN result' = [result EXCEPT ![c] = NoResult] /\ UNCHANGED wire
       ELSE /\ UNCHANGED result
            /\ IF c \in Remote /\ result[c] # NoResult THEN EndSession ELSE UNCHANGED wire
    /\ UNCHANGED <<disk, running, request, processing, job, sched, entry, issued, spent>>

(* handleAgentUpdateReport, handleSingBoxUpdateReport: a report of another *)
(* request ends the session, unless it is the final one of an Agent update. *)
HandleReport ==
    /\ reports # << >>
    /\ LET r == Head(reports)
           matched == entry[r.component].id = r.id /\ entry[r.component].target = r.target
       IN \/ /\ matched
             /\ entry' = [entry EXCEPT ![r.component].status = r.status]
             /\ reports' = Tail(reports)
             /\ UNCHANGED <<session, commands>>
          \/ /\ ~matched
             /\ r.component = "agent" /\ r.status \in {"applied", "failed"}
             /\ reports' = Tail(reports)
             /\ UNCHANGED <<entry, session, commands>>
          \/ /\ ~matched
             /\ ~(r.component = "agent" /\ r.status \in {"applied", "failed"})
             /\ EndSession
             /\ UNCHANGED entry
    /\ UNCHANGED <<disk, running, files, job, sched, held, issued, spent>>

-----------------------------------------------------------------------------
(* The root helper.                                                        *)

(* Mutant: the path unit watches the request file alone.                   *)
WatchesRequest(c) == request[c] # NoRequest

(* The path unit of the master watches the claimed file as well, those of  *)
(* the Agent and of sing-box only the request.                             *)
Watches(c) == request[c] # NoRequest \/ (c = "master" /\ processing[c] # NoRequest)

(* The helper starts by asking the installed binary for its release.       *)
StartHelper(c) ==
    /\ job[c].pc = "idle" /\ Watches(c)
    /\ job' = [job EXCEPT ![c] = [Idle EXCEPT !.pc = "claim", !.running = installed[c]]]
    /\ UNCHANGED <<disk, running, files, sched, held, entry, wire, issued, spent>>

(* Mutant: the rename is tried although a request is already claimed.      *)
ClaimAgain(c) ==
    /\ job[c].pc = "claim"
    /\ processing' = [processing EXCEPT ![c] = request[c]]
    /\ request' = [request EXCEPT ![c] = NoRequest]
    /\ job' = [job EXCEPT ![c].pc = "download", ![c].req = request[c]]
    /\ UNCHANGED <<disk, running, result, sched, held, entry, wire, issued, spent>>

(* A request that is already claimed is taken up again.  The rename may    *)
(* fail and leave the request; a claimed file that cannot be read is       *)
(* removed without a result.                                               *)
Claim(c) ==
    /\ job[c].pc = "claim"
    /\ LET fresh == processing[c] = NoRequest
           claimed == IF fresh THEN request[c] ELSE processing[c]
           taken == IF fresh THEN [request EXCEPT ![c] = NoRequest] ELSE request
       IN \/ /\ processing' = [processing EXCEPT ![c] = claimed]
             /\ request' = taken
             /\ job' = [job EXCEPT ![c].pc = "download", ![c].req = claimed]
             /\ UNCHANGED spent
          \/ /\ fresh /\ Strike("disk")
             /\ job' = [job EXCEPT ![c] = Idle]
             /\ UNCHANGED <<request, processing>>
          \/ /\ Strike("disk")
             /\ request' = taken
             /\ processing' = [processing EXCEPT ![c] = claimed]
             /\ Goto(c, "finish")
    /\ UNCHANGED <<disk, running, result, sched, held, entry, wire, issued>>

(* Mutant: the installed release is not compared.                          *)
NoComparison(c, target, current) == FALSE

(* compareReleaseVersions; the sing-box helper accepts any release.        *)
Downgrades(c, target, current) == c \in Own /\ target < current

(* applyRelease up to the verified contents of the archive.  For a         *)
(* Theatropolis release the installed helper is read, to be put back.      *)
Download(c) ==
    /\ job[c].pc = "download"
    /\ \/ job[c].req.target = job[c].running /\ Conclude(c, "applied")
       \/ /\ job[c].req.target # job[c].running
          /\ Downgrades(c, job[c].req.target, job[c].running)
          /\ Conclude(c, "failed")
       \/ /\ job[c].req.target # job[c].running
          /\ ~Downgrades(c, job[c].req.target, job[c].running)
          /\ \/ Conclude(c, "failed")
             \/ c \in Own /\ job' = [job EXCEPT ![c].pc = "helper", ![c].other = helper]
             \/ c \notin Own /\ Goto(c, "candidate")
    /\ UNCHANGED <<disk, running, files, sched, held, entry, wire, issued, spent>>

(* installBinary: the rename may have happened although it fails, because  *)
(* the directory is synchronised afterwards.                               *)
InstallHelper(c) ==
    /\ job[c].pc = "helper"
    /\ \/ helper' = job[c].req.target /\ Goto(c, "binary") /\ UNCHANGED spent
       \/ /\ Strike("disk")
          /\ helper' \in {helper, job[c].req.target}
          /\ Conclude(c, "failed")
    /\ UNCHANGED <<installed, library, running, files, sched, held, entry, wire, issued>>

InstallBinary(c) ==
    /\ job[c].pc = "binary"
    /\ \/ /\ installed' = [installed EXCEPT ![c] = job[c].req.target]
          /\ Conclude(c, "applied")
          /\ UNCHANGED spent
       \/ /\ Strike("disk")
          /\ \E v \in {installed[c], job[c].req.target} : installed' = [installed EXCEPT ![c] = v]
          /\ Goto(c, "undo")
    /\ UNCHANGED <<library, helper, running, files, sched, held, entry, wire, issued>>

RollbackHelper(c) ==
    /\ job[c].pc = "undo"
    /\ \/ helper' = job[c].other /\ UNCHANGED spent
       \/ Strike("disk") /\ helper' \in {helper, job[c].other}
    /\ Conclude(c, "failed")
    /\ UNCHANGED <<installed, library, running, files, sched, held, entry, wire, issued>>

(* installComponents: the candidate must run, report its release and       *)
(* accept the active configuration.                                        *)
CheckCandidate ==
    /\ job["singbox"].pc = "candidate"
    /\ \/ Goto("singbox", "backupBinary")
       \/ Conclude("singbox", "failed")
    /\ UNCHANGED <<disk, running, files, sched, held, entry, wire, issued, spent>>

(* replaceComponents: both files are moved aside, then the library and the *)
(* binary are put in place.                                                *)
BackupBinary ==
    /\ job["singbox"].pc = "backupBinary"
    /\ \/ /\ job' = [job EXCEPT !["singbox"].pc = "backupLibrary",
                                !["singbox"].binary = installed["singbox"]]
          /\ installed' = [installed EXCEPT !["singbox"] = Missing]
          /\ UNCHANGED spent
       \/ Strike("disk") /\ Conclude("singbox", "failed") /\ UNCHANGED installed
    /\ UNCHANGED <<library, helper, running, files, sched, held, entry, wire, issued>>

BackupLibrary ==
    /\ job["singbox"].pc = "backupLibrary"
    /\ \/ /\ job' = [job EXCEPT !["singbox"].pc = "installLibrary",
                                !["singbox"].other = library]
          /\ library' = Missing
          /\ UNCHANGED <<installed, spent>>
       \/ /\ Strike("disk")
          /\ installed' = [installed EXCEPT !["singbox"] = job["singbox"].binary]
          /\ Conclude("singbox", "failed")
          /\ UNCHANGED library
    /\ UNCHANGED <<helper, running, files, sched, held, entry, wire, issued>>

InstallLibrary ==
    /\ job["singbox"].pc = "installLibrary"
    /\ \/ /\ library' = job["singbox"].req.target
          /\ Goto("singbox", "installBinary")
          /\ UNCHANGED spent
       \/ Strike("disk") /\ Goto("singbox", "restore") /\ UNCHANGED library
    /\ UNCHANGED <<installed, helper, running, files, sched, held, entry, wire, issued>>

InstallSingBox ==
    /\ job["singbox"].pc = "installBinary"
    /\ \/ /\ installed' = [installed EXCEPT !["singbox"] = job["singbox"].req.target]
          /\ Conclude("singbox", "applied")
          /\ UNCHANGED spent
       \/ Strike("disk") /\ Goto("singbox", "restore") /\ UNCHANGED installed
    /\ UNCHANGED <<library, helper, running, files, sched, held, entry, wire, issued>>

(* Mutant: only the binary is put back.                                    *)
RestoreBinary ==
    /\ job["singbox"].pc = "restore"
    /\ installed' = [installed EXCEPT !["singbox"] = job["singbox"].binary]
    /\ Conclude("singbox", "failed")
    /\ UNCHANGED <<library, helper, running, files, sched, held, entry, wire, issued, spent>>

(* restoreBackup removes what was installed and moves the old files back.  *)
RestoreBackup ==
    /\ job["singbox"].pc = "restore"
    /\ installed' = [installed EXCEPT !["singbox"] = job["singbox"].binary]
    /\ library' = job["singbox"].other
    /\ Conclude("singbox", "failed")
    /\ UNCHANGED <<helper, running, files, sched, held, entry, wire, issued, spent>>

(* Mutant: the error of applyRelease is dropped.                           *)
WriteApplied(c) ==
    /\ job[c].pc = "result"
    /\ result' = [result EXCEPT ![c] = [id |-> job[c].req.id, target |-> job[c].req.target,
                                        status |-> "applied"]]
    /\ Goto(c, "restart")
    /\ UNCHANGED <<disk, running, request, processing, sched, held, entry, wire, issued, spent>>

Written(c, status) ==
    [result EXCEPT ![c] = [id |-> job[c].req.id, target |-> job[c].req.target, status |-> status]]

(* A write that fails.  The one of agentupdate may have taken effect: it   *)
(* synchronises the directory after the rename.                            *)
WriteFails(c, status) ==
    /\ Strike("disk")
    /\ \/ UNCHANGED result
       \/ c \in Own /\ result' = Written(c, status)

(* An agentupdate restarts its service after a failure, too.  When the     *)
(* result cannot be written the helper stops.                              *)
WriteResult(c) ==
    /\ job[c].pc = "result"
    /\ \/ /\ result' = Written(c, job[c].status)
          /\ Goto(c, IF c \in Own \/ job[c].status = "applied" THEN "restart" ELSE "finish")
          /\ UNCHANGED spent
       \/ WriteFails(c, job[c].status) /\ Goto(c, "finish")
    /\ UNCHANGED <<disk, running, request, processing, sched, held, entry, wire, issued>>

Restart(c) ==
    /\ job[c].pc = "restart"
    /\ IF c = "master" THEN MasterStarts ELSE AgentStarts /\ UNCHANGED entry
    /\ Goto(c, "finish")
    /\ UNCHANGED <<disk, files, issued, spent>>

(* Mutant: a failed restart is not written down.                           *)
RestartFailsSilently(c) ==
    /\ job[c].pc = "restart"
    /\ Goto(c, "finish")
    /\ UNCHANGED <<disk, running, files, sched, held, entry, wire, issued, spent>>

(* systemctl fails or is cut off: the service runs what it ran before, and *)
(* the result is rewritten.                                                *)
RestartFails(c) ==
    /\ job[c].pc = "restart"
    /\ \/ /\ result' = IF job[c].status = "applied" THEN Written(c, "failed") ELSE result
          /\ UNCHANGED spent
       \/ job[c].status = "applied" /\ WriteFails(c, "failed")
    /\ Goto(c, "finish")
    /\ UNCHANGED <<disk, running, request, processing, sched, held, entry, wire, issued>>

(* The deferred removal of the claimed file.                               *)
Finish(c) ==
    /\ job[c].pc = "finish"
    /\ \/ processing' = [processing EXCEPT ![c] = NoRequest] /\ UNCHANGED spent
       \/ Strike("disk") /\ UNCHANGED processing
    /\ job' = [job EXCEPT ![c] = Idle]
    /\ UNCHANGED <<disk, running, request, result, sched, held, entry, wire, issued>>

(* The helper is killed: its backups become files nobody looks for.        *)
HelperCrash(c) ==
    /\ job[c].pc # "idle" /\ Strike("crash")
    /\ job' = [job EXCEPT ![c] = Idle]
    /\ UNCHANGED <<disk, running, files, sched, held, entry, wire, issued>>

HelperStep(c) ==
    \/ StartHelper(c) \/ Claim(c) \/ Download(c)
    \/ InstallHelper(c) \/ InstallBinary(c) \/ RollbackHelper(c)
    \/ WriteResult(c) \/ Restart(c) \/ RestartFails(c) \/ Finish(c)

SingBoxStep ==
    \/ CheckCandidate \/ BackupBinary \/ BackupLibrary \/ InstallLibrary \/ InstallSingBox
    \/ RestoreBackup

Step ==
    \/ Connect \/ LoseSession \/ AgentRestarts \/ MasterRestarts
    \/ ReceiveUpdate \/ UpdateMaster \/ SettingsPage \/ HandleReport
    \/ \E c \in Remote : (\E v \in Versions : QueueUpdate(c, v)) \/ SendResult(c)
    \/ \E c \in Components : ScheduleWrite(c) \/ AcknowledgeResult(c) \/ HelperStep(c)
                             \/ HelperCrash(c)
    \/ SingBoxStep

Next == Step /\ UNCHANGED bound

Spec == Init /\ [][Next]_vars

(* systemd starts a helper whose path unit is triggered, and a process     *)
(* that runs goes on: downloads and commands have deadlines.               *)
UpdateFairness ==
    /\ \A c \in Components : WF_vars(HelperStep(c) /\ UNCHANGED bound)
    /\ WF_vars(SingBoxStep /\ UNCHANGED bound)

FairSpec == Spec /\ UpdateFairness

-----------------------------------------------------------------------------
(* Properties.                                                             *)

Frames == [component : Remote, id : Ids, target : Versions]
ReportFrames == [component : Remote, id : Ids, target : Versions, status : Statuses]

(* Every variable holds a value of its kind (the structures of             *)
(* internal/agentupdate, internal/singboxupdate and control.Server).       *)
TypeOK ==
    /\ installed \in [Components -> Files] /\ library \in Files /\ helper \in Files
    /\ running \in [Own -> Files]
    /\ request \in [Components -> Requests \cup {NoRequest}]
    /\ processing \in [Components -> Requests \cup {NoRequest}]
    /\ sched \in [Components -> Requests \cup {NoRequest}]
    /\ result \in [Components -> Results \cup {NoResult}]
    /\ held \in [Components -> Results \cup {NoResult}]
    /\ job \in [Components -> Jobs]
    /\ entry \in [Remote -> Entries \cup {NoResult}]
    /\ session \in BOOLEAN /\ commands \in Seq(Frames) /\ reports \in Seq(ReportFrames)
    /\ issued \in Nat /\ spent \in [FaultKinds -> Nat] /\ bound \in Bounds

(* Scheduler.Schedule never adds a request beside one that a helper has    *)
(* claimed, although the helper renames the file between its two looks:    *)
(* the claimed request would be installed and its successor lost or        *)
(* answered for the wrong id.                                              *)
OneRequest == \A c \in Components : request[c] = NoRequest \/ processing[c] = NoRequest

Delivered(c, r) == r.status = "applied" => installed[c] >= r.target

(* Whoever holds the word applied about a Theatropolis program (the result *)
(* file, a report on its way, the master's entry) finds at least that      *)
(* release installed (agentupdate.Apply).                                  *)
AppliedIsInstalled ==
    /\ \A c \in Own : Delivered(c, result[c]) /\ Delivered(c, held[c])
    /\ Delivered("agent", entry["agent"])
    /\ \A i \in DOMAIN reports :
        reports[i].component \in Own => Delivered(reports[i].component, reports[i])

(* When the helper has finished and the result still says applied, the     *)
(* service was restarted from that release (agentupdate.Apply rewrites the *)
(* result of a failed restart), unless a file operation failed.            *)
AppliedIsRunning ==
    \A c \in Own :
        /\ result[c].status = "applied"
        /\ job[c].pc = "idle" /\ processing[c] = NoRequest
        /\ spent["disk"] = 0
        => running[c] >= result[c].target

(* Outside replaceComponents the sing-box binary and its library are of    *)
(* one release, or both missing, also after a failed installation; only a  *)
(* helper that was killed may leave them apart.                            *)
ComponentsPaired ==
    job["singbox"].pc \notin {"backupLibrary", "installLibrary", "installBinary", "restore"}
      /\ spent["crash"] = 0
    => installed["singbox"] = library

(* The installed Agent and master never go back to an older release, in    *)
(* any interleaving of requests, helpers and crashes ("rejects             *)
(* Theatropolis downgrades", SECURITY.md).                                 *)
NoDowngrade == [][\A c \in Own : installed'[c] >= installed[c]]_vars

(* A request file is answered in the end: it is claimed and its claim      *)
(* removed.  The master's path unit makes this true even of a helper that  *)
(* is killed; the units of the Agent and of sing-box do not watch the      *)
(* claimed file, so there it needs helpers that live, and a removal that   *)
(* fails blocks them as well.                                              *)
RequestsAreServed ==
    []<>(\A c \in Components :
            \/ request[c] = NoRequest /\ processing[c] = NoRequest
            \/ c # "master" /\ (spent["crash"] > 0 \/ spent["disk"] > 0))

(* The result of an update the master knows as scheduled is never lost: it *)
(* is still to come, on the Agent's disk or on its way.  ("The helper      *)
(* result intentionally survives an agent restart until the master accepts *)
(* it", control/server.go.)                                                *)
ResultSurvives ==
    \A c \in Remote :
        entry[c].status = "scheduled" =>
            \/ \E r \in {request[c], processing[c], result[c]} : r.id = entry[c].id
            \/ \E i \in DOMAIN reports : reports[i].component = c /\ reports[i].id = entry[c].id

=============================================================================
