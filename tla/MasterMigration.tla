---------------------------- MODULE MasterMigration ----------------------------
(***************************************************************************)
(* Moving a master to another host.                                        *)
(*                                                                         *)
(* Export (service.go) reads five stores that have a lock each, one after  *)
(* the other, until two readings agree.  StageRestore (restore.go) writes  *)
(* an archive beside the live files of the new master and asks for a       *)
(* restart; ApplyPendingRestore installs it, rename by rename, before any  *)
(* store is opened, and is resumed by the next start when it is cut off.   *)
(* The cutover sends the Agents of the old master to the new one: an Agent *)
(* records the address, reports, exits, and dials it when it starts again. *)
(***************************************************************************)
EXTENDS Naturals, Sequences

CONSTANTS
    Movers,             \* Agents of the old master
    Uploads,            \* contents of the archives an operator uploads
    Unreadable,         \* those a store refuses to open
    OwnData,            \* the data of the new master before the restore
    Mixed,              \* a database read through the log of another one
    NoFile,             \* no file
    MigrationBudgets    \* edits, exports, uploads, cutovers, crashes, faults

ASSUME MigrationConstants ==
    /\ Unreadable \subseteq Uploads \cup {Mixed}
    /\ OwnData # Mixed /\ OwnData # NoFile /\ Mixed # NoFile
    /\ {OwnData, Mixed, NoFile} \cap Uploads = {}
    /\ MigrationBudgets \subseteq [edits : Nat, exports : Nat, uploads : Nat, cutovers : Nat,
                                   crashes : Nat, faults : Nat]

VARIABLES
    versions,   \* old master: a version of each store
    journalled, \* a topology transaction is on disk
    export,     \* an export under way
    instants,   \* history: what the stores held together since it began
    archive,    \* what the last export wrote
    volume,     \* new master: live, staged and backed up files
    process,    \* new master: its process
    movers,     \* the Agents
    quota       \* what is left of the budget

migrationVars == <<versions, journalled, export, instants, archive, volume, process, movers, quota>>

\* in the order in which they are read; the state and its ledger are read
\* under the lock of their store
ReadOrder == <<"nodes", "identities", "pool", "deployments", "users">>
Sources == {ReadOrder[i] : i \in 1..Len(ReadOrder)}

\* in the order in which they are installed
installTargets == <<"nodes", "ledger", "identities", "pool", "auth", "deployments">>
StateFiles == {installTargets[i] : i \in 1..Len(installTargets)}

Attempts == 4
NoReading == <<>>
Spend(kind) == quota[kind] > 0 /\ quota' = [quota EXCEPT ![kind] = @ - 1]

-----------------------------------------------------------------------------
(* Export.                                                                 *)

oldMaster == <<versions, journalled, export, instants, archive>>
newMaster == <<volume, process>>

Exporting == export.pc # "idle"

\* the state the stores are in after a step, as far as it may be exported
Seen == instants' = IF Exporting /\ ~journalled' THEN instants \cup {versions'} ELSE instants

\* any store changes on its own: an enrolment, a report, a password
EditStore(s) ==
    /\ Spend("edits")
    /\ versions' = [versions EXCEPT ![s] = @ + 1]
    /\ UNCHANGED <<journalled, export, archive, volume, process, movers>>
    /\ Seen

\* a rollout saves its journal, changes records and the applied topology, and
\* removes the journal
BeginRollout ==
    /\ ~journalled /\ Spend("edits")
    /\ journalled' = TRUE
    /\ UNCHANGED <<versions, export, archive, volume, process, movers>>
    /\ Seen

EndRollout ==
    /\ journalled
    /\ journalled' = FALSE
    /\ versions' = [versions EXCEPT !["nodes"] = @ + 1]
    /\ Seen
    /\ UNCHANGED <<export, archive, volume, process, movers, quota>>

IdleExport == [pc |-> "idle", attempt |-> 0, previous |-> NoReading, current |-> NoReading]

snapshotFiles ==
    /\ export.pc = "idle" /\ Spend("exports")
    /\ export' = [IdleExport EXCEPT !.pc = "before", !.attempt = 1]
    /\ instants' = IF journalled THEN {} ELSE {versions}
    /\ archive' = NoReading
    /\ UNCHANGED <<versions, journalled, volume, process, movers>>

\* mutant: one reading is enough
settleAtOnce == [archive |-> export.current, next |-> IdleExport]

\* two readings that agree are the archive; four that never do are an error
settle ==
    IF export.previous = export.current THEN [archive |-> export.current, next |-> IdleExport]
    ELSE [archive |-> NoReading,
          next |-> IF export.attempt = Attempts THEN IdleExport
                   ELSE [pc |-> "before", attempt |-> export.attempt + 1,
                         previous |-> export.current, current |-> NoReading]]

requireNoTopologyTransaction ==
    /\ export.pc \in {"before", "after"}
    /\ \/ /\ journalled
          /\ export' = IdleExport /\ UNCHANGED archive
       \/ /\ ~journalled /\ export.pc = "before"
          /\ export' = [export EXCEPT !.pc = "reading"] /\ UNCHANGED archive
       \/ /\ ~journalled /\ export.pc = "after"
          /\ export' = settle.next /\ archive' = settle.archive
    /\ UNCHANGED <<versions, journalled, instants, volume, process, movers, quota>>

MigrationSnapshot ==
    /\ export.pc = "reading"
    /\ LET current == Append(export.current, versions[ReadOrder[Len(export.current) + 1]])
       IN export' = [export EXCEPT !.current = current,
                                   !.pc = IF Len(current) = Len(ReadOrder) THEN "after" ELSE @]
    /\ UNCHANGED <<versions, journalled, instants, archive, volume, process, movers, quota>>

-----------------------------------------------------------------------------
(* StageRestore: an archive is unpacked beside the live files.             *)

Nothing == [f \in StateFiles |-> NoFile]

\* an archive without deployment records has no directory for them
requiredFiles == IF process.records THEN StateFiles ELSE StateFiles \ {"deployments"}

Working(pc) == process.pc = pc

StageRestore(upload) ==
    /\ Working("serving") /\ process.opened = [f \in StateFiles |-> OwnData]
    /\ Spend("uploads")
    /\ IF volume.dir THEN UNCHANGED newMaster
       ELSE /\ volume' = [volume EXCEPT !.dir = TRUE]
            /\ \E records \in BOOLEAN :
                 process' = [process EXCEPT !.pc = "staging", !.upload = upload, !.records = records]
    /\ UNCHANGED <<oldMaster, movers>>

\* the entries of the archive, in any order
writeEntry(f) ==
    /\ Working("staging") /\ ~volume.marker
    /\ f \in requiredFiles /\ volume.staged[f] = NoFile
    /\ volume' = [volume EXCEPT !.staged[f] = process.upload]
    /\ UNCHANGED <<oldMaster, process, movers, quota>>

writeMarker ==
    /\ Working("staging") /\ ~volume.marker
    /\ \A f \in requiredFiles : volume.staged[f] # NoFile
    /\ volume' = [volume EXCEPT !.marker = TRUE]
    /\ UNCHANGED <<oldMaster, process, movers, quota>>

\* the stores are opened in the stage: the deployments get their directory,
\* the ledger a log that is there until it is closed
validateStage ==
    /\ Working("staging") /\ volume.marker /\ process.upload \notin Unreadable
    /\ volume' = [volume EXCEPT !.staged["deployments"] = process.upload, !.junk = TRUE]
    /\ process' = [process EXCEPT !.pc = "validating"]
    /\ UNCHANGED <<oldMaster, movers, quota>>

keepStage ==
    /\ Working("validating")
    /\ volume' = [volume EXCEPT !.junk = FALSE]
    /\ process' = [process EXCEPT !.pc = "staged", !.validated = @ \cup {process.upload}]
    /\ UNCHANGED <<oldMaster, movers, quota>>

\* a write that fails, or a stage that is not valid: all of it is removed
discardStage ==
    /\ Working("staging")
    /\ \/ volume.marker /\ process.upload \in Unreadable /\ UNCHANGED quota
       \/ Spend("faults")
    /\ volume' = [volume EXCEPT !.staged = Nothing, !.dir = FALSE, !.marker = FALSE]
    /\ process' = [process EXCEPT !.pc = "serving"]
    /\ UNCHANGED <<oldMaster, movers>>

requestRestart ==
    /\ Working("staged")
    /\ process' = [process EXCEPT !.pc = "down"]
    /\ UNCHANGED <<oldMaster, volume, movers, quota>>

CrashNewMaster ==
    /\ ~Working("down") /\ Spend("crashes")
    /\ process' = [process EXCEPT !.pc = "down"]
    /\ UNCHANGED <<oldMaster, volume, movers>>

-----------------------------------------------------------------------------
(* ApplyPendingRestore, and the opening of the stores.                     *)

Fail == process' = [process EXCEPT !.pc = "down"]

ApplyPendingRestore ==
    /\ Working("down")
    /\ process' = [process EXCEPT !.pc = IF volume.marker THEN "installing" ELSE "opening", !.at = 1]
    /\ UNCHANGED <<oldMaster, volume, movers, quota>>

Target == installTargets[process.at]
Advance == process' = [process EXCEPT !.at = @ + 1]
Installing == Working("installing") /\ process.at <= Len(installTargets)

\* an earlier attempt installed this one
skipInstalled ==
    /\ Installing /\ volume.staged[Target] = NoFile
    /\ IF volume.live[Target] = NoFile THEN Fail ELSE Advance
    /\ UNCHANGED <<oldMaster, volume, movers, quota>>

\* mutant: a backup of an earlier attempt stops the installation
renameLiveOnce ==
    /\ Installing /\ volume.staged[Target] # NoFile
    /\ \/ volume.backup[Target] # NoFile /\ Fail /\ UNCHANGED volume
       \/ /\ volume.backup[Target] = NoFile /\ volume.live[Target] # NoFile
          /\ volume' = [volume EXCEPT !.backup[Target] = volume.live[Target], !.live[Target] = NoFile]
          /\ UNCHANGED process
    /\ UNCHANGED <<oldMaster, movers, quota>>

renameLive ==
    /\ Installing /\ volume.staged[Target] # NoFile /\ volume.live[Target] # NoFile
    /\ IF volume.backup[Target] # NoFile THEN Fail /\ UNCHANGED volume
       ELSE /\ volume' = [volume EXCEPT !.backup[Target] = volume.live[Target], !.live[Target] = NoFile]
            /\ UNCHANGED process
    /\ UNCHANGED <<oldMaster, movers, quota>>

renameStaged ==
    /\ Installing /\ volume.staged[Target] # NoFile /\ volume.live[Target] = NoFile
    /\ volume' = [volume EXCEPT !.live[Target] = volume.staged[Target], !.staged[Target] = NoFile]
    /\ Advance
    /\ UNCHANGED <<oldMaster, movers, quota>>

\* the browser sessions are retired, the directory is synced, then the marker
\* goes
removeMarker ==
    /\ Working("installing") /\ process.at > Len(installTargets) /\ volume.marker
    /\ volume' = [volume EXCEPT !.marker = FALSE, !.sessions = FALSE]
    /\ UNCHANGED <<oldMaster, process, movers, quota>>

\* what a validation that was cut off left there keeps the stage
removeStage ==
    /\ Working("installing") /\ process.at > Len(installTargets) /\ ~volume.marker
    /\ IF volume.junk THEN Fail /\ UNCHANGED volume
       ELSE /\ volume' = [volume EXCEPT !.dir = FALSE]
            /\ process' = [process EXCEPT !.pc = "opening"]
    /\ UNCHANGED <<oldMaster, movers, quota>>

\* a store without a file starts empty; the ledger is read through the log
\* beside it, whichever database the log was written for, and goes on with what
\* it read, if it can be read
openStores ==
    LET found == [f \in StateFiles |-> IF volume.live[f] = NoFile THEN OwnData ELSE volume.live[f]]
        ledger == IF volume.log \in {NoFile, found["ledger"]} THEN found["ledger"] ELSE Mixed
        opened == [found EXCEPT !["ledger"] = ledger]
    IN /\ Working("opening")
       /\ IF \E f \in StateFiles : opened[f] \in Unreadable THEN Fail /\ UNCHANGED volume
          ELSE /\ volume' = [volume EXCEPT !.live = opened, !.log = opened["ledger"], !.sessions = TRUE]
               /\ process' = [process EXCEPT !.pc = "serving", !.opened = opened]
       /\ UNCHANGED <<oldMaster, movers, quota>>

\* an export on this master empties the log
checkpoint ==
    /\ Working("serving") /\ volume.log # NoFile /\ Spend("exports")
    /\ volume' = [volume EXCEPT !.log = NoFile]
    /\ UNCHANGED <<oldMaster, process, movers>>

-----------------------------------------------------------------------------
(* The cutover of the Agents.  An Agent dials the address it read when it  *)
(* started; whether it has staged another one is known to the session.     *)

others == <<oldMaster, newMaster>>

QueueOnlineMasterMigration ==
    /\ Spend("cutovers")
    /\ movers' = [a \in Movers |->
            IF movers[a].session = "ready" /\ movers[a].dials = "old"
            THEN [movers[a] EXCEPT !.session = "ordered"] ELSE movers[a]]
    /\ UNCHANGED others

StageMasterMigration(a) ==
    /\ movers[a].session = "ordered"
    /\ movers' = [movers EXCEPT ![a].target = "new", ![a].session = "answering"]
    /\ UNCHANGED <<others, quota>>

sendReport(a) ==
    /\ movers[a].session = "answering"
    /\ movers' = [movers EXCEPT ![a].session = "answered"]
    /\ UNCHANGED <<others, quota>>

\* the stream ends, from the master's side when it has the report, or the
\* Agent's timer fires: the process exits and its service manager starts it
masterMigrationExit(a) ==
    /\ movers[a].session = "answered"
    /\ movers' = [movers EXCEPT ![a].session = "none", ![a].dials = movers[a].target]
    /\ UNCHANGED <<others, quota>>

\* a session that ends before the report is out is only reconnected
loseSession(a) ==
    /\ movers[a].session \in {"ready", "ordered", "answering"} /\ Spend("faults")
    /\ movers' = [movers EXCEPT ![a].session = "none"]
    /\ UNCHANGED others

reconnect(a) ==
    /\ movers[a].session = "none"
    /\ movers' = [movers EXCEPT ![a].session = "ready"]
    /\ UNCHANGED <<others, quota>>

restartAgent(a) ==
    /\ Spend("crashes")
    /\ movers' = [movers EXCEPT ![a].session = "none", ![a].dials = movers[a].target]
    /\ UNCHANGED others

-----------------------------------------------------------------------------

MigrationInit ==
    /\ versions = [s \in Sources |-> 0] /\ journalled = FALSE
    /\ export = IdleExport /\ instants = {} /\ archive = NoReading
    /\ volume = [live |-> [f \in StateFiles |-> OwnData], staged |-> Nothing, backup |-> Nothing,
               dir |-> FALSE, marker |-> FALSE, junk |-> FALSE, log |-> OwnData, sessions |-> TRUE]
    /\ process = [pc |-> "serving", opened |-> volume.live, at |-> 1,
                  upload |-> NoFile, records |-> TRUE, validated |-> {}]
    /\ movers = [a \in Movers |-> [dials |-> "old", target |-> "old", session |-> "ready"]]
    /\ quota \in MigrationBudgets

Staging == (\E f \in StateFiles : writeEntry(f)) \/ writeMarker \/ validateStage \/ keepStage \/ requestRestart

Installation ==
    \/ ApplyPendingRestore
    \/ skipInstalled \/ renameLive \/ renameStaged
    \/ removeMarker \/ removeStage
    \/ openStores

Cutover(a) == StageMasterMigration(a) \/ sendReport(a) \/ masterMigrationExit(a) \/ reconnect(a)

MigrationNext ==
    \/ \E s \in Sources : EditStore(s)
    \/ BeginRollout \/ EndRollout
    \/ snapshotFiles \/ requireNoTopologyTransaction \/ MigrationSnapshot
    \/ \E upload \in Uploads : StageRestore(upload)
    \/ Staging \/ discardStage
    \/ CrashNewMaster \/ Installation \/ checkpoint
    \/ QueueOnlineMasterMigration
    \/ \E a \in Movers : Cutover(a) \/ loseSession(a) \/ restartAgent(a)

\* The handler, the service manager that restarts a process and the Agent's
\* session loop go on; the operator, faults and crashes are free.
MigrationFairness ==
    /\ WF_migrationVars(Staging) /\ WF_migrationVars(Installation)
    /\ \A a \in Movers : WF_migrationVars(Cutover(a))

MigrationSpec == MigrationInit /\ [][MigrationNext]_migrationVars /\ MigrationFairness

-----------------------------------------------------------------------------
(* Properties.                                                             *)

Contents == Uploads \cup {OwnData, Mixed, NoFile}

\* Type invariant.
MigrationTypeOK ==
    /\ versions \in [Sources -> Nat] /\ journalled \in BOOLEAN
    /\ volume.live \in [StateFiles -> Contents] /\ volume.staged \in [StateFiles -> Contents]
    /\ volume.backup \in [StateFiles -> Contents] /\ volume.log \in Contents
    /\ volume.marker => volume.dir
    /\ process.at \in 1..(Len(installTargets) + 1)
    /\ export.attempt \in 0..Attempts

\* What is exported was held by all the stores at one instant outside any
\* rollout, though they were read one by one while they changed.
ExportIsInstant ==
    archive # NoReading =>
        \E instant \in instants : \A i \in 1..Len(ReadOrder) : archive[i] = instant[ReadOrder[i]]

\* Wherever an installation is cut off, every file of the new master is there,
\* live or backed up, and so is what replaces it.
NothingIsLost ==
    \A f \in StateFiles :
        /\ OwnData \in {volume.live[f], volume.backup[f]}
        /\ Working("installing") /\ f \in requiredFiles => volume.staged[f] # NoFile \/ volume.live[f] # OwnData

\* The stores are opened on the data of one master: never on a part of the
\* new files, however often the installation was cut off and resumed.
OpenedAsOne ==
    Working("serving") =>
        \E content \in Contents : \A f \in requiredFiles \ {"ledger"} : process.opened[f] = content

\* A migration keeps the data whole: all of the above, through every crash
\* (MigrationSnapshot, StageRestore, ApplyPendingRestore).
DataStaysWhole ==
    /\ MigrationTypeOK
    /\ ExportIsInstant
    /\ NothingIsLost
    /\ OpenedAsOne

\* A restore that was staged and validated is installed and served in the end.
RestoreResumes ==
    []<>(process.upload \in process.validated
            => Working("serving") /\ process.opened["nodes"] = process.upload)

\* An Agent that recorded the address of the new master dials it in the end.
CutoverTakesEffect ==
    []<>(\A a \in Movers : movers[a].target = "new" => movers[a].dials = "new")

\* What a migration has begun is carried through: both of the above.
MigrationCompletes == RestoreResumes /\ CutoverTakesEffect

\* restore.go:285: what is installed is the validated archive, the ledger too.
LedgerIsRestored ==
    Working("serving") /\ process.opened["nodes"] \in Uploads
        => process.opened["ledger"] = process.opened["nodes"]

\* restore.go:285: only what was validated is installed.
InstalledIsValidated ==
    \A f \in StateFiles : volume.live[f] \in Uploads => volume.live[f] \in process.validated
=============================================================================
