-------------------------- MODULE MaintenanceProofs --------------------------
(***************************************************************************)
(* Proofs about the maintenance of a deployment: moving a Master to        *)
(* another host and updating the programs of a host.  Neither reads the    *)
(* state of the other; each part has its own invariant.                    *)
(*                                                                         *)
(* Moving a master keeps its data whole, for any number of edits, exports, *)
(* uploads, cutovers, crashes and faults.                                  *)
(*                                                                         *)
(* The export: while a reading is under way, the versions read by the      *)
(* previous one are at most, and those read so far at least, what all the  *)
(* stores held at one instant outside any rollout, the end of the previous *)
(* reading (ReadingInv).  Two readings that agree are that instant.        *)
(*                                                                         *)
(* The installation: no file of the new master is overwritten before it is *)
(* backed up (BackedUp), everything the marker announces is staged or live *)
(* (Announced), the targets before the current one are installed (Prefix), *)
(* and without a marker the live files are of one master (LiveInv).        *)
(***************************************************************************)
EXTENDS HostUpdates, MasterMigration, TLAPS

-----------------------------------------------------------------------------
(* The invariant of the export.                                            *)

Reading == Seq(Nat)
Last == Len(ReadOrder)

ExportTypes ==
    /\ versions \in [Sources -> Nat] /\ journalled \in BOOLEAN
    /\ instants \in SUBSET [Sources -> Nat]
    /\ export \in [pc : {"idle", "before", "reading", "after"}, attempt : 0..Attempts,
                   previous : Reading, current : Reading]
    /\ archive \in Reading

(* What was read of the stores, or held by them, is never ahead of them.   *)
ReadBefore ==
    /\ \A i \in 1..Len(export.current) : export.current[i] <= versions[ReadOrder[i]]
    /\ \A instant \in instants, s \in Sources : instant[s] <= versions[s]

(* An instant between the previous reading and the current one.            *)
Between(instant) ==
    /\ \A i \in 1..Last : export.previous[i] <= instant[ReadOrder[i]]
    /\ \A i \in 1..Len(export.current) : instant[ReadOrder[i]] <= export.current[i]

ReadingInv ==
    /\ Exporting /\ ~journalled => versions \in instants
    /\ export.pc \in {"idle", "before"} => export.current = NoReading
    /\ export.pc = "reading" => Len(export.current) < Last
    /\ export.pc = "after" => Len(export.current) = Last
    /\ export.previous # NoReading =>
          Len(export.previous) = Last /\ \E instant \in instants : Between(instant)

ExportInv == ExportTypes /\ ReadBefore /\ ReadingInv /\ ExportIsInstant

-----------------------------------------------------------------------------
(* The invariant of the installation.                                      *)

Places == 1..Len(installTargets)
NotLedger == StateFiles \ {"ledger"}
AllOwn(stored) == \A f \in NotLedger : stored[f] = OwnData
Before == {"staging", "validating", "staged"}

InstallTypes ==
    /\ volume \in [live : [StateFiles -> Contents], staged : [StateFiles -> Contents],
                   backup : [StateFiles -> Contents], dir : BOOLEAN, marker : BOOLEAN,
                   junk : BOOLEAN, log : Contents, sessions : BOOLEAN]
    /\ process \in [pc : {"serving", "down", "installing", "opening"} \cup Before,
                    opened : [StateFiles -> Contents], at : 1..(Len(installTargets) + 1),
                    upload : Uploads \cup {NoFile}, records : BOOLEAN,
                    validated : SUBSET (Uploads \cup {NoFile})]

(* A file of the new master is live until it is backed up; until then the  *)
(* log beside the ledger is its own.                                       *)
BackedUp ==
    /\ \A f \in StateFiles :
          volume.backup[f] = OwnData \/ (volume.backup[f] = NoFile /\ volume.live[f] = OwnData)
    /\ volume.backup["ledger"] = NoFile => volume.log \in {NoFile, OwnData}

(* The stage holds files of the last upload only, and none without a       *)
(* directory.                                                              *)
StageInv ==
    /\ \A f \in StateFiles : volume.staged[f] \in {NoFile, process.upload}
    /\ ~volume.dir => volume.staged = Nothing
    /\ volume.marker => volume.dir
    /\ process.pc \in Before => volume.dir /\ process.upload \in Uploads
    /\ process.pc \in {"serving", "opening"} => ~volume.marker

(* A file the marker announces is staged or installed.                     *)
Announced ==
    volume.marker \/ Working("installing") =>
        \A f \in requiredFiles : volume.staged[f] # NoFile \/ volume.live[f] # OwnData

(* An installation has dealt with the targets before the current one.      *)
Prefix ==
    Working("installing") =>
        /\ \A i \in Places : i < process.at =>
              volume.staged[installTargets[i]] = NoFile /\ volume.live[installTargets[i]] # NoFile
        /\ ~volume.marker => process.at > Len(installTargets)

(* What is live is of the new master itself or of the last upload; of one  *)
(* of them when no marker says otherwise.                                  *)
LiveInv ==
    /\ \A f \in NotLedger : volume.live[f] \in {OwnData, NoFile, process.upload}
    /\ ~volume.marker =>
          \/ AllOwn(volume.live)
          \/ /\ process.upload \in Uploads
             /\ \A f \in requiredFiles \ {"ledger"} : volume.live[f] = process.upload
    /\ process.pc \in Before => AllOwn(volume.live)
    /\ process.pc \in Before \cup {"serving"} => process.opened = volume.live

InstallInv ==
    InstallTypes /\ BackedUp /\ StageInv /\ Announced /\ Prefix /\ LiveInv

MigrationInv == ExportInv /\ InstallInv

-----------------------------------------------------------------------------
(* The stores that are read, and the steps of the export.                  *)

LEMMA ReadPlaces ==
    /\ Last = 5 /\ Len(NoReading) = 0 /\ NoReading \in Reading
    /\ \A i \in 1..Last : ReadOrder[i] \in Sources
    /\ "nodes" \in Sources
BY DEF Last, ReadOrder, Sources, NoReading, Reading

LEMMA Readings ==
    ASSUME ExportTypes
    PROVE  /\ \A s \in Sources : versions[s] \in Nat
           /\ \A instant \in instants, s \in Sources : instant[s] \in Nat
           /\ export.current \in Reading /\ export.previous \in Reading
           /\ Len(export.current) \in Nat
           /\ \A i \in 1..Len(export.current) : export.current[i] \in Nat
           /\ \A i \in 1..Len(export.previous) : export.previous[i] \in Nat
           /\ export.attempt \in 0..Attempts
           /\ export.pc \in {"idle", "before", "reading", "after"}
BY DEF ExportTypes, Reading

LEMMA ReadSoFar ==
    ASSUME ExportTypes, ReadingInv
    PROVE  Len(export.current) <= Last
<1>1. Len(export.current) \in Nat /\ Last = 5
  BY Readings, ReadPlaces
<1>2. CASE export.pc \in {"idle", "before"}
  <2>1. export.current = NoReading
    BY <1>2 DEF ReadingInv
  <2>2. Len(export.current) = 0
    BY <2>1, ReadPlaces
  <2> QED BY <2>2, <1>1
<1>3. CASE export.pc = "reading"
  <2>1. Len(export.current) < Last
    BY <1>3 DEF ReadingInv
  <2> QED BY <2>1, <1>1
<1>4. CASE export.pc = "after"
  <2>1. Len(export.current) = Last
    BY <1>4 DEF ReadingInv
  <2> QED BY <2>1, <1>1
<1> QED BY <1>2, <1>3, <1>4, Readings

(* Only the stores change, and their versions only grow.                   *)
LEMMA StoresStep ==
    ASSUME ExportInv, UNCHANGED <<export, archive>>, Seen,
           versions' \in [Sources -> Nat], journalled' \in BOOLEAN,
           \A s \in Sources : versions[s] <= versions'[s]
    PROVE  ExportInv'
<1> USE DEF ExportInv
<1>1. instants \subseteq instants' /\ instants' \subseteq instants \cup {versions'}
  BY DEF Seen
<1>2. ExportTypes'
  BY <1>1 DEF ExportTypes
<1>r. \A s \in Sources : versions'[s] \in Nat
  OBVIOUS
<1>3. ReadBefore'
  <2>1. ASSUME NEW i \in 1..Len(export.current)
        PROVE  export.current[i] <= versions'[ReadOrder[i]]
    <3>5. Len(export.current) \in Nat /\ Len(export.current) <= Last /\ Last = 5
      BY ReadPlaces, ReadSoFar, Readings
    <3>6. i \in 1..Last
      <4> HIDE DEF ExportInv
      <4> QED BY <3>5
    <3>1. ReadOrder[i] \in Sources
      BY <3>6, ReadPlaces
    <3>2. export.current[i] <= versions[ReadOrder[i]]
      BY DEF ReadBefore
    <3>3. versions[ReadOrder[i]] <= versions'[ReadOrder[i]]
      BY <3>1
    <3>4. export.current[i] \in Nat /\ versions[ReadOrder[i]] \in Nat /\ versions'[ReadOrder[i]] \in Nat
      BY <3>1, <1>r, Readings
    <3> HIDE DEF ExportInv
    <3> QED BY <3>2, <3>3, <3>4
  <2>2. ASSUME NEW instant \in instants', NEW s \in Sources
        PROVE  instant[s] <= versions'[s]
    <3>1. CASE instant \in instants
      <4>1. instant[s] <= versions[s] /\ instant[s] \in Nat /\ versions[s] \in Nat /\ versions'[s] \in Nat
        BY <3>1, <1>r, Readings DEF ReadBefore
      <4>2. versions[s] <= versions'[s]
        OBVIOUS
      <4> HIDE DEF ExportInv
      <4> QED BY <4>1, <4>2
    <3>2. CASE instant = versions'
      BY <3>2, <1>r
    <3> QED BY <1>1, <3>1, <3>2
  <2> QED BY <2>1, <2>2 DEF ReadBefore
<1>4. ReadingInv'
  <2>1. (Exporting /\ ~journalled => versions \in instants)'
    BY DEF Seen, Exporting
  <2>2. \A instant \in instants : Between(instant) => instant \in instants' /\ Between(instant)'
    BY <1>1 DEF Between
  <2>3. ReadingInv
    OBVIOUS
  <2> HIDE DEF ExportInv
  <2> QED BY <2>1, <2>2, <2>3 DEF ReadingInv
<1>5. ExportIsInstant'
  BY <1>1 DEF ExportIsInstant
<1> QED BY <1>2, <1>3, <1>4, <1>5

LEMMA EditStep ==
    ASSUME ExportInv, NEW s \in Sources, EditStore(s)
    PROVE  ExportInv'
<1>1. /\ versions' \in [Sources -> Nat] /\ journalled' \in BOOLEAN
      /\ \A t \in Sources : versions[t] <= versions'[t]
  BY DEF EditStore, ExportInv, ExportTypes
<1> QED BY <1>1, StoresStep DEF EditStore

LEMMA RolloutStep ==
    ASSUME ExportInv, BeginRollout \/ EndRollout
    PROVE  ExportInv'
<1>1. CASE BeginRollout
  <2>1. /\ versions' \in [Sources -> Nat] /\ journalled' \in BOOLEAN
        /\ \A t \in Sources : versions[t] <= versions'[t]
    BY <1>1 DEF BeginRollout, ExportInv, ExportTypes
  <2> QED BY <1>1, <2>1, StoresStep DEF BeginRollout
<1>2. CASE EndRollout
  <2>1. /\ versions' \in [Sources -> Nat] /\ journalled' \in BOOLEAN
        /\ \A t \in Sources : versions[t] <= versions'[t]
    <3>1. /\ versions \in [Sources -> Nat] /\ "nodes" \in Sources /\ journalled' = FALSE
          /\ versions' = [versions EXCEPT !["nodes"] = @ + 1]
      BY <1>2, ReadPlaces DEF EndRollout, ExportInv, ExportTypes
    <3>2. \A t \in Sources : versions[t] \in Nat /\ versions[t] <= versions[t] + 1
      BY <3>1
    <3>3. versions' \in [Sources -> Nat]
      BY <3>1
    <3>4. \A t \in Sources : versions'[t] \in {versions[t], versions[t] + 1}
      BY <3>1
    <3>5. ASSUME NEW t \in Sources
          PROVE  versions[t] <= versions'[t]
      <4>1. versions[t] \in Nat
        BY <3>2
      <4>2. CASE versions'[t] = versions[t]
        BY <4>1, <4>2
      <4>3. CASE versions'[t] = versions[t] + 1
        BY <4>1, <4>3
      <4> QED BY <3>4, <4>2, <4>3
    <3> QED BY <3>1, <3>3, <3>5
  <2> QED BY <1>2, <2>1, StoresStep DEF EndRollout
<1> QED BY <1>1, <1>2

LEMMA BeginExportStep ==
    ASSUME ExportInv, snapshotFiles
    PROVE  ExportInv'
<1>1. /\ UNCHANGED <<versions, journalled>> /\ archive' = NoReading
      /\ export' = [pc |-> "before", attempt |-> 1, previous |-> NoReading, current |-> NoReading]
      /\ instants' = IF journalled THEN {} ELSE {versions}
  BY DEF snapshotFiles, IdleExport
<1>2. ExportTypes'
  BY <1>1, ReadPlaces DEF Attempts, ExportInv, ExportTypes
<1>3. ReadBefore'
  BY <1>1, ReadPlaces, Readings DEF ReadBefore, ExportInv
<1>4. ReadingInv' /\ ExportIsInstant'
  BY <1>1, ReadPlaces DEF ReadingInv, Exporting, ExportIsInstant
<1> QED BY <1>2, <1>3, <1>4 DEF ExportInv

(* An export that ends leaves nothing to compare with.                     *)
LEMMA EndExport ==
    ASSUME ExportInv, UNCHANGED <<versions, journalled, instants>>, export' = IdleExport,
           archive' \in Reading, ExportIsInstant'
    PROVE  ExportInv'
<1>1. /\ export'.pc = "idle" /\ export'.attempt = 0
      /\ export'.previous = NoReading /\ export'.current = NoReading
  BY DEF IdleExport
<1>2. ExportTypes'
  BY ReadPlaces DEF IdleExport, Attempts, ExportInv, ExportTypes
<1>3. ReadBefore'
  BY <1>1, ReadPlaces DEF ReadBefore, ExportInv
<1>4. ReadingInv'
  BY <1>1 DEF ReadingInv, Exporting
<1> QED BY <1>2, <1>3, <1>4 DEF ExportInv

(* Two readings that agree are the instant between them; a reading that    *)
(* the next one is compared with ended at an instant.                      *)
LEMMA CheckStep ==
    ASSUME ExportInv, requireNoTopologyTransaction
    PROVE  ExportInv'
<1>t. ExportTypes /\ ReadBefore /\ ReadingInv /\ ExportIsInstant
  BY DEF ExportInv
<1>u. UNCHANGED <<versions, journalled, instants>>
  BY DEF requireNoTopologyTransaction
<1>1. CASE export' = IdleExport /\ (UNCHANGED archive \/ archive' = NoReading)
  <2>1. archive' \in Reading /\ ExportIsInstant'
    <3>1. archive \in Reading /\ NoReading \in Reading
      BY <1>t, ReadPlaces DEF ExportTypes
    <3>2. CASE UNCHANGED archive
      BY <3>1, <3>2, <1>u, <1>t DEF ExportIsInstant
    <3>3. CASE archive' = NoReading
      BY <3>1, <3>3 DEF ExportIsInstant
    <3> QED BY <1>1, <3>2, <3>3
  <2> QED BY <1>1, <1>u, <2>1, EndExport
<1>2. CASE ~journalled /\ export.pc = "before" /\ export' = [export EXCEPT !.pc = "reading"] /\ UNCHANGED archive
  <2>1. /\ export'.pc = "reading" /\ export'.previous = export.previous
        /\ export'.current = export.current /\ ExportTypes'
    BY <1>2, <1>u, <1>t DEF ExportTypes
  <2>2. ReadBefore' /\ ExportIsInstant'
    BY <1>2, <2>1, <1>u, <1>t DEF ReadBefore, ExportIsInstant
  <2>3. \A instant \in instants : Between(instant) => Between(instant)'
    BY <2>1 DEF Between
  <2>4. ReadingInv'
    BY <1>2, <2>1, <2>3, <1>u, <1>t, ReadPlaces DEF ReadingInv, Exporting
  <2> QED BY <2>1, <2>2, <2>4 DEF ExportInv
<1>3. CASE ~journalled /\ export.pc = "after" /\ export.previous = export.current
           /\ export' = IdleExport /\ archive' = export.current
  <2>1. export.previous # NoReading /\ Len(export.current) = Last
    <3>1. Len(export.current) = Last
      BY <1>3, <1>t DEF ReadingInv
    <3>2. Len(NoReading) # Last
      BY ReadPlaces
    <3> QED BY <1>3, <3>1, <3>2
  <2>2. PICK instant \in instants : Between(instant)
    BY <1>t, <2>1 DEF ReadingInv
  <2>3. ASSUME NEW i \in 1..Last
        PROVE  export.current[i] = instant[ReadOrder[i]]
    <3>1. export.current[i] \in Nat /\ instant[ReadOrder[i]] \in Nat
      BY <1>t, <2>1, Readings, ReadPlaces
    <3>2. export.current[i] <= instant[ReadOrder[i]] /\ instant[ReadOrder[i]] <= export.current[i]
      BY <1>3, <2>1, <2>2 DEF Between
    <3> QED BY <3>1, <3>2
  <2>4. ExportIsInstant'
    BY <1>3, <2>3, <1>u DEF ExportIsInstant, Last
  <2>5. archive' \in Reading
    BY <1>3, <1>t, Readings
  <2> QED BY <1>3, <1>u, <2>4, <2>5, EndExport
<1>4. CASE /\ ~journalled /\ export.pc = "after" /\ export.attempt # Attempts
           /\ export' = [pc |-> "before", attempt |-> export.attempt + 1,
                         previous |-> export.current, current |-> NoReading]
           /\ archive' = NoReading
  <2>1. versions \in instants /\ Len(export.current) = Last
    BY <1>4, <1>t DEF ReadingInv, Exporting
  <2>2. /\ export'.pc = "before" /\ export'.attempt = export.attempt + 1
        /\ export'.previous = export.current /\ export'.current = NoReading
    BY <1>4
  <2>3. Between(versions)'
    BY <2>1, <2>2, <1>u, <1>t, ReadPlaces DEF Between, ReadBefore
  <2>4. ReadingInv'
    BY <2>1, <2>2, <2>3, <1>u, <1>4 DEF ReadingInv
  <2>5. export.attempt + 1 \in 0..Attempts
    BY <1>4, <1>t, Readings DEF Attempts
  <2>6. ExportTypes'
    BY <2>5, <1>4, <1>u, <1>t, ReadPlaces, Readings DEF ExportTypes
  <2>7. ReadBefore' /\ ExportIsInstant'
    BY <1>4, <2>2, <1>u, <1>t, ReadPlaces DEF ReadBefore, ExportIsInstant
  <2> QED BY <2>4, <2>6, <2>7 DEF ExportInv
<1> QED BY <1>1, <1>2, <1>3, <1>4, Zenon DEF requireNoTopologyTransaction, settle

LEMMA ReadStep ==
    ASSUME ExportInv, MigrationSnapshot
    PROVE  ExportInv'
<1> DEFINE n == Len(export.current) + 1
           value == versions[ReadOrder[n]]
<1>t. ExportTypes /\ ReadBefore /\ ReadingInv /\ ExportIsInstant
  BY DEF ExportInv
<1>1. UNCHANGED <<versions, journalled, instants, archive>> /\ export.pc = "reading"
  BY DEF MigrationSnapshot
<1>2. n \in 1..Last /\ export.current \in Reading
  <2>1. Len(export.current) \in Nat /\ Last = 5 /\ export.current \in Reading
    BY <1>t, Readings, ReadPlaces
  <2>2. Len(export.current) < Last
    BY <1>1, <1>t DEF ReadingInv
  <2> QED BY <2>1, <2>2
<1>3. ReadOrder[n] \in Sources /\ value \in Nat
  BY <1>2, <1>t, Readings, ReadPlaces
<1> DEFINE grown == Append(export.current, value)
<1>4. /\ grown \in Reading /\ Len(grown) = n /\ grown[n] = value
      /\ \A i \in 1..(n - 1) : grown[i] = export.current[i]
  BY <1>2, <1>3 DEF Reading
<1>5. export' = [export EXCEPT !.current = grown, !.pc = IF Len(grown) = Last THEN "after" ELSE @]
  BY DEF MigrationSnapshot, Last
<1> HIDE DEF grown, value
<1>6. ExportTypes'
  BY <1>1, <1>4, <1>5, <1>t DEF ExportTypes
<1>7. /\ export'.current = grown /\ export'.previous = export.previous
      /\ export'.pc = IF n = Last THEN "after" ELSE "reading"
  BY <1>1, <1>4, <1>5, <1>t DEF ExportTypes
<1>8. ReadBefore'
  BY <1>1, <1>2, <1>3, <1>4, <1>7, <1>t DEF ReadBefore, value
<1>9. ASSUME NEW instant \in instants, Between(instant)
      PROVE  Between(instant)'
  <2>1. instant[ReadOrder[n]] <= value
    BY <1>3, <1>t DEF ReadBefore, value
  <2> QED BY <2>1, <1>2, <1>4, <1>7, <1>9 DEF Between
<1>10. ReadingInv'
  <2>1. Last = 5 /\ Len(export.current) \in Nat
    BY <1>t, Readings, ReadPlaces
  <2>2. n # Last => n < Last
    BY <1>2, <2>1
  <2>3. /\ export'.pc = "reading" => Len(export'.current) < Last
        /\ export'.pc = "after" => Len(export'.current) = Last
        /\ export'.pc \in {"reading", "after"}
    BY <1>4, <1>7, <2>2
  <2>4. export'.previous # NoReading => Len(export'.previous) = Last /\ \E instant \in instants' : Between(instant)'
    BY <1>1, <1>7, <1>9, <1>t DEF ReadingInv
  <2>5. ~journalled' => versions' \in instants'
    BY <1>1, <1>t DEF ReadingInv, Exporting
  <2> QED BY <2>3, <2>4, <2>5 DEF ReadingInv
<1> QED BY <1>1, <1>6, <1>8, <1>10, <1>t DEF ExportInv, ExportIsInstant

-----------------------------------------------------------------------------
(* The files, and the steps of the new master.                             *)

LEMMA ContentsApart ==
    /\ OwnData # NoFile /\ OwnData \notin Uploads /\ NoFile \notin Uploads
    /\ OwnData \in Contents /\ Mixed \in Contents /\ NoFile \in Contents /\ Uploads \subseteq Contents
BY MigrationConstants DEF Contents

LEMMA Targets ==
    /\ Len(installTargets) = 6 /\ Places = 1..6
    /\ \A i \in Places : installTargets[i] \in StateFiles
    /\ \A i, j \in Places : i # j => installTargets[i] # installTargets[j]
    /\ \A f \in StateFiles : \E i \in Places : installTargets[i] = f
    /\ "ledger" \in StateFiles /\ "nodes" \in StateFiles /\ "deployments" \in StateFiles
    /\ "nodes" \in requiredFiles \ {"ledger"}
    /\ requiredFiles \subseteq StateFiles
    /\ NotLedger \subseteq StateFiles
BY DEF installTargets, StateFiles, Places, requiredFiles, NotLedger

LEMMA FilesMoved ==
    ASSUME InstallTypes
    PROVE  /\ volume.live \in [StateFiles -> Contents] /\ volume.staged \in [StateFiles -> Contents]
           /\ volume.backup \in [StateFiles -> Contents] /\ volume.log \in Contents
           /\ volume.dir \in BOOLEAN /\ volume.marker \in BOOLEAN
           /\ process.opened \in [StateFiles -> Contents]
           /\ process.at \in 1..7 /\ process.upload \in Uploads \cup {NoFile}
           /\ process.records \in BOOLEAN
BY Targets DEF InstallTypes

(* A process that ends leaves the volume to the next one.                  *)
LEMMA DownStep ==
    ASSUME InstallInv, UNCHANGED volume, process' = [process EXCEPT !.pc = "down"]
    PROVE  InstallInv'
<1>t. InstallTypes /\ BackedUp /\ StageInv /\ Announced /\ Prefix /\ LiveInv
  BY DEF InstallInv
<1>1. /\ process'.pc = "down" /\ process'.upload = process.upload /\ process'.records = process.records
      /\ InstallTypes'
  BY <1>t DEF InstallTypes, Before
<1>2. requiredFiles' = requiredFiles
  BY <1>1 DEF requiredFiles
<1>3. BackedUp' /\ StageInv' /\ Prefix'
  BY <1>1, <1>t DEF BackedUp, StageInv, Prefix, Working, Before
<1>4. Announced' /\ LiveInv'
  BY <1>1, <1>2, <1>t DEF Announced, LiveInv, Working, Before
<1> QED BY <1>1, <1>3, <1>4 DEF InstallInv

LEMMA StageRestoreStep ==
    ASSUME InstallInv, NEW upload \in Uploads, StageRestore(upload)
    PROVE  InstallInv'
<1>t. InstallTypes /\ BackedUp /\ StageInv /\ Announced /\ Prefix /\ LiveInv
  BY DEF InstallInv
<1>1. CASE UNCHANGED newMaster
  BY <1>1, <1>t DEF newMaster, InstallInv, InstallTypes, BackedUp, StageInv, Announced, Prefix, LiveInv,
                    Working, requiredFiles
<1>2. CASE ~volume.dir
  <2>1. PICK records \in BOOLEAN :
          /\ volume' = [volume EXCEPT !.dir = TRUE]
          /\ process' = [process EXCEPT !.pc = "staging", !.upload = upload, !.records = records]
    BY <1>2, Zenon DEF StageRestore
  <2>2. /\ process.pc = "serving" /\ process.opened = [f \in StateFiles |-> OwnData]
        /\ process.opened = volume.live /\ ~volume.marker /\ volume.staged = Nothing
    <3>1. process.pc = "serving" /\ process.opened = [f \in StateFiles |-> OwnData]
      BY Zenon DEF StageRestore, Working
    <3>2. process.opened = volume.live /\ ~volume.marker
      BY <3>1, <1>t DEF LiveInv, StageInv
    <3>3. volume.staged = Nothing
      BY <1>2, <1>t, Zenon DEF StageInv
    <3> QED BY <3>1, <3>2, <3>3
  <2>3. /\ volume'.live = volume.live /\ volume'.staged = Nothing /\ volume'.backup = volume.backup
        /\ volume'.dir /\ ~volume'.marker /\ volume'.log = volume.log
        /\ process'.pc = "staging" /\ process'.upload = upload /\ process'.opened = process.opened
    BY <2>1, <2>2, <1>t DEF InstallTypes
  <2>4. InstallTypes'
    BY <2>1, <1>t DEF InstallTypes, Before
  <2>5. BackedUp'
    BY <2>3, <1>t DEF BackedUp
  <2>6. StageInv'
    BY <2>3, Zenon DEF StageInv, Nothing, Before
  <2>7. Announced' /\ Prefix'
    BY <2>3 DEF Announced, Prefix, Working
  <2>8. AllOwn(volume.live)
    BY <2>2, Targets DEF AllOwn
  <2>9. LiveInv'
    BY <2>2, <2>3, <2>8 DEF LiveInv, AllOwn, Before, Working
  <2> QED BY <2>4, <2>5, <2>6, <2>7, <2>9 DEF InstallInv
<1> QED BY <1>1, <1>2, Zenon DEF StageRestore

(* A step of a staging changes the stage and the marker only.              *)
LEMMA StageStep ==
    ASSUME InstallInv, process.pc \in Before, InstallTypes', StageInv', Announced',
           process'.pc \in Before \cup {"serving"}, process'.upload = process.upload,
           process'.opened = process.opened,
           volume'.live = volume.live, volume'.backup = volume.backup, volume'.log = volume.log
    PROVE  InstallInv'
<1>t. BackedUp /\ LiveInv
  BY DEF InstallInv
<1>1. BackedUp'
  BY <1>t DEF BackedUp
<1>2. Prefix'
  BY DEF Prefix, Working, Before
<1>3. LiveInv'
  <2>1. AllOwn(volume.live) /\ process.opened = volume.live
    BY <1>t DEF LiveInv
  <2>2. /\ AllOwn(volume'.live) /\ process'.opened = volume'.live
        /\ \A f \in NotLedger : volume'.live[f] \in {OwnData, NoFile, process'.upload}
    BY <2>1 DEF AllOwn
  <2> QED BY <2>2 DEF LiveInv, AllOwn
<1> QED BY <1>1, <1>2, <1>3 DEF InstallInv

LEMMA StagingStep ==
    ASSUME InstallInv,
           (\E f \in StateFiles : writeEntry(f)) \/ writeMarker \/ validateStage \/ keepStage \/ discardStage
    PROVE  InstallInv'
<1>t. InstallTypes /\ StageInv /\ Announced
  BY DEF InstallInv
<1>c. process.pc \in Before
  BY DEF writeEntry, writeMarker, validateStage, keepStage, discardStage, Working, Before
<1>d. volume.dir /\ process.upload \in Uploads /\ process.upload # NoFile /\ process.upload \in Contents
  BY <1>c, <1>t, ContentsApart DEF StageInv
<1>1. ASSUME NEW f \in StateFiles, writeEntry(f)
      PROVE  InstallInv'
  <2>1. /\ process' = process /\ process.pc = "staging" /\ ~volume.marker
        /\ volume' = [volume EXCEPT !.staged[f] = process.upload]
    BY <1>1 DEF writeEntry, Working
  <2>2. /\ volume'.live = volume.live /\ volume'.backup = volume.backup /\ volume'.log = volume.log
        /\ volume'.dir = volume.dir /\ volume'.marker = volume.marker
        /\ volume'.staged = [volume.staged EXCEPT ![f] = process.upload]
    BY <2>1, <1>t DEF InstallTypes
  <2>3. InstallTypes'
    BY <2>1, <1>t, <1>d DEF InstallTypes
  <2>4. StageInv'
    BY <2>1, <2>2, <1>t, <1>c, <1>d, FilesMoved DEF StageInv
  <2>5. Announced'
    BY <2>1, <2>2 DEF Announced, Working
  <2> QED BY <2>1, <2>2, <2>3, <2>4, <2>5, <1>c, StageStep
<1>2. CASE writeMarker
  <2>1. /\ process' = process /\ process.pc = "staging"
        /\ volume' = [volume EXCEPT !.marker = TRUE]
        /\ \A f \in requiredFiles : volume.staged[f] # NoFile
    BY <1>2 DEF writeMarker, Working
  <2>2. /\ volume'.live = volume.live /\ volume'.backup = volume.backup /\ volume'.log = volume.log
        /\ volume'.dir = volume.dir /\ volume'.staged = volume.staged
    BY <2>1, <1>t DEF InstallTypes
  <2>3. InstallTypes'
    BY <2>1, <1>t DEF InstallTypes
  <2>4. StageInv'
    BY <2>1, <2>2, <1>t, <1>d DEF StageInv
  <2>5. Announced'
    BY <2>1, <2>2 DEF Announced, requiredFiles
  <2> QED BY <2>1, <2>2, <2>3, <2>4, <2>5, <1>c, StageStep
<1>3. CASE validateStage
  <2>1. /\ process.pc = "staging" /\ volume.marker
        /\ volume' = [volume EXCEPT !.staged["deployments"] = process.upload, !.junk = TRUE]
        /\ process' = [process EXCEPT !.pc = "validating"]
    BY <1>3 DEF validateStage, Working
  <2>2. /\ volume'.live = volume.live /\ volume'.backup = volume.backup /\ volume'.log = volume.log
        /\ volume'.dir = volume.dir /\ volume'.marker = volume.marker
        /\ volume'.staged = [volume.staged EXCEPT !["deployments"] = process.upload]
        /\ process'.pc = "validating" /\ process'.upload = process.upload
        /\ process'.opened = process.opened /\ process'.records = process.records
    BY <2>1, <1>t DEF InstallTypes
  <2>3. InstallTypes'
    BY <2>1, <1>t, <1>d, Targets DEF InstallTypes, Before
  <2>4. \A f \in StateFiles : volume'.staged[f] = process.upload \/ volume'.staged[f] = volume.staged[f]
    BY <2>2, <1>t, FilesMoved, Targets
  <2>5. StageInv'
    BY <2>1, <2>2, <2>4, <1>t, <1>d DEF StageInv, Before
  <2>6. Announced'
    BY <2>1, <2>2, <2>4, <1>t, <1>d, Targets DEF Announced, requiredFiles
  <2> QED BY <2>2, <2>3, <2>5, <2>6, <1>c, StageStep DEF Before
<1>4. CASE keepStage
  <2>1. /\ process.pc = "validating"
        /\ volume' = [volume EXCEPT !.junk = FALSE]
        /\ process' = [process EXCEPT !.pc = "staged", !.validated = @ \cup {process.upload}]
    BY <1>4 DEF keepStage, Working
  <2>2. /\ volume'.live = volume.live /\ volume'.backup = volume.backup /\ volume'.log = volume.log
        /\ volume'.dir = volume.dir /\ volume'.marker = volume.marker /\ volume'.staged = volume.staged
        /\ process'.pc = "staged" /\ process'.upload = process.upload
        /\ process'.opened = process.opened /\ process'.records = process.records
    BY <2>1, <1>t DEF InstallTypes
  <2>3. InstallTypes'
    BY <2>1, <1>t, <1>d DEF InstallTypes, Before
  <2>4. StageInv'
    BY <2>2, <1>t, <1>d DEF StageInv, Before
  <2>5. Announced'
    BY <2>2, <1>t DEF Announced, requiredFiles, Working
  <2> QED BY <2>2, <2>3, <2>4, <2>5, <1>c, StageStep DEF Before
<1>5. CASE discardStage
  <2>1. /\ volume' = [volume EXCEPT !.staged = Nothing, !.dir = FALSE, !.marker = FALSE]
        /\ process' = [process EXCEPT !.pc = "serving"]
    BY <1>5 DEF discardStage
  <2>2. /\ volume'.live = volume.live /\ volume'.backup = volume.backup /\ volume'.log = volume.log
        /\ ~volume'.dir /\ ~volume'.marker /\ volume'.staged = Nothing
        /\ process'.pc = "serving" /\ process'.upload = process.upload
        /\ process'.opened = process.opened
    BY <2>1, <1>t DEF InstallTypes
  <2>3. InstallTypes'
    BY <2>1, <1>t, ContentsApart DEF InstallTypes, Nothing
  <2>4. StageInv'
    BY <2>2, Zenon DEF StageInv, Nothing, Before
  <2>5. Announced'
    BY <2>2 DEF Announced, Working
  <2> QED BY <2>2, <2>3, <2>4, <2>5, <1>c, StageStep
<1> QED BY <1>1, <1>2, <1>3, <1>4, <1>5

(* The target of an installation that has not dealt with all of them.      *)
LEMMA TargetFacts ==
    ASSUME InstallInv, Installing
    PROVE  /\ process.pc = "installing" /\ volume.marker /\ volume.dir
           /\ process.at \in Places /\ Target \in StateFiles
           /\ \A i \in Places : i < process.at =>
                 /\ installTargets[i] \in StateFiles /\ installTargets[i] # Target
                 /\ volume.staged[installTargets[i]] = NoFile /\ volume.live[installTargets[i]] # NoFile
<1>t. InstallTypes /\ StageInv /\ Prefix
  BY DEF InstallInv
<1>1. process.pc = "installing" /\ process.at <= 6
  BY Targets DEF Installing, Working
<1>2. process.at \in 1..7
  BY <1>t, FilesMoved
<1>3. process.at \in Places /\ ~(process.at > Len(installTargets))
  BY <1>1, <1>2, Targets
<1>4. volume.marker
  BY <1>1, <1>3, <1>t DEF Prefix, Working
<1>5. volume.dir
  BY <1>4, <1>t DEF StageInv
<1>6. ASSUME NEW i \in Places, i < process.at
      PROVE  /\ installTargets[i] \in StateFiles /\ installTargets[i] # Target
             /\ volume.staged[installTargets[i]] = NoFile /\ volume.live[installTargets[i]] # NoFile
  <2>1. i # process.at
    BY <1>2, <1>6, Targets
  <2>2. installTargets[i] \in StateFiles /\ installTargets[i] # Target
    BY <2>1, <1>3, Targets DEF Target
  <2>3. volume.staged[installTargets[i]] = NoFile /\ volume.live[installTargets[i]] # NoFile
    BY <1>1, <1>6, <1>t DEF Prefix, Working
  <2> QED BY <2>2, <2>3
<1> QED BY <1>1, <1>3, <1>4, <1>5, <1>6, Targets DEF Target

(* A step of an installation moves the target's files: a file is gone from *)
(* the stage only when there is one live.                                  *)
LEMMA MoveStep ==
    ASSUME InstallInv, Installing, InstallTypes', BackedUp', LiveInv',
           process'.pc = "installing", process'.upload = process.upload, process'.records = process.records,
           volume'.marker = volume.marker, volume'.dir = volume.dir,
           \A f \in StateFiles \ {Target} : volume'.staged[f] = volume.staged[f] /\ volume'.live[f] = volume.live[f],
           volume'.staged[Target] \in {volume.staged[Target], NoFile},
           Target \in requiredFiles => volume'.staged[Target] # NoFile \/ volume'.live[Target] # OwnData,
           \/ process'.at = process.at
           \/ /\ process'.at = process.at + 1
              /\ volume'.staged[Target] = NoFile /\ volume'.live[Target] # NoFile
    PROVE  InstallInv'
<1>t. InstallTypes /\ StageInv /\ Announced
  BY DEF InstallInv
<1>1. /\ process.pc = "installing" /\ volume.marker /\ volume.dir
      /\ process.at \in Places /\ Target \in StateFiles
  BY TargetFacts
<1>2. StageInv'
  <2>1. \A f \in StateFiles : volume'.staged[f] \in {NoFile, process'.upload}
    BY <1>1, <1>t DEF StageInv
  <2> QED BY <1>1, <2>1 DEF StageInv, Before
<1>3. Announced'
  <2>1. requiredFiles' = requiredFiles
    BY DEF requiredFiles
  <2>2. ASSUME NEW f \in requiredFiles
        PROVE  volume'.staged[f] # NoFile \/ volume'.live[f] # OwnData
    <3>1. f \in StateFiles /\ (volume.staged[f] # NoFile \/ volume.live[f] # OwnData)
      BY <1>1, <1>t, Targets DEF Announced
    <3> QED BY <3>1
  <2> QED BY <2>1, <2>2 DEF Announced
<1>4. Prefix'
  <2>1. ASSUME NEW i \in Places, i < process'.at
        PROVE  volume'.staged[installTargets[i]] = NoFile /\ volume'.live[installTargets[i]] # NoFile
    <3>1. CASE i < process.at
      BY <3>1, TargetFacts
    <3>2. CASE ~(i < process.at)
      <4>1. i = process.at /\ process'.at = process.at + 1
        <5>1. i \in 1..6 /\ process.at \in 1..6
          BY <1>1, Targets
        <5>2. process'.at # process.at
          BY <2>1, <3>2
        <5>3. process'.at = process.at + 1
          BY <5>2
        <5>4. i < process.at + 1 /\ ~(i < process.at)
          BY <5>3, <2>1, <3>2
        <5>5. i = process.at
          BY <5>1, <5>4
        <5> QED BY <5>3, <5>5
      <4>2. process'.at # process.at
        <5>1. process.at \in 1..6
          BY <1>1, Targets
        <5> QED BY <5>1, <4>1
      <4>3. volume'.staged[Target] = NoFile /\ volume'.live[Target] # NoFile
        BY <4>2
      <4> QED BY <4>1, <4>3 DEF Target
    <3> QED BY <3>1, <3>2
  <2> QED BY <1>1, <2>1 DEF Prefix, Places
<1> QED BY <1>2, <1>3, <1>4 DEF InstallInv

LEMMA SkipStep ==
    ASSUME InstallInv, skipInstalled
    PROVE  InstallInv'
<1>t. InstallTypes /\ BackedUp /\ LiveInv /\ Announced
  BY DEF InstallInv
<1>1. Installing /\ volume' = volume /\ volume.staged[Target] = NoFile
  BY DEF skipInstalled
<1>2. /\ process.pc = "installing" /\ process.at \in Places /\ Target \in StateFiles /\ volume.marker
  BY <1>1, TargetFacts
<1>3. CASE process' = [process EXCEPT !.pc = "down"]
  BY <1>1, <1>3, DownStep
<1>4. CASE volume.live[Target] # NoFile /\ process' = [process EXCEPT !.at = @ + 1]
  <2>1. /\ process'.pc = "installing" /\ process'.upload = process.upload /\ process'.records = process.records
        /\ process'.at = process.at + 1 /\ process'.opened = process.opened
    BY <1>2, <1>4, <1>t DEF InstallTypes
  <2>2. process.at + 1 \in 1..(Len(installTargets) + 1)
    BY <1>2, Targets
  <2>3. InstallTypes'
    BY <1>1, <1>4, <1>t, <2>2 DEF InstallTypes
  <2>4. BackedUp' /\ LiveInv'
    BY <1>1, <2>1, <1>2, <1>t DEF BackedUp, LiveInv, Before, AllOwn, requiredFiles
  <2>5. Target \in requiredFiles => volume.live[Target] # OwnData
    BY <1>1, <1>2, <1>t DEF Announced
  <2> QED BY <1>1, <1>4, <2>1, <2>3, <2>4, <2>5, MoveStep
<1> QED BY <1>3, <1>4 DEF skipInstalled, Fail, Advance

LEMMA RenameLiveStep ==
    ASSUME InstallInv, renameLive
    PROVE  InstallInv'
<1>t. InstallTypes /\ BackedUp /\ LiveInv
  BY DEF InstallInv
<1>1. Installing /\ volume.staged[Target] # NoFile /\ volume.live[Target] # NoFile
  BY DEF renameLive
<1>2. process.pc = "installing" /\ process.at \in Places /\ Target \in StateFiles /\ volume.marker
  BY <1>1, TargetFacts
<1>3. CASE process' = [process EXCEPT !.pc = "down"] /\ volume' = volume
  BY <1>3, DownStep
<1>4. CASE /\ volume.backup[Target] = NoFile /\ process' = process
           /\ volume' = [volume EXCEPT !.backup[Target] = volume.live[Target], !.live[Target] = NoFile]
  <2>1. volume.live[Target] = OwnData
    BY <1>2, <1>4, <1>t, ContentsApart DEF BackedUp
  <2>2. /\ volume'.live = [volume.live EXCEPT ![Target] = NoFile]
        /\ volume'.backup = [volume.backup EXCEPT ![Target] = OwnData]
        /\ volume'.staged = volume.staged /\ volume'.log = volume.log
        /\ volume'.dir = volume.dir /\ volume'.marker = volume.marker
    BY <2>1, <1>4, <1>t DEF InstallTypes
  <2>3. InstallTypes'
    BY <2>1, <1>2, <1>4, <1>t, ContentsApart DEF InstallTypes
  <2>4. /\ \A f \in StateFiles \ {Target} :
              volume'.live[f] = volume.live[f] /\ volume'.backup[f] = volume.backup[f]
        /\ volume'.live[Target] = NoFile /\ volume'.backup[Target] = OwnData
    BY <2>2, <1>2, <1>t, FilesMoved
  <2>5. BackedUp'
    BY <2>2, <2>4, <1>t, ContentsApart, Targets DEF BackedUp
  <2>6. LiveInv'
    <3>1. \A f \in NotLedger : volume'.live[f] \in {OwnData, NoFile, process'.upload}
      BY <2>4, <1>4, <1>t, Targets DEF LiveInv
    <3> QED BY <3>1, <2>2, <1>2, <1>4 DEF LiveInv, Before, Working
  <2> QED BY <1>1, <1>2, <1>4, <2>2, <2>3, <2>4, <2>5, <2>6, MoveStep
<1> QED BY <1>3, <1>4 DEF renameLive, Fail

LEMMA RenameStagedStep ==
    ASSUME InstallInv, renameStaged
    PROVE  InstallInv'
<1>t. InstallTypes /\ BackedUp /\ StageInv /\ LiveInv
  BY DEF InstallInv
<1>1. /\ Installing /\ volume.staged[Target] # NoFile /\ volume.live[Target] = NoFile
      /\ volume' = [volume EXCEPT !.live[Target] = volume.staged[Target], !.staged[Target] = NoFile]
      /\ process' = [process EXCEPT !.at = @ + 1]
  BY DEF renameStaged, Advance
<1>2. process.pc = "installing" /\ process.at \in Places /\ Target \in StateFiles /\ volume.marker
  BY <1>1, TargetFacts
<1>3. volume.staged[Target] = process.upload /\ process.upload \in Uploads
  BY <1>1, <1>2, <1>t, FilesMoved DEF StageInv
<1>4. process.upload # OwnData /\ process.upload # NoFile /\ process.upload \in Contents
  BY <1>3, ContentsApart
<1>5. /\ volume'.live = [volume.live EXCEPT ![Target] = process.upload]
      /\ volume'.staged = [volume.staged EXCEPT ![Target] = NoFile]
      /\ volume'.backup = volume.backup /\ volume'.log = volume.log
      /\ volume'.dir = volume.dir /\ volume'.marker = volume.marker
  BY <1>1, <1>3, <1>t DEF InstallTypes
<1>6. /\ process'.pc = "installing" /\ process'.upload = process.upload /\ process'.records = process.records
      /\ process'.at = process.at + 1 /\ process'.opened = process.opened
  BY <1>1, <1>2, <1>t DEF InstallTypes
<1>7. InstallTypes'
  <2>1. process.at + 1 \in 1..(Len(installTargets) + 1)
    BY <1>2, Targets
  <2> QED BY <2>1, <1>1, <1>2, <1>3, <1>4, <1>t, ContentsApart DEF InstallTypes
<1>8. /\ \A f \in StateFiles \ {Target} :
            volume'.live[f] = volume.live[f] /\ volume'.staged[f] = volume.staged[f]
      /\ volume'.live[Target] = process.upload /\ volume'.staged[Target] = NoFile
  BY <1>2, <1>5, <1>t, FilesMoved
<1>9. BackedUp'
  <2>1. volume.backup[Target] = OwnData
    BY <1>1, <1>2, <1>t, ContentsApart DEF BackedUp
  <2> QED BY <2>1, <1>2, <1>5, <1>8, <1>t DEF BackedUp
<1>10. LiveInv'
  <2>1. \A f \in NotLedger : volume'.live[f] \in {OwnData, NoFile, process'.upload}
    BY <1>6, <1>8, <1>t, Targets DEF LiveInv
  <2> QED BY <2>1, <1>2, <1>5, <1>6 DEF LiveInv, Before, Working
<1> QED BY <1>1, <1>4, <1>5, <1>6, <1>7, <1>8, <1>9, <1>10, MoveStep

(* When the targets are dealt with, all of the announced files are live.   *)
LEMMA Installed ==
    ASSUME InstallInv, Working("installing"), process.at > Len(installTargets)
    PROVE  \A f \in StateFiles : volume.staged[f] = NoFile /\ volume.live[f] # NoFile
<1>1. InstallTypes /\ Prefix
  BY DEF InstallInv
<1>2. \A i \in Places : i < process.at
  BY <1>1, FilesMoved, Targets
<1> QED BY <1>1, <1>2, Targets DEF Prefix

LEMMA RemoveMarkerStep ==
    ASSUME InstallInv, removeMarker
    PROVE  InstallInv'
<1>t. InstallTypes /\ BackedUp /\ StageInv /\ Announced /\ Prefix /\ LiveInv
  BY DEF InstallInv
<1>1. /\ process.pc = "installing" /\ process.at > Len(installTargets) /\ volume.marker
      /\ process' = process /\ volume' = [volume EXCEPT !.marker = FALSE, !.sessions = FALSE]
  BY DEF removeMarker, Working
<1>2. /\ volume'.live = volume.live /\ volume'.backup = volume.backup /\ volume'.log = volume.log
      /\ volume'.dir = volume.dir /\ volume'.staged = volume.staged /\ ~volume'.marker
  BY <1>1, <1>t DEF InstallTypes
<1>3. InstallTypes'
  BY <1>1, <1>t DEF InstallTypes
<1>4. BackedUp' /\ StageInv'
  BY <1>1, <1>2, <1>t DEF BackedUp, StageInv, Before
<1>5. Announced' /\ Prefix'
  BY <1>1, <1>2, <1>t DEF Announced, Prefix, Working, requiredFiles
<1>6. LiveInv'
  <2>1. ASSUME NEW f \in requiredFiles \ {"ledger"}
        PROVE  volume.live[f] = process.upload /\ volume.live[f] # NoFile
    <3>1. f \in StateFiles /\ f \in NotLedger
      BY Targets DEF NotLedger
    <3>2. volume.staged[f] = NoFile /\ volume.live[f] # NoFile
      BY <1>1, <3>1, Installed DEF Working
    <3>3. volume.live[f] # OwnData
      BY <1>1, <3>2, <1>t DEF Announced
    <3> QED BY <3>1, <3>2, <3>3, <1>t DEF LiveInv
  <2>2. process.upload \in Uploads
    BY <2>1, Targets, <1>t, FilesMoved
  <2>3. /\ \A f \in NotLedger : volume'.live[f] \in {OwnData, NoFile, process'.upload}
        /\ \A f \in requiredFiles \ {"ledger"} : volume'.live[f] = process'.upload
    BY <2>1, <1>1, <1>2, <1>t DEF LiveInv
  <2> QED BY <2>2, <2>3, <1>1 DEF LiveInv, Before, Working, requiredFiles
<1> QED BY <1>3, <1>4, <1>5, <1>6 DEF InstallInv

LEMMA RemoveStageStep ==
    ASSUME InstallInv, removeStage
    PROVE  InstallInv'
<1>t. InstallTypes /\ BackedUp /\ StageInv /\ LiveInv
  BY DEF InstallInv
<1>1. process.pc = "installing" /\ process.at > Len(installTargets) /\ ~volume.marker
  BY DEF removeStage, Working
<1>2. CASE process' = [process EXCEPT !.pc = "down"] /\ volume' = volume
  BY <1>2, DownStep
<1>3. CASE volume' = [volume EXCEPT !.dir = FALSE] /\ process' = [process EXCEPT !.pc = "opening"]
  <2>1. /\ volume'.live = volume.live /\ volume'.backup = volume.backup /\ volume'.log = volume.log
        /\ volume'.staged = volume.staged /\ volume'.marker = volume.marker /\ ~volume'.dir
        /\ process'.pc = "opening" /\ process'.upload = process.upload /\ process'.records = process.records
    BY <1>3, <1>t DEF InstallTypes
  <2>2. InstallTypes'
    BY <1>3, <1>t DEF InstallTypes
  <2>3. volume.staged = Nothing
    BY <1>1, <1>t, Installed, FilesMoved DEF Nothing, Working
  <2>4. BackedUp' /\ StageInv'
    BY <2>1, <2>3, <1>1, <1>t DEF BackedUp, StageInv, Nothing, Before
  <2>5. Announced' /\ Prefix'
    BY <2>1, <1>1 DEF Announced, Prefix, Working
  <2>6. LiveInv'
    BY <2>1, <1>t DEF LiveInv, Before, Working, AllOwn, requiredFiles
  <2> QED BY <2>2, <2>4, <2>5, <2>6 DEF InstallInv
<1> QED BY <1>2, <1>3 DEF removeStage, Fail

LEMMA ApplyStep ==
    ASSUME InstallInv, ApplyPendingRestore
    PROVE  InstallInv'
<1>t. InstallTypes /\ BackedUp /\ StageInv /\ Announced /\ LiveInv
  BY DEF InstallInv
<1>1. /\ volume' = volume
      /\ process' = [process EXCEPT !.pc = IF volume.marker THEN "installing" ELSE "opening", !.at = 1]
  BY DEF ApplyPendingRestore
<1>2. /\ process'.pc = IF volume.marker THEN "installing" ELSE "opening"
      /\ process'.at = 1 /\ process'.upload = process.upload /\ process'.records = process.records
  BY <1>1, <1>t DEF InstallTypes
<1>3. InstallTypes'
  <2>1. 1 \in 1..(Len(installTargets) + 1)
    BY Targets
  <2>2. CASE volume.marker
    BY <2>1, <2>2, <1>1, <1>t DEF InstallTypes
  <2>3. CASE ~volume.marker
    BY <2>1, <2>3, <1>1, <1>t DEF InstallTypes
  <2> QED BY <2>2, <2>3
<1>4. BackedUp' /\ StageInv'
  BY <1>1, <1>2, <1>t DEF BackedUp, StageInv, Before
<1>5. Announced'
  BY <1>1, <1>2, <1>t DEF Announced, Working, requiredFiles
<1>6. Prefix'
  BY <1>1, <1>2, Targets DEF Prefix, Working
<1>7. LiveInv'
  BY <1>1, <1>2, <1>t DEF LiveInv, Before, AllOwn, Working, requiredFiles
<1> QED BY <1>3, <1>4, <1>5, <1>6, <1>7 DEF InstallInv

LEMMA OpenStep ==
    ASSUME InstallInv, openStores
    PROVE  InstallInv'
<1> DEFINE found == [f \in StateFiles |-> IF volume.live[f] = NoFile THEN OwnData ELSE volume.live[f]]
           ledger == IF volume.log \in {NoFile, found["ledger"]} THEN found["ledger"] ELSE Mixed
           opened == [found EXCEPT !["ledger"] = ledger]
<1>t. InstallTypes /\ BackedUp /\ StageInv /\ LiveInv
  BY DEF InstallInv
<1>1. process.pc = "opening" /\ ~volume.marker
  BY <1>t DEF openStores, Working, StageInv
<1>2. CASE process' = [process EXCEPT !.pc = "down"] /\ volume' = volume
  BY <1>2, DownStep
<1>3. CASE /\ volume' = [volume EXCEPT !.live = opened, !.log = opened["ledger"], !.sessions = TRUE]
           /\ process' = [process EXCEPT !.pc = "serving", !.opened = opened]
  <2>1. /\ opened \in [StateFiles -> Contents] /\ opened["ledger"] = ledger
        /\ \A f \in NotLedger : opened[f] = IF volume.live[f] = NoFile THEN OwnData ELSE volume.live[f]
    BY <1>t, FilesMoved, ContentsApart, Targets DEF NotLedger
  <2>2. volume.backup["ledger"] = NoFile => ledger = OwnData
    BY <1>t, ContentsApart, Targets DEF BackedUp
  <2> HIDE DEF opened, ledger
  <2>3. /\ volume'.live = opened /\ volume'.log = ledger /\ volume'.backup = volume.backup
        /\ volume'.staged = volume.staged /\ volume'.dir = volume.dir /\ volume'.marker = volume.marker
        /\ process'.pc = "serving" /\ process'.opened = opened /\ process'.upload = process.upload
        /\ process'.records = process.records
    BY <1>3, <2>1, <1>t DEF InstallTypes
  <2>4. InstallTypes'
    <3>1. ledger \in Contents
      BY <2>1, Targets
    <3> QED BY <3>1, <1>3, <2>1, <1>t DEF InstallTypes
  <2>5. BackedUp'
    <3>1. ASSUME NEW f \in StateFiles
          PROVE  volume'.backup[f] = OwnData \/ (volume'.backup[f] = NoFile /\ volume'.live[f] = OwnData)
      <4>1. CASE f = "ledger"
        BY <4>1, <2>1, <2>2, <2>3, <1>t, Targets DEF BackedUp
      <4>2. CASE f \in NotLedger
        BY <4>2, <2>1, <2>3, <1>t, Targets DEF BackedUp
      <4> QED BY <4>1, <4>2 DEF NotLedger
    <3> QED BY <3>1, <2>2, <2>3 DEF BackedUp
  <2>6. StageInv'
    BY <2>3, <1>1, <1>t DEF StageInv, Before
  <2>7. Announced' /\ Prefix'
    BY <2>3, <1>1 DEF Announced, Prefix, Working
  <2>8. LiveInv'
    <3>1. \A f \in NotLedger : opened[f] \in {OwnData, NoFile, process.upload}
      BY <2>1, <1>t DEF LiveInv
    <3>2. \/ AllOwn(opened)
          \/ /\ process.upload \in Uploads
             /\ \A f \in requiredFiles \ {"ledger"} : opened[f] = process.upload
      <4>1. CASE AllOwn(volume.live)
        BY <4>1, <2>1, ContentsApart DEF AllOwn
      <4>2. CASE process.upload \in Uploads /\ \A f \in requiredFiles \ {"ledger"} : volume.live[f] = process.upload
        BY <4>2, <2>1, ContentsApart, Targets DEF NotLedger
      <4> QED BY <4>1, <4>2, <1>1, <1>t DEF LiveInv
    <3> QED BY <3>1, <3>2, <2>3 DEF LiveInv, Before, AllOwn, requiredFiles
  <2> QED BY <2>4, <2>5, <2>6, <2>7, <2>8 DEF InstallInv
<1> QED BY <1>2, <1>3 DEF openStores, Fail

LEMMA CheckpointStep ==
    ASSUME InstallInv, checkpoint
    PROVE  InstallInv'
<1>t. InstallTypes /\ BackedUp /\ StageInv /\ Announced /\ Prefix /\ LiveInv
  BY DEF InstallInv
<1>1. process' = process /\ volume' = [volume EXCEPT !.log = NoFile]
  BY DEF checkpoint
<1>2. /\ volume'.live = volume.live /\ volume'.backup = volume.backup /\ volume'.log = NoFile
      /\ volume'.dir = volume.dir /\ volume'.staged = volume.staged /\ volume'.marker = volume.marker
  BY <1>1, <1>t DEF InstallTypes
<1>3. InstallTypes'
  BY <1>1, <1>t, ContentsApart DEF InstallTypes
<1>4. BackedUp' /\ StageInv' /\ Prefix'
  BY <1>1, <1>2, <1>t DEF BackedUp, StageInv, Prefix, Working
<1>5. Announced' /\ LiveInv'
  BY <1>1, <1>2, <1>t DEF Announced, LiveInv, AllOwn, requiredFiles, Working
<1> QED BY <1>3, <1>4, <1>5 DEF InstallInv

-----------------------------------------------------------------------------
(* The invariant holds, and the property follows.                          *)

LEMMA MigrationInitHolds == MigrationInit => MigrationInv
<1> SUFFICES ASSUME MigrationInit PROVE MigrationInv
  OBVIOUS
<1>1. ExportInv
  <2>1. /\ versions = [s \in Sources |-> 0] /\ journalled = FALSE /\ instants = {} /\ archive = NoReading
        /\ export = [pc |-> "idle", attempt |-> 0, previous |-> NoReading, current |-> NoReading]
    BY DEF MigrationInit, IdleExport
  <2>2. ExportTypes
    <3>1. versions \in [Sources -> Nat] /\ journalled \in BOOLEAN /\ instants \in SUBSET [Sources -> Nat]
      BY <2>1
    <3>2. archive \in Reading
      BY <2>1, ReadPlaces
    <3>3. export \in [pc : {"idle", "before", "reading", "after"}, attempt : 0..Attempts,
                    previous : Reading, current : Reading]
      BY <2>1, ReadPlaces DEF Attempts
    <3> QED BY <3>1, <3>2, <3>3 DEF ExportTypes
  <2>3. ReadBefore /\ ReadingInv /\ ExportIsInstant
    BY <2>1, ReadPlaces DEF ReadBefore, ReadingInv, ExportIsInstant, Exporting
  <2> QED BY <2>2, <2>3 DEF ExportInv
<1>2. InstallInv
  <2>1. /\ volume = [live |-> [f \in StateFiles |-> OwnData], staged |-> Nothing, backup |-> Nothing,
               dir |-> FALSE, marker |-> FALSE, junk |-> FALSE, log |-> OwnData, sessions |-> TRUE]
        /\ process = [pc |-> "serving", opened |-> volume.live, at |-> 1,
                  upload |-> NoFile, records |-> TRUE, validated |-> {}]
    BY DEF MigrationInit
  <2>2. /\ volume.live = [f \in StateFiles |-> OwnData] /\ volume.staged = Nothing
        /\ volume.backup = Nothing /\ volume.dir = FALSE /\ volume.marker = FALSE /\ volume.log = OwnData
        /\ process.pc = "serving" /\ process.opened = volume.live /\ process.upload = NoFile
    BY <2>1
  <2>3. InstallTypes
    BY <2>1, <2>2, ContentsApart, Targets DEF InstallTypes, Nothing
  <2>4. BackedUp /\ StageInv
    BY <2>2, ContentsApart DEF BackedUp, StageInv, Nothing, Before
  <2>5. Announced /\ Prefix
    BY <2>2 DEF Announced, Prefix, Working
  <2>6. LiveInv
    BY <2>2, Targets DEF LiveInv, AllOwn, Before, Working
  <2> QED BY <2>3, <2>4, <2>5, <2>6 DEF InstallInv
<1> QED BY <1>1, <1>2 DEF MigrationInv

LEMMA ExportFrame ==
    ASSUME ExportInv, UNCHANGED oldMaster
    PROVE  ExportInv'
BY DEF oldMaster, ExportInv, ExportTypes, ReadBefore, ReadingInv, Between, Exporting, ExportIsInstant

LEMMA InstallFrame ==
    ASSUME InstallInv, UNCHANGED newMaster
    PROVE  InstallInv'
BY DEF newMaster, InstallInv, InstallTypes, BackedUp, StageInv, Announced, Prefix, LiveInv, Working,
       requiredFiles

LEMMA MigrationStepHolds == MigrationInv /\ [MigrationNext]_migrationVars => MigrationInv'
<1> SUFFICES ASSUME ExportInv, InstallInv, [MigrationNext]_migrationVars
             PROVE  ExportInv' /\ InstallInv'
  BY DEF MigrationInv
<1>1. ASSUME NEW s \in Sources, EditStore(s) PROVE ExportInv' /\ InstallInv'
  BY <1>1, EditStep, InstallFrame DEF EditStore, newMaster
<1>2. CASE BeginRollout \/ EndRollout
  BY <1>2, RolloutStep, InstallFrame DEF BeginRollout, EndRollout, newMaster
<1>3. CASE snapshotFiles
  BY <1>3, BeginExportStep, InstallFrame DEF snapshotFiles, newMaster
<1>4. CASE requireNoTopologyTransaction
  BY <1>4, CheckStep, InstallFrame DEF requireNoTopologyTransaction, newMaster
<1>5. CASE MigrationSnapshot
  BY <1>5, ReadStep, InstallFrame DEF MigrationSnapshot, newMaster
<1>6. ASSUME NEW upload \in Uploads, StageRestore(upload) PROVE ExportInv' /\ InstallInv'
  <2>1. UNCHANGED oldMaster
    BY <1>6, Zenon DEF StageRestore
  <2> QED BY <1>6, <2>1, StageRestoreStep, ExportFrame
<1>7. CASE Staging \/ discardStage
  <2>1. UNCHANGED oldMaster
    BY <1>7, Zenon DEF Staging, writeEntry, writeMarker, validateStage, keepStage, discardStage, requestRestart
  <2>2. ASSUME requestRestart PROVE InstallInv'
    <3>1. UNCHANGED volume /\ process' = [process EXCEPT !.pc = "down"]
      BY <2>2, Zenon DEF requestRestart
    <3> QED BY <3>1, DownStep
  <2>3. ASSUME (\E f \in StateFiles : writeEntry(f)) \/ writeMarker \/ validateStage \/ keepStage \/ discardStage
        PROVE  InstallInv'
    BY <2>3, StagingStep
  <2> QED BY <1>7, <2>1, <2>2, <2>3, ExportFrame, Zenon DEF Staging
<1>8. CASE CrashNewMaster
  BY <1>8, DownStep, ExportFrame DEF CrashNewMaster
<1>9. CASE Installation
  <2>1. UNCHANGED oldMaster
    BY <1>9, Zenon DEF Installation, ApplyPendingRestore, skipInstalled, renameLive, renameStaged,
                       removeMarker, removeStage, openStores
  <2>2. InstallInv'
    BY <1>9, ApplyStep, SkipStep, RenameLiveStep, RenameStagedStep, RemoveMarkerStep, RemoveStageStep,
       OpenStep DEF Installation
  <2> QED BY <2>1, <2>2, ExportFrame
<1>10. CASE checkpoint
  BY <1>10, CheckpointStep, ExportFrame DEF checkpoint
<1>11. CASE QueueOnlineMasterMigration \/ \E a \in Movers : Cutover(a) \/ loseSession(a) \/ restartAgent(a)
  <2>1. UNCHANGED others
    BY <1>11, Zenon DEF QueueOnlineMasterMigration, Cutover, StageMasterMigration, sendReport,
                        masterMigrationExit, reconnect, loseSession, restartAgent
  <2> QED BY <2>1, ExportFrame, InstallFrame DEF others
<1>12. CASE UNCHANGED migrationVars
  <2>1. UNCHANGED oldMaster /\ UNCHANGED newMaster
    BY <1>12 DEF migrationVars, oldMaster, newMaster
  <2> QED BY <2>1, ExportFrame, InstallFrame
<1> QED BY <1>1, <1>2, <1>3, <1>4, <1>5, <1>6, <1>7, <1>8, <1>9, <1>10, <1>11, <1>12, Zenon DEF MigrationNext

LEMMA MigrationInvIsEnough == MigrationInv => DataStaysWhole
<1> SUFFICES ASSUME ExportInv, InstallInv PROVE DataStaysWhole
  BY DEF MigrationInv
<1>t. InstallTypes /\ BackedUp /\ StageInv /\ Announced /\ LiveInv /\ ExportTypes
  BY DEF InstallInv, ExportInv
<1>1. MigrationTypeOK
  <2>1. volume.marker => volume.dir
    BY <1>t DEF StageInv
  <2>2. process.at \in 1..(Len(installTargets) + 1) /\ export.attempt \in 0..Attempts
    BY <1>t, Readings DEF InstallTypes
  <2>3. versions \in [Sources -> Nat] /\ journalled \in BOOLEAN
    BY <1>t DEF ExportTypes
  <2> QED BY <2>1, <2>2, <2>3, <1>t, FilesMoved DEF MigrationTypeOK
<1>2. ExportIsInstant
  BY DEF ExportInv
<1>3. NothingIsLost
  BY <1>t DEF NothingIsLost, BackedUp, Announced
<1>4. OpenedAsOne
  <2> SUFFICES ASSUME Working("serving")
               PROVE  \E content \in Contents : \A f \in requiredFiles \ {"ledger"} : process.opened[f] = content
    BY DEF OpenedAsOne
  <2>1. ~volume.marker /\ process.opened = volume.live
    BY <1>t DEF Working, StageInv, LiveInv
  <2>2. CASE AllOwn(volume.live)
    BY <2>1, <2>2, ContentsApart, Targets DEF AllOwn, NotLedger
  <2>3. CASE /\ process.upload \in Uploads
             /\ \A f \in requiredFiles \ {"ledger"} : volume.live[f] = process.upload
    BY <2>1, <2>3, ContentsApart
  <2> QED BY <2>1, <2>2, <2>3, <1>t DEF LiveInv
<1> QED BY <1>1, <1>2, <1>3, <1>4 DEF DataStaysWhole

(* A migration keeps the data whole, through every crash: what is exported *)
(* was held by all the stores at one instant outside any rollout; every    *)
(* file of the new master is live or backed up wherever an installation is *)
(* cut off; and the stores are opened on the data of one master (Export,   *)
(* StageRestore, ApplyPendingRestore).                                     *)
THEOREM MovesWhole == MigrationSpec => []DataStaysWhole
<1>1. MigrationInit => MigrationInv
  BY MigrationInitHolds
<1>2. MigrationInv /\ [MigrationNext]_migrationVars => MigrationInv'
  BY MigrationStepHolds
<1>3. MigrationInv => DataStaysWhole
  BY MigrationInvIsEnough
<1> QED BY <1>1, <1>2, <1>3, PTL DEF MigrationSpec

-----------------------------------------------------------------------------
(***************************************************************************)
(* Proofs about the updates of a host, for any number of releases,         *)
(* requests and faults: a request is never written beside a claimed one,   *)
(* a program of Theatropolis never goes back to an older release, whoever  *)
(* reads "applied" finds that release installed and, once the helper is    *)
(* done, running, and sing-box's two files stay of one release.            *)
(*                                                                         *)
(* The inductive invariant adds two facts about the helper: it works on a  *)
(* request (HasRequest), and what it was told about the installed release  *)
(* when it started still holds when it installs (KnowsInstalled): no other *)
(* helper writes the same binary in between.  Two more tie the files to    *)
(* the place of the helper: what replaceComponents has moved aside at each *)
(* of its steps (PairedInv), and that a service may lag behind its result  *)
(* only while the claim is there (RunningInv).                             *)
(***************************************************************************)

USE ConstantsAssumption

(* A helper that was started finds a request, and one that has claimed it  *)
(* works on a real one (agentupdate.Apply, lines 208 to 240).              *)
HasRequestOf(c) ==
    /\ job[c].pc = "claim" => request[c] # NoRequest \/ processing[c] # NoRequest
    /\ job[c].pc \notin {"idle", "claim", "finish"} => job[c].req \in Requests

HasRequest == \A c \in Components : HasRequestOf(c)

(* The programs of a host and the order positions of its releases.         *)
LEMMA Sets ==
    /\ "agent" \in Components /\ "master" \in Components /\ "singbox" \in Components
    /\ "agent" \in Remote /\ "singbox" \in Remote /\ "agent" \in Own /\ "master" \in Own
    /\ Remote \subseteq Components /\ Own \subseteq Components /\ "singbox" \notin Own
    /\ Versions \subseteq Files /\ Missing \in Files /\ 1 \in Versions
    /\ {"crash", "disk", "session", "agent", "master"} = FaultKinds
    BY DEF Components, Remote, Own, Files, Versions, Missing, FaultKinds

(* The fields of a request file; no request is the absent one.             *)
LEMMA RequestFacts ==
    /\ NoRequest \notin Requests /\ NoRequest.id = 0
    /\ \A r \in Requests : r.id \in Ids /\ r.target \in Versions
    /\ \A i \in Ids, v \in Versions : [id |-> i, target |-> v] \in Requests
    BY DEF Requests, NoRequest, Ids

(* The fields of a result file and of the master's entry.                  *)
LEMMA ResultFacts ==
    /\ NoResult \notin Results /\ NoResult \notin Entries
    /\ NoResult.id = 0 /\ NoResult.status = "none"
    /\ \A r \in Results : r.id \in Ids /\ r.target \in Versions /\ r.status \in {"applied", "failed"}
    /\ \A i \in Ids, v \in Versions, s \in {"applied", "failed"} :
           [id |-> i, target |-> v, status |-> s] \in Results
    /\ \A i \in Ids, v \in Versions, s \in Statuses :
           [id |-> i, target |-> v, status |-> s] \in Entries
    /\ \A e \in Entries, s \in Statuses : e.id \in Ids /\ [e EXCEPT !.status = s] \in Entries
    BY DEF Results, NoResult, Ids, Entries

(* The fields of the update commands and reports of a session.             *)
LEMMA FrameFacts ==
    /\ \A f \in Frames : f.component \in Remote /\ f.id \in Ids /\ f.target \in Versions
    /\ \A f \in ReportFrames : f.component \in Remote /\ f.id \in Ids /\ f.target \in Versions
                                /\ f.status \in Statuses
    /\ \A c \in Remote, i \in Ids, v \in Versions : [component |-> c, id |-> i, target |-> v] \in Frames
    /\ \A c \in Remote, i \in Ids, v \in Versions, s \in Statuses :
           [component |-> c, id |-> i, target |-> v, status |-> s] \in ReportFrames
    BY DEF Frames, ReportFrames

(* The fields of a helper process, and the changes its steps make to it.   *)
LEMMA JobFacts ==
    /\ Idle \in Jobs /\ Idle.pc = "idle"
    /\ \A j \in Jobs :
        /\ j.pc \in Steps /\ j.running \in Files /\ j.binary \in Files /\ j.other \in Files
        /\ j.req \in Requests \cup {NoRequest} /\ j.status \in {"applied", "failed"}
    /\ \A j \in Jobs, p \in Steps :
        /\ [j EXCEPT !.pc = p] \in Jobs
        /\ \A s \in {"applied", "failed"} : [j EXCEPT !.pc = p, !.status = s] \in Jobs
        /\ \A f \in Files : [j EXCEPT !.pc = p, !.other = f] \in Jobs
        /\ \A f \in Files : [j EXCEPT !.pc = p, !.binary = f] \in Jobs
        /\ \A f \in Files : [j EXCEPT !.pc = p, !.running = f] \in Jobs
        /\ \A r \in Requests : [j EXCEPT !.pc = p, !.req = r] \in Jobs
    <1>1. Idle \in Jobs /\ Idle.pc = "idle"
        BY DEF Jobs, Idle, Files, Missing, Steps
    <1>2. ASSUME NEW j \in Jobs
          PROVE  /\ j.pc \in Steps /\ j.running \in Files /\ j.binary \in Files /\ j.other \in Files
                 /\ j.req \in Requests \cup {NoRequest} /\ j.status \in {"applied", "failed"}
        BY DEF Jobs
    <1>3. ASSUME NEW j \in Jobs, NEW p \in Steps
          PROVE  /\ [j EXCEPT !.pc = p] \in Jobs
                 /\ \A s \in {"applied", "failed"} : [j EXCEPT !.pc = p, !.status = s] \in Jobs
                 /\ \A f \in Files : [j EXCEPT !.pc = p, !.other = f] \in Jobs
                 /\ \A f \in Files : [j EXCEPT !.pc = p, !.binary = f] \in Jobs
                 /\ \A f \in Files : [j EXCEPT !.pc = p, !.running = f] \in Jobs
                 /\ \A r \in Requests : [j EXCEPT !.pc = p, !.req = r] \in Jobs
        BY DEF Jobs
    <1>. QED BY <1>1, <1>2, <1>3

(* A fault that strikes is counted.                                        *)
LEMMA Strikes ==
    ASSUME TypeOK
    PROVE  \A k \in {"crash", "disk", "session", "agent", "master"} :
               Strike(k) => spent' \in [FaultKinds -> Nat]
    BY DEF TypeOK, Strike, FaultKinds

(* A session that ends leaves no frame on its way.                         *)
LEMMA Ends ==
    EndSession => session' \in BOOLEAN /\ commands' \in Seq(Frames) /\ reports' \in Seq(ReportFrames)
    <1>1. << >> \in Seq(Frames) /\ << >> \in Seq(ReportFrames)
        OBVIOUS
    <1>. QED BY <1>1, Zenon DEF EndSession

(* A restart of the Agent or of the master keeps the types.                *)
LEMMA Starts ==
    ASSUME TypeOK
    PROVE  /\ AgentStarts =>
                /\ running' \in [Own -> Files]
                /\ sched' \in [Components -> Requests \cup {NoRequest}]
                /\ held' \in [Components -> Results \cup {NoResult}]
                /\ session' \in BOOLEAN /\ commands' \in Seq(Frames) /\ reports' \in Seq(ReportFrames)
           /\ MasterStarts =>
                /\ running' \in [Own -> Files]
                /\ sched' \in [Components -> Requests \cup {NoRequest}]
                /\ held' \in [Components -> Results \cup {NoResult}]
                /\ entry' \in [Remote -> Entries \cup {NoResult}]
                /\ session' \in BOOLEAN /\ commands' \in Seq(Frames) /\ reports' \in Seq(ReportFrames)
    BY Sets, Ends DEF TypeOK, AgentStarts, MasterStarts

(* Goto and Conclude keep the type of the helper processes.                *)
LEMMA Moves ==
    ASSUME TypeOK
    PROVE  /\ \A c \in Components, p \in Steps : Goto(c, p) => job' \in [Components -> Jobs]
           /\ \A c \in Components, s \in {"applied", "failed"} :
                  Conclude(c, s) => job' \in [Components -> Jobs]
    <1>1. "result" \in Steps BY DEF Steps
    <1>2. ASSUME NEW c \in Components, NEW p \in Steps, Goto(c, p)
          PROVE job' \in [Components -> Jobs]
        <2>1. job[c] \in Jobs BY DEF TypeOK
        <2>2. [job[c] EXCEPT !.pc = p] \in Jobs BY <2>1, JobFacts
        <2>. QED BY <1>2, <2>2 DEF TypeOK, Goto
    <1>3. ASSUME NEW c \in Components, NEW s \in {"applied", "failed"}, Conclude(c, s)
          PROVE  job' \in [Components -> Jobs]
        <2>1. job[c] \in Jobs BY DEF TypeOK
        <2>2. [job[c] EXCEPT !.pc = "result", !.status = s] \in Jobs BY <1>1, <2>1, JobFacts
        <2>. QED BY <1>3, <2>2 DEF TypeOK, Conclude
    <1>. QED BY <1>2, <1>3

(* A report that is sent is one the master can receive.                    *)
LEMMA Sends ==
    ASSUME TypeOK, NEW c \in Remote, NEW r, r.id \in Ids, r.target \in Versions,
           NEW s \in Statuses, Report(c, r, s)
    PROVE  reports' \in Seq(ReportFrames)
    BY FrameFacts DEF TypeOK, Report

(* Every step keeps the types.  A helper that installs needs a real        *)
(* request, which is why the invariant has HasRequest.                     *)
LEMMA TypeStep ==
    ASSUME TypeOK, HasRequest, Next
    PROVE  TypeOK'
    <1>. DEFINE Goal == TypeOK'
    <1>. SUFFICES ASSUME Step, bound' = bound PROVE Goal BY DEF Next
    <1>. USE DEF TypeOK
    <1>1. CASE Connect
        BY <1>1 DEF Connect, disk, files, wire
    <1>2. CASE LoseSession
        BY <1>2, Strikes, Ends DEF LoseSession, disk, files, wire
    <1>3. CASE AgentRestarts
        BY <1>3, Strikes, Starts DEF AgentRestarts, disk, files, wire
    <1>4. CASE MasterRestarts
        BY <1>4, Strikes, Starts DEF MasterRestarts, disk, files, wire
    <1>5. CASE ReceiveUpdate
        <2>. DEFINE command == Head(commands)
                    r == [id |-> command.id, target |-> command.target]
        <2>1. commands # << >> BY <1>5 DEF ReceiveUpdate
        <2>2. command \in Frames /\ Tail(commands) \in Seq(Frames) BY <2>1
        <2>3. command.component \in Remote /\ command.id \in Ids /\ command.target \in Versions
            BY <2>2, FrameFacts
        <2>4. r \in Requests /\ r.id \in Ids /\ r.target \in Versions BY <2>3, RequestFacts
        <2>5. /\ commands' = Tail(commands)
              /\ \/ Report(command.component, r, "rejected") /\ sched' = sched
                 \/ sched' = [sched EXCEPT ![command.component] = r] /\ reports' = reports
            BY <1>5 DEF ReceiveUpdate
        <2>6. reports' \in Seq(ReportFrames) BY <2>3, <2>4, <2>5, Sends DEF Statuses
        <2>7. sched' \in [Components -> Requests \cup {NoRequest}] BY <2>3, <2>4, <2>5, Sets
        <2>. QED BY <1>5, <2>2, <2>5, <2>6, <2>7 DEF ReceiveUpdate, disk, files, wire
    <1>6. CASE UpdateMaster
        BY <1>6, Sets, RequestFacts DEF UpdateMaster, Ids, Versions, disk, files, wire
    <1>7. CASE SettingsPage
        BY <1>7, Sets DEF SettingsPage, disk, files, wire
    <1>8. CASE HandleReport
        <2>. DEFINE r == Head(reports)
        <2>1. reports # << >> BY <1>8 DEF HandleReport
        <2>2. r \in ReportFrames /\ Tail(reports) \in Seq(ReportFrames) BY <2>1
        <2>3. r.component \in Remote /\ r.id \in Ids /\ r.status \in Statuses BY <2>2, FrameFacts
        <2>4. entry[r.component] \in Entries \cup {NoResult} BY <2>3
        <2>5. \/ /\ entry[r.component].id = r.id
                 /\ entry' = [entry EXCEPT ![r.component].status = r.status]
                 /\ reports' = Tail(reports) /\ session' = session /\ commands' = commands
              \/ reports' = Tail(reports) /\ entry' = entry /\ session' = session /\ commands' = commands
              \/ EndSession /\ entry' = entry
            BY <1>8 DEF HandleReport
        <2>6. entry' \in [Remote -> Entries \cup {NoResult}]
            <3>1. CASE entry' = entry BY <3>1
            <3>2. CASE /\ entry[r.component].id = r.id
                       /\ entry' = [entry EXCEPT ![r.component].status = r.status]
                <4>1. entry[r.component] \in Entries BY <2>3, <2>4, <3>2, ResultFacts DEF Ids
                <4>2. [entry[r.component] EXCEPT !.status = r.status] \in Entries
                    BY <2>3, <4>1, ResultFacts
                <4>. QED BY <2>3, <3>2, <4>2
            <3>. QED BY <2>5, <3>1, <3>2
        <2>7. session' \in BOOLEAN /\ commands' \in Seq(Frames) /\ reports' \in Seq(ReportFrames)
            BY <2>2, <2>5, Ends
        <2>. QED BY <1>8, <2>6, <2>7 DEF HandleReport, disk, files, wire
    <1>9. CASE CheckCandidate
        BY <1>9, Sets, Moves DEF CheckCandidate, Steps, disk, files, wire
    <1>10. CASE BackupBinary
        <2>1. job["singbox"] \in Jobs /\ installed["singbox"] \in Files BY Sets
        <2>2. [job["singbox"] EXCEPT !.pc = "backupLibrary", !.binary = installed["singbox"]] \in Jobs
            BY <2>1, JobFacts DEF Steps
        <2>3. job' \in [Components -> Jobs] BY <1>10, <2>2, Sets, Moves DEF BackupBinary
        <2>4. installed' \in [Components -> Files] BY <1>10, Sets DEF BackupBinary
        <2>5. spent' \in [FaultKinds -> Nat] BY <1>10, Strikes DEF BackupBinary
        <2>. QED BY <1>10, <2>3, <2>4, <2>5 DEF BackupBinary, disk, files, wire
    <1>11. CASE BackupLibrary
        <2>1. job["singbox"] \in Jobs BY Sets
        <2>2. /\ [job["singbox"] EXCEPT !.pc = "installLibrary", !.other = library] \in Jobs
              /\ job["singbox"].binary \in Files
            BY <2>1, JobFacts DEF Steps
        <2>3. job' \in [Components -> Jobs] BY <1>11, <2>2, Sets, Moves DEF BackupLibrary
        <2>. QED BY <1>11, <2>2, <2>3, Sets, Strikes DEF BackupLibrary, disk, files, wire
    <1>12. CASE InstallLibrary
        BY <1>12, Sets, Strikes, Moves, RequestFacts
           DEF InstallLibrary, Steps, HasRequest, HasRequestOf, disk, files, wire
    <1>13. CASE InstallSingBox
        BY <1>13, Sets, Strikes, Moves, RequestFacts
           DEF InstallSingBox, Steps, HasRequest, HasRequestOf, disk, files, wire
    <1>14. CASE RestoreBackup
        BY <1>14, Sets, Moves, JobFacts DEF RestoreBackup, Steps, disk, files, wire
    <1>15. ASSUME NEW c \in Remote, NEW v \in Versions, QueueUpdate(c, v) PROVE Goal
        <2>1. issued + 1 \in Ids BY DEF Ids
        <2>2. /\ [id |-> issued + 1, target |-> v, status |-> "requested"] \in Entries
              /\ [component |-> c, id |-> issued + 1, target |-> v] \in Frames
            BY <2>1, ResultFacts, FrameFacts, <1>15 DEF Statuses
        <2>3. issued' = issued + 1 /\ issued' \in Nat BY <1>15 DEF QueueUpdate
        <2>4. entry' \in [Remote -> Entries \cup {NoResult}] BY <1>15, <2>2, <2>3 DEF QueueUpdate
        <2>5. commands' \in Seq(Frames) BY <1>15, <2>2, <2>3 DEF QueueUpdate
        <2>. QED BY <1>15, <2>3, <2>4, <2>5 DEF QueueUpdate, disk, files, wire
    <1>16. ASSUME NEW c \in Remote, SendResult(c) PROVE Goal
        <2>1. result[c] \in Results BY <1>16, Sets DEF SendResult
        <2>2. result[c].id \in Ids /\ result[c].target \in Versions /\ result[c].status \in Statuses
            BY <2>1, ResultFacts DEF Statuses
        <2>3. Report(c, result[c], result[c].status) BY <1>16 DEF SendResult
        <2>4. reports' \in Seq(ReportFrames) BY <1>16, <2>2, <2>3, Sends
        <2>. QED BY <1>16, <2>4, Sets DEF SendResult, disk, files, wire
    <1>17. ASSUME NEW c \in Components, ScheduleWrite(c) PROVE Goal
        BY <1>17, Sets, RequestFacts, Strikes, Sends
           DEF ScheduleWrite, Statuses, Answer, disk, files, wire
    <1>18. ASSUME NEW c \in Components, AcknowledgeResult(c) PROVE Goal
        BY <1>18, Ends DEF AcknowledgeResult, disk, files, wire
    <1>19. ASSUME NEW c \in Components, StartHelper(c) PROVE Goal
        BY <1>19, JobFacts, Sets DEF StartHelper, Steps, disk, files, wire
    <1>20. ASSUME NEW c \in Components, Claim(c) PROVE Goal
        <2>. DEFINE claimed == IF processing[c] = NoRequest THEN request[c] ELSE processing[c]
        <2>1. job[c] \in Jobs /\ Idle \in Jobs BY JobFacts
        <2>2. claimed \in Requests BY <1>20 DEF Claim, HasRequest, HasRequestOf
        <2>3. [job[c] EXCEPT !.pc = "download", !.req = claimed] \in Jobs
            BY <2>1, <2>2, JobFacts DEF Steps
        <2>4. \/ job' = [job EXCEPT ![c].pc = "download", ![c].req = claimed]
              \/ job' = [job EXCEPT ![c] = Idle]
              \/ Goto(c, "finish")
            BY <1>20 DEF Claim
        <2>5. job' \in [Components -> Jobs] BY <2>1, <2>3, <2>4, Moves DEF Steps
        <2>6. /\ request' \in [Components -> Requests \cup {NoRequest}]
              /\ processing' \in [Components -> Requests \cup {NoRequest}]
            BY <1>20, <2>2 DEF Claim
        <2>7. spent' \in [FaultKinds -> Nat] BY <1>20, Strikes DEF Claim
        <2>. QED BY <1>20, <2>5, <2>6, <2>7 DEF Claim, disk, files, wire
    <1>21. ASSUME NEW c \in Components, Download(c) PROVE Goal
        <2>1. job[c] \in Jobs BY DEF TypeOK
        <2>2. [job[c] EXCEPT !.pc = "helper", !.other = helper] \in Jobs
            BY <2>1, JobFacts DEF Steps
        <2>3. \/ Conclude(c, "applied") \/ Conclude(c, "failed") \/ Goto(c, "candidate")
              \/ job' = [job EXCEPT ![c].pc = "helper", ![c].other = helper]
            BY <1>21 DEF Download
        <2>4. job' \in [Components -> Jobs] BY <2>2, <2>3, Moves DEF Steps
        <2>. QED BY <1>21, <2>4 DEF Download, disk, files, wire
    <1>22. ASSUME NEW c \in Components, InstallHelper(c) PROVE Goal
        BY <1>22, Sets, Strikes, Moves, RequestFacts
           DEF InstallHelper, Steps, HasRequest, HasRequestOf, disk, files, wire
    <1>23. ASSUME NEW c \in Components, InstallBinary(c) PROVE Goal
        <2>1. job[c].req.target \in Files
            BY <1>23, RequestFacts, Sets DEF InstallBinary, HasRequest, HasRequestOf
        <2>2. installed' \in [Components -> Files] BY <1>23, <2>1 DEF InstallBinary
        <2>3. job' \in [Components -> Jobs] BY <1>23, Moves DEF InstallBinary, Steps
        <2>4. spent' \in [FaultKinds -> Nat] BY <1>23, Strikes DEF InstallBinary
        <2>. QED BY <1>23, <2>2, <2>3, <2>4 DEF InstallBinary, disk, files, wire
    <1>24. ASSUME NEW c \in Components, RollbackHelper(c) PROVE Goal
        <2>1. job[c].other \in Files BY <1>24, JobFacts
        <2>2. job' \in [Components -> Jobs] BY <1>24, Moves DEF RollbackHelper
        <2>3. spent' \in [FaultKinds -> Nat] BY <1>24, Strikes DEF RollbackHelper
        <2>. QED BY <1>24, <2>1, <2>2, <2>3 DEF RollbackHelper, disk, files, wire
    <1>25. ASSUME NEW c \in Components, WriteResult(c) PROVE Goal
        <2>1. job[c].req \in Requests /\ job[c].status \in {"applied", "failed"}
            BY <1>25, JobFacts DEF WriteResult, HasRequest, HasRequestOf
        <2>2. [id |-> job[c].req.id, target |-> job[c].req.target, status |-> job[c].status] \in Results
            BY <2>1, RequestFacts, ResultFacts
        <2>3. result' \in [Components -> Results \cup {NoResult}]
            BY <1>25, <2>2 DEF WriteResult, WriteFails, Written
        <2>4. job' \in [Components -> Jobs]
            <3>1. Goto(c, "restart") \/ Goto(c, "finish") BY <1>25 DEF WriteResult
            <3>. QED BY <3>1, Moves DEF Steps
        <2>5. spent' \in [FaultKinds -> Nat] BY <1>25, Strikes DEF WriteResult, WriteFails
        <2>. QED BY <1>25, <2>3, <2>4, <2>5 DEF WriteResult, disk, files, wire
    <1>26. ASSUME NEW c \in Components, Restart(c) PROVE Goal
        BY <1>26, Starts, Moves DEF Restart, Steps, disk, files, wire
    <1>27. ASSUME NEW c \in Components, RestartFails(c) PROVE Goal
        <2>1. job[c].req \in Requests BY <1>27 DEF RestartFails, HasRequest, HasRequestOf
        <2>2. [id |-> job[c].req.id, target |-> job[c].req.target, status |-> "failed"] \in Results
            BY <2>1, RequestFacts, ResultFacts
        <2>3. result' \in [Components -> Results \cup {NoResult}]
            BY <1>27, <2>2 DEF RestartFails, WriteFails, Written
        <2>4. job' \in [Components -> Jobs] BY <1>27, Moves DEF RestartFails, Steps
        <2>5. spent' \in [FaultKinds -> Nat] BY <1>27, Strikes DEF RestartFails, WriteFails
        <2>. QED BY <1>27, <2>3, <2>4, <2>5 DEF RestartFails, disk, files, wire
    <1>28. ASSUME NEW c \in Components, Finish(c) PROVE Goal
        BY <1>28, Strikes, JobFacts DEF Finish, disk, files, wire
    <1>29. ASSUME NEW c \in Components, HelperCrash(c) PROVE Goal
        BY <1>29, Strikes, JobFacts DEF HelperCrash, disk, files, wire
    <1>. QED BY <1>1, <1>2, <1>3, <1>4, <1>5, <1>6, <1>7, <1>8, <1>9, <1>10, <1>11, <1>12,
        <1>13, <1>14, <1>15, <1>16, <1>17, <1>18, <1>19, <1>20, <1>21, <1>22, <1>23, <1>24,
        <1>25, <1>26, <1>27, <1>28, <1>29
        DEF Step, HelperStep, SingBoxStep

(* From its start until it installs, the helper knows the installed        *)
(* release; what it goes on to install is newer; and what it calls applied *)
(* is installed.                                                           *)
KnowsOf(c) ==
    /\ job[c].pc \in {"claim", "download", "helper", "binary"} => job[c].running = installed[c]
    /\ job[c].pc \in {"helper", "binary"} => job[c].req.target > job[c].running
    /\ job[c].pc \in {"result", "restart"} /\ job[c].status = "applied"
         => installed[c] >= job[c].req.target

KnowsInstalled == \A c \in Own : KnowsOf(c)

(* Goto and Conclude change the step of one helper and nothing of the      *)
(* others.                                                                 *)
LEMMA Effects ==
    ASSUME TypeOK, NEW c \in Components
    PROVE  /\ \A p : Goto(c, p) =>
                /\ job'[c].pc = p /\ job'[c].req = job[c].req /\ job'[c].running = job[c].running
                /\ job'[c].status = job[c].status
                /\ \A d \in Components \ {c} : job'[d] = job[d]
           /\ \A s : Conclude(c, s) =>
                /\ job'[c].pc = "result" /\ job'[c].req = job[c].req /\ job'[c].status = s
                /\ \A d \in Components \ {c} : job'[d] = job[d]
    <1>1. job \in [Components -> Jobs] /\ job[c] \in Jobs BY DEF TypeOK
    <1>. QED BY <1>1 DEF Goto, Conclude, Jobs

(* A helper that moves on keeps its request.                               *)
LEMMA Keeps ==
    ASSUME TypeOK, NEW c \in Components, HasRequestOf(c),
           job[c].pc \notin {"idle", "claim", "finish"}
    PROVE  /\ \A p : p # "claim" /\ Goto(c, p) => HasRequestOf(c)'
           /\ \A s : Conclude(c, s) => HasRequestOf(c)'
           /\ \A p, f : p # "claim" /\ job' = [job EXCEPT ![c].pc = p, ![c].other = f]
                 => HasRequestOf(c)'
           /\ \A p, f : p # "claim" /\ job' = [job EXCEPT ![c].pc = p, ![c].binary = f]
                 => HasRequestOf(c)'
    <1>1. job[c].req \in Requests BY DEF HasRequestOf
    <1>2. ASSUME job'[c].req = job[c].req, job'[c].pc # "claim" PROVE HasRequestOf(c)'
        BY <1>1, <1>2 DEF HasRequestOf
    <1>3. job \in [Components -> Jobs] /\ job[c] \in Jobs BY DEF TypeOK
    <1>4. \A p : p # "claim" /\ Goto(c, p) => HasRequestOf(c)'
        BY <1>2, <1>3 DEF Goto, Jobs
    <1>5. \A s : Conclude(c, s) => HasRequestOf(c)'
        BY <1>2, <1>3 DEF Conclude, Jobs
    <1>6. \A p, f : p # "claim" /\ job' = [job EXCEPT ![c].pc = p, ![c].other = f] => HasRequestOf(c)'
        BY <1>2, <1>3 DEF Jobs
    <1>7. \A p, f : p # "claim" /\ job' = [job EXCEPT ![c].pc = p, ![c].binary = f] => HasRequestOf(c)'
        BY <1>2, <1>3 DEF Jobs
    <1>. QED BY <1>4, <1>5, <1>6, <1>7

(* Installed releases are numbers.                                         *)
LEMMA Numbers == ASSUME TypeOK PROVE \A c \in Components : installed[c] \in Int
    BY DEF TypeOK, Files, Versions, Missing

(* A step that leaves helpers, binaries and request files alone changes    *)
(* nothing of what the helpers know.                                       *)
LEMMA Unmoved ==
    ASSUME TypeOK, HasRequest, KnowsInstalled,
           job' = job, installed' = installed, request' = request, processing' = processing
    PROVE  HasRequest' /\ KnowsInstalled' /\ \A d \in Own : installed'[d] >= installed[d]
    BY Sets, Numbers DEF HasRequest, HasRequestOf, KnowsInstalled, KnowsOf

(* A step of one program's helper says nothing about the other programs.   *)
LEMMA Local ==
    ASSUME TypeOK, HasRequest, KnowsInstalled, NEW c \in Components,
           \A d \in Components \ {c} :
               /\ job'[d] = job[d] /\ installed'[d] = installed[d]
               /\ request'[d] = request[d] /\ processing'[d] = processing[d],
           HasRequestOf(c)',
           c \in Own => KnowsOf(c)' /\ installed'[c] >= installed[c]
    PROVE  HasRequest' /\ KnowsInstalled' /\ \A d \in Own : installed'[d] >= installed[d]
    BY Sets, Numbers DEF HasRequest, HasRequestOf, KnowsInstalled, KnowsOf

(* Every step keeps what the helpers know, and no step installs an older   *)
(* release of a Theatropolis program: Download lets only a newer target    *)
(* pass (compareReleaseVersions), and nothing else writes that binary      *)
(* until InstallBinary.                                                    *)
LEMMA HelperStepKnows ==
    ASSUME TypeOK, HasRequest, KnowsInstalled, Next
    PROVE  HasRequest' /\ KnowsInstalled' /\ \A d \in Own : installed'[d] >= installed[d]
    <1>. DEFINE Goal == HasRequest' /\ KnowsInstalled' /\ \A d \in Own : installed'[d] >= installed[d]
                Others(c) == \A d \in Components \ {c} :
                    /\ job'[d] = job[d] /\ installed'[d] = installed[d]
                    /\ request'[d] = request[d] /\ processing'[d] = processing[d]
    <1>. SUFFICES ASSUME Step, bound' = bound PROVE Goal BY DEF Next
    <1>. USE DEF TypeOK
    <1>. "singbox" \in Components /\ "singbox" \notin Own BY Sets
    <1>. HasRequestOf("singbox") /\ job["singbox"] \in Jobs BY Sets DEF HasRequest
    <1>1. CASE Connect
        BY <1>1, Unmoved DEF Connect, disk, files
    <1>2. CASE LoseSession
        BY <1>2, Unmoved DEF LoseSession, disk, files
    <1>3. CASE AgentRestarts
        BY <1>3, Unmoved DEF AgentRestarts, disk, files
    <1>4. CASE MasterRestarts
        BY <1>4, Unmoved DEF MasterRestarts, disk, files
    <1>5. CASE ReceiveUpdate
        BY <1>5, Unmoved DEF ReceiveUpdate, disk, files
    <1>6. CASE UpdateMaster
        BY <1>6, Unmoved DEF UpdateMaster, disk, files
    <1>7. CASE SettingsPage
        BY <1>7, Unmoved DEF SettingsPage, disk, files
    <1>8. CASE HandleReport
        BY <1>8, Unmoved DEF HandleReport, disk, files
    <1>9. CASE CheckCandidate
        <2>1. Others("singbox") BY <1>9, Effects DEF CheckCandidate, disk, files, wire
        <2>2. HasRequestOf("singbox")' BY <1>9, Keeps DEF CheckCandidate
        <2>. QED BY <2>1, <2>2, Local
    <1>10. CASE BackupBinary
        <2>1. Others("singbox") BY <1>10, Effects DEF BackupBinary, disk, files, wire
        <2>2. HasRequestOf("singbox")' BY <1>10, Keeps DEF BackupBinary
        <2>. QED BY <2>1, <2>2, Local
    <1>11. CASE BackupLibrary
        <2>1. Others("singbox") BY <1>11, Effects DEF BackupLibrary, disk, files, wire
        <2>2. HasRequestOf("singbox")' BY <1>11, Keeps DEF BackupLibrary
        <2>. QED BY <2>1, <2>2, Local
    <1>12. CASE InstallLibrary
        <2>1. Others("singbox") BY <1>12, Effects DEF InstallLibrary, disk, files, wire
        <2>2. HasRequestOf("singbox")' BY <1>12, Keeps DEF InstallLibrary
        <2>. QED BY <2>1, <2>2, Local
    <1>13. CASE InstallSingBox
        <2>1. Others("singbox") BY <1>13, Effects DEF InstallSingBox, disk, files, wire
        <2>2. HasRequestOf("singbox")' BY <1>13, Keeps DEF InstallSingBox
        <2>. QED BY <2>1, <2>2, Local
    <1>14. CASE RestoreBackup
        <2>1. Others("singbox") BY <1>14, Effects DEF RestoreBackup, disk, files, wire
        <2>2. HasRequestOf("singbox")' BY <1>14, Keeps DEF RestoreBackup
        <2>. QED BY <2>1, <2>2, Local
    <1>15. ASSUME NEW c \in Remote, NEW v \in Versions, QueueUpdate(c, v) PROVE Goal
        BY <1>15, Unmoved DEF QueueUpdate, disk, files
    <1>16. ASSUME NEW c \in Remote, SendResult(c) PROVE Goal
        BY <1>16, Unmoved DEF SendResult, disk, files
    <1>17. ASSUME NEW c \in Components, ScheduleWrite(c) PROVE Goal
        <2>. c \in Components /\ HasRequestOf(c) /\ (c \in Own => KnowsOf(c))
            BY <1>17, Sets DEF HasRequest, KnowsInstalled
        <2>. job[c] \in Jobs BY DEF TypeOK
        <2>1. Others(c) BY <1>17, Effects DEF ScheduleWrite, PendingFile, disk, files, wire
        <2>2. HasRequestOf(c)'
            BY <1>17, Effects, JobFacts, RequestFacts
               DEF ScheduleWrite, PendingFile, HasRequestOf, disk, files, wire
        <2>3. c \in Own => KnowsOf(c)' /\ installed'[c] >= installed[c]
            BY <1>17, Effects, Numbers
               DEF ScheduleWrite, PendingFile, HasRequestOf, KnowsOf, disk, files, wire
        <2>. QED BY <2>1, <2>2, <2>3, Local
    <1>18. ASSUME NEW c \in Components, AcknowledgeResult(c) PROVE Goal
        BY <1>18, Unmoved DEF AcknowledgeResult, disk, files
    <1>19. ASSUME NEW c \in Components, StartHelper(c) PROVE Goal
        <2>. c \in Components /\ HasRequestOf(c) /\ (c \in Own => KnowsOf(c))
            BY <1>19, Sets DEF HasRequest, KnowsInstalled
        <2>. job[c] \in Jobs BY DEF TypeOK
        <2>1. Others(c) BY <1>19, Effects DEF StartHelper, Watches, Idle, disk, files, wire
        <2>2. HasRequestOf(c)'
            BY <1>19, Effects, JobFacts, RequestFacts
               DEF StartHelper, Watches, Idle, HasRequestOf, disk, files, wire
        <2>3. c \in Own => KnowsOf(c)' /\ installed'[c] >= installed[c]
            BY <1>19, Effects, Numbers
               DEF StartHelper, Watches, Idle, HasRequestOf, KnowsOf, disk, files, wire
        <2>. QED BY <2>1, <2>2, <2>3, Local
    <1>20. ASSUME NEW c \in Components, Claim(c) PROVE Goal
        <2>. c \in Components /\ HasRequestOf(c) /\ (c \in Own => KnowsOf(c))
            BY <1>20, Sets DEF HasRequest, KnowsInstalled
        <2>. job[c] \in Jobs BY DEF TypeOK
        <2>1. Others(c) BY <1>20, Effects DEF Claim, Idle, disk, files, wire
        <2>2. HasRequestOf(c)'
            <3>. DEFINE claimed == IF processing[c] = NoRequest THEN request[c] ELSE processing[c]
            <3>1. claimed \in Requests BY <1>20 DEF Claim, HasRequestOf
            <3>2. \/ job' = [job EXCEPT ![c].pc = "download", ![c].req = claimed]
                  \/ job' = [job EXCEPT ![c] = Idle]
                  \/ Goto(c, "finish")
                BY <1>20 DEF Claim
            <3>3. \/ job'[c].pc = "download" /\ job'[c].req = claimed
                  \/ job'[c].pc = "idle"
                  \/ job'[c].pc = "finish"
                BY <3>2, Effects DEF Jobs, Idle
            <3>. QED BY <3>1, <3>3 DEF HasRequestOf
        <2>3. c \in Own => KnowsOf(c)' /\ installed'[c] >= installed[c]
            BY <1>20, Effects, Numbers
               DEF Claim, Idle, Jobs, HasRequestOf, KnowsOf, disk, files, wire
        <2>. QED BY <2>1, <2>2, <2>3, Local
    <1>21. ASSUME NEW c \in Components, Download(c) PROVE Goal
        <2>. c \in Components /\ HasRequestOf(c) /\ (c \in Own => KnowsOf(c))
            BY <1>21, Sets DEF HasRequest, KnowsInstalled
        <2>. job[c] \in Jobs BY DEF TypeOK
        <2>1. Others(c) BY <1>21, Effects DEF Download, Downgrades, disk, files, wire
        <2>2. HasRequestOf(c)' BY <1>21, Keeps DEF Download
        <2>3. c \in Own => KnowsOf(c)' /\ installed'[c] >= installed[c]
            <3>. SUFFICES ASSUME c \in Own PROVE KnowsOf(c)' /\ installed'[c] >= installed[c]
                OBVIOUS
            <3>1. /\ installed' = installed /\ installed[c] \in Int
                  /\ job[c].running = installed[c]
                BY <1>21, Numbers DEF Download, disk, KnowsOf
            <3>2. job[c].req.target \in Int
                BY <1>21, RequestFacts DEF Download, HasRequestOf, Versions
            <3>3. \/ job[c].req.target = job[c].running /\ Conclude(c, "applied")
                  \/ Conclude(c, "failed")
                  \/ /\ job[c].req.target > job[c].running
                     /\ job' = [job EXCEPT ![c].pc = "helper", ![c].other = helper]
                <4>1. /\ job[c].req.target # job[c].running
                      /\ ~Downgrades(c, job[c].req.target, job[c].running)
                      => job[c].req.target > job[c].running
                    BY <3>1, <3>2 DEF Downgrades
                <4>. QED BY <1>21, <4>1 DEF Download
            <3>4. \/ /\ job[c].req.target = job[c].running
                     /\ job'[c].pc = "result" /\ job'[c].req = job[c].req
                  \/ job'[c].pc = "result" /\ job'[c].status = "failed"
                  \/ /\ job[c].req.target > job[c].running /\ job'[c].pc = "helper"
                     /\ job'[c].req = job[c].req /\ job'[c].running = job[c].running
                BY <3>3, Effects DEF Jobs
            <3>. QED BY <3>1, <3>2, <3>4 DEF KnowsOf
        <2>. QED BY <2>1, <2>2, <2>3, Local
    <1>22. ASSUME NEW c \in Components, InstallHelper(c) PROVE Goal
        <2>. c \in Components /\ HasRequestOf(c) /\ (c \in Own => KnowsOf(c))
            BY <1>22, Sets DEF HasRequest, KnowsInstalled
        <2>. job[c] \in Jobs BY DEF TypeOK
        <2>1. Others(c) BY <1>22, Effects DEF InstallHelper, disk, files, wire
        <2>2. HasRequestOf(c)' BY <1>22, Keeps DEF InstallHelper
        <2>3. c \in Own => KnowsOf(c)' /\ installed'[c] >= installed[c]
            BY <1>22, Effects, Numbers DEF InstallHelper, HasRequestOf, KnowsOf, disk, files, wire
        <2>. QED BY <2>1, <2>2, <2>3, Local
    <1>23. ASSUME NEW c \in Components, InstallBinary(c) PROVE Goal
        <2>. c \in Components /\ HasRequestOf(c) /\ (c \in Own => KnowsOf(c))
            BY <1>23, Sets DEF HasRequest, KnowsInstalled
        <2>. job[c] \in Jobs BY DEF TypeOK
        <2>1. Others(c) BY <1>23, Effects DEF InstallBinary, disk, files, wire
        <2>2. HasRequestOf(c)' BY <1>23, Keeps DEF InstallBinary
        <2>3. c \in Own => KnowsOf(c)' /\ installed'[c] >= installed[c]
            <3>. SUFFICES ASSUME c \in Own PROVE KnowsOf(c)' /\ installed'[c] >= installed[c]
                OBVIOUS
            <3>1. job[c].req.target \in Int /\ installed[c] \in Int
                BY <1>23, Numbers, RequestFacts DEF InstallBinary, HasRequestOf, Versions
            <3>2. job[c].req.target > installed[c] BY <1>23 DEF InstallBinary, KnowsOf
            <3>3. \/ installed'[c] = job[c].req.target /\ Conclude(c, "applied")
                  \/ installed'[c] \in {installed[c], job[c].req.target} /\ Goto(c, "undo")
                BY <1>23 DEF InstallBinary
            <3>4. \/ /\ installed'[c] = job[c].req.target
                     /\ job'[c].pc = "result" /\ job'[c].req = job[c].req
                  \/ installed'[c] \in {installed[c], job[c].req.target} /\ job'[c].pc = "undo"
                BY <3>3, Effects
            <3>. QED BY <3>1, <3>2, <3>4 DEF KnowsOf
        <2>. QED BY <2>1, <2>2, <2>3, Local
    <1>24. ASSUME NEW c \in Components, RollbackHelper(c) PROVE Goal
        <2>. c \in Components /\ HasRequestOf(c) /\ (c \in Own => KnowsOf(c))
            BY <1>24, Sets DEF HasRequest, KnowsInstalled
        <2>. job[c] \in Jobs BY DEF TypeOK
        <2>1. Others(c) BY <1>24, Effects DEF RollbackHelper, disk, files, wire
        <2>2. HasRequestOf(c)' BY <1>24, Keeps DEF RollbackHelper
        <2>3. c \in Own => KnowsOf(c)' /\ installed'[c] >= installed[c]
            BY <1>24, Effects, Numbers
               DEF RollbackHelper, HasRequestOf, KnowsOf, disk, files, wire
        <2>. QED BY <2>1, <2>2, <2>3, Local
    <1>25. ASSUME NEW c \in Components, WriteResult(c) PROVE Goal
        <2>. c \in Components /\ HasRequestOf(c) /\ (c \in Own => KnowsOf(c))
            BY <1>25, Sets DEF HasRequest, KnowsInstalled
        <2>. job[c] \in Jobs BY DEF TypeOK
        <2>1. Others(c) BY <1>25, Effects DEF WriteResult, disk, files, wire
        <2>2. HasRequestOf(c)' BY <1>25, Keeps DEF WriteResult
        <2>3. c \in Own => KnowsOf(c)' /\ installed'[c] >= installed[c]
            BY <1>25, Effects, Numbers DEF WriteResult, HasRequestOf, KnowsOf, disk, files, wire
        <2>. QED BY <2>1, <2>2, <2>3, Local
    <1>26. ASSUME NEW c \in Components, Restart(c) PROVE Goal
        <2>. c \in Components /\ HasRequestOf(c) /\ (c \in Own => KnowsOf(c))
            BY <1>26, Sets DEF HasRequest, KnowsInstalled
        <2>. job[c] \in Jobs BY DEF TypeOK
        <2>1. Others(c) BY <1>26, Effects DEF Restart, disk, files, wire
        <2>2. HasRequestOf(c)' BY <1>26, Keeps DEF Restart
        <2>3. c \in Own => KnowsOf(c)' /\ installed'[c] >= installed[c]
            BY <1>26, Effects, Numbers DEF Restart, HasRequestOf, KnowsOf, disk, files, wire
        <2>. QED BY <2>1, <2>2, <2>3, Local
    <1>27. ASSUME NEW c \in Components, RestartFails(c) PROVE Goal
        <2>. c \in Components /\ HasRequestOf(c) /\ (c \in Own => KnowsOf(c))
            BY <1>27, Sets DEF HasRequest, KnowsInstalled
        <2>. job[c] \in Jobs BY DEF TypeOK
        <2>1. Others(c) BY <1>27, Effects DEF RestartFails, disk, files, wire
        <2>2. HasRequestOf(c)' BY <1>27, Keeps DEF RestartFails
        <2>3. c \in Own => KnowsOf(c)' /\ installed'[c] >= installed[c]
            BY <1>27, Effects, Numbers DEF RestartFails, HasRequestOf, KnowsOf, disk, files, wire
        <2>. QED BY <2>1, <2>2, <2>3, Local
    <1>28. ASSUME NEW c \in Components, Finish(c) PROVE Goal
        <2>. c \in Components /\ HasRequestOf(c) /\ (c \in Own => KnowsOf(c))
            BY <1>28, Sets DEF HasRequest, KnowsInstalled
        <2>. job[c] \in Jobs BY DEF TypeOK
        <2>1. Others(c) BY <1>28, Effects DEF Finish, Idle, disk, files, wire
        <2>2. HasRequestOf(c)'
            BY <1>28, Effects, JobFacts, RequestFacts
               DEF Finish, Idle, HasRequestOf, disk, files, wire
        <2>3. c \in Own => KnowsOf(c)' /\ installed'[c] >= installed[c]
            BY <1>28, Effects, Numbers DEF Finish, Idle, HasRequestOf, KnowsOf, disk, files, wire
        <2>. QED BY <2>1, <2>2, <2>3, Local
    <1>29. ASSUME NEW c \in Components, HelperCrash(c) PROVE Goal
        <2>. c \in Components /\ HasRequestOf(c) /\ (c \in Own => KnowsOf(c))
            BY <1>29, Sets DEF HasRequest, KnowsInstalled
        <2>. job[c] \in Jobs BY DEF TypeOK
        <2>1. Others(c) BY <1>29, Effects DEF HelperCrash, Idle, disk, files, wire
        <2>2. HasRequestOf(c)'
            BY <1>29, Effects, JobFacts, RequestFacts
               DEF HelperCrash, Idle, HasRequestOf, disk, files, wire
        <2>3. c \in Own => KnowsOf(c)' /\ installed'[c] >= installed[c]
            BY <1>29, Effects, Numbers
               DEF HelperCrash, Idle, HasRequestOf, KnowsOf, disk, files, wire
        <2>. QED BY <2>1, <2>2, <2>3, Local
    <1>. QED BY <1>1, <1>2, <1>3, <1>4, <1>5, <1>6, <1>7, <1>8, <1>9, <1>10, <1>11, <1>12,
        <1>13, <1>14, <1>15, <1>16, <1>17, <1>18, <1>19, <1>20, <1>21, <1>22, <1>23, <1>24,
        <1>25, <1>26, <1>27, <1>28, <1>29
        DEF Step, HelperStep, SingBoxStep

(* Every step keeps request and claim apart: Schedule's second look sees   *)
(* the claimed file, and the helper's rename moves the only one there is.  *)
LEMMA OneRequestStep ==
    ASSUME TypeOK, OneRequest, Next
    PROVE  OneRequest'
    <1>. DEFINE Goal == OneRequest'
    <1>. SUFFICES ASSUME Step PROVE Goal BY DEF Next
    <1>. USE DEF TypeOK, OneRequest
    <1>1. CASE Connect
        BY <1>1 DEF Connect, files
    <1>2. CASE LoseSession
        BY <1>2 DEF LoseSession, files
    <1>3. CASE AgentRestarts
        BY <1>3 DEF AgentRestarts, files
    <1>4. CASE MasterRestarts
        BY <1>4 DEF MasterRestarts, files
    <1>5. CASE ReceiveUpdate
        BY <1>5 DEF ReceiveUpdate, files
    <1>6. CASE UpdateMaster
        BY <1>6 DEF UpdateMaster, files
    <1>7. CASE SettingsPage
        BY <1>7 DEF SettingsPage, files
    <1>8. CASE HandleReport
        BY <1>8 DEF HandleReport, files
    <1>9. CASE CheckCandidate
        BY <1>9 DEF CheckCandidate, files
    <1>10. CASE BackupBinary
        BY <1>10 DEF BackupBinary, files
    <1>11. CASE BackupLibrary
        BY <1>11 DEF BackupLibrary, files
    <1>12. CASE InstallLibrary
        BY <1>12 DEF InstallLibrary, files
    <1>13. CASE InstallSingBox
        BY <1>13 DEF InstallSingBox, files
    <1>14. CASE RestoreBackup
        BY <1>14 DEF RestoreBackup, files
    <1>15. ASSUME NEW c \in Remote, NEW v \in Versions, QueueUpdate(c, v) PROVE Goal
        BY <1>15 DEF QueueUpdate, files
    <1>16. ASSUME NEW c \in Remote, SendResult(c) PROVE Goal
        BY <1>16 DEF SendResult, files
    <1>17. ASSUME NEW c \in Components, ScheduleWrite(c) PROVE Goal
        BY <1>17 DEF ScheduleWrite, PendingFile, files
    <1>18. ASSUME NEW c \in Components, AcknowledgeResult(c) PROVE Goal
        BY <1>18 DEF AcknowledgeResult, files
    <1>19. ASSUME NEW c \in Components, StartHelper(c) PROVE Goal
        BY <1>19 DEF StartHelper, files
    <1>20. ASSUME NEW c \in Components, Claim(c) PROVE Goal
        BY <1>20 DEF Claim, files
    <1>21. ASSUME NEW c \in Components, Download(c) PROVE Goal
        BY <1>21 DEF Download, files
    <1>22. ASSUME NEW c \in Components, InstallHelper(c) PROVE Goal
        BY <1>22 DEF InstallHelper, files
    <1>23. ASSUME NEW c \in Components, InstallBinary(c) PROVE Goal
        BY <1>23 DEF InstallBinary, files
    <1>24. ASSUME NEW c \in Components, RollbackHelper(c) PROVE Goal
        BY <1>24 DEF RollbackHelper, files
    <1>25. ASSUME NEW c \in Components, WriteResult(c) PROVE Goal
        BY <1>25 DEF WriteResult, files
    <1>26. ASSUME NEW c \in Components, Restart(c) PROVE Goal
        BY <1>26 DEF Restart, files
    <1>27. ASSUME NEW c \in Components, RestartFails(c) PROVE Goal
        BY <1>27 DEF RestartFails, files
    <1>28. ASSUME NEW c \in Components, Finish(c) PROVE Goal
        BY <1>28 DEF Finish, files
    <1>29. ASSUME NEW c \in Components, HelperCrash(c) PROVE Goal
        BY <1>29 DEF HelperCrash, files
    <1>. QED BY <1>1, <1>2, <1>3, <1>4, <1>5, <1>6, <1>7, <1>8, <1>9, <1>10, <1>11, <1>12,
                <1>13, <1>14, <1>15, <1>16, <1>17, <1>18, <1>19, <1>20, <1>21, <1>22, <1>23,
                <1>24, <1>25, <1>26, <1>27, <1>28, <1>29
        DEF Step, HelperStep, SingBoxStep

(* What a step may write into a result file, a held result, the master's   *)
(* entry of the Agent and the reports on their way.                        *)
WrittenResult ==
    \A c \in Own :
        \/ result'[c] \in {result[c], NoResult}
        \/ result'[c].status = "failed"
        \/ /\ job[c].pc = "result" /\ installed'[c] = installed[c]
           /\ result'[c].target = job[c].req.target /\ result'[c].status = job[c].status

WrittenHeld == \A c \in Own : held'[c] \in {held[c], NoResult, result[c]}

WrittenEntry ==
    \/ entry'["agent"] = entry["agent"]
    \/ entry'["agent"].status # "applied"
    \/ /\ reports # << >> /\ Head(reports).component = "agent"
       /\ entry'["agent"].target = Head(reports).target
       /\ entry'["agent"].status = Head(reports).status

(* A report says applied only when the result file does.                   *)
Honest(m) ==
    m.status = "applied" =>
        /\ result[m.component].status = "applied"
        /\ result[m.component].target = m.target

WrittenReports ==
    \/ reports' \in {reports, << >>}
    \/ reports # << >> /\ reports' = Tail(reports)
    \/ \E m \in ReportFrames : Honest(m) /\ reports' = Append(reports, m)

(* A report that is sent is honest.                                        *)
LEMMA SentReport ==
    ASSUME TypeOK, NEW c \in Remote, NEW r, r.id \in Ids, r.target \in Versions,
           NEW s \in Statuses, Report(c, r, s),
           s = "applied" => result[c].status = "applied" /\ result[c].target = r.target
    PROVE  WrittenReports
    <1>. DEFINE m == [component |-> c, id |-> r.id, target |-> r.target, status |-> s]
    <1>1. m \in ReportFrames BY FrameFacts
    <1>2. Honest(m) BY DEF Honest
    <1>3. reports' = reports \/ reports' = Append(reports, m) BY DEF Report
    <1>. QED BY <1>1, <1>2, <1>3 DEF WrittenReports

(* Every step writes results, entries and reports in the ways above.       *)
LEMMA Writes ==
    ASSUME TypeOK, HasRequest, Next
    PROVE  WrittenResult /\ WrittenHeld /\ WrittenEntry /\ WrittenReports
    <1>. DEFINE Goal == WrittenResult /\ WrittenHeld /\ WrittenEntry /\ WrittenReports
    <1>. SUFFICES ASSUME Step PROVE Goal BY DEF Next
    <1>. USE Sets, ResultFacts DEF TypeOK, WrittenResult, WrittenHeld, WrittenEntry
    <1>1. CASE Connect
        BY <1>1 DEF Connect, WrittenReports, disk, files, wire
    <1>2. CASE LoseSession
        BY <1>2 DEF LoseSession, WrittenReports, disk, files, wire, EndSession
    <1>3. CASE AgentRestarts
        BY <1>3 DEF AgentRestarts, WrittenReports, disk, files, wire, AgentStarts, EndSession
    <1>4. CASE MasterRestarts
        BY <1>4 DEF MasterRestarts, WrittenReports, disk, files, wire, MasterStarts, EndSession
    <1>5. CASE ReceiveUpdate
        <2>1. WrittenReports
            <3>. DEFINE command == Head(commands)
                        r == [id |-> command.id, target |-> command.target]
            <3>1. command \in Frames BY <1>5 DEF ReceiveUpdate
            <3>2. command.component \in Remote /\ r.id \in Ids /\ r.target \in Versions
                BY <3>1, FrameFacts
            <3>3. Report(command.component, r, "rejected") \/ reports' = reports
                BY <1>5 DEF ReceiveUpdate
            <3>4. CASE reports' = reports BY <3>4 DEF WrittenReports
            <3>5. CASE Report(command.component, r, "rejected")
                BY <3>2, <3>5, SentReport DEF Statuses
            <3>. QED BY <3>3, <3>4, <3>5
        <2>2. WrittenResult /\ WrittenHeld /\ WrittenEntry
            BY <1>5 DEF ReceiveUpdate, files
        <2>. QED BY <2>1, <2>2
    <1>6. CASE UpdateMaster
        BY <1>6 DEF UpdateMaster, WrittenReports, disk, files, wire
    <1>7. CASE SettingsPage
        BY <1>7 DEF SettingsPage, WrittenReports, disk, files, wire
    <1>8. CASE HandleReport
        <2>. DEFINE r == Head(reports)
        <2>1. /\ reports # << >> /\ result' = result /\ held' = held
              /\ \/ /\ entry[r.component].target = r.target
                    /\ entry' = [entry EXCEPT ![r.component].status = r.status]
                    /\ reports' = Tail(reports)
                 \/ entry' = entry /\ reports' = Tail(reports)
                 \/ entry' = entry /\ reports' = << >>
            BY <1>8 DEF HandleReport, EndSession, files
        <2>2. WrittenReports BY <2>1 DEF WrittenReports
        <2>3. r \in ReportFrames BY <2>1
        <2>4. r.component \in Remote BY <2>3, FrameFacts
        <2>5. entry[r.component] \in Entries \cup {NoResult} BY <2>4
        <2>6. WrittenEntry
            <3>1. CASE entry'["agent"] = entry["agent"] BY <3>1
            <3>2. CASE /\ r.component = "agent" /\ entry["agent"].target = r.target
                       /\ entry'["agent"] = [entry["agent"] EXCEPT !.status = r.status]
                <4>1. entry'["agent"].target = r.target /\ entry'["agent"].status = r.status
                    BY <2>5, <3>2 DEF Entries, NoResult
                <4>. QED BY <2>1, <3>2, <4>1
            <3>. QED BY <2>1, <2>4, <3>1, <3>2
        <2>. QED BY <2>1, <2>2, <2>6
    <1>9. CASE CheckCandidate
        BY <1>9 DEF CheckCandidate, WrittenReports, disk, files, wire
    <1>10. CASE BackupBinary
        BY <1>10 DEF BackupBinary, WrittenReports, disk, files, wire
    <1>11. CASE BackupLibrary
        BY <1>11 DEF BackupLibrary, WrittenReports, disk, files, wire
    <1>12. CASE InstallLibrary
        BY <1>12 DEF InstallLibrary, WrittenReports, disk, files, wire
    <1>13. CASE InstallSingBox
        BY <1>13 DEF InstallSingBox, WrittenReports, disk, files, wire
    <1>14. CASE RestoreBackup
        BY <1>14 DEF RestoreBackup, WrittenReports, disk, files, wire
    <1>15. ASSUME NEW c \in Remote, NEW v \in Versions, QueueUpdate(c, v) PROVE Goal
        BY <1>15 DEF QueueUpdate, WrittenReports, disk, files, wire
    <1>16. ASSUME NEW c \in Remote, SendResult(c) PROVE Goal
        <2>1. WrittenReports
            <3>1. result[c] \in Results BY <1>16 DEF SendResult
            <3>2. /\ result[c].id \in Ids /\ result[c].target \in Versions
                  /\ result[c].status \in Statuses
                BY <3>1 DEF Statuses
            <3>3. Report(c, result[c], result[c].status) BY <1>16 DEF SendResult
            <3>. QED BY <1>16, <3>2, <3>3, SentReport
        <2>2. WrittenResult /\ WrittenHeld /\ WrittenEntry
            BY <1>16 DEF SendResult, files
        <2>. QED BY <2>1, <2>2
    <1>17. ASSUME NEW c \in Components, ScheduleWrite(c) PROVE Goal
        <2>1. WrittenReports
            <3>1. sched[c].id \in Ids /\ sched[c].target \in Versions
                BY <1>17, RequestFacts DEF ScheduleWrite
            <3>2. Answer(c, "rejected") \/ Answer(c, "scheduled") BY <1>17 DEF ScheduleWrite
            <3>3. CASE c \in Remote
                BY <3>1, <3>2, <3>3, SentReport DEF Answer, Statuses
            <3>4. CASE c \notin Remote
                BY <3>2, <3>4 DEF Answer, WrittenReports
            <3>. QED BY <3>3, <3>4
        <2>2. WrittenResult /\ WrittenHeld /\ WrittenEntry
            BY <1>17 DEF ScheduleWrite, files
        <2>. QED BY <2>1, <2>2
    <1>18. ASSUME NEW c \in Components, AcknowledgeResult(c) PROVE Goal
        BY <1>18 DEF AcknowledgeResult, WrittenReports, disk, files, wire, EndSession
    <1>19. ASSUME NEW c \in Components, StartHelper(c) PROVE Goal
        BY <1>19 DEF StartHelper, WrittenReports, disk, files, wire
    <1>20. ASSUME NEW c \in Components, Claim(c) PROVE Goal
        BY <1>20 DEF Claim, WrittenReports, disk, files, wire
    <1>21. ASSUME NEW c \in Components, Download(c) PROVE Goal
        BY <1>21 DEF Download, WrittenReports, disk, files, wire
    <1>22. ASSUME NEW c \in Components, InstallHelper(c) PROVE Goal
        BY <1>22 DEF InstallHelper, WrittenReports, disk, files, wire
    <1>23. ASSUME NEW c \in Components, InstallBinary(c) PROVE Goal
        BY <1>23 DEF InstallBinary, WrittenReports, disk, files, wire
    <1>24. ASSUME NEW c \in Components, RollbackHelper(c) PROVE Goal
        BY <1>24 DEF RollbackHelper, WrittenReports, disk, files, wire
    <1>25. ASSUME NEW c \in Components, WriteResult(c) PROVE Goal
        BY <1>25
           DEF WriteResult, WriteFails, Written, WrittenReports, disk, files, wire
    <1>26. ASSUME NEW c \in Components, Restart(c) PROVE Goal
        <2>1. /\ result' = result
              /\ MasterStarts \/ (AgentStarts /\ entry' = entry)
            BY <1>26 DEF Restart, files
        <2>2. CASE MasterStarts
            BY <2>1, <2>2 DEF MasterStarts, EndSession, WrittenReports
        <2>3. CASE AgentStarts /\ entry' = entry
            BY <2>1, <2>3 DEF AgentStarts, EndSession, WrittenReports
        <2>. QED BY <2>1, <2>2, <2>3
    <1>27. ASSUME NEW c \in Components, RestartFails(c) PROVE Goal
        BY <1>27
           DEF RestartFails, WriteFails, Written, WrittenReports, disk, files, wire
    <1>28. ASSUME NEW c \in Components, Finish(c) PROVE Goal
        BY <1>28 DEF Finish, WrittenReports, disk, files, wire
    <1>29. ASSUME NEW c \in Components, HelperCrash(c) PROVE Goal
        BY <1>29 DEF HelperCrash, WrittenReports, disk, files, wire
    <1>. QED BY <1>1, <1>2, <1>3, <1>4, <1>5, <1>6, <1>7, <1>8, <1>9, <1>10, <1>11, <1>12,
                <1>13, <1>14, <1>15, <1>16, <1>17, <1>18, <1>19, <1>20, <1>21, <1>22, <1>23,
                <1>24, <1>25, <1>26, <1>27, <1>28, <1>29
        DEF Step, HelperStep, SingBoxStep

(* The word applied is passed on from the helper to the result file, the   *)
(* report and the entry, and stays true because the installed release only *)
(* grows.                                                                  *)
LEMMA AppliedStep ==
    ASSUME TypeOK, HasRequest, KnowsInstalled, AppliedIsInstalled, Next,
           \A c \in Own : installed'[c] >= installed[c], TypeOK'
    PROVE  AppliedIsInstalled'
    <1>1. WrittenResult /\ WrittenHeld /\ WrittenEntry /\ WrittenReports BY Writes
    <1>2. /\ \A c \in Own : installed[c] \in Int /\ installed'[c] \in Int
          /\ \A c \in Own : result[c].target \in Int /\ held[c].target \in Int
          /\ entry["agent"].target \in Int
        <2>1. \A v \in Files : v \in Int BY DEF Files, Versions, Missing
        <2>2. \A r \in Results \cup {NoResult} : r.target \in Files
            BY DEF Results, NoResult, Files
        <2>3. \A e \in Entries \cup {NoResult} : e.target \in Files
            BY DEF Entries, NoResult, Files
        <2>. QED BY <2>1, <2>2, <2>3, Sets DEF TypeOK
    <1>3. \A f \in ReportFrames : f.target \in Int
        BY FrameFacts DEF Versions
    <1>4. \A c \in Own : Delivered(c, result[c])' /\ Delivered(c, held[c])'
        <2>. SUFFICES ASSUME NEW c \in Own
                      PROVE  Delivered(c, result[c])' /\ Delivered(c, held[c])'
            OBVIOUS
        <2>1. Delivered(c, result[c]) /\ Delivered(c, held[c]) BY DEF AppliedIsInstalled
        <2>2. job[c].pc = "result" /\ job[c].status = "applied" => installed[c] >= job[c].req.target
            BY DEF KnowsInstalled, KnowsOf
        <2>3. NoResult.status # "applied" BY DEF NoResult
        <2>4. Delivered(c, result[c])'
            BY <1>1, <1>2, <2>1, <2>2, <2>3 DEF WrittenResult, Delivered
        <2>5. Delivered(c, held[c])' BY <1>1, <1>2, <2>1, <2>3 DEF WrittenHeld, Delivered
        <2>. QED BY <2>4, <2>5
    <1>5. ASSUME NEW m \in ReportFrames, m.component \in Own, Delivered(m.component, m)
          PROVE  m.status = "applied" => installed'[m.component] >= m.target
        BY <1>2, <1>3, <1>5 DEF Delivered
    <1>6. Delivered("agent", entry["agent"])'
        <2>1. CASE entry'["agent"] = entry["agent"]
            BY <1>2, <2>1, Sets DEF AppliedIsInstalled, Delivered
        <2>2. CASE entry'["agent"].status # "applied"
            BY <2>2 DEF Delivered
        <2>3. CASE /\ reports # << >> /\ Head(reports).component = "agent"
                   /\ entry'["agent"].target = Head(reports).target
                   /\ entry'["agent"].status = Head(reports).status
            <3>1. Head(reports) \in ReportFrames /\ Head(reports) = reports[1]
                  /\ 1 \in DOMAIN reports
                BY <2>3 DEF TypeOK
            <3>2. Delivered("agent", Head(reports))
                BY <2>3, <3>1, Sets DEF AppliedIsInstalled
            <3>. QED BY <1>5, <2>3, <3>1, <3>2, Sets DEF Delivered
        <2>. QED BY <1>1, <2>1, <2>2, <2>3 DEF WrittenEntry
    <1>7. ASSUME NEW i \in DOMAIN reports', (reports[i].component)' \in Own
          PROVE  Delivered(reports[i].component, reports[i])'
        <2>1. ASSUME NEW j \in DOMAIN reports, reports'[i] = reports[j]
              PROVE  Delivered(reports[i].component, reports[i])'
            <3>1. reports[j] \in ReportFrames BY DEF TypeOK
            <3>2. Delivered(reports[j].component, reports[j])
                BY <1>7, <2>1 DEF AppliedIsInstalled
            <3>. QED BY <1>5, <1>7, <2>1, <3>1, <3>2 DEF Delivered
        <2>2. ASSUME NEW m \in ReportFrames, Honest(m), reports'[i] = m
              PROVE  Delivered(reports[i].component, reports[i])'
            <3>1. Delivered(m.component, m)
                BY <1>7, <2>2 DEF Honest, AppliedIsInstalled, Delivered
            <3>. QED BY <1>5, <1>7, <2>2, <3>1 DEF Delivered
        <2>3. CASE reports' = reports BY <2>1, <2>3
        <2>4. CASE reports' = << >> BY <2>4
        <2>5. CASE reports # << >> /\ reports' = Tail(reports)
            <3>1. i + 1 \in DOMAIN reports /\ reports'[i] = reports[i + 1]
                BY <2>5 DEF TypeOK
            <3>. QED BY <2>1, <3>1
        <2>6. ASSUME NEW m \in ReportFrames, Honest(m), reports' = Append(reports, m)
              PROVE  Delivered(reports[i].component, reports[i])'
            <3>1. reports'[i] = m \/ (i \in DOMAIN reports /\ reports'[i] = reports[i])
                BY <2>6 DEF TypeOK
            <3>. QED BY <2>1, <2>2, <2>6, <3>1
        <2>. QED BY <1>1, <2>3, <2>4, <2>5, <2>6 DEF WrittenReports
    <1>. QED BY <1>4, <1>6, <1>7 DEF AppliedIsInstalled

(* A fault that strikes is counted, and no count goes back.                *)
LEMMA Counted ==
    ASSUME TypeOK, NEW k \in FaultKinds, Strike(k)
    PROVE  spent'[k] # 0 /\ \A f \in FaultKinds : spent'[f] = 0 => spent[f] = 0
    BY DEF TypeOK, Strike

(* Where sing-box's helper stands decides what is at the two installed     *)
(* paths: after backupLibrary's predecessor the binary is moved aside and  *)
(* remembered, then the library, and restoreBackup puts both back          *)
(* (replaceComponents in internal/singboxupdate).                          *)
Replacing == {"backupLibrary", "installLibrary", "installBinary", "restore"}

Moved(j) ==
    /\ j.pc = "backupLibrary" => installed["singbox"] = Missing /\ j.binary = library
    /\ j.pc = "installLibrary" => library = Missing /\ j.binary = j.other
    /\ j.pc = "installBinary" => library = j.req.target /\ j.binary = j.other
    /\ j.pc = "restore" => j.binary = j.other
    /\ j.pc \notin Replacing => installed["singbox"] = library

PairedInv ==
    /\ job["singbox"].pc \notin {"helper", "binary", "undo"}
    /\ spent["crash"] = 0 => Moved(job["singbox"])

(* A step that touches neither sing-box's helper nor its two files.        *)
LEMMA Apart ==
    ASSUME PairedInv, job'["singbox"] = job["singbox"],
           installed'["singbox"] = installed["singbox"], library' = library,
           spent'["crash"] = 0 => spent["crash"] = 0
    PROVE  PairedInv'
    BY DEF PairedInv, Moved

(* A step of sing-box's helper that leaves both files where they are and   *)
(* is not in the middle of a replacement.                                  *)
LEMMA Outside ==
    ASSUME PairedInv, installed'["singbox"] = installed["singbox"], library' = library,
           job["singbox"].pc \notin Replacing,
           job'["singbox"].pc \notin Replacing \cup {"helper", "binary", "undo"},
           spent'["crash"] = 0 => spent["crash"] = 0
    PROVE  PairedInv'
    BY DEF PairedInv, Moved, Replacing

(* Every step keeps the two files together with the helper's place.        *)
LEMMA PairedStep ==
    ASSUME TypeOK, HasRequest, PairedInv, Next
    PROVE  PairedInv'
    <1>. DEFINE Goal == PairedInv'
                s == "singbox"
                Same == spent'["crash"] = 0 => spent["crash"] = 0
    <1>. SUFFICES ASSUME Step PROVE Goal BY DEF Next
    <1>. USE Sets DEF TypeOK
    <1>1. CASE Connect
        BY <1>1, Apart DEF Connect, disk
    <1>2. CASE LoseSession
        BY <1>2, Apart, Counted DEF LoseSession, disk
    <1>3. CASE AgentRestarts
        BY <1>3, Apart, Counted DEF AgentRestarts, disk
    <1>4. CASE MasterRestarts
        BY <1>4, Apart, Counted DEF MasterRestarts, disk
    <1>5. CASE ReceiveUpdate
        BY <1>5, Apart DEF ReceiveUpdate, disk
    <1>6. CASE UpdateMaster
        BY <1>6, Apart DEF UpdateMaster, disk
    <1>7. CASE SettingsPage
        BY <1>7, Apart DEF SettingsPage, disk
    <1>8. CASE HandleReport
        BY <1>8, Apart DEF HandleReport, disk
    <1>9. CASE CheckCandidate
        BY <1>9, Effects, Outside DEF CheckCandidate, Replacing, disk
    <1>10. CASE BackupBinary
        <2>1. job[s] \in Jobs BY DEF TypeOK
        <2>2. job[s].pc = "backupBinary" /\ library' = library
            BY <1>10 DEF BackupBinary
        <2>3. CASE /\ job' = [job EXCEPT ![s].pc = "backupLibrary", ![s].binary = installed[s]]
                   /\ installed' = [installed EXCEPT ![s] = Missing]
                   /\ spent' = spent
            <3>1. /\ job'[s].pc = "backupLibrary" /\ job'[s].binary = installed[s]
                  /\ installed'[s] = Missing
                BY <2>1, <2>3 DEF Jobs
            <3>. QED BY <2>2, <2>3, <3>1 DEF PairedInv, Moved, Replacing
        <2>4. CASE Strike("disk") /\ Conclude(s, "failed") /\ installed' = installed
            BY <2>2, <2>4, Effects, Counted, Outside DEF Replacing
        <2>. QED BY <1>10, <2>3, <2>4 DEF BackupBinary
    <1>11. CASE BackupLibrary
        <2>1. job[s] \in Jobs BY DEF TypeOK
        <2>2. job[s].pc = "backupLibrary" BY <1>11 DEF BackupLibrary
        <2>3. CASE /\ job' = [job EXCEPT ![s].pc = "installLibrary", ![s].other = library]
                   /\ library' = Missing /\ spent' = spent
            <3>1. /\ job'[s].pc = "installLibrary" /\ job'[s].other = library
                  /\ job'[s].binary = job[s].binary
                BY <2>1, <2>3 DEF Jobs
            <3>. QED BY <2>2, <2>3, <3>1 DEF PairedInv, Moved, Replacing
        <2>4. CASE /\ Strike("disk") /\ Conclude(s, "failed") /\ library' = library
                   /\ installed' = [installed EXCEPT ![s] = job[s].binary]
            <3>1. job'[s].pc = "result" /\ installed'[s] = job[s].binary /\ Same
                BY <2>4, Effects, Counted
            <3>. QED BY <2>2, <2>4, <3>1 DEF PairedInv, Moved, Replacing
        <2>. QED BY <1>11, <2>3, <2>4 DEF BackupLibrary
    <1>12. CASE InstallLibrary
        <2>1. job[s] \in Jobs BY DEF TypeOK
        <2>2. job[s].pc = "installLibrary" BY <1>12 DEF InstallLibrary
        <2>3. \/ /\ Goto(s, "installBinary") /\ library' = job[s].req.target /\ spent' = spent
              \/ Goto(s, "restore") /\ Strike("disk")
            BY <1>12 DEF InstallLibrary
        <2>4. /\ job'[s].binary = job[s].binary /\ job'[s].other = job[s].other
              /\ job'[s].req = job[s].req
              /\ \/ job'[s].pc = "installBinary" /\ library' = job[s].req.target
                 \/ job'[s].pc = "restore"
              /\ Same
            <3>1. Same BY <2>3, Counted
            <3>2. \A p : Goto(s, p) => /\ job'[s].binary = job[s].binary /\ job'[s].pc = p
                                       /\ job'[s].other = job[s].other /\ job'[s].req = job[s].req
                BY <2>1 DEF Goto, Jobs
            <3>. QED BY <2>3, <3>1, <3>2
        <2>. QED BY <2>2, <2>4 DEF PairedInv, Moved, Replacing
    <1>13. CASE InstallSingBox
        <2>1. job[s] \in Jobs BY DEF TypeOK
        <2>2. job[s].pc = "installBinary" /\ library' = library BY <1>13 DEF InstallSingBox
        <2>3. CASE /\ installed' = [installed EXCEPT ![s] = job[s].req.target]
                   /\ Conclude(s, "applied") /\ spent' = spent
            <3>1. job'[s].pc = "result" /\ installed'[s] = job[s].req.target
                BY <2>3, Effects
            <3>. QED BY <2>2, <2>3, <3>1 DEF PairedInv, Moved, Replacing
        <2>4. CASE Goto(s, "restore") /\ Strike("disk")
            <3>1. /\ job'[s].binary = job[s].binary /\ job'[s].other = job[s].other
                  /\ job'[s].pc = "restore" /\ Same
                BY <2>1, <2>4, Counted DEF Goto, Jobs
            <3>. QED BY <2>2, <3>1 DEF PairedInv, Moved, Replacing
        <2>. QED BY <1>13, <2>3, <2>4 DEF InstallSingBox
    <1>14. CASE RestoreBackup
        <2>1. /\ job[s].pc = "restore" /\ job'[s].pc = "result" /\ spent' = spent
              /\ installed'[s] = job[s].binary /\ library' = job[s].other
            BY <1>14, Effects DEF RestoreBackup
        <2>. QED BY <2>1 DEF PairedInv, Moved, Replacing
    <1>15. ASSUME NEW c \in Remote, NEW v \in Versions, QueueUpdate(c, v) PROVE Goal
        BY <1>15, Apart DEF QueueUpdate, disk
    <1>16. ASSUME NEW c \in Remote, SendResult(c) PROVE Goal
        BY <1>16, Apart DEF SendResult, disk
    <1>17. ASSUME NEW c \in Components, ScheduleWrite(c) PROVE Goal
        BY <1>17, Apart, Counted DEF ScheduleWrite, disk
    <1>18. ASSUME NEW c \in Components, AcknowledgeResult(c) PROVE Goal
        BY <1>18, Apart DEF AcknowledgeResult, disk
    <1>19. ASSUME NEW c \in Components, StartHelper(c) PROVE Goal
        <2>1. CASE c = s
            <3>1. job[s].pc = "idle" /\ job'[s].pc = "claim"
                BY <1>19, <2>1 DEF StartHelper, Idle
            <3>. QED BY <1>19, <3>1, Outside DEF StartHelper, Replacing, disk
        <2>2. CASE c # s
            BY <1>19, <2>2, Apart DEF StartHelper, disk
        <2>. QED BY <2>1, <2>2
    <1>20. ASSUME NEW c \in Components, Claim(c) PROVE Goal
        <2>1. /\ job[c].pc = "claim" /\ installed' = installed /\ library' = library
              /\ job'[c].pc \in {"download", "idle", "finish"} /\ Same
              /\ \A d \in Components \ {c} : job'[d] = job[d]
            <3>1. \/ \E r : job' = [job EXCEPT ![c].pc = "download", ![c].req = r]
                  \/ job' = [job EXCEPT ![c] = Idle]
                  \/ Goto(c, "finish")
                BY <1>20 DEF Claim
            <3>2. job'[c].pc \in {"download", "idle", "finish"}
                BY <3>1, Effects DEF Idle, Jobs
            <3>3. \A d \in Components \ {c} : job'[d] = job[d]
                BY <3>1, Effects
            <3>4. Same BY <1>20, Counted DEF Claim
            <3>. QED BY <1>20, <3>2, <3>3, <3>4 DEF Claim, disk
        <2>2. CASE c = s BY <2>1, <2>2, Outside DEF Replacing
        <2>3. CASE c # s BY <2>1, <2>3, Apart
        <2>. QED BY <2>2, <2>3
    <1>21. ASSUME NEW c \in Components, Download(c) PROVE Goal
        <2>1. CASE c = s
            <3>1. job[s].pc = "download" /\ job'[s].pc \in {"result", "candidate"}
                BY <1>21, <2>1, Effects DEF Download
            <3>. QED BY <1>21, <3>1, Outside DEF Download, Replacing, disk
        <2>2. CASE c # s
            <3>1. job'[s] = job[s]
                BY <1>21, <2>2, Effects DEF Download
            <3>. QED BY <1>21, <3>1, Apart DEF Download, disk
        <2>. QED BY <2>1, <2>2
    <1>22. ASSUME NEW c \in Components, InstallHelper(c) PROVE Goal
        <2>1. c # s BY <1>22 DEF InstallHelper, PairedInv
        <2>. QED BY <1>22, <2>1, Effects, Counted, Apart DEF InstallHelper
    <1>23. ASSUME NEW c \in Components, InstallBinary(c) PROVE Goal
        <2>1. c # s BY <1>23 DEF InstallBinary, PairedInv
        <2>2. job'[s] = job[s] BY <1>23, <2>1, Effects DEF InstallBinary
        <2>3. installed'[s] = installed[s] /\ library' = library BY <1>23, <2>1 DEF InstallBinary
        <2>4. Same BY <1>23, Counted DEF InstallBinary
        <2>. QED BY <2>2, <2>3, <2>4, Apart
    <1>24. ASSUME NEW c \in Components, RollbackHelper(c) PROVE Goal
        <2>1. c # s BY <1>24 DEF RollbackHelper, PairedInv
        <2>2. job'[s] = job[s] BY <1>24, <2>1, Effects DEF RollbackHelper
        <2>3. installed'[s] = installed[s] /\ library' = library BY <1>24, <2>1 DEF RollbackHelper
        <2>4. Same BY <1>24, Counted DEF RollbackHelper
        <2>. QED BY <2>2, <2>3, <2>4, Apart
    <1>25. ASSUME NEW c \in Components, WriteResult(c) PROVE Goal
        <2>1. /\ job[c].pc = "result" /\ job'[c].pc \in {"restart", "finish"}
              /\ \A d \in Components \ {c} : job'[d] = job[d]
            BY <1>25, Effects DEF WriteResult
        <2>2. installed' = installed /\ library' = library /\ Same
            BY <1>25, Counted DEF WriteResult, WriteFails, disk
        <2>3. CASE c = s BY <2>1, <2>2, <2>3, Outside DEF Replacing
        <2>4. CASE c # s BY <2>1, <2>2, <2>4, Apart
        <2>. QED BY <2>3, <2>4
    <1>26. ASSUME NEW c \in Components, Restart(c) PROVE Goal
        <2>1. /\ job[c].pc = "restart" /\ job'[c].pc \in {"finish"}
              /\ \A d \in Components \ {c} : job'[d] = job[d]
            BY <1>26, Effects DEF Restart
        <2>2. installed' = installed /\ library' = library /\ Same
            BY <1>26, Counted DEF Restart, disk
        <2>3. CASE c = s BY <2>1, <2>2, <2>3, Outside DEF Replacing
        <2>4. CASE c # s BY <2>1, <2>2, <2>4, Apart
        <2>. QED BY <2>3, <2>4
    <1>27. ASSUME NEW c \in Components, RestartFails(c) PROVE Goal
        <2>1. /\ job[c].pc = "restart" /\ job'[c].pc \in {"finish"}
              /\ \A d \in Components \ {c} : job'[d] = job[d]
            BY <1>27, Effects DEF RestartFails
        <2>2. installed' = installed /\ library' = library /\ Same
            BY <1>27, Counted DEF RestartFails, WriteFails, disk
        <2>3. CASE c = s BY <2>1, <2>2, <2>3, Outside DEF Replacing
        <2>4. CASE c # s BY <2>1, <2>2, <2>4, Apart
        <2>. QED BY <2>3, <2>4
    <1>28. ASSUME NEW c \in Components, Finish(c) PROVE Goal
        <2>1. job[c].pc = "finish" /\ job'[c].pc = "idle"
            BY <1>28 DEF Finish, Idle
        <2>2. installed' = installed /\ library' = library /\ Same
            BY <1>28, Counted DEF Finish, disk
        <2>3. CASE c = s BY <2>1, <2>2, <2>3, Outside DEF Replacing
        <2>4. CASE c # s BY <1>28, <2>2, <2>4, Apart DEF Finish
        <2>. QED BY <2>3, <2>4
    <1>29. ASSUME NEW c \in Components, HelperCrash(c) PROVE Goal
        <2>1. spent'["crash"] # 0 BY <1>29, Counted DEF HelperCrash
        <2>2. job'[s].pc \in {job[s].pc, "idle"} BY <1>29 DEF HelperCrash, Idle
        <2>. QED BY <2>1, <2>2 DEF PairedInv
    <1>. QED BY <1>1, <1>2, <1>3, <1>4, <1>5, <1>6, <1>7, <1>8, <1>9, <1>10, <1>11, <1>12,
        <1>13, <1>14, <1>15, <1>16, <1>17, <1>18, <1>19, <1>20, <1>21, <1>22, <1>23, <1>24,
        <1>25, <1>26, <1>27, <1>28, <1>29
        DEF Step, HelperStep, SingBoxStep

(* A result that says applied although the service does not run that       *)
(* release yet.                                                            *)
Lags(c) == result[c].status = "applied" /\ ~(running[c] >= result[c].target)

(* A helper that goes on has claimed its request; before it restarts the   *)
(* service the result is its own or was acknowledged; and as long as the   *)
(* service lags the claim is there and the helper not at its end           *)
(* (agentupdate.Apply and its deferred removal of the claimed file).       *)
RunningOf(c) ==
    /\ Lags(c) => processing[c] # NoRequest /\ job[c].pc # "finish"
    /\ job[c].pc = "restart" => result[c].status \in {job[c].status, "none"}
    /\ job[c].pc \notin {"idle", "claim"} => processing[c] # NoRequest

RunningInv == spent["disk"] = 0 => \A c \in Own : RunningOf(c)

(* A step beside a program's helper at most acknowledges its result or     *)
(* starts its process anew.                                                *)
LEMMA Steady ==
    ASSUME NEW c \in Own, RunningOf(c), Delivered(c, result[c]),
           job'[c] = job[c], processing'[c] = processing[c],
           result'[c] \in {result[c], NoResult}, running'[c] \in {running[c], installed[c]}
    PROVE  RunningOf(c)'
    BY ResultFacts DEF RunningOf, Lags, Delivered

(* A step of a program's helper that leaves result and process alone and   *)
(* keeps the claim.                                                        *)
LEMMA Onward ==
    ASSUME NEW c \in Own, RunningOf(c), processing'[c] = processing[c],
           result'[c] = result[c], running'[c] = running[c],
           \/ job'[c].pc \in {"idle", "claim"}
           \/ processing[c] # NoRequest /\ job'[c].pc \notin {"restart", "finish"}
    PROVE  RunningOf(c)'
    BY DEF RunningOf, Lags

(* Every step keeps a result that says applied true of the running service *)
(* once the helper is done.                                                *)
LEMMA RunningStep ==
    ASSUME TypeOK, HasRequest, AppliedIsInstalled, RunningInv, Next
    PROVE  RunningInv'
    <1>. DEFINE Same == spent'["disk"] = 0 => spent["disk"] = 0
    <1>. USE Sets DEF TypeOK
    <1>0. Same
        <2>. DEFINE Kept == spent' = spent \/ \E k \in FaultKinds : Strike(k)
        <2>1. ASSUME Connect \/ LoseSession \/ AgentRestarts \/ MasterRestarts \/ ReceiveUpdate
                     \/ UpdateMaster \/ SettingsPage \/ HandleReport
              PROVE  Kept
            BY <2>1 DEF Connect, LoseSession, AgentRestarts, MasterRestarts, ReceiveUpdate,
                        UpdateMaster, SettingsPage, HandleReport
        <2>2. ASSUME NEW c \in Components,
                     \/ \E v \in Versions : QueueUpdate(c, v)
                     \/ SendResult(c) \/ ScheduleWrite(c) \/ AcknowledgeResult(c) \/ HelperCrash(c)
              PROVE  Kept
            BY <2>2 DEF QueueUpdate, SendResult, ScheduleWrite, AcknowledgeResult, HelperCrash
        <2>3. ASSUME NEW c \in Components, HelperStep(c) PROVE Kept
            BY <2>3 DEF HelperStep, StartHelper, Claim, Download, InstallHelper, InstallBinary,
                        RollbackHelper, WriteResult, WriteFails, Restart, RestartFails, Finish
        <2>4. ASSUME SingBoxStep PROVE Kept
            BY <2>4 DEF SingBoxStep, CheckCandidate, BackupBinary, BackupLibrary, InstallLibrary,
                        InstallSingBox, RestoreBackup
        <2>5. Kept BY <2>1, <2>2, <2>3, <2>4 DEF Next, Step
        <2>. QED BY <2>5, Counted
    <1>. SUFFICES ASSUME Step, NEW o \in Own, spent'["disk"] = 0 PROVE RunningOf(o)'
        BY DEF Next, RunningInv
    <1>. DEFINE Goal == RunningOf(o)'
    <1>a. /\ RunningOf(o) /\ Delivered(o, result[o]) /\ o \in Components
          /\ job[o] \in Jobs /\ ~Strike("disk")
        BY <1>0, Counted DEF RunningInv, AppliedIsInstalled
    <1>b. /\ AgentStarts => running'[o] \in {running[o], installed[o]}
          /\ MasterStarts => running'[o] \in {running[o], installed[o]}
        BY DEF AgentStarts, MasterStarts, Own
    <1>1. CASE Connect
        BY <1>1, <1>a, Steady DEF Connect, files
    <1>2. CASE LoseSession
        BY <1>2, <1>a, Steady DEF LoseSession, files
    <1>3. CASE AgentRestarts
        BY <1>3, <1>a, <1>b, Steady DEF AgentRestarts, files
    <1>4. CASE MasterRestarts
        BY <1>4, <1>a, <1>b, Steady DEF MasterRestarts, files
    <1>5. CASE ReceiveUpdate
        BY <1>5, <1>a, Steady DEF ReceiveUpdate, files
    <1>6. CASE UpdateMaster
        BY <1>6, <1>a, Steady DEF UpdateMaster, files
    <1>7. CASE SettingsPage
        BY <1>7, <1>a, Steady DEF SettingsPage, files
    <1>8. CASE HandleReport
        BY <1>8, <1>a, Steady DEF HandleReport, files
    <1>9. CASE CheckCandidate
        <2>1. job'[o] = job[o] BY <1>9, Effects DEF CheckCandidate
        <2>. QED BY <1>9, <1>a, <2>1, Steady DEF CheckCandidate, files
    <1>10. CASE BackupBinary
        <2>1. job'[o] = job[o] BY <1>10, Effects DEF BackupBinary
        <2>. QED BY <1>10, <1>a, <2>1, Steady DEF BackupBinary, files
    <1>11. CASE BackupLibrary
        <2>1. job'[o] = job[o] BY <1>11, Effects DEF BackupLibrary
        <2>. QED BY <1>11, <1>a, <2>1, Steady DEF BackupLibrary, files
    <1>12. CASE InstallLibrary
        <2>1. job'[o] = job[o] BY <1>12, Effects DEF InstallLibrary
        <2>. QED BY <1>12, <1>a, <2>1, Steady DEF InstallLibrary, files
    <1>13. CASE InstallSingBox
        <2>1. job'[o] = job[o] BY <1>13, Effects DEF InstallSingBox
        <2>. QED BY <1>13, <1>a, <2>1, Steady DEF InstallSingBox, files
    <1>14. CASE RestoreBackup
        <2>1. job'[o] = job[o] BY <1>14, Effects DEF RestoreBackup
        <2>. QED BY <1>14, <1>a, <2>1, Steady DEF RestoreBackup, files
    <1>15. ASSUME NEW c \in Remote, NEW v \in Versions, QueueUpdate(c, v) PROVE Goal
        BY <1>15, <1>a, Steady DEF QueueUpdate, files
    <1>16. ASSUME NEW c \in Remote, SendResult(c) PROVE Goal
        BY <1>16, <1>a, Steady DEF SendResult, files
    <1>17. ASSUME NEW c \in Components, ScheduleWrite(c) PROVE Goal
        BY <1>17, <1>a, Steady DEF ScheduleWrite
    <1>18. ASSUME NEW c \in Components, AcknowledgeResult(c) PROVE Goal
        <2>1. result'[o] \in {result[o], NoResult} BY <1>18 DEF AcknowledgeResult
        <2>. QED BY <1>18, <1>a, <2>1, Steady DEF AcknowledgeResult
    <1>19. ASSUME NEW c \in Components, StartHelper(c) PROVE Goal
        <2>1. CASE c = o
            <3>1. job'[o].pc = "claim" BY <1>19, <2>1 DEF StartHelper, Idle
            <3>. QED BY <1>19, <1>a, <3>1, Onward DEF StartHelper, files
        <2>2. CASE c # o BY <1>19, <1>a, <2>2, Steady DEF StartHelper, files
        <2>. QED BY <2>1, <2>2
    <1>20. ASSUME NEW c \in Components, Claim(c) PROVE Goal
        <2>. DEFINE fresh == processing[c] = NoRequest
                    claimed == IF fresh THEN request[c] ELSE processing[c]
        <2>1. /\ job[c].pc = "claim" /\ running' = running /\ result' = result
              /\ processing' = [processing EXCEPT ![c] = claimed]
              /\ job' = [job EXCEPT ![c].pc = "download", ![c].req = claimed]
            BY <1>20, <1>a DEF Claim
        <2>2. claimed # NoRequest BY <1>20 DEF Claim, HasRequest, HasRequestOf
        <2>3. CASE c = o
            <3>1. job'[o].pc = "download" /\ processing'[o] # NoRequest
                BY <1>a, <2>1, <2>2, <2>3 DEF Jobs
            <3>. QED BY <1>a, <2>1, <3>1 DEF RunningOf, Lags
        <2>4. CASE c # o BY <1>a, <2>1, <2>4, Steady
        <2>. QED BY <2>3, <2>4
    <1>21. ASSUME NEW c \in Components, Download(c) PROVE Goal
        <2>1. job[c].pc = "download" /\ result' = result /\ running' = running /\ processing' = processing
            BY <1>21 DEF Download, files
        <2>2. CASE c = o
            <3>1. job'[o].pc \in {"result", "helper", "candidate"} BY <1>21, <1>a, <2>2, Effects DEF Download, Jobs
            <3>2. processing[o] # NoRequest BY <1>a, <2>1, <2>2 DEF RunningOf
            <3>. QED BY <1>a, <2>1, <3>1, <3>2, Onward
        <2>3. CASE c # o
            <3>1. job'[o] = job[o] BY <1>21, <1>a, <2>3, Effects DEF Download
            <3>. QED BY <1>a, <2>1, <3>1, Steady
        <2>. QED BY <2>2, <2>3
    <1>22. ASSUME NEW c \in Components, InstallHelper(c) PROVE Goal
        <2>1. job[c].pc = "helper" /\ result' = result /\ running' = running /\ processing' = processing
            BY <1>22 DEF InstallHelper, files
        <2>2. CASE c = o
            <3>1. job'[o].pc \in {"binary"} BY <1>22, <1>a, <2>2, Effects DEF InstallHelper, Jobs
            <3>2. processing[o] # NoRequest BY <1>a, <2>1, <2>2 DEF RunningOf
            <3>. QED BY <1>a, <2>1, <3>1, <3>2, Onward
        <2>3. CASE c # o
            <3>1. job'[o] = job[o] BY <1>22, <1>a, <2>3, Effects DEF InstallHelper
            <3>. QED BY <1>a, <2>1, <3>1, Steady
        <2>. QED BY <2>2, <2>3
    <1>23. ASSUME NEW c \in Components, InstallBinary(c) PROVE Goal
        <2>1. job[c].pc = "binary" /\ result' = result /\ running' = running /\ processing' = processing
            BY <1>23 DEF InstallBinary, files
        <2>2. CASE c = o
            <3>1. job'[o].pc \in {"result"} BY <1>23, <1>a, <2>2, Effects DEF InstallBinary, Jobs
            <3>2. processing[o] # NoRequest BY <1>a, <2>1, <2>2 DEF RunningOf
            <3>. QED BY <1>a, <2>1, <3>1, <3>2, Onward
        <2>3. CASE c # o
            <3>1. job'[o] = job[o] BY <1>23, <1>a, <2>3, Effects DEF InstallBinary
            <3>. QED BY <1>a, <2>1, <3>1, Steady
        <2>. QED BY <2>2, <2>3
    <1>24. ASSUME NEW c \in Components, RollbackHelper(c) PROVE Goal
        <2>1. job[c].pc = "undo" /\ result' = result /\ running' = running /\ processing' = processing
            BY <1>24 DEF RollbackHelper, files
        <2>2. CASE c = o
            <3>1. job'[o].pc \in {"result"} BY <1>24, <1>a, <2>2, Effects DEF RollbackHelper, Jobs
            <3>2. processing[o] # NoRequest BY <1>a, <2>1, <2>2 DEF RunningOf
            <3>. QED BY <1>a, <2>1, <3>1, <3>2, Onward
        <2>3. CASE c # o
            <3>1. job'[o] = job[o] BY <1>24, <1>a, <2>3, Effects DEF RollbackHelper
            <3>. QED BY <1>a, <2>1, <3>1, Steady
        <2>. QED BY <2>2, <2>3
    <1>25. ASSUME NEW c \in Components, WriteResult(c) PROVE Goal
        <2>1. /\ job[c].pc = "result" /\ running' = running /\ processing' = processing
              /\ result' = Written(c, job[c].status)
              /\ Goto(c, IF c \in Own \/ job[c].status = "applied" THEN "restart" ELSE "finish")
            BY <1>25, <1>a DEF WriteResult, WriteFails
        <2>2. CASE c = o
            <3>1. /\ job'[o].pc = "restart" /\ job'[o].status = job[o].status
                  /\ result'[o].status = job[o].status
                BY <1>a, <2>1, <2>2, Effects DEF Written
            <3>2. processing[o] # NoRequest BY <1>a, <2>1, <2>2 DEF RunningOf
            <3>. QED BY <2>1, <3>1, <3>2 DEF RunningOf
        <2>3. CASE c # o
            <3>1. job'[o] = job[o] BY <1>a, <2>1, <2>3, Effects
            <3>. QED BY <1>a, <2>1, <2>3, <3>1, Steady DEF Written
        <2>. QED BY <2>2, <2>3
    <1>26. ASSUME NEW c \in Components, Restart(c) PROVE Goal
        <2>1. /\ job[c].pc = "restart" /\ Goto(c, "finish")
              /\ result' = result /\ processing' = processing
            BY <1>26 DEF Restart, files
        <2>2. running'[o] \in {running[o], installed[o]} BY <1>26, <1>b DEF Restart
        <2>3. CASE c = o
            <3>1. running'[o] = installed[o]
                BY <1>26, <2>3 DEF Restart, AgentStarts, MasterStarts, Own
            <3>2. job'[o].pc = "finish" BY <1>a, <2>1, <2>3, Effects
            <3>3. processing[o] # NoRequest BY <1>a, <2>1, <2>3 DEF RunningOf
            <3>. QED BY <1>a, <2>1, <3>1, <3>2, <3>3 DEF RunningOf, Lags, Delivered
        <2>4. CASE c # o
            <3>1. job'[o] = job[o] BY <1>a, <2>1, <2>4, Effects
            <3>. QED BY <1>a, <2>1, <2>2, <3>1, Steady
        <2>. QED BY <2>3, <2>4
    <1>27. ASSUME NEW c \in Components, RestartFails(c) PROVE Goal
        <2>1. /\ job[c].pc = "restart" /\ Goto(c, "finish")
              /\ running' = running /\ processing' = processing
              /\ result' = IF job[c].status = "applied" THEN Written(c, "failed") ELSE result
            BY <1>27, <1>a DEF RestartFails, WriteFails
        <2>2. CASE c = o
            <3>1. job'[o].pc = "finish" BY <1>a, <2>1, <2>2, Effects
            <3>2. job[o].status \in {"applied", "failed"} BY <1>a DEF Jobs
            <3>3. result'[o].status # "applied"
                BY <1>a, <2>1, <2>2, <3>2 DEF Written, RunningOf
            <3>4. processing[o] # NoRequest BY <1>a, <2>1, <2>2 DEF RunningOf
            <3>. QED BY <2>1, <3>1, <3>3, <3>4 DEF RunningOf, Lags
        <2>3. CASE c # o
            <3>1. job'[o] = job[o] BY <1>a, <2>1, <2>3, Effects
            <3>. QED BY <1>a, <2>1, <2>3, <3>1, Steady DEF Written
        <2>. QED BY <2>2, <2>3
    <1>28. ASSUME NEW c \in Components, Finish(c) PROVE Goal
        <2>1. /\ job[c].pc = "finish" /\ job' = [job EXCEPT ![c] = Idle]
              /\ processing' = [processing EXCEPT ![c] = NoRequest]
              /\ running' = running /\ result' = result
            BY <1>28, <1>a DEF Finish
        <2>2. CASE c = o
            <3>1. job'[o].pc = "idle" BY <1>a, <2>1, <2>2 DEF Idle
            <3>2. ~Lags(o) BY <1>a, <2>1, <2>2 DEF RunningOf
            <3>. QED BY <2>1, <3>1, <3>2 DEF RunningOf, Lags
        <2>3. CASE c # o BY <1>a, <2>1, <2>3, Steady
        <2>. QED BY <2>2, <2>3
    <1>29. ASSUME NEW c \in Components, HelperCrash(c) PROVE Goal
        <2>1. /\ job' = [job EXCEPT ![c] = Idle] /\ processing' = processing
              /\ running' = running /\ result' = result
            BY <1>29 DEF HelperCrash, files
        <2>2. CASE c = o
            <3>1. job'[o].pc = "idle" BY <1>a, <2>1, <2>2 DEF Idle
            <3>. QED BY <1>a, <2>1, <3>1, Onward
        <2>3. CASE c # o BY <1>a, <2>1, <2>3, Steady
        <2>. QED BY <2>2, <2>3
    <1>. QED BY <1>1, <1>2, <1>3, <1>4, <1>5, <1>6, <1>7, <1>8, <1>9, <1>10, <1>11, <1>12,
        <1>13, <1>14, <1>15, <1>16, <1>17, <1>18, <1>19, <1>20, <1>21, <1>22, <1>23, <1>24,
        <1>25, <1>26, <1>27, <1>28, <1>29
        DEF Step, HelperStep, SingBoxStep

(* The inductive invariant.                                                *)
IInv ==
    /\ TypeOK /\ HasRequest /\ KnowsInstalled /\ OneRequest /\ AppliedIsInstalled
    /\ PairedInv /\ RunningInv

(* The installer leaves a host that satisfies the invariant.               *)
LEMMA Initially == Init => IInv
    <1>. SUFFICES ASSUME Init PROVE IInv OBVIOUS
    <1>. USE Sets DEF Init
    <1>1. TypeOK
        <2>1. 0 \in Nat /\ << >> \in Seq(Frames) /\ << >> \in Seq(ReportFrames) OBVIOUS
        <2>. QED BY <2>1, JobFacts DEF TypeOK
    <1>2. HasRequest BY JobFacts DEF HasRequest, HasRequestOf
    <1>3. KnowsInstalled BY JobFacts DEF KnowsInstalled, KnowsOf
    <1>4. OneRequest BY DEF OneRequest
    <1>5. AppliedIsInstalled BY DEF AppliedIsInstalled, Delivered, NoResult
    <1>6. PairedInv
        <2>1. job["singbox"] = Idle /\ installed["singbox"] = 1 /\ library = 1 OBVIOUS
        <2>2. Idle.pc = "idle" BY DEF Idle
        <2>. HIDE DEF Init
        <2>. QED BY <2>1, <2>2 DEF PairedInv, Moved, Replacing
    <1>7. RunningInv
        <2>1. \A c \in Own : job[c] = Idle /\ result[c] = NoResult OBVIOUS
        <2>2. Idle.pc = "idle" /\ NoResult.status = "none" BY DEF Idle, NoResult
        <2>. HIDE DEF Init
        <2>. QED BY <2>1, <2>2 DEF RunningInv, RunningOf, Lags
    <1>. QED BY <1>1, <1>2, <1>3, <1>4, <1>5, <1>6, <1>7 DEF IInv

(* A stuttering step keeps the invariant.                                  *)
LEMMA Stutters == IInv /\ UNCHANGED vars => IInv'
    <1>. SUFFICES ASSUME IInv, UNCHANGED vars PROVE IInv' OBVIOUS
    <1>1. TypeOK' BY DEF IInv, vars, TypeOK
    <1>2. HasRequest' BY DEF IInv, vars, HasRequest, HasRequestOf
    <1>3. KnowsInstalled' BY DEF IInv, vars, KnowsInstalled, KnowsOf
    <1>4. OneRequest' BY DEF IInv, vars, OneRequest
    <1>5. AppliedIsInstalled' BY DEF IInv, vars, AppliedIsInstalled, Delivered
    <1>6. PairedInv' BY DEF IInv, vars, PairedInv, Moved
    <1>7. RunningInv' BY DEF IInv, vars, RunningInv, RunningOf, Lags
    <1>. QED BY <1>1, <1>2, <1>3, <1>4, <1>5, <1>6, <1>7 DEF IInv

(* Every step keeps the invariant.                                         *)
LEMMA Inductive == IInv /\ [Next]_vars => IInv'
    <1>. SUFFICES ASSUME IInv, Next PROVE IInv' BY Stutters
    <1>1. TypeOK' BY TypeStep DEF IInv
    <1>2. HasRequest' /\ KnowsInstalled' /\ \A d \in Own : installed'[d] >= installed[d]
        BY HelperStepKnows DEF IInv
    <1>3. OneRequest' BY OneRequestStep DEF IInv
    <1>4. AppliedIsInstalled' BY <1>1, <1>2, AppliedStep DEF IInv
    <1>5. PairedInv' BY PairedStep DEF IInv
    <1>6. RunningInv' BY RunningStep DEF IInv
    <1>. QED BY <1>1, <1>2, <1>3, <1>4, <1>5, <1>6 DEF IInv

(* The inductive invariant holds in every reachable state.                 *)
THEOREM Invariant == Spec => []IInv
    BY Initially, Inductive, PTL DEF Spec

(* Every variable holds a value of its kind in every reachable state: a    *)
(* helper never works on a missing request, and a report is always one the *)
(* master can match.                                                       *)
THEOREM TypeCorrect == Spec => []TypeOK
    <1>1. IInv => TypeOK BY DEF IInv
    <1>. QED BY <1>1, Invariant, PTL

(* Scheduler.Schedule never writes a request beside one a helper has       *)
(* claimed, whatever the interleaving of its two looks with the helper's   *)
(* rename, with crashes and with failing file operations.                  *)
THEOREM OneRequestAlways == Spec => []OneRequest
    <1>1. IInv => OneRequest BY DEF IInv
    <1>. QED BY <1>1, Invariant, PTL

(* Whoever reads applied about the Agent or the master, in the result      *)
(* file, in a report or in the master's entry, finds at least that release *)
(* installed.                                                              *)
THEOREM AppliedAlwaysInstalled == Spec => []AppliedIsInstalled
    <1>1. IInv => AppliedIsInstalled BY DEF IInv
    <1>. QED BY <1>1, Invariant, PTL

(* No step replaces the installed Agent or master by an older release,     *)
(* although the helper compares versions long before it installs.          *)
THEOREM NeverDowngrades == Spec => NoDowngrade
    <1>1. IInv /\ [Next]_vars => [\A c \in Own : installed'[c] >= installed[c]]_vars
        BY HelperStepKnows DEF IInv
    <1>. QED BY <1>1, Invariant, PTL DEF Spec, NoDowngrade

(* Outside replaceComponents the sing-box binary and its library are of    *)
(* one release or both missing, however many file operations fail and      *)
(* whatever the other helpers do; only a killed helper parts them.         *)
THEOREM AlwaysPaired == Spec => []ComponentsPaired
    <1>1. IInv => ComponentsPaired
        BY DEF IInv, PairedInv, Moved, Replacing, ComponentsPaired
    <1>. QED BY <1>1, Invariant, PTL

(* Once a helper is done and its claim removed, a result that says applied *)
(* names a release the service runs, unless a file operation failed: the   *)
(* restart comes after the result, and a restart that fails rewrites it.   *)
THEOREM AppliedAlwaysRunning == Spec => []AppliedIsRunning
    <1>1. IInv => AppliedIsRunning
        BY DEF IInv, RunningInv, RunningOf, Lags, AppliedIsRunning
    <1>. QED BY <1>1, Invariant, PTL


=============================================================================
