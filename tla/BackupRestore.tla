---------------------------- MODULE BackupRestore ----------------------------
(***************************************************************************)
(* Backup and restore of the product's memory (product_backup.py) beside   *)
(* the save that writes the same files (product_service.py,                *)
(* product_persistence.py).                                                *)
(*                                                                         *)
(* A save replaces the snapshot, replaces the manifest without a receipt,  *)
(* stores the snapshot in the backend and replaces the manifest again with *)
(* the receipt.  A backup reads snapshot and manifest one after the other; *)
(* a restore replaces them one after the other.  A snapshot is represented *)
(* by the version of the memory it holds.                                  *)
(***************************************************************************)
EXTENDS Naturals

CONSTANTS
    Absent,
    MaxVersions,    \* saves explored
    MaxKills        \* killed processes explored

\* The mark of what is absent is no version and no manifest.
BackupParameters ==
    /\ MaxVersions \in Nat
    /\ Absent \notin 0..MaxVersions
    /\ Absent \notin [version : 0..MaxVersions, receipt : 0..MaxVersions \cup {Absent}]

VARIABLES
    site,       \* "home" and "fresh": snapshot, manifest and backend store
    version,    \* the memory of the running service, Absent when stopped
    save,       \* where the save in progress is
    made,       \* versions made so far
    backup,     \* progress of create_backup and what it read
    archive,    \* the last archive, and whether its source was settled
    restore,    \* progress of restore_backup: where, and which step
    kills       \* history: processes killed so far

backupVars == <<site, version, save, made, backup, archive, restore, kills>>

Sites == {"home", "fresh"}
Empty == [snapshot |-> Absent, manifest |-> Absent, store |-> {}]
NoRead == [at |-> "idle", snapshot |-> Absent]
AtRest == [at |-> "idle", site |-> "home"]

BackupInit ==
    /\ site = [s \in Sites |-> Empty]
    /\ version = 0 /\ save = "idle" /\ made = 0
    /\ backup = NoRead /\ archive = Absent /\ restore = AtRest /\ kills = 0

-----------------------------------------------------------------------------
(* PersistentEnterpriseMemoryService.save() and load().                    *)

Manifest(v, receipt) == [version |-> v, receipt |-> receipt]

Change ==
    /\ version # Absent /\ save = "idle" /\ made < MaxVersions
    /\ made' = made + 1 /\ version' = made + 1 /\ save' = "snapshot"
    /\ UNCHANGED <<site, backup, archive, restore, kills>>

SaveStep(at, next, new) ==
    /\ save = at
    /\ save' = next
    /\ site' = [site EXCEPT !["home"] = new]
    /\ UNCHANGED <<version, made, backup, archive, restore, kills>>

ReplaceSnapshot ==
    SaveStep("snapshot", "manifest", [site["home"] EXCEPT !.snapshot = version])
ReplaceManifest ==
    SaveStep("manifest", "store",
             [site["home"] EXCEPT !.manifest = Manifest(version, Absent)])
\* Mutant: the backend has not stored the snapshot when the receipt is written.
StoreNothing == SaveStep("store", "receipt", site["home"])
StoreSnapshot ==
    SaveStep("store", "receipt", [site["home"] EXCEPT !.store = @ \cup {version}])
WriteReceipt ==
    SaveStep("receipt", "idle",
             [site["home"] EXCEPT !.manifest = Manifest(version, version)])

\* What a start on a site loads: nothing, a pair of snapshot and manifest
\* versions, or a refusal.  A receipt names the snapshot in the backend; a
\* backend that lacks it falls back to the file, if the file is that snapshot.
LoadSite(s) ==
    LET m == s.manifest IN
    IF m = Absent THEN "empty"
    ELSE IF m.receipt = Absent THEN <<s.snapshot, m.version>>
    ELSE IF m.receipt \in s.store \/ s.snapshot = m.receipt
      THEN <<m.receipt, m.version>>
    ELSE "refused"

\* The service is stopped between saves, or killed anywhere.
StopService ==
    /\ version # Absent
    /\ save = "idle" \/ kills < MaxKills
    /\ kills' = IF save = "idle" THEN kills ELSE kills + 1
    /\ version' = Absent /\ save' = "idle"
    /\ UNCHANGED <<site, made, backup, archive, restore>>

StartService ==
    /\ version = Absent /\ restore.at = "idle"
    /\ LoadSite(site["home"]) # "refused"
    /\ version' = IF LoadSite(site["home"]) = "empty" THEN 0
                                                 ELSE site["home"].manifest.version
    /\ UNCHANGED <<site, save, made, backup, archive, restore, kills>>

-----------------------------------------------------------------------------
(* create_backup(): the load ignores the receipt, then the files are read. *)

Settled(s) == s.manifest # Absent /\ s.manifest.receipt = s.snapshot

BeginBackup ==
    /\ backup.at = "idle" /\ restore.at = "idle"
    /\ site["home"].manifest # Absent
    /\ backup' = [NoRead EXCEPT !.at = "snapshot"]
    /\ UNCHANGED <<site, version, save, made, archive, restore, kills>>

ReadSnapshot ==
    /\ backup.at = "snapshot"
    /\ backup' = [at |-> "manifest", snapshot |-> site["home"].snapshot]
    /\ UNCHANGED <<site, version, save, made, archive, restore, kills>>

\* The archive is replaced whole.  The documented procedure stops the service
\* first; settled records that it did, after a save that had ended.
WriteArchive ==
    /\ backup.at = "manifest"
    /\ archive' = [snapshot |-> backup.snapshot,
                   manifest |-> site["home"].manifest,
                   settled |-> version = Absent /\ Settled(site["home"])
                                 /\ backup.snapshot = site["home"].snapshot]
    /\ backup' = NoRead
    /\ UNCHANGED <<site, version, save, made, restore, kills>>

-----------------------------------------------------------------------------
(* restore_backup() on the stopped home site or on a fresh machine.        *)

BeginRestore(s) ==
    /\ restore.at = "idle" /\ backup.at = "idle" /\ archive # Absent
    /\ s = "home" => version = Absent
    /\ restore' = [at |-> "snapshot", site |-> s]
    /\ UNCHANGED <<site, version, save, made, backup, archive, kills>>

RestoreSnapshot ==
    /\ restore.at = "snapshot"
    /\ site' = [site EXCEPT ![restore.site].snapshot = archive.snapshot]
    /\ restore' = [restore EXCEPT !.at = "manifest"]
    /\ UNCHANGED <<version, save, made, backup, archive, kills>>

RestoreManifest ==
    /\ restore.at = "manifest"
    /\ site' = [site EXCEPT ![restore.site].manifest = archive.manifest]
    /\ restore' = AtRest
    /\ UNCHANGED <<version, save, made, backup, archive, kills>>

KillRestore ==
    /\ restore.at # "idle" /\ kills < MaxKills
    /\ kills' = kills + 1 /\ restore' = AtRest
    /\ UNCHANGED <<site, version, save, made, backup, archive>>

BackupNext ==
    \/ Change \/ ReplaceSnapshot \/ ReplaceManifest \/ StoreSnapshot
    \/ WriteReceipt \/ StopService \/ StartService
    \/ BeginBackup \/ ReadSnapshot \/ WriteArchive
    \/ \E s \in Sites : BeginRestore(s)
    \/ RestoreSnapshot \/ RestoreManifest \/ KillRestore

BackupSpec == BackupInit /\ [][BackupNext]_backupVars

-----------------------------------------------------------------------------
Pair(v) == <<v, v>>

\* What the archive restores on a site, whatever the site held before.
Restored(s) == LoadSite([site[s] EXCEPT !.snapshot = archive.snapshot,
                                    !.manifest = archive.manifest])

\* An archive taken as documented restores, on the home site and on a machine
\* that never saw the backend, exactly the memory it was taken from; and a
\* restore that is killed between its two files leaves a home site whose last
\* save had ended with one memory, whole.
BackupRestores ==
    archive # Absent /\ archive.settled =>
      /\ \A s \in Sites : Restored(s) = Pair(archive.manifest.version)
      /\ restore.at = "manifest" /\ restore.site = "home"
           /\ site["home"].manifest.receipt # Absent =>
           LoadSite(site["home"]) \in {Pair(v) : v \in 0..MaxVersions}

\* product_backup.py:49-51: "an invalid or mismatched manifest/snapshot is
\* never packaged as a successful backup".
NeverMismatched == archive # Absent => Restored("fresh") # "refused"
=============================================================================
