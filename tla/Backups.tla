-------------------------------- MODULE Backups --------------------------------
(***************************************************************************)
(* The database backup commands: create, which dumps into a temporary file,*)
(* renames it to the output and writes a manifest with its size and hash;  *)
(* verify; and restore into another, empty database.  Several create       *)
(* commands may be given the same output and several restores the same     *)
(* target, and any command may fail or be killed between two of its steps. *)
(* A dump is known by the command that took it and whether it is whole;    *)
(* its hash is the dump itself.                                            *)
(***************************************************************************)
CONSTANTS Creator,   \* the create commands for one output
          Restorer   \* the restore commands for one target

VARIABLES
    output,    \* the backup file
    manifest,  \* the dump whose size and hash the manifest has
    creator,   \* per create command: where it is, its temporary file, what it hashed
    restorer,  \* per restore command: where it is and the dump it loads
    database,  \* the target: "empty", "partial", "loaded", or other "data"
    late       \* the restores for which the file was damaged after they verified it

backupVars == <<output, manifest, creator, restorer, database, late>>

NoFile == [by |-> "none", whole |-> FALSE]
Ended == {"done", "failed", "killed"}

BackupInit ==
    /\ output = NoFile
    /\ manifest = NoFile
    /\ creator = [c \in Creator |-> [at |-> "idle", tmp |-> NoFile, seen |-> NoFile]]
    /\ restorer = [r \in Restorer |-> [at |-> "idle", loads |-> NoFile]]
    /\ database \in {"empty", "data"}
    /\ late = {}

CreatorAt(c, step) == creator' = [creator EXCEPT ![c].at = step]
RestorerAt(r, step) == restorer' = [restorer EXCEPT ![r].at = step]

-----------------------------------------------------------------------------
(* create *)

MayCreate == output = NoFile /\ manifest = NoFile

StartCreate(c) ==
    /\ creator[c].at = "idle"
    /\ CreatorAt(c, IF MayCreate THEN "dumping" ELSE "failed")
    /\ UNCHANGED <<output, manifest, restorer, database, late>>

(* pg_dump ends; what an unsuccessful one has written stays in the temporary file. *)
EndDump(c) ==
    /\ creator[c].at = "dumping"
    /\ \E whole \in BOOLEAN :
         creator' = [creator EXCEPT ![c].at = "dumped",
                                    ![c].tmp = [by |-> c, whole |-> whole]]
    /\ UNCHANGED <<output, manifest, restorer, database, late>>

\* Mutant of Dumped: the exit status of pg_dump is not looked at.
DumpedSomething(c) == creator[c].tmp # NoFile

Dumped(c) == creator[c].tmp.whole

Rename(c) ==
    /\ creator[c].at = "dumped"
    /\ Dumped(c)
    /\ output' = creator[c].tmp
    /\ creator' = [creator EXCEPT ![c].at = "renamed", ![c].tmp = NoFile]
    /\ UNCHANGED <<manifest, restorer, database, late>>

(* The output is opened by its name, and may be another command's by now, or gone. *)
Measure(c) ==
    /\ creator[c].at = "renamed"
    /\ output # NoFile
    /\ creator' = [creator EXCEPT ![c].at = "measured", ![c].seen = output]
    /\ UNCHANGED <<output, manifest, restorer, database, late>>

WriteBackupManifest(c) ==
    /\ creator[c].at = "measured"
    /\ manifest' = creator[c].seen
    /\ CreatorAt(c, "done")
    /\ UNCHANGED <<output, restorer, database, late>>

(* An error in any step: first the temporary file is removed, then an output that has
   no manifest. *)
FailCreate(c) ==
    /\ creator[c].at \in {"dumping", "dumped", "renamed", "measured"}
    /\ creator' = [creator EXCEPT ![c].at = "failing", ![c].tmp = NoFile]
    /\ UNCHANGED <<output, manifest, restorer, database, late>>

LeftOver == output # NoFile /\ manifest = NoFile

LeftToRemove == LeftOver

LookForLeftOver(c) ==
    /\ creator[c].at = "failing"
    /\ CreatorAt(c, IF LeftToRemove THEN "removing" ELSE "failed")
    /\ UNCHANGED <<output, manifest, restorer, database, late>>

RemoveLeftOver(c) ==
    /\ creator[c].at = "removing"
    /\ output' = NoFile
    /\ CreatorAt(c, "failed")
    /\ UNCHANGED <<manifest, restorer, database, late>>

KillCreate(c) ==
    /\ creator[c].at \notin Ended \cup {"idle"}
    /\ CreatorAt(c, "killed")
    /\ UNCHANGED <<output, manifest, restorer, database, late>>

(* The file is damaged where it is stored.  Damage before the hash is taken cannot be
   told from a sound dump, and is left out. *)
Damage ==
    /\ output.whole
    /\ \A c \in Creator : creator[c].at # "renamed"
    /\ output' = [output EXCEPT !.whole = FALSE]
    /\ late' = late \cup {r \in Restorer : restorer[r].at \in {"verified", "checked"}}
    /\ UNCHANGED <<manifest, creator, restorer, database>>

-----------------------------------------------------------------------------
(* verify and restore *)

Verified == manifest # NoFile /\ output = manifest

(* Only a target that was confirmed, and has not the name of the source, comes so far. *)
StartRestore(r) ==
    /\ restorer[r].at = "idle"
    /\ RestorerAt(r, IF Verified THEN "verified" ELSE "failed")
    /\ UNCHANGED <<output, manifest, creator, database, late>>

CheckEmpty(r) ==
    /\ restorer[r].at = "verified"
    /\ RestorerAt(r, IF database = "empty" THEN "checked" ELSE "failed")
    /\ UNCHANGED <<output, manifest, creator, database, late>>

(* pg_restore opens the file by its name again; the first object that is already there
   ends it. *)
BeginLoad(r) ==
    /\ restorer[r].at = "checked"
    /\ output # NoFile
    /\ IF database = "empty"
       THEN /\ restorer' = [restorer EXCEPT ![r] = [at |-> "loading", loads |-> output]]
            /\ database' = "partial"
       ELSE RestorerAt(r, "failed") /\ UNCHANGED database
    /\ UNCHANGED <<output, manifest, creator, late>>

EndLoad(r) ==
    /\ restorer[r].at = "loading"
    /\ RestorerAt(r, "done")
    /\ database' = "loaded"
    /\ UNCHANGED <<output, manifest, creator, late>>

(* A restore that fails or is killed keeps what it has loaded: there is no transaction
   around it. *)
FailRestore(r) ==
    /\ restorer[r].at \in {"verified", "checked", "loading"}
    /\ RestorerAt(r, "failed")
    /\ UNCHANGED <<output, manifest, creator, database, late>>

BackupNext ==
    \/ \E c \in Creator :
         \/ StartCreate(c) \/ EndDump(c) \/ Rename(c) \/ Measure(c)
         \/ WriteBackupManifest(c) \/ FailCreate(c) \/ LookForLeftOver(c)
         \/ RemoveLeftOver(c) \/ KillCreate(c)
    \/ \E r \in Restorer :
         StartRestore(r) \/ CheckEmpty(r) \/ BeginLoad(r) \/ EndLoad(r) \/ FailRestore(r)
    \/ Damage

-----------------------------------------------------------------------------
(* A restore that reports success loaded a whole dump, also when another create command
   replaced the file after it was verified; only damage after the verification escapes.
   The temporary file, the exit status of pg_dump and the hash work together for this. *)
RestoredWasWhole ==
    \A r \in Restorer :
        restorer[r].at = "done" => restorer[r].loads.whole \/ r \in late

(* A backup without manifest belongs to a command that is still at work or was killed:
   failed commands clean up, whichever of them shared the output. *)
LeftOverHasOwner ==
    LeftOver => \E c \in Creator :
                   creator[c].at \in {"renamed", "measured", "failing", "removing", "killed"}

\* Commands that share an output and fail at any step leave a sound backup or none.
BackupsAreSound == RestoredWasWhole /\ LeftOverHasOwner
=============================================================================
