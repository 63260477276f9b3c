----------------------------- MODULE AuditArchive -----------------------------
(***************************************************************************)
(* Archival of old audit rows by jobs that may run at the same time.  A job*)
(* locks a batch and skips what others have locked, writes a file with the *)
(* rows and a manifest, and in one transaction records the batch and       *)
(* deletes the rows.  Each file is replaced atomically.  When a step before*)
(* the commit fails, the job rolls back and unlinks its files; when the    *)
(* commit fails it may have taken effect, and the files stay.  A job may   *)
(* die between any two steps; the database then rolls back.                *)
(***************************************************************************)
EXTENDS Naturals, FiniteSets

CONSTANTS
    Row,        \* audit rows older than the cutoff; a smaller one is older
    Job,        \* runs of the archival, each with a batch id of its own
    BatchSize   \* batch_size

ASSUME ArchiveConstants == Row \subseteq Nat /\ BatchSize \in Nat \ {0}

VARIABLES
    rows,       \* control_plane_audit_log
    batches,    \* audit_archive_batches: the rows of each batch
    archives,   \* batches whose file of rows is in the directory
    manifests,  \* batches whose manifest is
    job         \* what each job does, and the rows it has locked

archiveVars == <<rows, batches, archives, manifests, job>>

Phase == {"new", "selected", "written", "described", "deleted", "unlinking", "ended"}

ArchiveInit ==
    /\ rows = Row /\ batches = [j \in Job |-> {}]
    /\ archives = [j \in Job |-> {}] /\ manifests = {}
    /\ job = [j \in Job |-> [phase |-> "new", held |-> {}, chosen |-> {}]]

Locked == UNION {job[j].held : j \in Job}

\* list_before with FOR UPDATE SKIP LOCKED: the oldest rows that are free.
Oldest(free, chosen) ==
    /\ chosen \subseteq free /\ chosen # {}
    /\ \A c \in chosen, r \in free \ chosen : c < r
    /\ \/ Cardinality(chosen) = BatchSize
       \/ Cardinality(chosen) < BatchSize /\ chosen = free

Select(j) ==
    /\ job[j].phase = "new"
    /\ \E chosen \in SUBSET Row :
          /\ Oldest(rows \ Locked, chosen)
          /\ job' = [job EXCEPT ![j] = [phase |-> "selected", held |-> chosen,
                                        chosen |-> chosen]]
    /\ UNCHANGED <<rows, batches, archives, manifests>>

\* _write_archive
WriteArchive(j) ==
    /\ job[j].phase = "selected"
    /\ archives' = [archives EXCEPT ![j] = job[j].chosen]
    /\ job' = [job EXCEPT ![j].phase = "written"]
    /\ UNCHANGED <<rows, batches, manifests>>

\* _write_manifest
WriteManifest(j) ==
    /\ job[j].phase = "written"
    /\ manifests' = manifests \union {j}
    /\ job' = [job EXCEPT ![j].phase = "described"]
    /\ UNCHANGED <<rows, batches, archives>>

\* The batch is recorded and its rows are deleted, not yet committed; delete_ids
\* counts what it deletes.
RecordAndDelete(j) ==
    /\ job[j].phase = "described" /\ job[j].chosen \subseteq rows
    /\ job' = [job EXCEPT ![j].phase = "deleted"]
    /\ UNCHANGED <<rows, batches, archives, manifests>>

\* A step before the commit fails, or the count is not right: rollback.
Rollback(j) ==
    /\ job[j].phase \in {"selected", "written", "described"}
    /\ job' = [job EXCEPT ![j].phase = "unlinking", ![j].held = {}]
    /\ UNCHANGED <<rows, batches, archives, manifests>>

\* The file of rows is unlinked before the manifest.
Unlink(j) ==
    /\ job[j].phase = "unlinking"
    /\ \/ /\ archives[j] # {}
          /\ archives' = [archives EXCEPT ![j] = {}]
          /\ UNCHANGED <<manifests, job>>
       \/ /\ archives[j] = {}
          /\ manifests' = manifests \ {j}
          /\ job' = [job EXCEPT ![j].phase = "ended"]
          /\ UNCHANGED archives
    /\ UNCHANGED <<rows, batches>>

Deleted(j) == rows \ job[j].chosen

\* Mutant of AfterCommit: the files are unlinked after every error.
UnlinkOnError(answered) == IF answered THEN "ended" ELSE "unlinking"

\* The files stay whatever the commit answers.
AfterCommit(answered) == "ended"

\* The commit takes effect, or not; its answer may be an error in both cases.
Commit(j) ==
    /\ job[j].phase = "deleted"
    /\ \E effective, answered \in BOOLEAN :
          /\ answered => effective
          /\ \/ effective /\ rows' = Deleted(j)
                          /\ batches' = [batches EXCEPT ![j] = job[j].chosen]
             \/ ~effective /\ UNCHANGED <<rows, batches>>
          /\ job' = [job EXCEPT ![j].phase = AfterCommit(answered), ![j].held = {}]
    /\ UNCHANGED <<archives, manifests>>

\* The job dies; the database rolls its transaction back.
Die(j) ==
    /\ job[j].phase \notin {"new", "ended"}
    /\ job' = [job EXCEPT ![j].phase = "ended", ![j].held = {}]
    /\ UNCHANGED <<rows, batches, archives, manifests>>

ArchiveNext ==
    \E j \in Job : \/ Select(j) \/ WriteArchive(j) \/ WriteManifest(j)
                   \/ RecordAndDelete(j) \/ Rollback(j) \/ Unlink(j) \/ Commit(j)
                   \/ Die(j)

ArchiveSpec == ArchiveInit /\ [][ArchiveNext]_archiveVars

-----------------------------------------------------------------------------
(* Correctness *)

\* Every variable keeps its type, and no row is locked by two jobs.
ArchiveTypeOK ==
    /\ rows \subseteq Row /\ manifests \subseteq Job
    /\ batches \in [Job -> SUBSET Row] /\ archives \in [Job -> SUBSET Row]
    /\ job \in [Job -> [phase: Phase, held: SUBSET Row, chosen: SUBSET Row]]
    /\ \A i, j \in Job : i # j => job[i].held \intersect job[j].held = {}

\* A row that is gone from the table is in a file whose manifest is there, also
\* when the commit was not answered or the job died.
NothingLost ==
    \A r \in Row \ rows : \E j \in manifests : r \in archives[j]

\* The table and the batches that are recorded hold every row once.
ArchivedOnce ==
    \A r \in Row : r \notin rows <=> Cardinality({j \in Job : r \in batches[j]}) = 1

\* Concurrent jobs that fail or die at any step neither lose nor duplicate a row.
ArchiveIsComplete == ArchiveTypeOK /\ NothingLost /\ ArchivedOnce
=============================================================================
