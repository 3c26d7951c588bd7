---------------------------- MODULE StorageMigration ----------------------------
(***************************************************************************)
(* Shared files and their move from one storage profile to another         *)
(* (server/internal/sharedfiles): uploads that replace a file              *)
(* (service.go), the workers of a storage migration and the sweeper of     *)
(* cleanup tasks (storage_migration.go), over the rows of PostgreSQL       *)
(* (storage_postgres_store.go, postgres_store.go) and the objects of the   *)
(* two storages.                                                           *)
(*                                                                         *)
(* A row names the object that holds the file's content.  No transaction   *)
(* spans rows and objects: each process puts an object, then changes the   *)
(* rows, then deletes what is not needed any more, and can stop in         *)
(* between.  A lease on a migration item lapses when its heartbeats fail,  *)
(* so that two workers can be moving one file.  Keys of objects are never  *)
(* used twice; a comparison of keys stands for the one of profile, key and *)
(* revision.                                                               *)
(***************************************************************************)
EXTENDS Naturals, FiniteSets

CONSTANTS
    Files,
    Migrations,     \* from the old profile to the new one
    Uploads,
    Workers,        \* migration loops of all gateways
    Sweepers,       \* cleanup loops of all gateways
    NoMigration, NoObject,
    MaxAttempts,    \* attempts of an item before it fails (3)
    MaxSweeps,      \* automatic attempts of a cleanup task (10)
    MaxClaims,      \* bound: claims of an item
    LostCommits     \* TRUE: a commit can be reported as failed though it took place

ASSUME BoundAssumption == MaxAttempts \in Nat /\ MaxSweeps \in Nat /\ MaxClaims \in Nat
ASSUME CommitAssumption == LostCommits \in BOOLEAN

Items == Migrations \X Files
Profiles == {"old", "new"}

\* Objects, by the key they are stored under: the first content of a file, the
\* content of an upload in the profile that was active, and the copy an attempt
\* of an item makes.
First(f) == <<"first", f>>
Fresh(u, p) == <<"fresh", u, p>>

\* Mutant: every attempt of an item writes under the same key.
SameCopy(i, n) == <<"copy", i, 1>>

Copy(i, n) == <<"copy", i, n>>

Copies == {Copy(i, n) : i \in Items, n \in 1..MaxClaims}
Objects == {First(f) : f \in Files} \cup {Fresh(u, p) : u \in Uploads, p \in Profiles} \cup Copies

ASSUME NoObjectAssumption == NoObject \notin Objects
ASSUME NoMigrationAssumption == NoMigration \notin Migrations

InOld(o) == o \in {First(f) : f \in Files} \cup {Fresh(u, "old") : u \in Uploads}

VARIABLES
    object,     \* shared_files: profile and key of a file
    revision,   \* shared_files.revision
    latest,     \* the object of the last upload of a file (history)
    stored,     \* the objects there are
    status,     \* of a migration; "open" is pending or running
    item,       \* status of a migration item
    source,     \* its source key, from the snapshot
    count,      \* its attempt_count
    task,       \* status of the cleanup task of an object, "none" once it succeeded
    taskOf,     \* its migration_id
    sweeps,     \* its attempt_count
    doing,      \* what a migration worker does
    job,        \* the item it claimed, with the attempt_count of the claim
    error,      \* the error it will record
    at,         \* what an upload does
    draft,      \* its file, the revision it expects, its object and the one it replaced
    sweeping,   \* the cleanup task a sweeper claimed, with its attempt_count
    leaked      \* objects a process lost sight of (history)

files    == <<object, revision, latest>>
items    == <<status, item, source, count>>
tasks    == <<task, taskOf, sweeps>>
workers  == <<doing, job, error>>
uploads  == <<at, draft>>
vars     == <<files, stored, items, tasks, workers, uploads, sweeping, leaked>>

Job == [item : Items, try : 1..MaxClaims]
NoJob == [item |-> NoMigration, try |-> 0]
Draft == [file : Files, revision : Nat, object : Objects, old : Objects \cup {NoObject}]
NoDraft == [file |-> NoMigration, revision |-> 0, object |-> NoObject, old |-> NoObject]
Sweep == [object : Objects, try : 1..MaxSweeps]
NoSweep == [object |-> NoObject, try |-> 0]

TypeOK ==
    /\ object \in [Files -> Objects]
    /\ revision \in [Files -> Nat]
    /\ latest \in [Files -> Objects]
    /\ stored \subseteq Objects
    /\ status \in [Migrations -> {"none", "open", "completed", "completed_with_failures",
                                  "completed_with_cleanup_pending", "cancelled"}]
    /\ item \in [Items -> {"none", "pending", "running", "succeeded", "failed", "skipped"}]
    /\ source \in [Items -> Objects \cup {NoObject}]
    /\ count \in [Items -> 0..MaxClaims]
    /\ task \in [Objects -> {"none", "pending", "running", "failed"}]
    /\ taskOf \in [Objects -> Migrations \cup {NoMigration}]
    /\ sweeps \in [Objects -> 0..MaxSweeps]
    /\ doing \in [Workers -> {"idle", "copying", "copied", "dropping", "failing", "moved"}]
    /\ job \in [Workers -> Job \cup {NoJob}]
    /\ error \in [Workers -> {"none", "transient", "permanent"}]
    /\ at \in [Uploads -> {"new", "stored", "dropping", "replaced", "done"}]
    /\ draft \in [Uploads -> Draft \cup {NoDraft}]
    /\ sweeping \in [Sweepers -> Sweep \cup {NoSweep}]
    /\ leaked \subseteq Objects

Init ==
    /\ object = [f \in Files |-> First(f)]
    /\ revision = [f \in Files |-> 1]
    /\ latest = [f \in Files |-> First(f)]
    /\ stored = {First(f) : f \in Files}
    /\ status = [m \in Migrations |-> "none"]
    /\ item = [i \in Items |-> "none"]
    /\ source = [i \in Items |-> NoObject]
    /\ count = [i \in Items |-> 0]
    /\ task = [o \in Objects |-> "none"]
    /\ taskOf = [o \in Objects |-> NoMigration]
    /\ sweeps = [o \in Objects |-> 0]
    /\ doing = [w \in Workers |-> "idle"]
    /\ job = [w \in Workers |-> NoJob]
    /\ error = [w \in Workers |-> "none"]
    /\ at = [u \in Uploads |-> "new"]
    /\ draft = [u \in Uploads |-> NoDraft]
    /\ sweeping = [s \in Sweepers |-> NoSweep]
    /\ leaked = {}

-----------------------------------------------------------------------------
(* The rows of a migration.                                                *)

SomeItem(m, it, states) == \E f \in Files : it[<<m, f>>] \in states
FailedItem(m) == SomeItem(m, item, {"failed"})
CleanupPending(m, t, of) == \E o \in Objects : t[o] # "none" /\ of[o] = m

\* refreshMigration, at the end of a transaction that changed items or tasks:
\* the status that its rows amount to.
refreshMigration(m, it, t, of) ==
    status' = [status EXCEPT ![m] =
        CASE @ = "cancelled"                         -> @
          [] SomeItem(m, it, {"pending", "running"}) -> @
          [] SomeItem(m, it, {"failed"})             -> "completed_with_failures"
          [] CleanupPending(m, t, of)                -> "completed_with_cleanup_pending"
          [] OTHER                                   -> "completed"]

NoneOpen == \A m \in Migrations : status[m] # "open"

\* The snapshot of the files of the old profile.
CreateStorageMigration(m) ==
    LET found == {f \in Files : InOld(object[f])}
    IN /\ status[m] = "none" /\ NoneOpen
       /\ item' = [i \in Items |-> IF i[1] = m /\ i[2] \in found THEN "pending" ELSE item[i]]
       /\ source' = [i \in Items |-> IF i[1] = m /\ i[2] \in found THEN object[i[2]] ELSE source[i]]
       /\ status' = [status EXCEPT ![m] = IF found = {} THEN "completed" ELSE "open"]
       /\ UNCHANGED <<files, stored, count, tasks, workers, uploads, sweeping, leaked>>

\* Claims stop; a worker that has an item goes on with it.
CancelStorageMigration(m) ==
    /\ status[m] = "open"
    /\ status' = [status EXCEPT ![m] = "cancelled"]
    /\ UNCHANGED <<files, stored, item, source, count, tasks, workers, uploads, sweeping, leaked>>

\* Failed items and exhausted cleanup tasks start again, whatever the status.
RetryFailedStorageMigration(m) ==
    LET exhausted == {o \in Objects : task[o] = "failed" /\ taskOf[o] = m /\ sweeps[o] >= MaxSweeps}
    IN /\ status[m] # "none"
       /\ \/ FailedItem(m) /\ \A n \in Migrations \ {m} : status[n] # "open"
          \/ ~FailedItem(m) /\ exhausted # {}
       /\ item' = [i \in Items |-> IF i[1] = m /\ item[i] = "failed" THEN "pending" ELSE item[i]]
       /\ task' = [o \in Objects |-> IF o \in exhausted THEN "pending" ELSE task[o]]
       /\ sweeps' = [o \in Objects |-> IF o \in exhausted THEN 0 ELSE sweeps[o]]
       /\ status' = [status EXCEPT ![m] =
                        IF FailedItem(m) THEN "open" ELSE "completed_with_cleanup_pending"]
       /\ UNCHANGED <<files, stored, source, count, taskOf, workers, uploads, sweeping, leaked>>

-----------------------------------------------------------------------------
(* Deleting what is not needed any more: deleteOrEnqueue and cleanupObject. *)

\* EnqueueCleanup: at most one task of an object is open.
Enqueue(o, m) ==
    IF task[o] # "none" THEN UNCHANGED tasks
    ELSE /\ task' = [task EXCEPT ![o] = "pending"]
         /\ taskOf' = [taskOf EXCEPT ![o] = m]
         /\ sweeps' = [sweeps EXCEPT ![o] = 0]

\* Mutant: a cleanup task of a source leaves its migration completed.
StayCompleted(m) == UNCHANGED status

\* The source of a completed migration is to be cleaned up after all.
NotQuiteCompleted(m) ==
    status' = IF m # NoMigration /\ status[m] = "completed"
              THEN [status EXCEPT ![m] = "completed_with_cleanup_pending"] ELSE status

\* Mutant: an object that cannot be deleted is forgotten.
DeleteOrForget(o, m, isSource) ==
    /\ \/ stored' = stored \ {o}
       \/ UNCHANGED stored
    /\ UNCHANGED <<tasks, status, leaked>>

\* The object is deleted, or a task is enqueued for it, or that fails too.
deleteOrEnqueue(o, m, isSource) ==
    \/ /\ stored' = stored \ {o}
       /\ UNCHANGED <<tasks, status, leaked>>
    \/ /\ Enqueue(o, m)
       /\ IF isSource THEN NotQuiteCompleted(m) ELSE UNCHANGED status
       /\ UNCHANGED <<stored, leaked>>
    \/ /\ leaked' = leaked \cup {o}
       /\ UNCHANGED <<stored, tasks, status>>

-----------------------------------------------------------------------------
(* A worker of the migration: runMigrationItem and migrateItem.            *)

Migration(w) == job[w].item[1]
File(w) == job[w].item[2]
Target(w) == Copy(job[w].item, job[w].try)
Source(w) == source[job[w].item]

\* The worker still holds the lease of its claim.
OwnsLease(w) == item[job[w].item] = "running" /\ count[job[w].item] = job[w].try

Rest(w) ==
    /\ doing' = [doing EXCEPT ![w] = "idle"]
    /\ job' = [job EXCEPT ![w] = NoJob]
    /\ error' = [error EXCEPT ![w] = "none"]

\* A pending item is claimed, or a running one whose heartbeats have stopped or
\* did not get through.
ClaimStorageMigrationItem(w, i) ==
    /\ doing[w] = "idle" /\ status[i[1]] = "open"
    /\ item[i] \in {"pending", "running"} /\ count[i] < MaxClaims
    /\ item' = [item EXCEPT ![i] = "running"]
    /\ count' = [count EXCEPT ![i] = @ + 1]
    /\ doing' = [doing EXCEPT ![w] = "copying"]
    /\ job' = [job EXCEPT ![w] = [item |-> i, try |-> count[i] + 1]]
    /\ UNCHANGED <<files, stored, status, source, tasks, error, uploads, sweeping, leaked>>

\* Source opened, target put; a copy of the wrong size or digest is dropped.
CopyObject(w) ==
    /\ doing[w] = "copying" /\ Source(w) \in stored
    /\ stored' = stored \cup {Target(w)}
    /\ \/ doing' = [doing EXCEPT ![w] = "copied"] /\ UNCHANGED error
       \/ /\ doing' = [doing EXCEPT ![w] = "dropping"]
          /\ error' = [error EXCEPT ![w] = "permanent"]
    /\ UNCHANGED <<files, items, tasks, job, uploads, sweeping, leaked>>

\* A storage is unavailable, the source is gone or not what the snapshot says; a
\* put reported as failed may have got through.
CopyFails(w) ==
    /\ doing[w] = "copying"
    /\ doing' = [doing EXCEPT ![w] = "failing"]
    /\ \E e \in {"transient", "permanent"} : error' = [error EXCEPT ![w] = e]
    /\ \/ UNCHANGED <<stored, leaked>>
       \/ /\ Source(w) \in stored
          /\ stored' = stored \cup {Target(w)}
          /\ leaked' = leaked \cup {Target(w)}
    /\ UNCHANGED <<files, items, tasks, job, uploads, sweeping>>

\* Mutant: the row is taken over whatever object it names.
AnyObject(f, o) == TRUE

\* The row still names the object the copy was made of.
Unchanged(f, o) == object[f] = o

\* The transaction of CompleteStorageMigrationItem, by the holder of the lease.
MoveRow(w) ==
    LET i == job[w].item
    IN /\ OwnsLease(w)
       /\ IF Unchanged(File(w), Source(w))
          THEN /\ object' = [object EXCEPT ![File(w)] = Target(w)]
               /\ item' = [item EXCEPT ![i] = "succeeded"]
          ELSE /\ item' = [item EXCEPT ![i] = "skipped"]
               /\ UNCHANGED object
       /\ UNCHANGED <<task, taskOf>>
       /\ refreshMigration(i[1], item', task, taskOf)

CompleteStorageMigrationItem(w) ==
    /\ doing[w] = "copied"
    /\ MoveRow(w)
    /\ doing' = [doing EXCEPT ![w] =
                    IF Unchanged(File(w), Source(w)) THEN "moved" ELSE "dropping"]
    /\ UNCHANGED <<revision, latest, stored, source, count, sweeps, job, error, uploads,
                   sweeping, leaked>>

\* The lease is another worker's: nothing was migrated.
LeaseLost(w) ==
    /\ doing[w] = "copied" /\ ~OwnsLease(w)
    /\ doing' = [doing EXCEPT ![w] = "dropping"]
    /\ UNCHANGED <<files, stored, items, tasks, job, error, uploads, sweeping, leaked>>

\* The transaction fails, or its commit is reported as failed.
CompleteFails(w) ==
    /\ doing[w] = "copied"
    /\ doing' = [doing EXCEPT ![w] = "dropping"]
    /\ error' = [error EXCEPT ![w] = "transient"]
    /\ \/ UNCHANGED <<object, items, task, taskOf>>
       \/ LostCommits /\ MoveRow(w) /\ UNCHANGED <<source, count>>
    /\ UNCHANGED <<revision, latest, stored, sweeps, job, uploads, sweeping, leaked>>

\* The copy is not needed: upload_compensation.
DropCopy(w) ==
    /\ doing[w] = "dropping"
    /\ deleteOrEnqueue(Target(w), Migration(w), FALSE)
    /\ IF error[w] = "none" THEN Rest(w)
       ELSE doing' = [doing EXCEPT ![w] = "failing"] /\ UNCHANGED <<job, error>>
    /\ UNCHANGED <<files, item, source, count, uploads, sweeping>>

\* The row names the copy: migration_source.
DropSource(w) ==
    /\ doing[w] = "moved"
    /\ deleteOrEnqueue(Source(w), Migration(w), TRUE)
    /\ Rest(w)
    /\ UNCHANGED <<files, item, source, count, uploads, sweeping>>

\* FailStorageMigrationItem, unless the lease is lost or the database is away.
FailStorageMigrationItem(w) ==
    LET i == job[w].item
    IN /\ doing[w] = "failing"
       /\ Rest(w)
       /\ \/ /\ OwnsLease(w)
             /\ item' = [item EXCEPT ![i] =
                    IF error[w] = "permanent" \/ job[w].try >= MaxAttempts
                    THEN "failed" ELSE "pending"]
             /\ UNCHANGED <<task, taskOf>>
             /\ refreshMigration(i[1], item', task, taskOf)
          \/ UNCHANGED <<status, item, task, taskOf>>
       /\ UNCHANGED <<files, stored, source, count, sweeps, uploads, sweeping, leaked>>

\* The gateway stops: what its worker was about to delete stays.
Crash(w) ==
    /\ doing[w] # "idle"
    /\ leaked' = leaked \cup
          CASE doing[w] \in {"copied", "dropping"} -> {Target(w)}
            [] doing[w] = "moved"                  -> {Source(w)}
            [] OTHER                               -> {}
    /\ Rest(w)
    /\ UNCHANGED <<files, stored, items, tasks, uploads, sweeping>>

-----------------------------------------------------------------------------
(* An upload that replaces a file: Service.upload.                         *)

\* The revision is checked and the content put into the active profile.
PutUpload(u, f, p) ==
    /\ at[u] = "new"
    /\ stored' = stored \cup {Fresh(u, p)}
    /\ at' = [at EXCEPT ![u] = "stored"]
    /\ draft' = [draft EXCEPT ![u] = [file |-> f, revision |-> revision[f],
                                      object |-> Fresh(u, p), old |-> NoObject]]
    /\ UNCHANGED <<files, items, tasks, workers, sweeping, leaked>>

\* The put fails; the object may be there all the same.
PutFails(u, p) ==
    /\ at[u] = "new"
    /\ \/ UNCHANGED <<stored, leaked>>
       \/ stored' = stored \cup {Fresh(u, p)} /\ leaked' = leaked \cup {Fresh(u, p)}
    /\ at' = [at EXCEPT ![u] = "done"]
    /\ UNCHANGED <<files, items, tasks, workers, draft, sweeping>>

\* The transaction of replaceFile: the row names the new object.
ReplaceRow(u) ==
    LET d == draft[u]
    IN /\ revision[d.file] = d.revision
       /\ object' = [object EXCEPT ![d.file] = d.object]
       /\ latest' = [latest EXCEPT ![d.file] = d.object]
       /\ revision' = [revision EXCEPT ![d.file] = @ + 1]

\* The old object is the one the transaction read.
ReplaceFile(u) ==
    /\ at[u] = "stored"
    /\ ReplaceRow(u)
    /\ at' = [at EXCEPT ![u] = "replaced"]
    /\ draft' = [draft EXCEPT ![u].old = object[draft[u].file]]
    /\ UNCHANGED <<stored, items, tasks, workers, sweeping, leaked>>

\* A revision conflict, a failed transaction or a commit reported as failed.
ReplaceFails(u) ==
    /\ at[u] = "stored"
    /\ at' = [at EXCEPT ![u] = "dropping"]
    /\ \/ UNCHANGED files
       \/ LostCommits /\ ReplaceRow(u)
    /\ UNCHANGED <<stored, items, tasks, workers, draft, sweeping, leaked>>

\* cleanupObject: the new object after a failure, the old one after a success.
DropUpload(u) ==
    /\ \/ at[u] = "dropping" /\ deleteOrEnqueue(draft[u].object, NoMigration, FALSE)
       \/ at[u] = "replaced" /\ deleteOrEnqueue(draft[u].old, NoMigration, FALSE)
    /\ at' = [at EXCEPT ![u] = "done"]
    /\ draft' = [draft EXCEPT ![u] = NoDraft]
    /\ UNCHANGED <<files, item, source, count, workers, sweeping>>

UploadCrash(u) ==
    /\ at[u] \in {"stored", "dropping", "replaced"}
    /\ leaked' = leaked \cup {IF at[u] = "replaced" THEN draft[u].old ELSE draft[u].object}
    /\ at' = [at EXCEPT ![u] = "done"]
    /\ draft' = [draft EXCEPT ![u] = NoDraft]
    /\ UNCHANGED <<files, stored, items, tasks, workers, sweeping>>

-----------------------------------------------------------------------------
(* The sweeper of cleanup tasks: runCleanupTask.                           *)

\* Any open task whose time has come; a running one is tried again after 2 min.
ClaimCleanupTask(s, o) ==
    /\ sweeping[s] = NoSweep
    /\ task[o] # "none" /\ sweeps[o] < MaxSweeps
    /\ task' = [task EXCEPT ![o] = "running"]
    /\ sweeps' = [sweeps EXCEPT ![o] = @ + 1]
    /\ sweeping' = [sweeping EXCEPT ![s] = [object |-> o, try |-> sweeps[o] + 1]]
    /\ UNCHANGED <<files, stored, items, taskOf, workers, uploads, leaked>>

\* The object is deleted, or not, and FinishCleanupTask records it if the task
\* has not been claimed again.
FinishCleanupTask(s) ==
    LET o == sweeping[s].object
    IN /\ sweeping[s] # NoSweep
       /\ sweeping' = [sweeping EXCEPT ![s] = NoSweep]
       /\ \E deleted \in BOOLEAN :
             /\ stored' = IF deleted THEN stored \ {o} ELSE stored
             /\ IF task[o] = "running" /\ sweeps[o] = sweeping[s].try
                THEN /\ task' = [task EXCEPT ![o] = IF deleted THEN "none" ELSE "failed"]
                     /\ taskOf' = IF deleted THEN [taskOf EXCEPT ![o] = NoMigration] ELSE taskOf
                     /\ sweeps' = IF deleted THEN [sweeps EXCEPT ![o] = 0] ELSE sweeps
                     /\ UNCHANGED item
                     /\ IF taskOf[o] # NoMigration THEN refreshMigration(taskOf[o], item, task', taskOf')
                        ELSE UNCHANGED status
                ELSE UNCHANGED <<tasks, item, status>>
       /\ UNCHANGED <<files, source, count, workers, uploads, leaked>>

\* The sweeper stops after it deleted the object, or before; or it goes on, and
\* the database has refused to record what it did: the task stays running until
\* it may be claimed again.
SweeperCrash(s) ==
    /\ sweeping[s] # NoSweep
    /\ sweeping' = [sweeping EXCEPT ![s] = NoSweep]
    /\ stored' \in {stored, stored \ {sweeping[s].object}}
    /\ UNCHANGED <<files, items, tasks, workers, uploads, leaked>>

-----------------------------------------------------------------------------
Next ==
    \/ \E m \in Migrations : \/ CreateStorageMigration(m) \/ CancelStorageMigration(m)
                             \/ RetryFailedStorageMigration(m)
    \/ \E w \in Workers : \/ \E i \in Items : ClaimStorageMigrationItem(w, i)
                          \/ CopyObject(w) \/ CopyFails(w)
                          \/ CompleteStorageMigrationItem(w) \/ LeaseLost(w) \/ CompleteFails(w)
                          \/ DropCopy(w) \/ DropSource(w) \/ FailStorageMigrationItem(w)
                          \/ Crash(w)
    \/ \E u \in Uploads : \/ \E p \in Profiles : PutFails(u, p) \/ \E f \in Files : PutUpload(u, f, p)
                          \/ ReplaceFile(u) \/ ReplaceFails(u) \/ DropUpload(u) \/ UploadCrash(u)
    \/ \E s \in Sweepers : \/ \E o \in Objects : ClaimCleanupTask(s, o)
                           \/ FinishCleanupTask(s) \/ SweeperCrash(s)

Spec == Init /\ [][Next]_vars

-----------------------------------------------------------------------------
(* Properties.                                                             *)

\* The object of every file exists: no stale worker, compensation, sweeper or
\* replacement deletes an object a row names.
RowHasObject == \A f \in Files : object[f] \in stored

\* The content of a file is the one of its last upload: a migration never puts
\* an older one back.
Content(o) == IF o \in Copies THEN source[o[2]] ELSE o
NoStaleContent == \A f \in Files : Content(object[f]) = latest[f]

\* The objects somebody is going to delete.
Held == {Target(w) : w \in {v \in Workers : doing[v] \in {"copied", "dropping"}}}
          \cup {Source(w) : w \in {v \in Workers : doing[v] = "moved"}}
          \cup {draft[u].object : u \in {v \in Uploads : at[v] \in {"stored", "dropping"}}}
          \cup {draft[u].old : u \in {v \in Uploads : at[v] = "replaced"}}

\* An object no row names is held by a process that will delete it or has a
\* cleanup task: only a crash, a storage that reports a put as failed and a
\* cleanup task that cannot be written lose objects.
NothingUntracked ==
    \A o \in stored : \/ \E f \in Files : object[f] = o
                      \/ o \in Held \/ task[o] # "none" \/ o \in leaked

\* A completed migration has moved or skipped every file of its snapshot, and
\* the sources of those it moved are gone, but for one a worker is just deleting
\* and those lost in a crash.
CompletedIsComplete ==
    \A m \in Migrations : status[m] = "completed" =>
        \A f \in Files : LET i == <<m, f>> IN
            /\ item[i] \in {"none", "succeeded", "skipped"}
            /\ item[i] = "succeeded" => source[i] \notin stored \ (Held \cup leaked)
=============================================================================
