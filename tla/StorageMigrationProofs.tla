------------------------- MODULE StorageMigrationProofs -------------------------
(***************************************************************************)
(* No object a row names is deleted, and no row gets older content back,   *)
(* for every number of files, migrations, workers, uploads and sweepers,   *)
(* as long as a commit that took place is not reported as failed.          *)
(*                                                                         *)
(* An object is coming until a row names it, and may be doomed: somebody   *)
(* is going to delete it.  The argument is that an object goes one way,    *)
(* from coming to named or doomed, and from named to doomed.  Every action *)
(* of StorageMigration takes one of three abstract steps (Keeps, Dooms,    *)
(* Names), which keep the three kinds of objects apart.                    *)
(***************************************************************************)
EXTENDS StorageMigration, TLAPS

Busy(w) == doing[w] # "idle"
Drafted(u) == at[u] \in {"stored", "dropping", "replaced"}

IsNamed(o) == \E f \in Files : object[f] = o

\* Somebody is going to delete the object.
WorkerDooms(w, o) == \/ doing[w] = "dropping" /\ Target(w) = o
                     \/ doing[w] = "moved" /\ Source(w) = o
UploadDooms(u, o) == \/ at[u] = "dropping" /\ draft[u].object = o
                     \/ at[u] = "replaced" /\ draft[u].old = o
TaskDooms(o) == o \in Objects /\ task[o] # "none"
SweeperDooms(s, o) == sweeping[s] # NoSweep /\ sweeping[s].object = o
IsDoomed(o) ==
    \/ \E w \in Workers : WorkerDooms(w, o)
    \/ \E u \in Uploads : UploadDooms(u, o)
    \/ TaskDooms(o)
    \/ \E s \in Sweepers : SweeperDooms(s, o)

\* The next transaction of a process makes a row name the object.
WorkerWrites(w, o) == doing[w] = "copied" /\ Target(w) = o
UploadWrites(u, o) == at[u] = "stored" /\ draft[u].object = o
IsWritten(o) == \/ \E w \in Workers : WorkerWrites(w, o)
                \/ \E u \in Uploads : UploadWrites(u, o)

\* A row may name the object later.
WorkerBrings(w, o) == doing[w] \in {"copying", "copied"} /\ Target(w) = o
UploadBrings(u, o) == \/ UploadWrites(u, o)
                      \/ at[u] = "new" /\ \E p \in Profiles : Fresh(u, p) = o
Unused(o) == \E i \in Items, n \in Nat : n > count[i] /\ Copy(i, n) = o
IsComing(o) == \/ \E w \in Workers : WorkerBrings(w, o)
               \/ \E u \in Uploads : UploadBrings(u, o)
               \/ Unused(o)

\* Every worker has a claim of its own, of an item of a migration that exists,
\* and every upload an object of its own.
Claims ==
    /\ \A w \in Workers : Busy(w) =>
          /\ job[w] \in Job
          /\ job[w].try <= count[job[w].item]
          /\ status[job[w].item[1]] # "none"
    /\ \A w, v \in Workers : Busy(w) /\ Busy(v) /\ w # v => job[w] # job[v]
    /\ \A w \in Workers : doing[w] = "moved" => Source(w) \in Objects
    /\ \A u \in Uploads : Drafted(u) =>
          draft[u] \in Draft /\ \E p \in Profiles : draft[u].object = Fresh(u, p)
    /\ \A u \in Uploads : at[u] = "replaced" => draft[u].old \in Objects
    /\ \A s \in Sweepers : sweeping[s] # NoSweep => sweeping[s] \in Sweep

\* The three kinds of objects are apart, and what is named or written is there.
Apart ==
    /\ \A o : ~(IsDoomed(o) /\ IsNamed(o)) /\ ~(IsDoomed(o) /\ IsComing(o))
               /\ ~(IsNamed(o) /\ IsComing(o))
    /\ \A f, g \in Files : object[f] = object[g] => f = g
    /\ \A o : IsNamed(o) \/ IsWritten(o) => o \in stored

\* A copy was made of the content of an upload, which its item still names.
Origins ==
    /\ \A i \in Items : source[i] \notin Copies
    /\ \A f \in Files, i \in Items, n \in 1..MaxClaims :
          object[f] = Copy(i, n) => status[i[1]] # "none"
    /\ NoStaleContent

StorageInv == TypeOK /\ Claims /\ Apart /\ Origins

-----------------------------------------------------------------------------
(* The abstract steps.                                                     *)

Keeps == /\ object' = object
         /\ \A o : (IsDoomed(o)' => IsDoomed(o)) /\ (IsComing(o)' => IsComing(o))

Dooms(x) == /\ object' = object
            /\ IsComing(x)
            /\ \A o : /\ IsDoomed(o)' => IsDoomed(o) \/ o = x
                      /\ IsComing(o)' => IsComing(o) /\ o # x

Names(f, x) == /\ object' = [object EXCEPT ![f] = x]
               /\ IsWritten(x)
               /\ \A o : /\ IsDoomed(o)' => IsDoomed(o) \/ o = object[f]
                         /\ IsComing(o)' => IsComing(o) /\ o # x

\* Only doomed objects are deleted, and what is written is there.
Safe == /\ \A o : o \in stored /\ o \notin stored' => IsDoomed(o)
        /\ \A o : IsWritten(o)' => IsWritten(o) \/ o \in stored'

\* What is written is coming.
LEMMA WrittenIsComing == \A o : IsWritten(o) => IsComing(o)
  BY DEF IsWritten, IsComing, WorkerWrites, WorkerBrings, UploadBrings

\* The abstract steps keep the kinds of objects apart: no deletion takes an
\* object a row names or is about to name.
LEMMA ApartStep ==
  ASSUME object \in [Files -> Objects], Apart, Safe,
         Keeps \/ (\E x : Dooms(x)) \/ (\E f \in Files : \E x : Names(f, x))
  PROVE  Apart'
<1>1. \A o : IsWritten(o) => o \in stored'
  BY WrittenIsComing DEF Apart, Safe
<1>2. \A o : IsNamed(o) => o \in stored'
  BY DEF Apart, Safe
<1>3. \A o : IsWritten(o)' => o \in stored'
  BY <1>1 DEF Safe
<1>4. CASE Keeps
  <2>1. \A o : IsNamed(o)' = IsNamed(o)
    BY <1>4 DEF Keeps, IsNamed
  <2>2. \A o : (IsDoomed(o)' => IsDoomed(o)) /\ (IsComing(o)' => IsComing(o))
    BY <1>4 DEF Keeps
  <2>3. object' = object
    BY <1>4 DEF Keeps
  <2> QED
    BY <1>2, <1>3, <2>1, <2>2, <2>3 DEF Apart
<1>5. ASSUME NEW x, Dooms(x) PROVE Apart'
  <2>1. \A o : IsNamed(o)' = IsNamed(o)
    BY <1>5 DEF Dooms, IsNamed
  <2>2. /\ IsComing(x) /\ object' = object
        /\ \A o : /\ IsDoomed(o)' => IsDoomed(o) \/ o = x
                  /\ IsComing(o)' => IsComing(o) /\ o # x
    BY <1>5 DEF Dooms
  <2> QED
    BY <1>2, <1>3, <2>1, <2>2 DEF Apart
<1>6. ASSUME NEW f \in Files, NEW x, Names(f, x) PROVE Apart'
  <2>1. /\ IsWritten(x)
        /\ \A o : /\ IsDoomed(o)' => IsDoomed(o) \/ o = object[f]
                  /\ IsComing(o)' => IsComing(o) /\ o # x
    BY <1>6 DEF Names
  <2>2. \A g \in Files : object'[g] = IF g = f THEN x ELSE object[g]
    BY <1>6 DEF Names
  <2>3. IsComing(x) /\ ~IsNamed(x) /\ ~IsDoomed(x) /\ x \in stored'
    BY <1>1, <2>1, WrittenIsComing DEF Apart
  <2>4. \A o : IsNamed(o)' => o = x \/ (IsNamed(o) /\ o # object[f])
    BY <2>2 DEF IsNamed, Apart
  <2>5. IsNamed(object[f])
    BY DEF IsNamed
  <2>6. \A o : ~(IsDoomed(o) /\ IsNamed(o))' /\ ~(IsDoomed(o) /\ IsComing(o))'
               /\ ~(IsNamed(o) /\ IsComing(o))'
    BY <2>1, <2>3, <2>4, <2>5 DEF Apart
  <2>7. \A g, h \in Files : object'[g] = object'[h] => g = h
    BY <2>2, <2>3 DEF Apart, IsNamed
  <2>8. \A o : (IsNamed(o) \/ IsWritten(o))' => o \in stored'
    BY <1>2, <1>3, <2>3, <2>4
  <2> QED
    BY <2>6, <2>7, <2>8 DEF Apart
<1> QED
  BY <1>4, <1>5, <1>6

-----------------------------------------------------------------------------
(* Types and claims.                                                       *)

USE BoundAssumption, CommitAssumption

\* The rows are typed.
RowTypes == /\ status' \in [Migrations -> {"none", "open", "completed", "completed_with_failures",
                                  "completed_with_cleanup_pending", "cancelled"}]
            /\ item' \in [Items -> {"none", "pending", "running", "succeeded", "failed", "skipped"}]
            /\ source' \in [Items -> Objects \cup {NoObject}]
            /\ count' \in [Items -> 0..MaxClaims]
TaskTypes == /\ task' \in [Objects -> {"none", "pending", "running", "failed"}]
             /\ taskOf' \in [Objects -> Migrations \cup {NoMigration}]
             /\ sweeps' \in [Objects -> 0..MaxSweeps]

\* What deleteOrEnqueue does to the objects, the tasks and the migrations.
LEMMA DeleteOrEnqueueIs ==
  ASSUME TypeOK, NEW x \in Objects, NEW m \in Migrations \cup {NoMigration}, NEW b \in BOOLEAN,
         deleteOrEnqueue(x, m, b)
  PROVE  /\ stored' \subseteq Objects /\ leaked' \subseteq Objects
         /\ \A o \in stored : o \notin stored' => o = x
         /\ \A o \in stored' : o \in stored
         /\ \A o : TaskDooms(o)' => TaskDooms(o) \/ o = x
         /\ TaskTypes
         /\ status' \in [Migrations -> {"none", "open", "completed", "completed_with_failures",
                                  "completed_with_cleanup_pending", "cancelled"}]
         /\ \A n \in Migrations : status[n] # "none" => status'[n] # "none"
<1>1. CASE stored' = stored \ {x} /\ UNCHANGED <<tasks, status, leaked>>
  BY <1>1 DEF TypeOK, TaskDooms, tasks, TaskTypes
<1>2. CASE /\ Enqueue(x, m)
           /\ IF b THEN NotQuiteCompleted(m) ELSE UNCHANGED status
           /\ UNCHANGED <<stored, leaked>>
  <2>1. TaskTypes /\ \A o : TaskDooms(o)' => TaskDooms(o) \/ o = x
    BY <1>2 DEF TypeOK, TaskDooms, tasks, TaskTypes, Enqueue
  <2>2. /\ status' \in [Migrations -> {"none", "open", "completed", "completed_with_failures",
                                  "completed_with_cleanup_pending", "cancelled"}]
        /\ \A n \in Migrations : status[n] # "none" => status'[n] # "none"
    BY <1>2 DEF TypeOK, NotQuiteCompleted
  <2> QED
    BY <1>2, <2>1, <2>2 DEF TypeOK
<1>3. CASE leaked' = leaked \cup {x} /\ UNCHANGED <<stored, tasks, status>>
  BY <1>3 DEF TypeOK, TaskDooms, tasks, TaskTypes
<1> QED
  BY <1>1, <1>2, <1>3 DEF deleteOrEnqueue

\* refreshMigration gives a migration a status, and never takes it away.
LEMMA RefreshIs ==
  ASSUME TypeOK, NEW m \in Migrations, NEW it, NEW t, NEW of, refreshMigration(m, it, t, of)
  PROVE  /\ status' \in [Migrations -> {"none", "open", "completed", "completed_with_failures",
                                  "completed_with_cleanup_pending", "cancelled"}]
         /\ \A n \in Migrations : status[n] # "none" => status'[n] # "none"
<1> DEFINE v == status'[m]
            S == {"none", "open", "completed", "completed_with_failures",
                  "completed_with_cleanup_pending", "cancelled"}
<1>1. status \in [Migrations -> S]
  BY DEF TypeOK
<1>2. \A n \in Migrations : n # m => status'[n] = status[n]
  BY <1>1 DEF refreshMigration
<1>3. PICK e : status' = [status EXCEPT ![m] = e]
  BY DEF refreshMigration
<1>4. \/ v = status[m]
      \/ v \in {"completed_with_failures", "completed_with_cleanup_pending", "completed"}
  BY <1>1 DEF refreshMigration, SomeItem, CleanupPending
<1>5. v \in S /\ (status[m] # "none" => v # "none")
  BY <1>1, <1>4
<1> QED
  BY <1>1, <1>2, <1>3, <1>5

\* Objects have types.
LEMMA ObjectTypes ==
  /\ \A f \in Files : First(f) \in Objects
  /\ \A u \in Uploads, p \in Profiles : Fresh(u, p) \in Objects
  /\ \A j \in Job : Copy(j.item, j.try) \in Copies /\ Copy(j.item, j.try) \in Objects
  BY DEF Objects, Copies, Job

\* A worker that is busy has an item, with an attempt, and a target.
LEMMA BusyIs ==
  ASSUME TypeOK, Claims, NEW w \in Workers, Busy(w)
  PROVE  /\ job[w] \in Job /\ job[w].item \in Items /\ job[w].try \in 1..MaxClaims
         /\ Migration(w) \in Migrations /\ File(w) \in Files
         /\ Target(w) \in Objects /\ Source(w) \in Objects \cup {NoObject}
         /\ status[Migration(w)] # "none"
<1>1. job[w] \in Job /\ status[job[w].item[1]] # "none"
  BY DEF Claims
<1>2. job[w].item \in Items /\ job[w].try \in 1..MaxClaims
  BY <1>1 DEF Job
<1> QED
  BY <1>1, <1>2, ObjectTypes DEF TypeOK, Items, Migration, File, Target, Source

-----------------------------------------------------------------------------
(* What a step of a worker, and what a step of an upload, does to the kinds *)
(* of objects.                                                             *)

\* Keys are never used twice.
LEMMA KeysDiffer ==
  /\ \A i, j, n, k : Copy(i, n) = Copy(j, k) => i = j /\ n = k
  /\ \A u, v, p, q : Fresh(u, p) = Fresh(v, q) => u = v /\ p = q
  /\ \A i, n, u, p : Copy(i, n) # Fresh(u, p)
  /\ \A i, n, f : Copy(i, n) # First(f)
  /\ \A u, p, f : Fresh(u, p) # First(f)
<1>1. \A i, n, f : Copy(i, n)[1] = "copy" /\ First(f)[1] = "first"
  BY DEF Copy, First
<1>2. \A u, p : Fresh(u, p)[1] = "fresh"
  BY DEF Fresh
<1> QED
  BY <1>1, <1>2 DEF Copy, Fresh

\* Nobody else brings what a worker brings.
LEMMA WorkerAlone ==
  ASSUME TypeOK, Claims, NEW w \in Workers, doing[w] \in {"copying", "copied"}
  PROVE  /\ IsComing(Target(w))
         /\ \A v \in Workers : v # w => ~WorkerBrings(v, Target(w))
         /\ \A u \in Uploads : ~UploadBrings(u, Target(w))
         /\ ~Unused(Target(w))
<1>1. Busy(w) /\ job[w] \in Job /\ job[w].try <= count[job[w].item]
  BY DEF Claims, Busy
<1>2. IsComing(Target(w))
  BY DEF IsComing, WorkerBrings
<1>3. ASSUME NEW v \in Workers, v # w, WorkerBrings(v, Target(w)) PROVE FALSE
  <2>1. Busy(v) /\ job[v] \in Job /\ job[v] # job[w]
    BY <1>1, <1>3 DEF Claims, Busy, WorkerBrings
  <2>2. job[v].item = job[w].item /\ job[v].try = job[w].try
    BY <1>3, KeysDiffer DEF WorkerBrings, Target
  <2> QED
    BY <1>1, <2>1, <2>2 DEF Job
<1>4. ASSUME NEW u \in Uploads, UploadBrings(u, Target(w)) PROVE FALSE
  <2>1. \E p \in Profiles : Fresh(u, p) = Target(w)
    BY <1>4 DEF UploadBrings, UploadWrites, Claims, Drafted
  <2> QED
    BY <2>1, KeysDiffer DEF Target
<1>5. ASSUME Unused(Target(w)) PROVE FALSE
  <2>1. PICK i \in Items, n \in Nat : n > count[i] /\ Copy(i, n) = Target(w)
    BY <1>5 DEF Unused
  <2>2. i = job[w].item /\ n = job[w].try
    BY <2>1, KeysDiffer DEF Target
  <2>3. count[i] \in Nat
    BY DEF TypeOK
  <2> QED
    BY <1>1, <2>1, <2>2, <2>3
<1> QED
  BY <1>2, <1>3, <1>4, <1>5

\* A worker goes on to d, with its job or, when it is idle again, without.
LEMMA WorkerStep ==
  ASSUME TypeOK, Claims, NEW w \in Workers, Busy(w),
         NEW d \in {"idle", "failing", "copied", "dropping", "moved"},
         doing' = [doing EXCEPT ![w] = d], d = "moved" => Source(w) \in Objects,
         job' = job \/ (d = "idle" /\ job' = [job EXCEPT ![w] = NoJob]),
         UNCHANGED <<source, count, uploads, sweeping>>,
         \A n \in Migrations : status[n] # "none" => status'[n] # "none",
         \A o : TaskDooms(o)' => TaskDooms(o) \/ WorkerDooms(w, o)
  PROVE  /\ Claims'
         /\ d = "idle" \/ d = "failing" =>
               \A o : /\ IsDoomed(o)' => IsDoomed(o)
                      /\ IsComing(o)' => IsComing(o)
                      /\ IsWritten(o)' => IsWritten(o)
         /\ d = "copied" /\ doing[w] = "copying" =>
               \A o : /\ IsDoomed(o)' => IsDoomed(o)
                      /\ IsComing(o)' => IsComing(o)
                      /\ IsWritten(o)' => IsWritten(o) \/ o = Target(w)
         /\ d \in {"dropping", "moved"} /\ doing[w] \in {"copying", "copied"} =>
               \A o : /\ IsDoomed(o)' => IsDoomed(o)
                                           \/ (d = "dropping" /\ o = Target(w))
                                           \/ (d = "moved" /\ o = Source(w))
                      /\ IsComing(o)' => IsComing(o) /\ o # Target(w)
                      /\ IsWritten(o)' => IsWritten(o)
<1>1. \A v \in Workers : doing'[v] = IF v = w THEN d ELSE doing[v]
  BY DEF TypeOK
<1>2. \A v \in Workers : v # w \/ d # "idle" => job'[v] = job[v]
  BY DEF TypeOK
<1>3. \A v \in Workers : \A o : v # w =>
         /\ WorkerDooms(v, o)' = WorkerDooms(v, o)
         /\ WorkerWrites(v, o)' = WorkerWrites(v, o)
         /\ WorkerBrings(v, o)' = WorkerBrings(v, o)
  BY <1>1, <1>2 DEF WorkerDooms, WorkerWrites, WorkerBrings, Target, Source
<1>4. \A u \in Uploads : \A o : /\ UploadDooms(u, o)' = UploadDooms(u, o)
                                /\ UploadWrites(u, o)' = UploadWrites(u, o)
                                /\ UploadBrings(u, o)' = UploadBrings(u, o)
  BY DEF uploads, UploadDooms, UploadWrites, UploadBrings
<1>5. \A o : /\ Unused(o)' = Unused(o)
             /\ \A s \in Sweepers : SweeperDooms(s, o)' = SweeperDooms(s, o)
  BY DEF Unused, SweeperDooms
<1>6. d # "idle" => Target(w)' = Target(w) /\ Source(w)' = Source(w)
  BY <1>2 DEF Target, Source
<1>7. \A o : WorkerDooms(w, o)' =>
         (d = "dropping" /\ o = Target(w)) \/ (d = "moved" /\ o = Source(w))
  BY <1>1, <1>6 DEF WorkerDooms
<1>8. \A o : WorkerBrings(w, o)' => d \in {"copying", "copied"} /\ o = Target(w)
  BY <1>1, <1>6 DEF WorkerBrings
<1>9. \A o : WorkerWrites(w, o)' => d = "copied" /\ o = Target(w)
  BY <1>1, <1>6 DEF WorkerWrites
<1>10. \A o : IsDoomed(o)' => IsDoomed(o) \/ WorkerDooms(w, o)'
  BY <1>3, <1>4, <1>5 DEF IsDoomed
<1>11. \A o : IsComing(o)' => WorkerBrings(w, o)'
           \/ (\E v \in Workers : v # w /\ WorkerBrings(v, o))
           \/ (\E u \in Uploads : UploadBrings(u, o)) \/ Unused(o)
  BY <1>3, <1>4, <1>5 DEF IsComing
<1>12. \A o : IsWritten(o)' => IsWritten(o) \/ WorkerWrites(w, o)'
  BY <1>3, <1>4 DEF IsWritten
<1>13. \A o : IsComing(o)' => IsComing(o) \/ WorkerBrings(w, o)'
  BY <1>11 DEF IsComing
<1>14. Claims'
  <2>1. \A v \in Workers : Busy(v)' => Busy(v) /\ job'[v] = job[v]
    BY <1>1, <1>2 DEF Busy
  <2>2. \A v \in Workers : Busy(v)' =>
          /\ job'[v] \in Job /\ job'[v].try <= count'[job'[v].item]
          /\ status'[job'[v].item[1]] # "none"
    BY <2>1 DEF Claims, Job, Items
  <2>3. \A v, x \in Workers : Busy(v)' /\ Busy(x)' /\ v # x => job'[v] # job'[x]
    BY <2>1 DEF Claims
  <2>5. \A v \in Workers : doing'[v] = "moved" => Source(v)' \in Objects
    BY <1>1, <1>2, <1>6 DEF Claims, Source
  <2>4. /\ \A u \in Uploads : Drafted(u)' => draft'[u] \in Draft
               /\ \E p \in Profiles : draft'[u].object = Fresh(u, p)
        /\ \A u \in Uploads : at'[u] = "replaced" => draft'[u].old \in Objects
        /\ \A s \in Sweepers : sweeping'[s] # NoSweep => sweeping'[s] \in Sweep
    BY DEF Claims, uploads, Drafted
  <2> QED
    BY <2>2, <2>3, <2>4, <2>5 DEF Claims
<1>15. CASE d \in {"idle", "failing"}
  BY <1>7, <1>8, <1>9, <1>10, <1>12, <1>13, <1>14, <1>15
<1>16. CASE d = "copied"
  <2>1. doing[w] = "copying" => IsComing(Target(w))
    BY WorkerAlone
  <2> QED
    BY <2>1, <1>7, <1>8, <1>9, <1>10, <1>12, <1>13, <1>14, <1>16
<1>17. CASE d \in {"dropping", "moved"} /\ doing[w] \in {"copying", "copied"}
  <2>1. \A o : IsComing(o)' => o # Target(w)
    BY <1>8, <1>11, <1>17, WorkerAlone
  <2> QED
    BY <2>1, <1>7, <1>8, <1>9, <1>10, <1>12, <1>13, <1>14, <1>17
<1> QED
  BY <1>14, <1>15, <1>16, <1>17

\* Nobody else brings what an upload brings.
LEMMA UploadAlone ==
  ASSUME TypeOK, Claims, NEW u \in Uploads, NEW o, UploadBrings(u, o)
  PROVE  /\ IsComing(o)
         /\ \A w \in Workers : ~WorkerBrings(w, o)
         /\ \A v \in Uploads : v # u => ~UploadBrings(v, o)
         /\ ~Unused(o)
<1>1. \A v \in Uploads : UploadBrings(v, o) => \E p \in Profiles : Fresh(v, p) = o
  BY DEF UploadBrings, UploadWrites, Claims, Drafted
<1>2. PICK p \in Profiles : Fresh(u, p) = o
  BY <1>1
<1>3. IsComing(o)
  BY DEF IsComing
<1>4. \A v \in Uploads : v # u => ~UploadBrings(v, o)
  BY <1>1, <1>2, KeysDiffer
<1>5. \A w \in Workers : ~WorkerBrings(w, o)
  BY <1>2, KeysDiffer DEF WorkerBrings, Target
<1>6. ~Unused(o)
  BY <1>2, KeysDiffer DEF Unused
<1> QED
  BY <1>3, <1>4, <1>5, <1>6

\* An upload goes on to a, with the draft x.
LEMMA UploadStep ==
  ASSUME TypeOK, Claims, NEW u \in Uploads, NEW x,
         NEW a \in {"done", "stored", "dropping", "replaced"},
         at' = [at EXCEPT ![u] = a], draft' = [draft EXCEPT ![u] = x],
         UNCHANGED <<source, count, workers, sweeping>>,
         a \in {"stored", "dropping", "replaced"} =>
            x \in Draft /\ \E p \in Profiles : x.object = Fresh(u, p),
         a = "replaced" => x.old \in Objects,
         \A n \in Migrations : status[n] # "none" => status'[n] # "none",
         \A o : TaskDooms(o)' => TaskDooms(o) \/ UploadDooms(u, o)
  PROVE  /\ Claims'
         /\ a = "done" => \A o : /\ IsDoomed(o)' => IsDoomed(o)
                                 /\ IsComing(o)' => IsComing(o)
                                 /\ IsWritten(o)' => IsWritten(o)
         /\ a = "stored" /\ UploadBrings(u, x.object) =>
               \A o : /\ IsDoomed(o)' => IsDoomed(o)
                      /\ IsComing(o)' => IsComing(o)
                      /\ IsWritten(o)' => IsWritten(o) \/ o = x.object
         /\ a = "dropping" /\ at[u] = "stored" /\ x.object = draft[u].object =>
               \A o : /\ IsDoomed(o)' => IsDoomed(o) \/ o = x.object
                      /\ IsComing(o)' => IsComing(o) /\ o # x.object
                      /\ IsWritten(o)' => IsWritten(o)
         /\ a = "replaced" /\ at[u] = "stored" /\ x.object = draft[u].object =>
               \A o : /\ IsDoomed(o)' => IsDoomed(o) \/ o = x.old
                      /\ IsComing(o)' => IsComing(o) /\ o # x.object
                      /\ IsWritten(o)' => IsWritten(o)
<1>1. \A v \in Uploads : at'[v] = IF v = u THEN a ELSE at[v]
  BY DEF TypeOK
<1>2. \A v \in Uploads : draft'[v] = IF v = u THEN x ELSE draft[v]
  BY DEF TypeOK
<1>3. \A v \in Uploads : \A o : v # u => /\ UploadDooms(v, o)' = UploadDooms(v, o)
                                         /\ UploadWrites(v, o)' = UploadWrites(v, o)
                                         /\ UploadBrings(v, o)' = UploadBrings(v, o)
  BY <1>1, <1>2 DEF UploadDooms, UploadWrites, UploadBrings
<1>4. \A w \in Workers : \A o : /\ WorkerDooms(w, o)' = WorkerDooms(w, o)
                                /\ WorkerWrites(w, o)' = WorkerWrites(w, o)
                                /\ WorkerBrings(w, o)' = WorkerBrings(w, o)
  BY DEF workers, WorkerDooms, WorkerWrites, WorkerBrings, Target, Source
<1>5. \A o : /\ Unused(o)' = Unused(o)
             /\ \A s \in Sweepers : SweeperDooms(s, o)' = SweeperDooms(s, o)
  BY DEF Unused, SweeperDooms
<1>6. \A o : UploadDooms(u, o)' =>
         (a = "dropping" /\ o = x.object) \/ (a = "replaced" /\ o = x.old)
  BY <1>1, <1>2 DEF UploadDooms
<1>7. \A o : UploadBrings(u, o)' => a = "new" \/ (a = "stored" /\ o = x.object)
  BY <1>1, <1>2 DEF UploadBrings, UploadWrites
<1>8. \A o : UploadWrites(u, o)' => a = "stored" /\ o = x.object
  BY <1>1, <1>2 DEF UploadWrites
<1>9. \A o : IsDoomed(o)' => IsDoomed(o) \/ UploadDooms(u, o)'
  BY <1>3, <1>4, <1>5 DEF IsDoomed
<1>10. \A o : IsComing(o)' => UploadBrings(u, o)'
           \/ (\E v \in Uploads : v # u /\ UploadBrings(v, o))
           \/ (\E w \in Workers : WorkerBrings(w, o)) \/ Unused(o)
  BY <1>3, <1>4, <1>5 DEF IsComing
<1>11. \A o : IsWritten(o)' => IsWritten(o) \/ UploadWrites(u, o)'
  BY <1>3, <1>4 DEF IsWritten
<1>12. \A o : IsComing(o)' => IsComing(o) \/ UploadBrings(u, o)'
  BY <1>10 DEF IsComing
<1>13. Claims'
  <2>1. \A v \in Uploads : Drafted(v)' =>
          draft'[v] \in Draft /\ \E p \in Profiles : draft'[v].object = Fresh(v, p)
    BY <1>1, <1>2 DEF Claims, Drafted
  <2>2. \A v \in Uploads : at'[v] = "replaced" => draft'[v].old \in Objects
    BY <1>1, <1>2 DEF Claims
  <2>3. \A w \in Workers : Busy(w)' =>
          /\ job'[w] \in Job /\ job'[w].try <= count'[job'[w].item]
          /\ status'[job'[w].item[1]] # "none"
    BY DEF Claims, workers, Busy, Job, Items
  <2>4. /\ \A w, v \in Workers : Busy(w)' /\ Busy(v)' /\ w # v => job'[w] # job'[v]
        /\ \A w \in Workers : doing'[w] = "moved" => Source(w)' \in Objects
        /\ \A s \in Sweepers : sweeping'[s] # NoSweep => sweeping'[s] \in Sweep
    BY DEF Claims, workers, Busy, Source
  <2> QED
    BY <2>1, <2>2, <2>3, <2>4 DEF Claims
<1>14. CASE a = "done"
  BY <1>6, <1>7, <1>8, <1>9, <1>11, <1>12, <1>13, <1>14
<1>15. CASE a = "stored"
  <2>1. UploadBrings(u, x.object) => IsComing(x.object)
    BY UploadAlone
  <2> QED
    BY <2>1, <1>6, <1>7, <1>8, <1>9, <1>11, <1>12, <1>13, <1>15
<1>16. CASE a \in {"dropping", "replaced"} /\ at[u] = "stored" /\ x.object = draft[u].object
  <2>1. UploadBrings(u, x.object)
    BY <1>16 DEF UploadBrings, UploadWrites
  <2>2. \A o : IsComing(o)' => o # x.object
    BY <2>1, <1>7, <1>10, <1>16, UploadAlone
  <2> QED
    BY <2>2, <1>6, <1>7, <1>8, <1>9, <1>11, <1>12, <1>13, <1>16
<1> QED
  BY <1>13, <1>14, <1>15, <1>16

-----------------------------------------------------------------------------
(* Every action, by itself: what it does to the types.                     *)

Statuses == {"none", "open", "completed", "completed_with_failures",
             "completed_with_cleanup_pending", "cancelled"}

\* A migration has a status, and keeps one once it has it.
StatusStep == /\ status' \in [Migrations -> Statuses]
              /\ \A n \in Migrations : status[n] # "none" => status'[n] # "none"
FileTypes == /\ object' \in [Files -> Objects] /\ latest' \in [Files -> Objects]
             /\ revision' \in [Files -> Nat]
ItemTypes == /\ item' \in [Items -> {"none", "pending", "running", "succeeded", "failed", "skipped"}]
             /\ source' \in [Items -> Objects \cup {NoObject}]
             /\ count' \in [Items -> 0..MaxClaims]
WorkerTypes == /\ doing' \in [Workers -> {"idle", "copying", "copied", "dropping", "failing", "moved"}]
               /\ job' \in [Workers -> Job \cup {NoJob}]
               /\ error' \in [Workers -> {"none", "transient", "permanent"}]
UploadTypes == /\ at' \in [Uploads -> {"new", "stored", "dropping", "replaced", "done"}]
               /\ draft' \in [Uploads -> Draft \cup {NoDraft}]
StoreTypes == stored' \subseteq Objects /\ leaked' \subseteq Objects
SweeperTypes == sweeping' \in [Sweepers -> Sweep \cup {NoSweep}]

StepTypes == /\ StatusStep /\ FileTypes /\ ItemTypes /\ TaskTypes
             /\ WorkerTypes /\ UploadTypes /\ StoreTypes /\ SweeperTypes

LEMMA TypesMeanTypeOK == StepTypes => TypeOK'
  BY DEF StepTypes, TypeOK, StatusStep, FileTypes, ItemTypes, TaskTypes, WorkerTypes,
         UploadTypes, StoreTypes, SweeperTypes, Statuses

\* What does not change keeps its type.
LEMMA TypeFrames ==
  ASSUME TypeOK
  PROVE  /\ UNCHANGED status => StatusStep
         /\ UNCHANGED files => FileTypes
         /\ UNCHANGED <<item, source, count>> => ItemTypes
         /\ UNCHANGED tasks => TaskTypes
         /\ UNCHANGED workers => WorkerTypes
         /\ UNCHANGED uploads => UploadTypes
         /\ UNCHANGED <<stored, leaked>> => StoreTypes
         /\ UNCHANGED sweeping => SweeperTypes
  BY DEF TypeOK, files, tasks, workers, uploads, StatusStep, FileTypes, ItemTypes, TaskTypes,
         WorkerTypes, UploadTypes, StoreTypes, SweeperTypes, Statuses

LEMMA MigrationTypes ==
  ASSUME TypeOK, NEW m \in Migrations,
         CreateStorageMigration(m) \/ CancelStorageMigration(m) \/ RetryFailedStorageMigration(m)
  PROVE  StepTypes
<1>1. CASE CreateStorageMigration(m)
  <2>1. StatusStep
    BY <1>1 DEF CreateStorageMigration, TypeOK, StatusStep, Statuses
  <2>2. ItemTypes
    BY <1>1 DEF CreateStorageMigration, TypeOK, ItemTypes, Items
  <2> QED
    BY <1>1, <2>1, <2>2, TypeFrames DEF CreateStorageMigration, StepTypes
<1>2. CASE CancelStorageMigration(m)
  <2>1. StatusStep
    BY <1>2 DEF CancelStorageMigration, TypeOK, StatusStep, Statuses
  <2> QED
    BY <1>2, <2>1, TypeFrames DEF CancelStorageMigration, StepTypes
<1>3. CASE RetryFailedStorageMigration(m)
  <2>1. StatusStep
    BY <1>3 DEF RetryFailedStorageMigration, TypeOK, StatusStep, Statuses
  <2>2. ItemTypes
    BY <1>3 DEF RetryFailedStorageMigration, TypeOK, ItemTypes
  <2>3. TaskTypes
    BY <1>3 DEF RetryFailedStorageMigration, TypeOK, TaskTypes
  <2> QED
    BY <1>3, <2>1, <2>2, <2>3, TypeFrames DEF RetryFailedStorageMigration, StepTypes
<1> QED
  BY <1>1, <1>2, <1>3

LEMMA ClaimTypes ==
  ASSUME TypeOK, NEW w \in Workers, NEW i \in Items, ClaimStorageMigrationItem(w, i)
  PROVE  StepTypes
<1>1. count[i] \in 0..MaxClaims /\ count[i] + 1 \in 1..MaxClaims
  BY DEF TypeOK, ClaimStorageMigrationItem
<1>2. ItemTypes
  BY <1>1 DEF ClaimStorageMigrationItem, TypeOK, ItemTypes
<1>3. [item |-> i, try |-> count[i] + 1] \in Job
  BY <1>1 DEF Job
<1>4. WorkerTypes
  BY <1>3 DEF ClaimStorageMigrationItem, TypeOK, WorkerTypes
<1> QED
  BY <1>2, <1>4, TypeFrames DEF ClaimStorageMigrationItem, StepTypes

LEMMA CopyTypes ==
  ASSUME TypeOK, Claims, NEW w \in Workers, CopyObject(w) \/ CopyFails(w)
  PROVE  StepTypes
<1>1. Target(w) \in Objects
  BY BusyIs DEF CopyObject, CopyFails, Busy
<1>2. WorkerTypes
  BY DEF CopyObject, CopyFails, TypeOK, WorkerTypes
<1>3. StoreTypes
  BY <1>1 DEF CopyObject, CopyFails, TypeOK, StoreTypes
<1> QED
  BY <1>2, <1>3, TypeFrames DEF CopyObject, CopyFails, StepTypes, items

\* What the transaction of a completion does.
LEMMA MoveRowIs ==
  ASSUME TypeOK, Claims, NEW w \in Workers, Busy(w), MoveRow(w), UNCHANGED <<source, count>>
  PROVE  /\ StatusStep /\ ItemTypes
         /\ object' \in [Files -> Objects]
         /\ object' = IF Unchanged(File(w), Source(w))
                      THEN [object EXCEPT ![File(w)] = Target(w)] ELSE object
<1>1. /\ Target(w) \in Objects /\ File(w) \in Files /\ job[w].item \in Items
      /\ Migration(w) \in Migrations
  BY BusyIs
<1>2. refreshMigration(Migration(w), item', task, taskOf)
  BY DEF MoveRow, Migration
<1>3. StatusStep
  BY <1>1, <1>2, RefreshIs DEF StatusStep, Statuses
<1>4. ItemTypes
  BY <1>1 DEF MoveRow, TypeOK, ItemTypes
<1>5. object' = IF Unchanged(File(w), Source(w))
                THEN [object EXCEPT ![File(w)] = Target(w)] ELSE object
  BY DEF MoveRow
<1> QED
  BY <1>1, <1>3, <1>4, <1>5 DEF TypeOK

LEMMA CompleteTypes ==
  ASSUME TypeOK, Claims, ~LostCommits, NEW w \in Workers,
         CompleteStorageMigrationItem(w) \/ LeaseLost(w) \/ CompleteFails(w)
  PROVE  StepTypes
<1> Busy(w)
  BY DEF CompleteStorageMigrationItem, LeaseLost, CompleteFails, Busy
<1>1. WorkerTypes
  BY DEF CompleteStorageMigrationItem, LeaseLost, CompleteFails, TypeOK, WorkerTypes
<1>2. CASE CompleteStorageMigrationItem(w)
  <2>1. StatusStep /\ ItemTypes /\ object' \in [Files -> Objects]
    BY <1>2, MoveRowIs DEF CompleteStorageMigrationItem
  <2>2. FileTypes
    BY <1>2, <2>1 DEF CompleteStorageMigrationItem, TypeOK, FileTypes
  <2>3. UNCHANGED tasks
    BY <1>2 DEF CompleteStorageMigrationItem, MoveRow, tasks
  <2> QED
    BY <1>1, <1>2, <2>1, <2>2, <2>3, TypeFrames DEF CompleteStorageMigrationItem, StepTypes
<1>3. CASE LeaseLost(w)
  BY <1>1, <1>3, TypeFrames DEF LeaseLost, StepTypes, items
<1>4. CASE CompleteFails(w)
  BY <1>1, <1>4, TypeFrames DEF CompleteFails, StepTypes, items, files, tasks
<1> QED
  BY <1>2, <1>3, <1>4

LEMMA DropTypes ==
  ASSUME TypeOK, Claims, NEW w \in Workers, DropCopy(w) \/ DropSource(w)
  PROVE  /\ StepTypes
         /\ \A o \in stored : o \notin stored' => WorkerDooms(w, o)
         /\ \A o \in stored' : o \in stored
         /\ \A o : TaskDooms(o)' => TaskDooms(o) \/ WorkerDooms(w, o)
<1>1. Target(w) \in Objects /\ Migration(w) \in Migrations
  BY BusyIs DEF DropCopy, DropSource, Busy
<1>2. ASSUME NEW x \in Objects, NEW b \in BOOLEAN, WorkerDooms(w, x),
             deleteOrEnqueue(x, Migration(w), b)
      PROVE  /\ StatusStep /\ TaskTypes /\ StoreTypes
             /\ \A o \in stored : o \notin stored' => WorkerDooms(w, o)
             /\ \A o \in stored' : o \in stored
             /\ \A o : TaskDooms(o)' => TaskDooms(o) \/ WorkerDooms(w, o)
  BY <1>1, <1>2, DeleteOrEnqueueIs DEF StatusStep, StoreTypes, Statuses
<1>3. WorkerTypes
  BY DEF DropCopy, DropSource, Rest, TypeOK, WorkerTypes
<1>4. CASE DropCopy(w)
  BY <1>1, <1>2, <1>3, <1>4, TypeFrames DEF DropCopy, WorkerDooms, StepTypes
<1>5. CASE DropSource(w)
  <2>1. Source(w) \in Objects
    BY <1>5 DEF DropSource, Claims
  <2> QED
    BY <2>1, <1>2, <1>3, <1>5, TypeFrames DEF DropSource, WorkerDooms, StepTypes
<1> QED
  BY <1>4, <1>5

LEMMA FailTypes ==
  ASSUME TypeOK, Claims, NEW w \in Workers, FailStorageMigrationItem(w) \/ Crash(w)
  PROVE  StepTypes
<1>1. /\ Target(w) \in Objects /\ Migration(w) \in Migrations /\ job[w].item \in Items
  BY BusyIs DEF FailStorageMigrationItem, Crash, Busy
<1>2. WorkerTypes
  BY DEF FailStorageMigrationItem, Crash, Rest, TypeOK, WorkerTypes
<1>3. CASE FailStorageMigrationItem(w)
  <2>1. StatusStep
    <3>1. CASE UNCHANGED status
      BY <3>1, TypeFrames
    <3>2. CASE refreshMigration(Migration(w), item', task, taskOf)
      BY <1>1, <3>2, RefreshIs DEF StatusStep, Statuses
    <3> QED
      BY <1>3, <3>1, <3>2 DEF FailStorageMigrationItem, Migration
  <2>2. ItemTypes
    BY <1>1, <1>3 DEF FailStorageMigrationItem, TypeOK, ItemTypes
  <2>3. UNCHANGED tasks
    BY <1>3 DEF FailStorageMigrationItem, tasks
  <2> QED
    BY <1>2, <1>3, <2>1, <2>2, <2>3, TypeFrames DEF FailStorageMigrationItem, StepTypes
<1>4. CASE Crash(w)
  <2>1. doing[w] = "moved" => Source(w) \in Objects
    BY DEF Claims
  <2>2. leaked' \subseteq Objects
    BY <1>1, <1>4, <2>1 DEF Crash, TypeOK
  <2>3. StoreTypes
    BY <1>4, <2>2 DEF Crash, TypeOK, StoreTypes
  <2> QED
    BY <1>2, <1>4, <2>3, TypeFrames DEF Crash, StepTypes, items
<1> QED
  BY <1>3, <1>4

LEMMA PutTypes ==
  ASSUME TypeOK, NEW u \in Uploads, NEW p \in Profiles,
         PutFails(u, p) \/ \E f \in Files : PutUpload(u, f, p)
  PROVE  StepTypes
<1>1. Fresh(u, p) \in Objects
  BY ObjectTypes
<1>2. StoreTypes
  BY <1>1 DEF PutFails, PutUpload, TypeOK, StoreTypes
<1>3. CASE PutFails(u, p)
  <2>1. UploadTypes
    BY <1>3 DEF PutFails, TypeOK, UploadTypes
  <2> QED
    BY <1>2, <1>3, <2>1, TypeFrames DEF PutFails, StepTypes, items
<1>4. ASSUME NEW f \in Files, PutUpload(u, f, p) PROVE StepTypes
  <2>1. [file |-> f, revision |-> revision[f], object |-> Fresh(u, p), old |-> NoObject] \in Draft
    BY <1>1 DEF TypeOK, Draft
  <2>2. UploadTypes
    BY <1>4, <2>1 DEF PutUpload, TypeOK, UploadTypes
  <2> QED
    BY <1>2, <1>4, <2>2, TypeFrames DEF PutUpload, StepTypes, items
<1> QED
  BY <1>3, <1>4

\* A draft and the object it replaces.
LEMMA DraftIs ==
  ASSUME TypeOK, Claims, NEW u \in Uploads, Drafted(u)
  PROVE  /\ draft[u] \in Draft
         /\ draft[u].file \in Files /\ draft[u].object \in Objects
         /\ object[draft[u].file] \in Objects
         /\ \E p \in Profiles : draft[u].object = Fresh(u, p)
  BY DEF Claims, Draft, TypeOK

LEMMA ReplaceTypes ==
  ASSUME TypeOK, Claims, ~LostCommits, NEW u \in Uploads, ReplaceFile(u) \/ ReplaceFails(u)
  PROVE  StepTypes
<1>1. /\ draft[u] \in Draft /\ draft[u].file \in Files /\ draft[u].object \in Objects
      /\ object[draft[u].file] \in Objects
  BY DraftIs DEF ReplaceFile, ReplaceFails, Drafted
<1>2. CASE ReplaceFile(u)
  <2>1. FileTypes
    BY <1>1, <1>2 DEF ReplaceFile, ReplaceRow, TypeOK, FileTypes
  <2>2. [draft[u] EXCEPT !.old = object[draft[u].file]] \in Draft
    BY <1>1 DEF Draft
  <2>3. draft' = [draft EXCEPT ![u] = [draft[u] EXCEPT !.old = object[draft[u].file]]]
    BY <1>2 DEF ReplaceFile
  <2>4. UploadTypes
    BY <1>2, <2>2, <2>3 DEF ReplaceFile, TypeOK, UploadTypes
  <2> QED
    BY <1>2, <2>1, <2>4, TypeFrames DEF ReplaceFile, StepTypes, items
<1>3. CASE ReplaceFails(u)
  <2>1. UploadTypes
    BY <1>3 DEF ReplaceFails, TypeOK, UploadTypes
  <2> QED
    BY <1>3, <2>1, TypeFrames DEF ReplaceFails, StepTypes, items
<1> QED
  BY <1>2, <1>3

LEMMA DropUploadTypes ==
  ASSUME TypeOK, Claims, NEW u \in Uploads, DropUpload(u) \/ UploadCrash(u)
  PROVE  /\ StepTypes
         /\ \A o \in stored : o \notin stored' => UploadDooms(u, o)
         /\ \A o \in stored' : o \in stored
         /\ \A o : TaskDooms(o)' => TaskDooms(o) \/ UploadDooms(u, o)
<1>1. Drafted(u)
  BY DEF DropUpload, UploadCrash, Drafted
<1>2. draft[u].object \in Objects /\ (at[u] = "replaced" => draft[u].old \in Objects)
  BY <1>1, DraftIs DEF Claims
<1>3. UploadTypes
  BY DEF DropUpload, UploadCrash, TypeOK, UploadTypes
<1>4. CASE DropUpload(u)
  <2>1. PICK x \in Objects : UploadDooms(u, x) /\ deleteOrEnqueue(x, NoMigration, FALSE)
    BY <1>2, <1>4 DEF DropUpload, UploadDooms
  <2>2. /\ StatusStep /\ TaskTypes /\ StoreTypes
        /\ \A o \in stored : o \notin stored' => UploadDooms(u, o)
        /\ \A o \in stored' : o \in stored
        /\ \A o : TaskDooms(o)' => TaskDooms(o) \/ UploadDooms(u, o)
    BY <2>1, DeleteOrEnqueueIs DEF StatusStep, StoreTypes, Statuses
  <2> QED
    BY <1>3, <1>4, <2>2, TypeFrames DEF DropUpload, StepTypes
<1>5. CASE UploadCrash(u)
  <2>1. StoreTypes
    BY <1>2, <1>5 DEF UploadCrash, TypeOK, StoreTypes
  <2>2. TaskTypes /\ \A o : TaskDooms(o)' = TaskDooms(o)
    BY <1>5, TypeFrames DEF UploadCrash, tasks, TaskDooms
  <2> QED
    BY <1>3, <1>5, <2>1, <2>2, TypeFrames DEF UploadCrash, StepTypes, items
<1> QED
  BY <1>4, <1>5

\* A sweeper claims tasks there are, and deletes the object of its task.
LEMMA SweeperIs ==
  ASSUME TypeOK, Claims, NEW s \in Sweepers,
         FinishCleanupTask(s) \/ SweeperCrash(s) \/ \E o \in Objects : ClaimCleanupTask(s, o)
  PROVE  /\ StepTypes
         /\ \A o \in stored : o \notin stored' => SweeperDooms(s, o)
         /\ \A o \in stored' : o \in stored
         /\ \A o : TaskDooms(o)' => TaskDooms(o)
         /\ \A r \in Sweepers : \A o : SweeperDooms(r, o)' => SweeperDooms(r, o) \/ TaskDooms(o)
         /\ \A r \in Sweepers : sweeping'[r] # NoSweep => sweeping'[r] \in Sweep
<1>1. ASSUME NEW o \in Objects, ClaimCleanupTask(s, o)
      PROVE  /\ StepTypes /\ UNCHANGED stored
             /\ \A x : TaskDooms(x)' => TaskDooms(x)
             /\ \A r \in Sweepers : \A x : SweeperDooms(r, x)' => SweeperDooms(r, x) \/ TaskDooms(x)
             /\ \A r \in Sweepers : sweeping'[r] # NoSweep => sweeping'[r] \in Sweep
  <2>1. sweeps[o] \in 0..MaxSweeps /\ sweeps[o] + 1 \in 1..MaxSweeps
    BY <1>1 DEF ClaimCleanupTask, TypeOK
  <2>2. [object |-> o, try |-> sweeps[o] + 1] \in Sweep
    BY <2>1 DEF Sweep
  <2>3. \A r \in Sweepers : sweeping'[r] =
           IF r = s THEN [object |-> o, try |-> sweeps[o] + 1] ELSE sweeping[r]
    BY <1>1 DEF ClaimCleanupTask, TypeOK
  <2>4. \A r \in Sweepers : sweeping'[r] # NoSweep => sweeping'[r] \in Sweep
    BY <2>2, <2>3 DEF Claims
  <2>5. SweeperTypes
    BY <1>1, <2>2 DEF ClaimCleanupTask, TypeOK, SweeperTypes
  <2>6. TaskTypes
    BY <1>1, <2>1 DEF ClaimCleanupTask, TypeOK, TaskTypes
  <2>7. TaskDooms(o) /\ \A x : TaskDooms(x)' => TaskDooms(x)
    BY <1>1 DEF ClaimCleanupTask, TypeOK, TaskDooms
  <2>8. \A r \in Sweepers : \A x : SweeperDooms(r, x)' => SweeperDooms(r, x) \/ TaskDooms(x)
    BY <2>3, <2>7 DEF SweeperDooms
  <2> QED
    BY <1>1, <2>4, <2>5, <2>6, <2>7, <2>8, TypeFrames DEF ClaimCleanupTask, StepTypes, items
<1>2. ASSUME FinishCleanupTask(s) \/ SweeperCrash(s)
      PROVE  /\ sweeping[s] # NoSweep /\ sweeping[s].object \in Objects
             /\ SweeperTypes
             /\ \A r \in Sweepers : \A x : SweeperDooms(r, x)' => SweeperDooms(r, x)
             /\ \A r \in Sweepers : sweeping'[r] # NoSweep => sweeping'[r] \in Sweep
             /\ \A o \in stored : o \notin stored' => SweeperDooms(s, o)
             /\ \A o \in stored' : o \in stored
  <2>1. sweeping[s] # NoSweep /\ sweeping' = [sweeping EXCEPT ![s] = NoSweep]
    BY <1>2 DEF FinishCleanupTask, SweeperCrash
  <2>2. sweeping[s].object \in Objects
    BY <2>1 DEF Claims, Sweep
  <2>3. \A r \in Sweepers : sweeping'[r] = IF r = s THEN NoSweep ELSE sweeping[r]
    BY <2>1 DEF TypeOK
  <2>4. SweeperTypes
    BY <2>1 DEF TypeOK, SweeperTypes
  <2>5. stored' \in {stored, stored \ {sweeping[s].object}}
    BY <1>2 DEF FinishCleanupTask, SweeperCrash
  <2> QED
    BY <2>1, <2>2, <2>3, <2>4, <2>5 DEF SweeperDooms, Claims
<1>3. CASE FinishCleanupTask(s)
  <2> DEFINE o == sweeping[s].object
  <2>1. o \in Objects
    BY <1>2, <1>3
  <2>2. PICK deleted \in BOOLEAN :
             /\ stored' = IF deleted THEN stored \ {o} ELSE stored
             /\ IF task[o] = "running" /\ sweeps[o] = sweeping[s].try
                THEN /\ task' = [task EXCEPT ![o] = IF deleted THEN "none" ELSE "failed"]
                     /\ taskOf' = IF deleted THEN [taskOf EXCEPT ![o] = NoMigration] ELSE taskOf
                     /\ sweeps' = IF deleted THEN [sweeps EXCEPT ![o] = 0] ELSE sweeps
                     /\ UNCHANGED item
                     /\ IF taskOf[o] # NoMigration THEN refreshMigration(taskOf[o], item, task', taskOf')
                        ELSE UNCHANGED status
                ELSE UNCHANGED <<tasks, item, status>>
    BY <1>3 DEF FinishCleanupTask
  <2>3. TaskTypes /\ \A x : TaskDooms(x)' => TaskDooms(x)
    BY <2>1, <2>2 DEF TypeOK, TaskTypes, TaskDooms, tasks
  <2>4. StatusStep
    <3>1. CASE UNCHANGED status
      BY <3>1, TypeFrames
    <3>2. CASE taskOf[o] # NoMigration /\ refreshMigration(taskOf[o], item, task', taskOf')
      <4>1. taskOf[o] \in Migrations
        BY <2>1, <3>2 DEF TypeOK
      <4> QED
        BY <4>1, <3>2, RefreshIs DEF StatusStep, Statuses
    <3> QED
      BY <2>2, <3>1, <3>2
  <2>5. UNCHANGED <<item, source, count>>
    BY <1>3, <2>2 DEF FinishCleanupTask
  <2>6. StoreTypes
    BY <1>3, <2>2 DEF FinishCleanupTask, TypeOK, StoreTypes
  <2> QED
    BY <1>2, <1>3, <2>3, <2>4, <2>5, <2>6, TypeFrames DEF FinishCleanupTask, StepTypes
<1>4. CASE SweeperCrash(s)
  <2>1. StoreTypes
    BY <1>4 DEF SweeperCrash, TypeOK, StoreTypes
  <2>2. \A x : TaskDooms(x)' = TaskDooms(x)
    BY <1>4 DEF SweeperCrash, TaskDooms, tasks
  <2> QED
    BY <1>2, <1>4, <2>1, <2>2, TypeFrames DEF SweeperCrash, StepTypes, items
<1> QED
  BY <1>1, <1>3, <1>4

-----------------------------------------------------------------------------
(* Every action, by itself: the claims, the abstract step, the origins.    *)

AbstractStep == Safe /\ (Keeps \/ (\E x : Dooms(x)) \/ (\E f \in Files : \E x : Names(f, x)))

LEMMA OriginsFrame ==
  ASSUME Origins, TypeOK, StatusStep, UNCHANGED <<object, latest, source>>
  PROVE  Origins'
<1>1. \A i \in Items : i[1] \in Migrations
  BY DEF Items
<1>2. NoStaleContent'
  BY DEF Origins, NoStaleContent, Content
<1> QED
  BY <1>1, <1>2 DEF Origins, StatusStep

\* The administrator's operations, which leave objects, claims and tasks alone.
LEMMA MigrationStep ==
  ASSUME StorageInv, NEW m \in Migrations,
         CreateStorageMigration(m) \/ CancelStorageMigration(m) \/ RetryFailedStorageMigration(m)
  PROVE  Claims' /\ AbstractStep /\ Origins'
<1>1. TypeOK /\ Claims /\ Apart /\ Origins
  BY DEF StorageInv
<1>2. StatusStep
  BY <1>1, MigrationTypes DEF StepTypes
<1>3. UNCHANGED <<files, stored, count, workers, uploads, sweeping>>
  BY DEF CreateStorageMigration, CancelStorageMigration, RetryFailedStorageMigration
<1>4. \A i \in Items : status[i[1]] # "none" => source'[i] = source[i]
  BY <1>1 DEF CreateStorageMigration, CancelStorageMigration, RetryFailedStorageMigration, TypeOK
<1>5. \A o : TaskDooms(o)' => TaskDooms(o)
  BY <1>1 DEF CreateStorageMigration, CancelStorageMigration, RetryFailedStorageMigration,
              TypeOK, TaskDooms, tasks
<1>6. \A w \in Workers : /\ Busy(w)' = Busy(w) /\ job'[w] = job[w] /\ doing'[w] = doing[w]
                         /\ Busy(w) => Source(w)' = Source(w)
  <2>1. \A w \in Workers : Busy(w) => job[w].item \in Items /\ status[job[w].item[1]] # "none"
    BY <1>1 DEF Claims, Job
  <2> QED
    BY <2>1, <1>3, <1>4 DEF workers, Busy, Source
<1>7. Claims'
  <2>1. \A w \in Workers : Busy(w)' =>
          /\ job'[w] \in Job /\ job'[w].try <= count'[job'[w].item]
          /\ status'[job'[w].item[1]] # "none"
    BY <1>1, <1>2, <1>3, <1>6 DEF Claims, Job, Items, StatusStep
  <2>2. \A w, v \in Workers : Busy(w)' /\ Busy(v)' /\ w # v => job'[w] # job'[v]
    BY <1>1, <1>6 DEF Claims
  <2>3. \A w \in Workers : doing'[w] = "moved" => Source(w)' \in Objects
    BY <1>1, <1>6 DEF Claims, Busy
  <2>4. /\ \A u \in Uploads : Drafted(u)' =>
               draft'[u] \in Draft /\ \E p \in Profiles : draft'[u].object = Fresh(u, p)
        /\ \A u \in Uploads : at'[u] = "replaced" => draft'[u].old \in Objects
        /\ \A s \in Sweepers : sweeping'[s] # NoSweep => sweeping'[s] \in Sweep
    BY <1>1, <1>3 DEF Claims, uploads, Drafted
  <2> QED
    BY <2>1, <2>2, <2>3, <2>4 DEF Claims
<1>8. \A w \in Workers : \A o : /\ WorkerDooms(w, o)' => WorkerDooms(w, o)
                                /\ WorkerWrites(w, o)' => WorkerWrites(w, o)
                                /\ WorkerBrings(w, o)' => WorkerBrings(w, o)
  BY <1>6 DEF WorkerDooms, WorkerWrites, WorkerBrings, Target, Busy
<1>9. \A u \in Uploads : \A o : /\ UploadDooms(u, o)' = UploadDooms(u, o)
                                /\ UploadWrites(u, o)' = UploadWrites(u, o)
                                /\ UploadBrings(u, o)' = UploadBrings(u, o)
  BY <1>3 DEF uploads, UploadDooms, UploadWrites, UploadBrings
<1>10. \A o : /\ Unused(o)' = Unused(o)
              /\ \A s \in Sweepers : SweeperDooms(s, o)' = SweeperDooms(s, o)
  BY <1>3 DEF Unused, SweeperDooms
<1>11. AbstractStep
  <2>1. \A o : IsDoomed(o)' => IsDoomed(o)
    BY <1>5, <1>8, <1>9, <1>10 DEF IsDoomed
  <2>2. \A o : IsComing(o)' => IsComing(o)
    BY <1>8, <1>9, <1>10 DEF IsComing
  <2>3. \A o : IsWritten(o)' => IsWritten(o)
    BY <1>8, <1>9 DEF IsWritten
  <2> QED
    BY <1>3, <2>1, <2>2, <2>3 DEF AbstractStep, Safe, Keeps, files
<1>12. Origins'
  <2>1. CASE CreateStorageMigration(m)
    <3>1. \A i \in Items : source'[i] = source[i] \/ source'[i] \notin Copies
      <4>1. ASSUME NEW f \in Files, InOld(object[f]) PROVE object[f] \notin Copies
        BY <4>1, KeysDiffer DEF InOld, Copies
      <4> QED
        BY <2>1, <1>1, <4>1 DEF CreateStorageMigration, TypeOK, Items
    <3>2. ASSUME NEW f \in Files PROVE Content(object[f])' = latest'[f]
      <4>1. CASE object[f] \in Copies
        <5>1. PICK i \in Items, n \in 1..MaxClaims : object[f] = Copy(i, n)
          BY <4>1 DEF Copies
        <5>2. source'[i] = source[i] /\ object[f][2] = i
          BY <1>1, <1>4, <5>1 DEF Origins, Copy
        <5> QED
          BY <1>1, <1>3, <4>1, <5>2 DEF Content, Origins, NoStaleContent, files
      <4>2. CASE object[f] \notin Copies
        BY <1>1, <1>3, <4>2 DEF Content, Origins, NoStaleContent, files
      <4> QED
        BY <4>1, <4>2
    <3>3. \A f \in Files, i \in Items, n \in 1..MaxClaims :
             object'[f] = Copy(i, n) => status'[i[1]] # "none"
      BY <1>1, <1>2, <1>3 DEF Origins, files, StatusStep, Items
    <3> QED
      BY <1>1, <3>1, <3>2, <3>3 DEF Origins, NoStaleContent
  <2>2. CASE CancelStorageMigration(m) \/ RetryFailedStorageMigration(m)
    <3>1. UNCHANGED <<object, latest, source>>
      BY <2>2 DEF CancelStorageMigration, RetryFailedStorageMigration, files
    <3> QED
      BY <1>1, <1>2, <3>1, OriginsFrame
  <2> QED
    BY <2>1, <2>2
<1> QED
  BY <1>7, <1>11, <1>12

\* A claim makes one of the keys that were never used.
LEMMA ClaimStep ==
  ASSUME StorageInv, NEW w \in Workers, NEW i \in Items, ClaimStorageMigrationItem(w, i)
  PROVE  Claims' /\ AbstractStep /\ Origins'
<1>1. TypeOK /\ Claims /\ Apart /\ Origins
  BY DEF StorageInv
<1> DEFINE new == [item |-> i, try |-> count[i] + 1]
<1>2. count[i] \in 0..MaxClaims /\ count[i] + 1 \in 1..MaxClaims /\ new \in Job
  BY <1>1 DEF TypeOK, ClaimStorageMigrationItem, Job
<1>3. \A v \in Workers : /\ doing'[v] = IF v = w THEN "copying" ELSE doing[v]
                         /\ job'[v] = IF v = w THEN new ELSE job[v]
  BY <1>1 DEF TypeOK, ClaimStorageMigrationItem
<1>4. \A k \in Items : count'[k] = IF k = i THEN count[i] + 1 ELSE count[k]
  BY <1>1 DEF TypeOK, ClaimStorageMigrationItem
<1>5. UNCHANGED <<files, stored, status, source, tasks, uploads, sweeping>> /\ doing[w] = "idle"
  BY DEF ClaimStorageMigrationItem
<1>6. \A k \in Items : count[k] \in Nat /\ count'[k] \in Nat /\ count[k] <= count'[k]
  BY <1>1, <1>2, <1>4 DEF TypeOK
<1>7. \A v \in Workers : v # w /\ Busy(v) =>
        /\ job[v] \in Job /\ job[v].item \in Items /\ job[v].try \in Nat
        /\ job[v].try <= count[job[v].item]
  BY <1>1 DEF Claims, Job
<1>8. Claims'
  <2>1. status[i[1]] # "none" /\ i[1] \in Migrations
    BY DEF ClaimStorageMigrationItem, Items
  <2>2. \A v \in Workers : Busy(v)' =>
          /\ job'[v] \in Job /\ job'[v].try <= count'[job'[v].item]
          /\ status'[job'[v].item[1]] # "none"
    <3>1. ASSUME NEW v \in Workers, v # w, Busy(v)'
          PROVE  /\ job'[v] \in Job /\ job'[v].try <= count'[job'[v].item]
                 /\ status'[job'[v].item[1]] # "none"
      <4>1. Busy(v) /\ job'[v] = job[v]
        BY <1>3, <3>1 DEF Busy
      <4>2. count[job[v].item] <= count'[job[v].item] /\ count[job[v].item] \in Nat
            /\ count'[job[v].item] \in Nat
        BY <1>6, <1>7, <3>1, <4>1
      <4> QED
        BY <1>1, <1>5, <1>7, <3>1, <4>1, <4>2 DEF Claims
    <3>2. /\ job'[w] \in Job /\ job'[w].try <= count'[job'[w].item]
          /\ status'[job'[w].item[1]] # "none"
      BY <1>2, <1>3, <1>4, <1>5, <2>1
    <3> QED
      BY <3>1, <3>2
  <2>3. ASSUME NEW v \in Workers, NEW x \in Workers, Busy(v)', Busy(x)', v # x, job'[v] = job'[x]
        PROVE  FALSE
    <3>1. ASSUME NEW y \in Workers, y # w, Busy(y), job[y] = new PROVE FALSE
      BY <1>2, <1>7, <3>1
    <3> QED
      BY <1>1, <1>3, <2>3, <3>1 DEF Claims, Busy
  <2>4. \A v \in Workers : doing'[v] = "moved" => Source(v)' \in Objects
    BY <1>1, <1>3, <1>5 DEF Claims, Source
  <2>5. /\ \A u \in Uploads : Drafted(u)' =>
               draft'[u] \in Draft /\ \E p \in Profiles : draft'[u].object = Fresh(u, p)
        /\ \A u \in Uploads : at'[u] = "replaced" => draft'[u].old \in Objects
        /\ \A s \in Sweepers : sweeping'[s] # NoSweep => sweeping'[s] \in Sweep
    BY <1>1, <1>5 DEF Claims, uploads, Drafted
  <2> QED
    BY <2>2, <2>3, <2>4, <2>5 DEF Claims
<1>9. AbstractStep
  <2>1. \A v \in Workers : \A o : /\ WorkerDooms(v, o)' => WorkerDooms(v, o)
                                  /\ WorkerWrites(v, o)' => WorkerWrites(v, o)
                                  /\ v # w => WorkerBrings(v, o)' = WorkerBrings(v, o)
    BY <1>3, <1>5 DEF WorkerDooms, WorkerWrites, WorkerBrings, Target, Source
  <2>2. \A o : WorkerBrings(w, o)' => Unused(o)
    BY <1>2, <1>3 DEF WorkerBrings, Unused, Target
  <2>3. \A o : Unused(o)' => Unused(o)
    BY <1>6 DEF Unused
  <2>4. \A u \in Uploads : \A o : /\ UploadDooms(u, o)' = UploadDooms(u, o)
                                  /\ UploadWrites(u, o)' = UploadWrites(u, o)
                                  /\ UploadBrings(u, o)' = UploadBrings(u, o)
    BY <1>5 DEF uploads, UploadDooms, UploadWrites, UploadBrings
  <2>5. \A o : /\ \A s \in Sweepers : SweeperDooms(s, o)' = SweeperDooms(s, o)
               /\ TaskDooms(o)' = TaskDooms(o)
    BY <1>5 DEF SweeperDooms, TaskDooms, tasks
  <2>6. \A o : IsDoomed(o)' => IsDoomed(o)
    BY <2>1, <2>4, <2>5 DEF IsDoomed
  <2>7. \A o : IsComing(o)' => IsComing(o)
    BY <2>1, <2>2, <2>3, <2>4 DEF IsComing
  <2>8. \A o : IsWritten(o)' => IsWritten(o)
    BY <2>1, <2>4 DEF IsWritten
  <2> QED
    BY <1>5, <2>6, <2>7, <2>8 DEF AbstractStep, Safe, Keeps, files
<1>10. Origins'
  <2>1. StatusStep
    BY <1>1, <1>5, TypeFrames
  <2> QED
    BY <1>1, <1>5, <2>1, OriginsFrame DEF files
<1> QED
  BY <1>8, <1>9, <1>10

LEMMA TasksFrame == UNCHANGED tasks => \A o : TaskDooms(o)' = TaskDooms(o)
  BY DEF tasks, TaskDooms

\* The copy of an item, and its failures.
LEMMA CopyStep ==
  ASSUME StorageInv, ~LostCommits, NEW w \in Workers,
         CopyObject(w) \/ CopyFails(w) \/ LeaseLost(w) \/ CompleteFails(w)
  PROVE  Claims' /\ AbstractStep /\ Origins'
<1>1. TypeOK /\ Claims /\ Apart /\ Origins
  BY DEF StorageInv
<1>2. Busy(w) /\ doing[w] \in {"copying", "copied"}
  BY DEF CopyObject, CopyFails, LeaseLost, CompleteFails, Busy
<1>3. /\ UNCHANGED <<object, latest, source, count, status, tasks, job, uploads, sweeping>>
      /\ stored' \in {stored, stored \cup {Target(w)}}
  BY DEF CopyObject, CopyFails, LeaseLost, CompleteFails, items, tasks, files
<1>4. StatusStep /\ \A o : TaskDooms(o)' => TaskDooms(o) \/ WorkerDooms(w, o)
  BY <1>1, <1>3, TypeFrames, TasksFrame
<1>5. Origins'
  BY <1>1, <1>3, <1>4, OriginsFrame
<1>6. IsComing(Target(w))
  BY <1>1, <1>2, WorkerAlone
<1>7. CASE doing' = [doing EXCEPT ![w] = "dropping"]
  <2>1. /\ Claims'
        /\ \A o : /\ IsDoomed(o)' => IsDoomed(o) \/ o = Target(w)
                  /\ IsComing(o)' => IsComing(o) /\ o # Target(w)
                  /\ IsWritten(o)' => IsWritten(o)
    BY <1>1, <1>2, <1>3, <1>4, <1>7, WorkerStep DEF StatusStep
  <2>2. Dooms(Target(w))
    BY <1>3, <1>6, <2>1 DEF Dooms
  <2>3. Safe
    BY <1>3, <2>1 DEF Safe
  <2> QED
    BY <1>5, <2>1, <2>2, <2>3 DEF AbstractStep
<1>8. CASE doing' = [doing EXCEPT ![w] = "failing"]
  <2>1. /\ Claims'
        /\ \A o : /\ IsDoomed(o)' => IsDoomed(o)
                  /\ IsComing(o)' => IsComing(o)
                  /\ IsWritten(o)' => IsWritten(o)
    BY <1>1, <1>2, <1>3, <1>4, <1>8, WorkerStep DEF StatusStep
  <2>2. Keeps /\ Safe
    BY <1>3, <2>1 DEF Keeps, Safe
  <2> QED
    BY <1>5, <2>1, <2>2 DEF AbstractStep
<1>9. CASE CopyObject(w) /\ doing' = [doing EXCEPT ![w] = "copied"]
  <2>1. doing[w] = "copying" /\ stored' = stored \cup {Target(w)}
    BY <1>9 DEF CopyObject
  <2>2. /\ Claims'
        /\ \A o : /\ IsDoomed(o)' => IsDoomed(o)
                  /\ IsComing(o)' => IsComing(o)
                  /\ IsWritten(o)' => IsWritten(o) \/ o = Target(w)
    BY <1>1, <1>2, <1>3, <1>4, <1>9, <2>1, WorkerStep DEF StatusStep
  <2>3. Keeps /\ Safe
    BY <1>3, <2>1, <2>2 DEF Keeps, Safe
  <2> QED
    BY <1>5, <2>2, <2>3 DEF AbstractStep
<1> QED
  BY <1>7, <1>8, <1>9 DEF CopyObject, CopyFails, LeaseLost, CompleteFails

\* The row names the copy, and the source is doomed: or the copy is.
LEMMA CompleteStep ==
  ASSUME StorageInv, NEW w \in Workers, CompleteStorageMigrationItem(w)
  PROVE  Claims' /\ AbstractStep /\ Origins'
<1>1. TypeOK /\ Claims /\ Apart /\ Origins
  BY DEF StorageInv
<1>2. Busy(w) /\ doing[w] = "copied" /\ MoveRow(w)
  BY DEF CompleteStorageMigrationItem, Busy
<1>3. UNCHANGED <<latest, source, count, stored, tasks, job, uploads, sweeping>>
  BY DEF CompleteStorageMigrationItem, MoveRow, tasks
<1>4. /\ StatusStep
      /\ object' = IF Unchanged(File(w), Source(w))
                   THEN [object EXCEPT ![File(w)] = Target(w)] ELSE object
  BY <1>1, <1>2, <1>3, MoveRowIs
<1>5. \A o : TaskDooms(o)' => TaskDooms(o) \/ WorkerDooms(w, o)
  BY <1>3, TasksFrame
<1>6. /\ File(w) \in Files /\ job[w].item \in Items /\ job[w].try \in 1..MaxClaims
      /\ status[job[w].item[1]] # "none" /\ job[w].item[1] \in Migrations
      /\ Target(w) = Copy(job[w].item, job[w].try)
  BY <1>1, <1>2, BusyIs DEF Migration, Target
<1>7. IsComing(Target(w)) /\ IsWritten(Target(w))
  BY <1>1, <1>2, WorkerAlone DEF IsWritten, WorkerWrites
<1>8. CASE ~Unchanged(File(w), Source(w))
  <2>1. doing' = [doing EXCEPT ![w] = "dropping"] /\ object' = object
    BY <1>4, <1>8 DEF CompleteStorageMigrationItem
  <2>2. /\ Claims'
        /\ \A o : /\ IsDoomed(o)' => IsDoomed(o) \/ o = Target(w)
                  /\ IsComing(o)' => IsComing(o) /\ o # Target(w)
                  /\ IsWritten(o)' => IsWritten(o)
    BY <1>1, <1>2, <1>3, <1>4, <1>5, <2>1, WorkerStep DEF StatusStep
  <2>3. Dooms(Target(w)) /\ Safe
    BY <1>3, <1>7, <2>1, <2>2 DEF Dooms, Safe
  <2>4. Origins'
    BY <1>1, <1>3, <1>4, <2>1, OriginsFrame
  <2> QED
    BY <2>2, <2>3, <2>4 DEF AbstractStep
<1>9. CASE Unchanged(File(w), Source(w))
  <2>1. doing' = [doing EXCEPT ![w] = "moved"] /\ object' = [object EXCEPT ![File(w)] = Target(w)]
    BY <1>4, <1>9 DEF CompleteStorageMigrationItem
  <2>2. object[File(w)] = Source(w) /\ Source(w) \in Objects
    BY <1>1, <1>6, <1>9 DEF Unchanged, TypeOK
  <2>3. /\ Claims'
        /\ \A o : /\ IsDoomed(o)' => IsDoomed(o) \/ o = Source(w)
                  /\ IsComing(o)' => IsComing(o) /\ o # Target(w)
                  /\ IsWritten(o)' => IsWritten(o)
    BY <1>1, <1>2, <1>3, <1>4, <1>5, <2>1, <2>2, WorkerStep DEF StatusStep
  <2>4. Names(File(w), Target(w)) /\ Safe
    BY <1>3, <1>7, <2>1, <2>2, <2>3 DEF Names, Safe
  <2>5. \A f \in Files : object'[f] = IF f = File(w) THEN Target(w) ELSE object[f]
    BY <1>1, <2>1 DEF TypeOK
  <2>6. \A f \in Files, i \in Items, n \in 1..MaxClaims :
           object'[f] = Copy(i, n) => status'[i[1]] # "none"
    <3>1. ASSUME NEW f \in Files, NEW i \in Items, NEW n \in 1..MaxClaims, object'[f] = Copy(i, n)
          PROVE  status[i[1]] # "none"
      <4>1. CASE f = File(w)
        BY <1>6, <2>5, <3>1, <4>1, KeysDiffer
      <4>2. CASE f # File(w)
        BY <1>1, <2>5, <3>1, <4>2 DEF Origins
      <4> QED
        BY <4>1, <4>2
    <3> QED
      BY <1>4, <3>1 DEF StatusStep, Items
  <2>7. ASSUME NEW f \in Files PROVE Content(object[f])' = latest'[f]
    <3>1. CASE f = File(w)
      <4>1. Target(w) \in Copies /\ Target(w)[2] = job[w].item
        BY <1>6 DEF Copies, Copy
      <4>2. Content(object[f])' = Source(w)
        BY <1>3, <2>5, <3>1, <4>1 DEF Content, Source
      <4>3. Source(w) \notin Copies
        BY <1>1, <1>6 DEF Origins, Source
      <4>4. Content(object[f]) = Source(w)
        BY <2>2, <3>1, <4>3 DEF Content
      <4> QED
        BY <1>1, <1>3, <4>2, <4>4 DEF Origins, NoStaleContent
    <3>2. CASE f # File(w)
      BY <1>1, <1>3, <2>5, <3>2 DEF Origins, NoStaleContent, Content
    <3> QED
      BY <3>1, <3>2
  <2>8. Origins'
    BY <1>1, <1>3, <2>6, <2>7 DEF Origins, NoStaleContent
  <2> QED
    BY <1>6, <2>3, <2>4, <2>8 DEF AbstractStep
<1> QED
  BY <1>8, <1>9

\* A worker that deletes an object, records a failure or stops.
LEMMA RestStep ==
  ASSUME StorageInv, NEW w \in Workers,
         DropCopy(w) \/ DropSource(w) \/ FailStorageMigrationItem(w) \/ Crash(w)
  PROVE  Claims' /\ AbstractStep /\ Origins'
<1>1. TypeOK /\ Claims /\ Apart /\ Origins
  BY DEF StorageInv
<1>2. Busy(w)
  BY DEF DropCopy, DropSource, FailStorageMigrationItem, Crash, Busy
<1>3. /\ StatusStep
      /\ \A o \in stored : o \notin stored' => WorkerDooms(w, o)
      /\ \A o \in stored' : o \in stored
      /\ \A o : TaskDooms(o)' => TaskDooms(o) \/ WorkerDooms(w, o)
  <2>1. CASE DropCopy(w) \/ DropSource(w)
    BY <1>1, <2>1, DropTypes DEF StepTypes
  <2>2. CASE FailStorageMigrationItem(w) \/ Crash(w)
    <3>1. UNCHANGED <<stored, tasks>>
      BY <2>2 DEF FailStorageMigrationItem, Crash, tasks
    <3> QED
      BY <1>1, <2>2, <3>1, FailTypes, TasksFrame DEF StepTypes
  <2> QED
    BY <2>1, <2>2
<1>4. UNCHANGED <<object, latest, source, count, uploads, sweeping>>
  BY DEF DropCopy, DropSource, FailStorageMigrationItem, Crash, files, items
<1>5. PICK d \in {"idle", "failing"} :
        /\ doing' = [doing EXCEPT ![w] = d]
        /\ job' = job \/ (d = "idle" /\ job' = [job EXCEPT ![w] = NoJob])
  BY DEF DropCopy, DropSource, FailStorageMigrationItem, Crash, Rest
<1>6. /\ Claims'
      /\ \A o : /\ IsDoomed(o)' => IsDoomed(o)
                /\ IsComing(o)' => IsComing(o)
                /\ IsWritten(o)' => IsWritten(o)
  BY <1>1, <1>2, <1>3, <1>4, <1>5, WorkerStep DEF StatusStep
<1>7. \A o : WorkerDooms(w, o) => IsDoomed(o)
  BY DEF IsDoomed
<1>8. Keeps /\ Safe
  BY <1>3, <1>4, <1>6, <1>7 DEF Keeps, Safe
<1>9. Origins'
  BY <1>1, <1>3, <1>4, OriginsFrame
<1> QED
  BY <1>6, <1>8, <1>9 DEF AbstractStep

\* An upload puts its content, or gives up.
LEMMA PutStep ==
  ASSUME StorageInv, NEW u \in Uploads, NEW p \in Profiles,
         PutFails(u, p) \/ \E f \in Files : PutUpload(u, f, p)
  PROVE  Claims' /\ AbstractStep /\ Origins'
<1>1. TypeOK /\ Claims /\ Apart /\ Origins
  BY DEF StorageInv
<1>2. UNCHANGED <<object, latest, source, count, status, tasks, workers, sweeping>>
  BY DEF PutFails, PutUpload, files, items
<1>3. StatusStep /\ \A o : TaskDooms(o)' => TaskDooms(o) \/ UploadDooms(u, o)
  BY <1>1, <1>2, TypeFrames, TasksFrame
<1>4. Origins'
  BY <1>1, <1>2, <1>3, OriginsFrame
<1>5. at[u] = "new" /\ UploadBrings(u, Fresh(u, p))
  BY DEF PutFails, PutUpload, UploadBrings
<1>6. CASE PutFails(u, p)
  <2>1. /\ at' = [at EXCEPT ![u] = "done"]
        /\ stored' \in {stored, stored \cup {Fresh(u, p)}}
        /\ draft' = [draft EXCEPT ![u] = draft[u]]
    BY <1>1, <1>6 DEF PutFails, TypeOK
  <2>2. /\ Claims'
        /\ \A o : /\ IsDoomed(o)' => IsDoomed(o)
                  /\ IsComing(o)' => IsComing(o)
                  /\ IsWritten(o)' => IsWritten(o)
    BY <1>1, <1>2, <1>3, <2>1, UploadStep DEF StatusStep
  <2> QED
    BY <1>2, <1>4, <2>1, <2>2 DEF AbstractStep, Keeps, Safe
<1>7. ASSUME NEW f \in Files, PutUpload(u, f, p) PROVE Claims' /\ AbstractStep
  <2> DEFINE x == [file |-> f, revision |-> revision[f], object |-> Fresh(u, p), old |-> NoObject]
  <2>1. /\ at' = [at EXCEPT ![u] = "stored"] /\ draft' = [draft EXCEPT ![u] = x]
        /\ stored' = stored \cup {Fresh(u, p)}
    BY <1>7 DEF PutUpload
  <2>2. x \in Draft /\ x.object = Fresh(u, p)
    BY <1>1, ObjectTypes DEF TypeOK, Draft
  <2> HIDE DEF x
  <2>3. /\ Claims'
        /\ \A o : /\ IsDoomed(o)' => IsDoomed(o)
                  /\ IsComing(o)' => IsComing(o)
                  /\ IsWritten(o)' => IsWritten(o) \/ o = x.object
    BY <1>1, <1>2, <1>3, <1>5, <2>1, <2>2, UploadStep DEF StatusStep
  <2> QED
    BY <1>2, <2>1, <2>2, <2>3 DEF AbstractStep, Keeps, Safe
<1> QED
  BY <1>4, <1>6, <1>7

\* The row names the content of the upload, and the object it named is doomed.
LEMMA ReplaceStep ==
  ASSUME StorageInv, NEW u \in Uploads, ReplaceFile(u)
  PROVE  Claims' /\ AbstractStep /\ Origins'
<1>1. TypeOK /\ Claims /\ Apart /\ Origins
  BY DEF StorageInv
<1> DEFINE d == draft[u]
           x == [d EXCEPT !.old = object[d.file]]
<1>2. /\ d \in Draft /\ d.file \in Files /\ d.object \in Objects
      /\ object[d.file] \in Objects
      /\ \E p \in Profiles : d.object = Fresh(u, p)
  BY <1>1, DraftIs DEF ReplaceFile, Drafted
<1>3. UNCHANGED <<source, count, status, stored, tasks, workers, sweeping>> /\ at[u] = "stored"
  BY DEF ReplaceFile, items
<1>4. /\ at' = [at EXCEPT ![u] = "replaced"] /\ draft' = [draft EXCEPT ![u] = x]
      /\ object' = [object EXCEPT ![d.file] = d.object]
      /\ latest' = [latest EXCEPT ![d.file] = d.object]
  BY DEF ReplaceFile, ReplaceRow
<1>5. x \in Draft /\ x.object = d.object /\ x.old = object[d.file]
  BY <1>2 DEF Draft
<1>6. StatusStep /\ \A o : TaskDooms(o)' => TaskDooms(o) \/ UploadDooms(u, o)
  BY <1>1, <1>3, TypeFrames, TasksFrame
<1> HIDE DEF x
<1>7. /\ Claims'
      /\ \A o : /\ IsDoomed(o)' => IsDoomed(o) \/ o = x.old
                /\ IsComing(o)' => IsComing(o) /\ o # x.object
                /\ IsWritten(o)' => IsWritten(o)
  BY <1>1, <1>2, <1>3, <1>4, <1>5, <1>6, UploadStep DEF StatusStep
<1>8. IsWritten(d.object)
  BY <1>3 DEF IsWritten, UploadWrites
<1>9. Names(d.file, d.object) /\ Safe
  BY <1>3, <1>4, <1>5, <1>7, <1>8 DEF Names, Safe
<1>10. Origins'
  <2>1. \A f \in Files : /\ object'[f] = IF f = d.file THEN d.object ELSE object[f]
                         /\ latest'[f] = IF f = d.file THEN d.object ELSE latest[f]
    BY <1>1, <1>4 DEF TypeOK
  <2>2. \A i, n : d.object # Copy(i, n)
    BY <1>2, KeysDiffer
  <2>3. d.object \notin Copies
    BY <2>2 DEF Copies
  <2>4. \A f \in Files : Content(object[f])' = latest'[f]
    BY <1>1, <1>3, <2>1, <2>3 DEF Content, Origins, NoStaleContent
  <2>5. \A f \in Files, i \in Items, n \in 1..MaxClaims :
           object'[f] = Copy(i, n) => status'[i[1]] # "none"
    BY <1>1, <1>3, <2>1, <2>2 DEF Origins
  <2> QED
    BY <1>1, <1>3, <2>4, <2>5 DEF Origins, NoStaleContent
<1> QED
  BY <1>2, <1>7, <1>9, <1>10 DEF AbstractStep

\* An upload whose transaction fails, which deletes an object or stops.
LEMMA UploadEndStep ==
  ASSUME StorageInv, ~LostCommits, NEW u \in Uploads,
         ReplaceFails(u) \/ DropUpload(u) \/ UploadCrash(u)
  PROVE  Claims' /\ AbstractStep /\ Origins'
<1>1. TypeOK /\ Claims /\ Apart /\ Origins
  BY DEF StorageInv
<1>2. UNCHANGED <<object, latest, source, count, workers, sweeping>>
  BY DEF ReplaceFails, DropUpload, UploadCrash, files, items
<1>3. CASE ReplaceFails(u)
  <2>1. /\ draft[u] \in Draft /\ draft[u].object \in Objects
        /\ \E p \in Profiles : draft[u].object = Fresh(u, p)
    BY <1>1, <1>3, DraftIs DEF ReplaceFails, Drafted
  <2>2. /\ at' = [at EXCEPT ![u] = "dropping"] /\ at[u] = "stored"
        /\ draft' = [draft EXCEPT ![u] = draft[u]]
        /\ UNCHANGED <<status, tasks, stored>>
    BY <1>1, <1>3 DEF ReplaceFails, TypeOK, items
  <2>3. StatusStep /\ \A o : TaskDooms(o)' => TaskDooms(o) \/ UploadDooms(u, o)
    BY <1>1, <2>2, TypeFrames, TasksFrame
  <2>4. /\ Claims'
        /\ \A o : /\ IsDoomed(o)' => IsDoomed(o) \/ o = draft[u].object
                  /\ IsComing(o)' => IsComing(o) /\ o # draft[u].object
                  /\ IsWritten(o)' => IsWritten(o)
    BY <1>1, <1>2, <2>1, <2>2, <2>3, UploadStep DEF StatusStep
  <2>5. UploadBrings(u, draft[u].object)
    BY <2>2 DEF UploadBrings, UploadWrites
  <2>6. IsComing(draft[u].object)
    BY <2>5 DEF IsComing
  <2>7. Dooms(draft[u].object) /\ Safe
    BY <1>2, <2>2, <2>4, <2>6 DEF Dooms, Safe
  <2>8. Origins'
    BY <1>1, <1>2, <2>3, OriginsFrame
  <2> QED
    BY <2>4, <2>7, <2>8 DEF AbstractStep
<1>4. CASE DropUpload(u) \/ UploadCrash(u)
  <2>1. /\ StatusStep
        /\ \A o \in stored : o \notin stored' => UploadDooms(u, o)
        /\ \A o \in stored' : o \in stored
        /\ \A o : TaskDooms(o)' => TaskDooms(o) \/ UploadDooms(u, o)
    BY <1>1, <1>4, DropUploadTypes DEF StepTypes
  <2>2. at' = [at EXCEPT ![u] = "done"] /\ draft' = [draft EXCEPT ![u] = NoDraft]
    BY <1>4 DEF DropUpload, UploadCrash
  <2>3. /\ Claims'
        /\ \A o : /\ IsDoomed(o)' => IsDoomed(o)
                  /\ IsComing(o)' => IsComing(o)
                  /\ IsWritten(o)' => IsWritten(o)
    BY <1>1, <1>2, <2>1, <2>2, UploadStep DEF StatusStep
  <2>4. \A o : UploadDooms(u, o) => IsDoomed(o)
    BY DEF IsDoomed
  <2>5. Keeps /\ Safe
    BY <1>2, <2>1, <2>3, <2>4 DEF Keeps, Safe
  <2>6. Origins'
    BY <1>1, <1>2, <2>1, OriginsFrame
  <2> QED
    BY <2>3, <2>5, <2>6 DEF AbstractStep
<1> QED
  BY <1>3, <1>4

\* A sweeper deletes what a task is for.
LEMMA SweeperStep ==
  ASSUME StorageInv, NEW s \in Sweepers,
         FinishCleanupTask(s) \/ SweeperCrash(s) \/ \E o \in Objects : ClaimCleanupTask(s, o)
  PROVE  Claims' /\ AbstractStep /\ Origins'
<1>1. TypeOK /\ Claims /\ Apart /\ Origins
  BY DEF StorageInv
<1>2. UNCHANGED <<object, latest, source, count, workers, uploads>>
  BY DEF FinishCleanupTask, SweeperCrash, ClaimCleanupTask, files, items
<1>3. /\ StatusStep
      /\ \A o \in stored : o \notin stored' => SweeperDooms(s, o)
      /\ \A o \in stored' : o \in stored
      /\ \A o : TaskDooms(o)' => TaskDooms(o)
      /\ \A r \in Sweepers : \A o : SweeperDooms(r, o)' => SweeperDooms(r, o) \/ TaskDooms(o)
      /\ \A r \in Sweepers : sweeping'[r] # NoSweep => sweeping'[r] \in Sweep
  BY <1>1, SweeperIs DEF StepTypes
<1>4. \A w \in Workers : \A o : /\ WorkerDooms(w, o)' = WorkerDooms(w, o)
                                /\ WorkerWrites(w, o)' = WorkerWrites(w, o)
                                /\ WorkerBrings(w, o)' = WorkerBrings(w, o)
  BY <1>2 DEF workers, WorkerDooms, WorkerWrites, WorkerBrings, Target, Source
<1>5. \A u \in Uploads : \A o : /\ UploadDooms(u, o)' = UploadDooms(u, o)
                                /\ UploadWrites(u, o)' = UploadWrites(u, o)
                                /\ UploadBrings(u, o)' = UploadBrings(u, o)
  BY <1>2 DEF uploads, UploadDooms, UploadWrites, UploadBrings
<1>6. \A o : Unused(o)' = Unused(o)
  BY <1>2 DEF Unused
<1>7. \A o : IsDoomed(o)' => IsDoomed(o)
  BY <1>3, <1>4, <1>5 DEF IsDoomed
<1>8. \A o : IsComing(o)' = IsComing(o) /\ IsWritten(o)' = IsWritten(o)
  BY <1>4, <1>5, <1>6 DEF IsComing, IsWritten
<1>9. \A o : SweeperDooms(s, o) => IsDoomed(o)
  BY DEF IsDoomed
<1>10. AbstractStep
  BY <1>2, <1>3, <1>7, <1>8, <1>9 DEF AbstractStep, Keeps, Safe
<1>11. Claims'
  <2>1. \A w \in Workers : Busy(w)' =>
          /\ job'[w] \in Job /\ job'[w].try <= count'[job'[w].item]
          /\ status'[job'[w].item[1]] # "none"
    BY <1>1, <1>2, <1>3 DEF Claims, workers, Busy, Job, Items, StatusStep
  <2>2. /\ \A w, v \in Workers : Busy(w)' /\ Busy(v)' /\ w # v => job'[w] # job'[v]
        /\ \A w \in Workers : doing'[w] = "moved" => Source(w)' \in Objects
    BY <1>1, <1>2 DEF Claims, workers, Busy, Source
  <2>3. /\ \A u \in Uploads : Drafted(u)' =>
               draft'[u] \in Draft /\ \E p \in Profiles : draft'[u].object = Fresh(u, p)
        /\ \A u \in Uploads : at'[u] = "replaced" => draft'[u].old \in Objects
    BY <1>1, <1>2 DEF Claims, uploads, Drafted
  <2> QED
    BY <1>3, <2>1, <2>2, <2>3 DEF Claims
<1>12. Origins'
  BY <1>1, <1>2, <1>3, OriginsFrame
<1> QED
  BY <1>10, <1>11, <1>12

-----------------------------------------------------------------------------
(* The invariant, and what it shows.                                       *)

LEMMA InitInv == Init => StorageInv
<1> SUFFICES ASSUME Init PROVE StorageInv
  OBVIOUS
<1>1. TypeOK
  <2>1. \A f \in Files : First(f) \in Objects
    BY ObjectTypes
  <2>2. /\ object \in [Files -> Objects] /\ revision \in [Files -> Nat]
        /\ latest \in [Files -> Objects] /\ stored \subseteq Objects /\ leaked \subseteq Objects
    BY <2>1 DEF Init
  <2> QED
    BY <2>2 DEF Init, TypeOK
<1>2. /\ \A w \in Workers : doing[w] = "idle"
      /\ \A u \in Uploads : at[u] = "new"
      /\ \A o \in Objects : task[o] = "none"
      /\ \A s \in Sweepers : sweeping[s] = NoSweep
      /\ \A f \in Files : object[f] = First(f) /\ latest[f] = First(f)
      /\ stored = {First(f) : f \in Files}
      /\ \A i \in Items : source[i] = NoObject
  BY DEF Init
<1>3. Claims
  BY <1>2 DEF Claims, Busy, Drafted
<1>4. Apart
  <2>1. \A o : ~IsDoomed(o) /\ ~IsWritten(o)
    BY <1>2 DEF IsDoomed, IsWritten, WorkerDooms, UploadDooms, TaskDooms, SweeperDooms,
                WorkerWrites, UploadWrites
  <2>2. \A o : IsComing(o) => \A f : o # First(f)
    BY <1>2, KeysDiffer DEF IsComing, WorkerBrings, UploadBrings, UploadWrites, Unused
  <2>3. \A f, g \in Files : First(f) = First(g) => f = g
    BY DEF First
  <2> QED
    BY <1>2, <2>1, <2>2, <2>3 DEF Apart, IsNamed
<1>5. Origins
  <2>1. Copies \subseteq Objects
    BY DEF Objects
  <2>2. \A i \in Items : source[i] \notin Copies
    BY <1>2, <2>1, NoObjectAssumption
  <2>3. \A f \in Files : \A i, n : object[f] # Copy(i, n)
    BY <1>2, KeysDiffer
  <2>4. \A f \in Files : object[f] \notin Copies
    BY <2>3 DEF Copies
  <2> QED
    BY <1>2, <2>2, <2>3, <2>4 DEF Origins, NoStaleContent, Content
<1> QED
  BY <1>1, <1>3, <1>4, <1>5 DEF StorageInv

LEMMA StutterStep ==
  ASSUME StorageInv, UNCHANGED vars
  PROVE  StorageInv'
<1>1. UNCHANGED <<files, stored, items, tasks, workers, uploads, sweeping, leaked>>
  BY DEF vars
<1>2. TypeOK'
  BY <1>1, TypeFrames, TypesMeanTypeOK DEF StorageInv, StepTypes, items
<1>3. Claims'
  BY <1>1 DEF StorageInv, Claims, items, workers, uploads, Busy, Drafted, Source
<1>4. Apart'
  <2>1. \A o : IsDoomed(o)' = IsDoomed(o)
    BY <1>1 DEF IsDoomed, WorkerDooms, UploadDooms, TaskDooms, SweeperDooms, Target, Source,
                items, tasks, workers, uploads
  <2>2. \A o : IsWritten(o)' = IsWritten(o)
    BY <1>1 DEF IsWritten, WorkerWrites, UploadWrites, Target, workers, uploads
  <2>3. \A o : IsComing(o)' = IsComing(o)
    BY <1>1 DEF IsComing, WorkerBrings, UploadBrings, UploadWrites, Unused, Target,
                items, workers, uploads
  <2>4. object' = object /\ stored' = stored
    BY <1>1 DEF files
  <2> QED
    BY <2>1, <2>2, <2>3, <2>4 DEF StorageInv, Apart, IsNamed
<1>5. Origins'
  BY <1>1, TypeFrames, OriginsFrame DEF StorageInv, files, items
<1> QED
  BY <1>2, <1>3, <1>4, <1>5 DEF StorageInv

\* Every action takes an abstract step.
LEMMA NextIsAbstract ==
  ASSUME StorageInv, ~LostCommits, Next
  PROVE  TypeOK' /\ Claims' /\ AbstractStep /\ Origins'
<1>1. TypeOK /\ Claims /\ Apart
  BY DEF StorageInv
<1>3. CASE \E m \in Migrations : \/ CreateStorageMigration(m) \/ CancelStorageMigration(m)
                                 \/ RetryFailedStorageMigration(m)
  BY <1>1, <1>3, MigrationTypes, MigrationStep, TypesMeanTypeOK
<1>4. ASSUME NEW w \in Workers, \E i \in Items : ClaimStorageMigrationItem(w, i)
      PROVE  TypeOK' /\ Claims' /\ AbstractStep /\ Origins'
  BY <1>1, <1>4, ClaimTypes, ClaimStep, TypesMeanTypeOK
<1>5. ASSUME NEW w \in Workers, CopyObject(w) \/ CopyFails(w) \/ LeaseLost(w) \/ CompleteFails(w)
      PROVE  TypeOK' /\ Claims' /\ AbstractStep /\ Origins'
  BY <1>1, <1>5, CopyTypes, CompleteTypes, CopyStep, TypesMeanTypeOK
<1>6. ASSUME NEW w \in Workers, CompleteStorageMigrationItem(w)
      PROVE  TypeOK' /\ Claims' /\ AbstractStep /\ Origins'
  BY <1>1, <1>6, CompleteTypes, CompleteStep, TypesMeanTypeOK
<1>7. ASSUME NEW w \in Workers,
             DropCopy(w) \/ DropSource(w) \/ FailStorageMigrationItem(w) \/ Crash(w)
      PROVE  TypeOK' /\ Claims' /\ AbstractStep /\ Origins'
  BY <1>1, <1>7, DropTypes, FailTypes, RestStep, TypesMeanTypeOK
<1>8. ASSUME NEW u \in Uploads, NEW p \in Profiles,
             PutFails(u, p) \/ \E f \in Files : PutUpload(u, f, p)
      PROVE  TypeOK' /\ Claims' /\ AbstractStep /\ Origins'
  BY <1>1, <1>8, PutTypes, PutStep, TypesMeanTypeOK
<1>9. ASSUME NEW u \in Uploads, ReplaceFile(u)
      PROVE  TypeOK' /\ Claims' /\ AbstractStep /\ Origins'
  BY <1>1, <1>9, ReplaceTypes, ReplaceStep, TypesMeanTypeOK
<1>10. ASSUME NEW u \in Uploads, ReplaceFails(u) \/ DropUpload(u) \/ UploadCrash(u)
       PROVE  TypeOK' /\ Claims' /\ AbstractStep /\ Origins'
  BY <1>1, <1>10, ReplaceTypes, DropUploadTypes, UploadEndStep, TypesMeanTypeOK
<1>11. ASSUME NEW s \in Sweepers, FinishCleanupTask(s) \/ SweeperCrash(s)
                                  \/ \E o \in Objects : ClaimCleanupTask(s, o)
       PROVE  TypeOK' /\ Claims' /\ AbstractStep /\ Origins'
  BY <1>1, <1>11, SweeperIs, SweeperStep, TypesMeanTypeOK
<1> QED
  BY <1>3, <1>4, <1>5, <1>6, <1>7, <1>8, <1>9, <1>10, <1>11 DEF Next

LEMMA NextStep ==
  ASSUME StorageInv, ~LostCommits, Next
  PROVE  StorageInv'
BY NextIsAbstract, ApartStep DEF TypeOK, AbstractStep, StorageInv

\* In every state the kinds of objects are apart, when a commit that is reported
\* as failed did not take place.
THEOREM StorageInvariant ==
  ASSUME ~LostCommits
  PROVE  Spec => []StorageInv
<1>1. Init => StorageInv
  BY InitInv
<1>2. StorageInv /\ [Next]_vars => StorageInv'
  BY NextStep, StutterStep
<1> QED
  BY <1>1, <1>2, PTL DEF Spec

\* The rows, the tasks and the processes are typed.
THEOREM Typed ==
  ASSUME ~LostCommits
  PROVE  Spec => []TypeOK
<1>1. StorageInv => TypeOK
  BY DEF StorageInv
<1> QED
  BY <1>1, StorageInvariant, PTL

\* The object of every file exists, whatever workers, uploads and sweepers do at
\* the same time and wherever one of them stops.
THEOREM RowsHaveObjects ==
  ASSUME ~LostCommits
  PROVE  Spec => []RowHasObject
<1>1. StorageInv => RowHasObject
  BY DEF StorageInv, Apart, IsNamed, RowHasObject
<1> QED
  BY <1>1, StorageInvariant, PTL

\* No file gets the content back that an upload replaced.
THEOREM ContentIsNeverStale ==
  ASSUME ~LostCommits
  PROVE  Spec => []NoStaleContent
<1>1. StorageInv => NoStaleContent
  BY DEF StorageInv, Origins
<1> QED
  BY <1>1, StorageInvariant, PTL

-----------------------------------------------------------------------------
(* Every object is tracked.                                                *)

\* The process will delete the object, unless it makes a row name it.
WorkerHolds(w, o) == \/ doing[w] \in {"copied", "dropping"} /\ Target(w) = o
                     \/ doing[w] = "moved" /\ Source(w) = o
UploadHolds(u, o) == \/ at[u] \in {"stored", "dropping"} /\ draft[u].object = o
                     \/ at[u] = "replaced" /\ draft[u].old = o
Recorded(o) == IsNamed(o) \/ task[o] # "none" \/ o \in leaked
Tracked(o) == \/ Recorded(o)
              \/ \E w \in Workers : WorkerHolds(w, o)
              \/ \E u \in Uploads : UploadHolds(u, o)


LEMMA TrackedIs == NothingUntracked <=> \A o \in stored : Tracked(o)
<1>1. \A o : o \in Held <=> \/ \E w \in Workers : WorkerHolds(w, o)
                            \/ \E u \in Uploads : UploadHolds(u, o)
  BY DEF Held, WorkerHolds, UploadHolds
<1> QED
  BY <1>1 DEF NothingUntracked, Tracked, Recorded, IsNamed

LEMMA TrackedNext == (\A o \in stored' : Tracked(o)') => NothingUntracked'
<1>1. \A o : o \in Held' <=> \/ \E w \in Workers : WorkerHolds(w, o)'
                             \/ \E u \in Uploads : UploadHolds(u, o)'
  BY DEF Held, WorkerHolds, UploadHolds
<1> QED
  BY <1>1 DEF NothingUntracked, Tracked, Recorded, IsNamed

\* What a worker puts, or stops to hold, is tracked otherwise.
LEMMA WorkerTracks ==
  ASSUME TypeOK, NothingUntracked, NEW w \in Workers, UNCHANGED <<uploads, source>>,
         doing' = [doing EXCEPT ![w] = doing'[w]], job' = [job EXCEPT ![w] = job'[w]],
         \A o \in stored' : Recorded(o) \/ WorkerHolds(w, o) \/ o \notin stored
                              => Recorded(o)' \/ WorkerHolds(w, o)'
  PROVE  NothingUntracked'
<1>1. \A u \in Uploads : \A o : UploadHolds(u, o)' = UploadHolds(u, o)
  BY DEF uploads, UploadHolds
<1>2. \A v \in Workers : v # w => doing'[v] = doing[v] /\ job'[v] = job[v]
  BY DEF TypeOK
<1>3. \A v \in Workers : \A o : v # w => WorkerHolds(v, o)' = WorkerHolds(v, o)
  BY <1>2 DEF WorkerHolds, Target, Source
<1>4. ASSUME NEW o \in stored' PROVE Tracked(o)'
  <2>1. o \in stored => Tracked(o)
    BY TrackedIs
  <2> QED
    BY <1>1, <1>3, <1>4, <2>1 DEF Tracked
<1> QED
  BY <1>4, TrackedNext

\* What an upload puts, or stops to hold, is tracked otherwise.
LEMMA UploadTracks ==
  ASSUME TypeOK, NothingUntracked, NEW u \in Uploads, UNCHANGED <<workers, source>>,
         at' = [at EXCEPT ![u] = at'[u]], draft' = [draft EXCEPT ![u] = draft'[u]],
         \A o \in stored' : Recorded(o) \/ UploadHolds(u, o) \/ o \notin stored
                              => Recorded(o)' \/ UploadHolds(u, o)'
  PROVE  NothingUntracked'
<1>1. \A w \in Workers : \A o : WorkerHolds(w, o)' = WorkerHolds(w, o)
  BY DEF workers, WorkerHolds, Target, Source
<1>2. \A v \in Uploads : v # u => at'[v] = at[v] /\ draft'[v] = draft[v]
  BY DEF TypeOK
<1>3. \A v \in Uploads : \A o : v # u => UploadHolds(v, o)' = UploadHolds(v, o)
  BY <1>2 DEF UploadHolds
<1>4. ASSUME NEW o \in stored' PROVE Tracked(o)'
  <2>1. o \in stored => Tracked(o)
    BY TrackedIs
  <2> QED
    BY <1>1, <1>3, <1>4, <2>1 DEF Tracked
<1> QED
  BY <1>4, TrackedNext

\* A sweeper or a request to the migration changes only objects, rows and tasks.
LEMMA OthersTrack ==
  ASSUME NothingUntracked, UNCHANGED <<object, leaked, workers, uploads>>,
         \A w \in Workers : doing[w] = "moved" => Source(w)' = Source(w),
         \A o \in stored' : o \in stored /\ (task[o] # "none" => task'[o] # "none")
  PROVE  NothingUntracked'
<1>1. \A u \in Uploads : \A o : UploadHolds(u, o)' = UploadHolds(u, o)
  BY DEF uploads, UploadHolds
<1>2. \A w \in Workers : \A o : WorkerHolds(w, o)' = WorkerHolds(w, o)
  BY DEF workers, WorkerHolds, Target
<1>3. \A o \in stored' : Recorded(o) => Recorded(o)'
  BY DEF Recorded, IsNamed
<1>4. \A o \in stored' : Tracked(o)'
  BY <1>1, <1>2, <1>3, TrackedIs DEF Tracked
<1> QED
  BY <1>4, TrackedNext

\* What deleteOrEnqueue leaves is recorded.
LEMMA DropTracks ==
  ASSUME TypeOK, NEW x \in Objects, NEW m, NEW b \in BOOLEAN, deleteOrEnqueue(x, m, b),
         object' = object
  PROVE  \A o \in stored' : o \in stored /\ (Recorded(o) \/ o = x => Recorded(o)')
<1>1. CASE stored' = stored \ {x} /\ UNCHANGED <<tasks, status, leaked>>
  BY <1>1 DEF Recorded, IsNamed, tasks
<1>2. CASE Enqueue(x, m) /\ UNCHANGED <<stored, leaked>>
  BY <1>2 DEF TypeOK, Recorded, IsNamed, Enqueue, tasks
<1>3. CASE leaked' = leaked \cup {x} /\ UNCHANGED <<stored, tasks, status>>
  BY <1>3 DEF Recorded, IsNamed, tasks
<1> QED
  BY <1>1, <1>2, <1>3 DEF deleteOrEnqueue

LEMMA MigrationTracks ==
  ASSUME StorageInv, NothingUntracked, NEW m \in Migrations,
         CreateStorageMigration(m) \/ CancelStorageMigration(m) \/ RetryFailedStorageMigration(m)
  PROVE  NothingUntracked'
<1>1. TypeOK /\ Claims
  BY DEF StorageInv
<1>2. UNCHANGED <<object, leaked, workers, uploads, stored>>
  BY DEF CreateStorageMigration, CancelStorageMigration, RetryFailedStorageMigration, files
<1>3. \A o \in stored' : o \in stored /\ (task[o] # "none" => task'[o] # "none")
  BY <1>1, <1>2 DEF CreateStorageMigration, CancelStorageMigration, RetryFailedStorageMigration,
                    tasks, TypeOK
<1>4. ASSUME NEW w \in Workers, doing[w] = "moved" PROVE Source(w)' = Source(w)
  <2>1. job[w].item \in Items /\ status[job[w].item[1]] # "none"
    BY <1>1, <1>4 DEF Claims, Busy, Job
  <2>2. job' = job
    BY <1>2 DEF workers
  <2>3. CASE CreateStorageMigration(m)
    BY <2>1, <2>2, <2>3, <1>1 DEF CreateStorageMigration, Source, TypeOK
  <2>4. CASE CancelStorageMigration(m) \/ RetryFailedStorageMigration(m)
    BY <2>2, <2>4 DEF CancelStorageMigration, RetryFailedStorageMigration, Source
  <2> QED
    BY <2>3, <2>4
<1> QED
  BY <1>2, <1>3, <1>4, OthersTrack

LEMMA SweeperTracks ==
  ASSUME StorageInv, NothingUntracked, NEW s \in Sweepers,
         FinishCleanupTask(s) \/ SweeperCrash(s) \/ \E o \in Objects : ClaimCleanupTask(s, o)
  PROVE  NothingUntracked'
<1>1. TypeOK
  BY DEF StorageInv
<1>2. UNCHANGED <<object, leaked, workers, uploads, source>>
  BY DEF FinishCleanupTask, SweeperCrash, ClaimCleanupTask, files, items
<1>3. CASE FinishCleanupTask(s)
  <2>1. PICK deleted \in BOOLEAN :
          /\ stored' = IF deleted THEN stored \ {sweeping[s].object} ELSE stored
          /\ \/ task' = task
             \/ task' = [task EXCEPT ![sweeping[s].object] = IF deleted THEN "none" ELSE "failed"]
    BY <1>3 DEF FinishCleanupTask, tasks
  <2>2. \A o \in stored' : o \in stored /\ (task[o] # "none" => task'[o] # "none")
    BY <1>1, <2>1 DEF TypeOK
  <2> QED
    BY <1>2, <2>2, OthersTrack DEF workers, Source
<1>4. CASE SweeperCrash(s) \/ \E o \in Objects : ClaimCleanupTask(s, o)
  <2>1. \A o \in stored' : o \in stored /\ (task[o] # "none" => task'[o] # "none")
    BY <1>1, <1>4 DEF SweeperCrash, ClaimCleanupTask, tasks, TypeOK
  <2> QED
    BY <1>2, <2>1, OthersTrack DEF workers, Source
<1> QED
  BY <1>3, <1>4

LEMMA UploadsTrack ==
  ASSUME StorageInv, ~LostCommits, NothingUntracked, NEW u \in Uploads,
         \/ \E p \in Profiles : PutFails(u, p) \/ \E f \in Files : PutUpload(u, f, p)
         \/ ReplaceFile(u) \/ ReplaceFails(u) \/ DropUpload(u) \/ UploadCrash(u)
  PROVE  NothingUntracked'
<1>1. TypeOK /\ Claims
  BY DEF StorageInv
<1>2. UNCHANGED <<workers, source>>
  BY DEF PutFails, PutUpload, ReplaceFile, ReplaceFails, DropUpload, UploadCrash, items
<1>3. /\ at' = [at EXCEPT ![u] = at'[u]]
      /\ draft' = [draft EXCEPT ![u] = draft'[u]]
  <2>1. \E a : at' = [at EXCEPT ![u] = a]
    BY DEF PutFails, PutUpload, ReplaceFile, ReplaceFails, DropUpload, UploadCrash
  <2>2. draft' = draft \/ \E d : draft' = [draft EXCEPT ![u] = d]
    <3>1. CASE ReplaceFile(u)
      BY <3>1, <1>1 DEF ReplaceFile, TypeOK
    <3> QED
      BY <3>1 DEF PutFails, PutUpload, ReplaceFails, DropUpload, UploadCrash
  <2>3. draft = [draft EXCEPT ![u] = draft[u]]
    BY <1>1 DEF TypeOK
  <2>4. at' = [at EXCEPT ![u] = at'[u]]
    BY <2>1, <1>1 DEF TypeOK
  <2>5. draft' = [draft EXCEPT ![u] = draft'[u]]
    BY <2>2, <2>3, <1>1 DEF TypeOK
  <2> QED
    BY <2>4, <2>5
<1>4. SUFFICES \A o \in stored' : Recorded(o) \/ UploadHolds(u, o) \/ o \notin stored
                                    => Recorded(o)' \/ UploadHolds(u, o)'
  BY <1>1, <1>2, <1>3, UploadTracks
<1>5. ASSUME NEW p \in Profiles, PutFails(u, p) \/ \E f \in Files : PutUpload(u, f, p)
      PROVE  \A o \in stored' : Recorded(o) \/ UploadHolds(u, o) \/ o \notin stored
                                  => Recorded(o)' \/ UploadHolds(u, o)'
  BY <1>1, <1>5 DEF PutFails, PutUpload, Recorded, IsNamed, UploadHolds, TypeOK, tasks, files
<1>6. CASE ReplaceFile(u)
  <2>1. draft[u].file \in Files
    BY <1>1, <1>6 DEF ReplaceFile, Claims, Drafted, Draft
  <2>2. /\ object' = [object EXCEPT ![draft[u].file] = draft[u].object]
        /\ at'[u] = "replaced" /\ at[u] = "stored"
        /\ draft'[u].old = object[draft[u].file]
        /\ UNCHANGED <<stored, task, leaked>>
    BY <1>1, <1>6 DEF ReplaceFile, ReplaceRow, TypeOK, tasks
  <2>3. \A f \in Files : object'[f] = IF f = draft[u].file THEN draft[u].object ELSE object[f]
    BY <1>1, <2>2 DEF TypeOK
  <2>4. \A o : IsNamed(o) => IsNamed(o)' \/ o = object[draft[u].file]
    BY <2>1, <2>3 DEF IsNamed
  <2>5. \A o : UploadHolds(u, o) => IsNamed(o)'
    BY <2>1, <2>2, <2>3 DEF IsNamed, UploadHolds
  <2>6. \A o : o = object[draft[u].file] => UploadHolds(u, o)'
    BY <2>2 DEF UploadHolds
  <2> QED
    BY <2>2, <2>4, <2>5, <2>6 DEF Recorded
<1>7. CASE ReplaceFails(u)
  BY <1>1, <1>7 DEF ReplaceFails, Recorded, IsNamed, UploadHolds, TypeOK, tasks, files
<1>8. CASE DropUpload(u)
  <2>1. PICK x \in Objects : /\ deleteOrEnqueue(x, NoMigration, FALSE)
                             /\ \A o : UploadHolds(u, o) => o = x
    <3>1. draft[u].object \in Objects /\ (at[u] = "replaced" => draft[u].old \in Objects)
      BY <1>1, <1>8 DEF DropUpload, Claims, Drafted, Draft
    <3> QED
      BY <1>8, <3>1 DEF DropUpload, UploadHolds
  <2>2. object' = object
    BY <1>8 DEF DropUpload, files
  <2> QED
    BY <1>1, <2>1, <2>2, DropTracks
<1>9. CASE UploadCrash(u)
  BY <1>1, <1>9 DEF UploadCrash, Recorded, IsNamed, UploadHolds, tasks, files
<1> QED
  BY <1>5, <1>6, <1>7, <1>8, <1>9

LEMMA WorkersTrack ==
  ASSUME StorageInv, ~LostCommits, NothingUntracked, NEW w \in Workers,
         \/ \E i \in Items : ClaimStorageMigrationItem(w, i)
         \/ CopyObject(w) \/ CopyFails(w)
         \/ CompleteStorageMigrationItem(w) \/ LeaseLost(w) \/ CompleteFails(w)
         \/ DropCopy(w) \/ DropSource(w) \/ FailStorageMigrationItem(w) \/ Crash(w)
  PROVE  NothingUntracked'
<1> DEFINE Goal == \A o \in stored' : Recorded(o) \/ WorkerHolds(w, o) \/ o \notin stored
                                        => Recorded(o)' \/ WorkerHolds(w, o)'
<1>1. TypeOK /\ Claims
  BY DEF StorageInv
<1>2. UNCHANGED <<uploads, source>>
  BY DEF ClaimStorageMigrationItem, CopyObject, CopyFails, CompleteStorageMigrationItem, LeaseLost,
         CompleteFails, DropCopy, DropSource, FailStorageMigrationItem, Crash, items
<1>3. /\ doing' = [doing EXCEPT ![w] = doing'[w]]
      /\ job' = [job EXCEPT ![w] = job'[w]]
  <2>1. doing \in [Workers -> {"idle", "copying", "copied", "dropping", "failing", "moved"}]
    BY <1>1 DEF TypeOK
  <2>2. \E d : doing' = [doing EXCEPT ![w] = d]
    BY DEF ClaimStorageMigrationItem, CopyObject, CopyFails, CompleteStorageMigrationItem,
           LeaseLost, CompleteFails, DropCopy, DropSource, FailStorageMigrationItem, Crash, Rest
  <2>3. job' = job \/ \E j : job' = [job EXCEPT ![w] = j]
    BY DEF ClaimStorageMigrationItem, CopyObject, CopyFails, CompleteStorageMigrationItem,
           LeaseLost, CompleteFails, DropCopy, DropSource, FailStorageMigrationItem, Crash, Rest,
           workers
  <2>4. job = [job EXCEPT ![w] = job[w]]
    BY <1>1 DEF TypeOK
  <2> QED
    BY <2>1, <2>2, <2>3, <2>4, <1>1 DEF TypeOK
<1>4. SUFFICES Goal
  BY <1>1, <1>2, <1>3, WorkerTracks
<1>5. ASSUME NEW i \in Items, ClaimStorageMigrationItem(w, i) PROVE Goal
  BY <1>1, <1>5 DEF ClaimStorageMigrationItem, Recorded, IsNamed, WorkerHolds, tasks, files
<1>6. CASE CopyObject(w)
  BY <1>1, <1>6 DEF CopyObject, Recorded, IsNamed, WorkerHolds, Target, tasks, files, TypeOK
<1>7. CASE CopyFails(w)
  BY <1>1, <1>7 DEF CopyFails, Recorded, IsNamed, WorkerHolds, Target, tasks, files
<1>8. CASE CompleteStorageMigrationItem(w)
  <2>1. File(w) \in Files
    BY <1>1, <1>8, BusyIs DEF CompleteStorageMigrationItem, Busy
  <2>2. doing[w] = "copied" /\ UNCHANGED <<stored, task, leaked, job, source>>
    BY <1>8 DEF CompleteStorageMigrationItem, MoveRow
  <2>3. CASE Unchanged(File(w), Source(w))
    <3>1. /\ object' = [object EXCEPT ![File(w)] = Target(w)]
          /\ doing'[w] = "moved" /\ object[File(w)] = Source(w)
      BY <1>1, <1>8, <2>3 DEF CompleteStorageMigrationItem, MoveRow, Unchanged, TypeOK
    <3>2. \A f \in Files : object'[f] = IF f = File(w) THEN Target(w) ELSE object[f]
      BY <1>1, <3>1 DEF TypeOK
    <3>3. \A o : IsNamed(o) => IsNamed(o)' \/ o = Source(w)
      BY <3>1, <3>2 DEF IsNamed
    <3>4. WorkerHolds(w, Source(w))'
      BY <2>2, <3>1 DEF WorkerHolds, Source
    <3>5. \A o : WorkerHolds(w, o) => IsNamed(o)'
      BY <2>1, <2>2, <3>2 DEF WorkerHolds, IsNamed
    <3>6. Source(w)' = Source(w)
      BY <2>2 DEF Source
    <3> QED
      BY <2>2, <3>3, <3>4, <3>5, <3>6 DEF Recorded
  <2>4. CASE ~Unchanged(File(w), Source(w))
    <3>1. object' = object /\ doing'[w] = "dropping"
      BY <1>1, <1>8, <2>4 DEF CompleteStorageMigrationItem, MoveRow, TypeOK
    <3> QED
      BY <2>2, <3>1 DEF Recorded, IsNamed, WorkerHolds, Target
  <2> QED
    BY <2>3, <2>4
<1>9. CASE LeaseLost(w) \/ CompleteFails(w)
  BY <1>1, <1>9 DEF LeaseLost, CompleteFails, Recorded, IsNamed, WorkerHolds, Target, tasks,
                    files, TypeOK
<1>10. CASE DropCopy(w) \/ DropSource(w)
  <2>1. PICK x \in Objects, b \in BOOLEAN : /\ deleteOrEnqueue(x, Migration(w), b)
                                            /\ \A o : WorkerHolds(w, o) => o = x
    <3>1. Target(w) \in Objects /\ (doing[w] = "moved" => Source(w) \in Objects)
      BY <1>1, <1>10, BusyIs DEF DropCopy, DropSource, Busy, Claims
    <3> QED
      BY <1>10, <3>1 DEF DropCopy, DropSource, WorkerHolds
  <2>2. object' = object
    BY <1>10 DEF DropCopy, DropSource, files
  <2> QED
    BY <1>1, <2>1, <2>2, DropTracks
<1>11. CASE FailStorageMigrationItem(w)
  BY <1>1, <1>11 DEF FailStorageMigrationItem, Recorded, IsNamed, WorkerHolds, files
<1>12. CASE Crash(w)
  <2>1. \A o : WorkerHolds(w, o) => o \in leaked'
    BY <1>12 DEF Crash, WorkerHolds
  <2>2. UNCHANGED <<object, stored, task>> /\ leaked \subseteq leaked'
    BY <1>12 DEF Crash, files, tasks
  <2> QED
    BY <2>1, <2>2 DEF Recorded, IsNamed
<1> QED
  BY <1>5, <1>6, <1>7, <1>8, <1>9, <1>10, <1>11, <1>12

\* Only a stop, a put that is reported as failed and a task that cannot be
\* written lose track of an object, as long as no commit is reported as failed.
THEOREM EverythingIsTracked ==
  ASSUME ~LostCommits
  PROVE  Spec => []NothingUntracked
<1>1. Init => NothingUntracked
  BY DEF Init, NothingUntracked
<1>2. StorageInv /\ NothingUntracked /\ Next => NothingUntracked'
  BY MigrationTracks, WorkersTrack, UploadsTrack, SweeperTracks DEF Next
<1>3. StorageInv /\ NothingUntracked /\ UNCHANGED vars => NothingUntracked'
  <2> SUFFICES ASSUME StorageInv, NothingUntracked, UNCHANGED vars PROVE NothingUntracked'
    OBVIOUS
  <2> QED
    BY OthersTrack DEF vars, files, items, tasks, workers, Source
<1> QED
  BY <1>1, <1>2, <1>3, StorageInvariant, PTL DEF Spec

-----------------------------------------------------------------------------
(* A completed migration is complete.                                      *)

\* What a migration that is completed leaves an item as.
Final == {"none", "succeeded", "skipped"}

\* The source of an item that succeeded was lost, is about to be deleted, or has
\* a task of the migration.
Traced(i) == \/ source[i] \in leaked
             \/ \E w \in Workers : doing[w] = "moved" /\ job[w].item = i
             \/ task[source[i]] # "none" /\ taskOf[source[i]] = i[1]

\* What a task is open for.
Owes(m, o) == task[o] # "none" /\ taskOf[o] = m

\* A migration that was not created has no items and owes nothing.
Opened ==
    /\ \A i \in Items : status[i[1]] = "none" => item[i] = "none"
    /\ \A m \in Migrations : status[m] = "none" => \A o \in Objects : ~Owes(m, o)

\* A completed migration has no item that is not final and owes no source: the
\* objects that are not copies.
Decided ==
    /\ \A i \in Items : status[i[1]] = "completed" => item[i] \in Final
    /\ \A m \in Migrations : status[m] = "completed" =>
          \A o \in Objects \ Copies : ~Owes(m, o)

\* A source is not put again: rows named it when the snapshot was taken.
Snapshots == \A i \in Items : source[i] \in Objects => ~IsComing(source[i])

Followed == \A i \in Items : item[i] = "succeeded" /\ source[i] \in stored => Traced(i)

\* Nobody but the worker that moved a file deletes its source: so the task that
\* the worker enqueues is one of its migration.
SoleDoom ==
    \A w \in Workers : doing[w] = "moved" =>
        /\ ~TaskDooms(Source(w))
        /\ \A v \in Workers : v # w => ~WorkerDooms(v, Source(w))
        /\ \A u \in Uploads : ~UploadDooms(u, Source(w))

CompletionInv == StorageInv /\ Opened /\ Decided /\ Snapshots /\ Followed /\ SoleDoom

\* What a step does to items that succeeded and to their sources.
Traces ==
    /\ \A i \in Items : item'[i] = "succeeded" =>
          /\ source'[i] = source[i]
          /\ item[i] = "succeeded" \/ \E w \in Workers : doing'[w] = "moved" /\ job'[w].item = i
    /\ \A o \in stored' : o \in stored \/ IsComing(o)
    /\ \A o \in leaked : o \in leaked'
    /\ \A w \in Workers : doing[w] = "moved" =>
          \/ doing'[w] = "moved" /\ job'[w] = job[w]
          \/ Source(w) \notin stored' \/ Source(w) \in leaked'
          \/ task'[Source(w)] # "none" /\ taskOf'[Source(w)] = Migration(w)
    /\ \A o \in Objects : task[o] # "none" =>
          o \notin stored' \/ (task'[o] # "none" /\ taskOf'[o] = taskOf[o])

\* The lemmas of the steps: an item is changed where there is a migration, ...
LEMMA OpenedStep ==
  ASSUME Opened, StatusStep,
         \A i \in Items : item'[i] = item[i] \/ status[i[1]] # "none" \/ status'[i[1]] # "none",
         \A m \in Migrations, o \in Objects :
            Owes(m, o)' => Owes(m, o) \/ status[m] # "none" \/ status'[m] # "none"
  PROVE  Opened'
<1>1. \A i \in Items : i[1] \in Migrations
  BY DEF Items
<1> QED
  BY <1>1 DEF Opened, StatusStep

\* ... a migration becomes completed when all its items are final and it owes
\* no source, and stays so while that is so, ...
LEMMA DecidedStep ==
  ASSUME Decided,
         \A i \in Items : status'[i[1]] = "completed" =>
            item'[i] \in Final \/ (status[i[1]] = "completed" /\ item'[i] = item[i]),
         \A m \in Migrations : status'[m] = "completed" =>
            \A o \in Objects \ Copies : Owes(m, o)' => status[m] = "completed" /\ Owes(m, o)
  PROVE  Decided'
BY DEF Decided, Final

\* ... and a source stays traced.
LEMMA FollowedStep ==
  ASSUME StorageInv, Snapshots, Followed, TypeOK', Traces
  PROVE  Followed'
<1> SUFFICES ASSUME NEW i \in Items, item'[i] = "succeeded", source'[i] \in stored'
             PROVE  Traced(i)'
  BY DEF Followed
<1>1. source'[i] = source[i] /\ source[i] \in Objects
  BY DEF Traces, TypeOK
<1>2. CASE \E w \in Workers : doing'[w] = "moved" /\ job'[w].item = i
  BY <1>2 DEF Traced
<1>3. CASE item[i] = "succeeded"
  <2>1. source[i] \in stored
    BY <1>1 DEF Traces, Snapshots
  <2>2. Traced(i)
    BY <1>3, <2>1 DEF Followed
  <2>3. CASE source[i] \in leaked
    BY <1>1, <2>3 DEF Traced, Traces
  <2>4. ASSUME NEW w \in Workers, doing[w] = "moved", job[w].item = i
        PROVE  Traced(i)'
    <3>1. Source(w) = source[i] /\ Migration(w) = i[1]
      BY <2>4 DEF Source, Migration
    <3> QED
      BY <1>1, <2>4, <3>1 DEF Traced, Traces
  <2>5. CASE task[source[i]] # "none" /\ taskOf[source[i]] = i[1]
    BY <1>1, <2>5 DEF Traced, Traces
  <2> QED
    BY <2>2, <2>3, <2>4, <2>5 DEF Traced
<1> QED
  BY <1>2, <1>3 DEF Traces

\* Sources are named when a migration is created, and what was put is not put
\* again.
LEMMA SnapshotsStep ==
  ASSUME StorageInv, Snapshots, AbstractStep,
         \A i \in Items : source'[i] = source[i] \/ IsNamed(source'[i])
  PROVE  Snapshots'
<1>1. \A o : IsComing(o)' => IsComing(o)
  BY DEF AbstractStep, Keeps, Dooms, Names
<1>2. \A o : IsNamed(o) => ~IsComing(o)
  BY DEF StorageInv, Apart
<1>3. \A i \in Items : \A o : o = source'[i] /\ o \in Objects => ~IsComing(o)'
  BY <1>1, <1>2 DEF Snapshots
<1> QED
  BY <1>3 DEF Snapshots

\* A step of a worker dooms what was coming, or the object whose row it moved.
LEMMA WorkerIsSole ==
  ASSUME StorageInv, SoleDoom, NEW w \in Workers, UNCHANGED <<uploads, source>>,
         \A v \in Workers : v # w => doing'[v] = doing[v] /\ job'[v] = job[v],
         \A o : WorkerDooms(w, o)' => \/ WorkerDooms(w, o) \/ IsComing(o)
                                      \/ doing'[w] = "moved" /\ o = Source(w),
         \A o : TaskDooms(o)' => TaskDooms(o) \/ (WorkerDooms(w, o) /\ doing'[w] # "moved"),
         doing'[w] = "moved" => IsNamed(Source(w)) /\ job'[w] = job[w]
  PROVE  SoleDoom'
<1>1. \A v \in Workers : v # w => /\ Source(v)' = Source(v)
                                  /\ \A o : WorkerDooms(v, o)' = WorkerDooms(v, o)
  BY DEF WorkerDooms, Source, Target
<1>2. \A u \in Uploads : \A o : UploadDooms(u, o)' = UploadDooms(u, o)
  BY DEF uploads, UploadDooms
<1>3. \A o : IsDoomed(o) => ~IsNamed(o) /\ ~IsComing(o)
  BY DEF StorageInv, Apart
<1> DEFINE Sole(v, o) == /\ ~TaskDooms(o)'
                         /\ \A x \in Workers : x # v => ~WorkerDooms(x, o)'
                         /\ \A u \in Uploads : ~UploadDooms(u, o)'
<1>4. ASSUME doing'[w] = "moved", NEW o, o = Source(w) PROVE Sole(w, o) /\ Source(w)' = o
  <2>1. ~IsDoomed(o)
    BY <1>3, <1>4
  <2>2. ~TaskDooms(o)'
    BY <1>4, <2>1 DEF IsDoomed
  <2>3. Source(w)' = o
    BY <1>4 DEF Source
  <2> QED
    BY <1>1, <1>2, <2>1, <2>2, <2>3 DEF IsDoomed
<1>5. ASSUME NEW v \in Workers, v # w, doing'[v] = "moved", NEW o, o = Source(v)
      PROVE  Sole(v, o) /\ Source(v)' = o
  <2>1. doing[v] = "moved" /\ WorkerDooms(v, o)
    BY <1>5 DEF WorkerDooms
  <2>2. ~IsNamed(o) /\ ~IsComing(o)
    BY <1>3, <2>1 DEF IsDoomed
  <2>3. /\ ~TaskDooms(o)
        /\ \A x \in Workers : x # v => ~WorkerDooms(x, o)
        /\ \A u \in Uploads : ~UploadDooms(u, o)
    BY <1>5, <2>1 DEF SoleDoom
  <2>4. ~WorkerDooms(w, o)' /\ ~TaskDooms(o)'
    BY <1>5, <2>2, <2>3
  <2> QED
    BY <1>1, <1>2, <1>5, <2>3, <2>4
<1>6. \A v \in Workers : doing'[v] = "moved" => \A o : o = Source(v) => Sole(v, o) /\ Source(v)' = o
  BY <1>4, <1>5
<1> HIDE DEF Sole
<1>7. \A v \in Workers : doing'[v] = "moved" => \A o : o = Source(v)' => Sole(v, o)
  BY <1>6
<1> QED
  BY <1>7 DEF SoleDoom, Sole

\* A step of an upload dooms what was coming or what a row named.
LEMMA UploadIsSole ==
  ASSUME StorageInv, SoleDoom, NEW u \in Uploads, UNCHANGED <<workers, source>>,
         \A v \in Uploads : v # u => at'[v] = at[v] /\ draft'[v] = draft[v],
         \A o : UploadDooms(u, o)' => UploadDooms(u, o) \/ IsComing(o) \/ IsNamed(o),
         \A o : TaskDooms(o)' => TaskDooms(o) \/ UploadDooms(u, o)
  PROVE  SoleDoom'
<1>1. \A v \in Workers : /\ Source(v)' = Source(v) /\ doing'[v] = doing[v]
                         /\ \A o : WorkerDooms(v, o)' = WorkerDooms(v, o)
  BY DEF WorkerDooms, Source, Target, workers
<1>2. \A v \in Uploads : \A o : v # u => UploadDooms(v, o)' = UploadDooms(v, o)
  BY DEF UploadDooms
<1>3. ASSUME NEW v \in Workers, doing[v] = "moved", NEW o, o = Source(v)
      PROVE  ~TaskDooms(o)' /\ \A x \in Uploads : ~UploadDooms(x, o)'
  <2>1. ~IsNamed(o) /\ ~IsComing(o)
    BY <1>3 DEF StorageInv, Apart, IsDoomed, WorkerDooms
  <2>2. ~TaskDooms(o) /\ \A x \in Uploads : ~UploadDooms(x, o)
    BY <1>3 DEF SoleDoom
  <2> QED
    BY <1>2, <2>1, <2>2
<1>4. ASSUME NEW v \in Workers, doing[v] = "moved", NEW o, o = Source(v)
      PROVE  \A x \in Workers : x # v => ~WorkerDooms(x, o)'
  BY <1>1, <1>4 DEF SoleDoom
<1>5. \A v \in Workers : doing'[v] = "moved" => \A o : o = Source(v)' =>
         /\ ~TaskDooms(o)'
         /\ \A x \in Workers : x # v => ~WorkerDooms(x, o)'
         /\ \A x \in Uploads : ~UploadDooms(x, o)'
  BY <1>1, <1>3, <1>4
<1> QED
  BY <1>5 DEF SoleDoom

\* The others doom nothing.
LEMMA OthersAreSole ==
  ASSUME SoleDoom, UNCHANGED <<workers, uploads>>,
         \A w \in Workers : doing[w] = "moved" => Source(w)' = Source(w),
         \A o : TaskDooms(o)' => TaskDooms(o)
  PROVE  SoleDoom'
<1>1. \A v \in Workers : doing'[v] = doing[v] /\ \A o : WorkerDooms(v, o)' => WorkerDooms(v, o)
  BY DEF WorkerDooms, Target, workers
<1>2. \A u \in Uploads : \A o : UploadDooms(u, o)' = UploadDooms(u, o)
  BY DEF UploadDooms, uploads
<1>3. \A v \in Workers : doing'[v] = "moved" => \A o : o = Source(v)' =>
         /\ ~TaskDooms(o)'
         /\ \A x \in Workers : x # v => ~WorkerDooms(x, o)'
         /\ \A x \in Uploads : ~UploadDooms(x, o)'
  BY <1>1, <1>2 DEF SoleDoom
<1> QED
  BY <1>3 DEF SoleDoom

\* What a step has to do for a completed migration.
Accounts == /\ Opened' /\ Decided' /\ Traces /\ SoleDoom'
            /\ \A i \in Items : source'[i] = source[i] \/ IsNamed(source'[i])

\* Where status, items and tasks are as they were, so are the migrations.
LEMMA RowsStay ==
  ASSUME CompletionInv, UNCHANGED <<status, item, task, taskOf>>
  PROVE  Opened' /\ Decided'
BY DEF CompletionInv, Opened, Decided, Owes

\* The administrator's operations: a migration without files is completed at
\* once, a retry takes items and tasks up again.
LEMMA MigrationAccounts ==
  ASSUME CompletionInv, NEW m \in Migrations,
         CreateStorageMigration(m) \/ CancelStorageMigration(m) \/ RetryFailedStorageMigration(m)
  PROVE  Accounts
<1>1. TypeOK /\ Claims /\ StatusStep
  BY MigrationTypes DEF CompletionInv, StorageInv, StepTypes
<1>2. UNCHANGED <<object, leaked, workers, uploads, stored, taskOf>>
  BY DEF CreateStorageMigration, CancelStorageMigration, RetryFailedStorageMigration, files, tasks
<1>3. \A o \in Objects : (task'[o] # "none") = (task[o] # "none")
  BY <1>1 DEF CreateStorageMigration, CancelStorageMigration, RetryFailedStorageMigration,
              tasks, TypeOK
<1>4. \A i \in Items : /\ source'[i] = source[i] \/ IsNamed(source'[i])
                       /\ status[i[1]] # "none" => source'[i] = source[i]
                       /\ item'[i] = "succeeded" => item[i] = "succeeded" /\ source'[i] = source[i]
  <2>1. CASE CreateStorageMigration(m)
    <3>1. \A i \in Items : i[2] \in Files
      BY DEF Items
    <3> QED
      BY <1>1, <2>1, <3>1 DEF CreateStorageMigration, TypeOK, IsNamed
  <2>2. CASE CancelStorageMigration(m)
    BY <2>2 DEF CancelStorageMigration
  <2>3. CASE RetryFailedStorageMigration(m)
    BY <1>1, <2>3 DEF RetryFailedStorageMigration, TypeOK
  <2> QED
    BY <2>1, <2>2, <2>3
<1>5. ASSUME NEW w \in Workers, doing[w] = "moved" PROVE Source(w)' = Source(w)
  <2>1. job[w].item \in Items /\ status[job[w].item[1]] # "none" /\ job' = job
    BY <1>1, <1>2, <1>5 DEF Claims, Busy, Job, workers
  <2> QED
    BY <1>4, <2>1 DEF Source
<1>6. SoleDoom'
  <2>1. \A o : TaskDooms(o)' => TaskDooms(o)
    BY <1>3 DEF TaskDooms
  <2> QED
    BY <1>2, <1>5, <2>1, OthersAreSole DEF CompletionInv
<1>7. Traces
  BY <1>2, <1>3, <1>4 DEF Traces, workers
<1>8. \A n \in Migrations, o \in Objects : Owes(n, o)' => Owes(n, o)
  BY <1>2, <1>3 DEF Owes
<1>9. /\ \A n \in Migrations : n # m => status'[n] = status[n]
      /\ \A i \in Items : i[1] # m => item'[i] = item[i]
      /\ status[m] # "none" \/ status'[m] # "none"
      /\ status'[m] = "completed" => status[m] = "none" /\ item' = item
  <2>1. CASE CreateStorageMigration(m)
    <3>1. /\ \A n \in Migrations : n # m => status'[n] = status[n]
          /\ \A i \in Items : i[1] # m => item'[i] = item[i]
          /\ status[m] = "none"
      BY <1>1, <2>1 DEF CreateStorageMigration, TypeOK
    <3>2. status'[m] \in {"completed", "open"}
      BY <1>1, <2>1 DEF CreateStorageMigration, TypeOK
    <3>3. ASSUME status'[m] = "completed" PROVE item' = item
      <4>1. {f \in Files : InOld(object[f])} = {}
        BY <1>1, <2>1, <3>3 DEF CreateStorageMigration, TypeOK
      <4>2. item' = [i \in Items |-> item[i]]
        BY <2>1, <4>1 DEF CreateStorageMigration
      <4> QED
        BY <1>1, <4>2 DEF TypeOK
    <3> QED
      BY <3>1, <3>2, <3>3
  <2>2. CASE CancelStorageMigration(m)
    BY <1>1, <2>2 DEF CancelStorageMigration, TypeOK
  <2>3. CASE RetryFailedStorageMigration(m)
    BY <1>1, <2>3 DEF RetryFailedStorageMigration, TypeOK
  <2> QED
    BY <2>1, <2>2, <2>3
<1>10. Opened'
  BY <1>1, <1>8, <1>9, OpenedStep DEF CompletionInv
<1>11. Decided'
  <2>1. \A i \in Items : i[1] \in Migrations
    BY DEF Items
  <2>2. \A i \in Items : status'[i[1]] = "completed" =>
           item'[i] \in Final \/ (status[i[1]] = "completed" /\ item'[i] = item[i])
    BY <1>9, <2>1 DEF CompletionInv, Opened, Final
  <2>3. \A n \in Migrations : status'[n] = "completed" =>
           \A o \in Objects \ Copies : Owes(n, o)' => status[n] = "completed" /\ Owes(n, o)
    BY <1>8, <1>9 DEF CompletionInv, Opened
  <2> QED
    BY <2>2, <2>3, DecidedStep DEF CompletionInv
<1> QED
  BY <1>4, <1>6, <1>7, <1>10, <1>11 DEF Accounts

\* A claim is of an item of an open migration.
LEMMA ClaimAccounts ==
  ASSUME CompletionInv, NEW w \in Workers, NEW i \in Items, ClaimStorageMigrationItem(w, i)
  PROVE  Accounts
<1>1. TypeOK /\ StatusStep
  BY ClaimTypes DEF CompletionInv, StorageInv, StepTypes
<1>2. UNCHANGED <<stored, status, source, task, taskOf, uploads, leaked>>
  BY DEF ClaimStorageMigrationItem, tasks
<1>3. /\ doing[w] = "idle" /\ doing'[w] = "copying"
      /\ \A v \in Workers : v # w => doing'[v] = doing[v] /\ job'[v] = job[v]
  BY <1>1 DEF ClaimStorageMigrationItem, TypeOK
<1>4. /\ status[i[1]] = "open" /\ item'[i] = "running"
      /\ \A k \in Items : k # i => item'[k] = item[k]
  BY <1>1 DEF ClaimStorageMigrationItem, TypeOK
<1>5. Traces
  BY <1>2, <1>3, <1>4 DEF Traces
<1>6. SoleDoom'
  <2>1. \A o : ~WorkerDooms(w, o)' /\ TaskDooms(o)' = TaskDooms(o)
    BY <1>2, <1>3 DEF WorkerDooms, TaskDooms
  <2> QED
    BY <1>2, <1>3, <2>1, WorkerIsSole DEF CompletionInv
<1>7. Opened' /\ Decided'
  BY <1>2, <1>4 DEF CompletionInv, Opened, Decided, Owes
<1> QED
  BY <1>2, <1>5, <1>6, <1>7 DEF Accounts

\* The copy of an item, and its failures: no row changes.
LEMMA CopyAccounts ==
  ASSUME CompletionInv, ~LostCommits, NEW w \in Workers,
         CopyObject(w) \/ CopyFails(w) \/ LeaseLost(w) \/ CompleteFails(w)
  PROVE  Accounts
<1>1. TypeOK /\ Claims
  BY DEF CompletionInv, StorageInv
<1>2. UNCHANGED <<status, item, source, task, taskOf, uploads, job>>
  BY DEF CopyObject, CopyFails, LeaseLost, CompleteFails, items, tasks
<1>3. /\ doing[w] \in {"copying", "copied"} /\ doing'[w] \in {"copied", "dropping", "failing"}
      /\ \A v \in Workers : v # w => doing'[v] = doing[v]
  BY <1>1 DEF CopyObject, CopyFails, LeaseLost, CompleteFails, TypeOK
<1>4. IsComing(Target(w))
  BY <1>1, <1>3, WorkerAlone
<1>5. /\ \A o \in stored' : o \in stored \/ o = Target(w)
      /\ \A o \in leaked : o \in leaked'
  BY DEF CopyObject, CopyFails, LeaseLost, CompleteFails
<1>6. Traces
  BY <1>2, <1>3, <1>4, <1>5 DEF Traces
<1>7. SoleDoom'
  <2>1. \A o : /\ WorkerDooms(w, o)' => IsComing(o)
               /\ TaskDooms(o)' = TaskDooms(o)
    BY <1>2, <1>3, <1>4 DEF WorkerDooms, TaskDooms, Target
  <2> QED
    BY <1>2, <1>3, <2>1, WorkerIsSole DEF CompletionInv
<1> QED
  BY <1>2, <1>6, <1>7, RowsStay DEF Accounts

\* refreshMigration completes a migration only when its items are final and no
\* task of it is open.
LEMMA RefreshDecides ==
  ASSUME TypeOK, NEW m \in Migrations, NEW it, NEW t, NEW of, refreshMigration(m, it, t, of)
  PROVE  /\ \A n \in Migrations : n # m => status'[n] = status[n]
         /\ status'[m] = "completed" =>
               \/ status[m] = "completed"
               \/ /\ \A f \in Files : it[<<m, f>>] \notin {"pending", "running", "failed"}
                  /\ \A o \in Objects : ~(t[o] # "none" /\ of[o] = m)
<1>1. \A n \in Migrations : n # m => status'[n] = status[n]
  BY DEF refreshMigration, TypeOK
<1>2. status'[m] = CASE status[m] = "cancelled"             -> status[m]
          [] SomeItem(m, it, {"pending", "running"}) -> status[m]
          [] SomeItem(m, it, {"failed"})             -> "completed_with_failures"
          [] CleanupPending(m, t, of)                -> "completed_with_cleanup_pending"
          [] OTHER                                   -> "completed"
  BY DEF refreshMigration, TypeOK
<1>3. CASE status[m] = "completed"
  BY <1>1, <1>3
<1>4. CASE status[m] # "completed"
  <2>1. status'[m] = "completed" => /\ ~SomeItem(m, it, {"pending", "running"})
                                    /\ ~SomeItem(m, it, {"failed"})
                                    /\ ~CleanupPending(m, t, of)
    BY <1>2, <1>4
  <2> QED
    BY <1>1, <2>1 DEF SomeItem, CleanupPending
<1> QED
  BY <1>3, <1>4

\* An item that ends: its migration may be completed.
LEMMA ItemEnds ==
  ASSUME CompletionInv, ItemTypes, StatusStep, NEW i \in Items, NEW s, item[i] = "running",
         status[i[1]] # "none",
         item' = [item EXCEPT ![i] = s], UNCHANGED <<task, taskOf>>,
         refreshMigration(i[1], item', task, taskOf)
  PROVE  Opened' /\ Decided'
<1> DEFINE m == i[1]
<1>1. TypeOK /\ m \in Migrations
  BY DEF CompletionInv, StorageInv, Items
<1>2. status[m] # "completed"
  BY DEF CompletionInv, Decided, Final
<1>3. \A k \in Items : k # i => item'[k] = item[k]
  BY <1>1 DEF TypeOK
<1>4. /\ \A n \in Migrations : n # m => status'[n] = status[n]
      /\ status'[m] = "completed" =>
            /\ \A f \in Files : item'[<<m, f>>] \notin {"pending", "running", "failed"}
            /\ \A o \in Objects : ~(task[o] # "none" /\ taskOf[o] = m)
  <2> HIDE DEF m
  <2>1. refreshMigration(m, item', task, taskOf)
    BY DEF m
  <2>2. \A n \in Migrations : n # m => status'[n] = status[n]
    BY <1>1, <2>1, RefreshDecides
  <2>3. status'[m] = "completed" =>
           \A f \in Files : item'[<<m, f>>] \notin {"pending", "running", "failed"}
    BY <1>1, <1>2, <2>1, RefreshDecides
  <2>4. status'[m] = "completed" => \A o \in Objects : ~(task[o] # "none" /\ taskOf[o] = m)
    BY <1>1, <1>2, <2>1, RefreshDecides
  <2> QED
    BY <2>2, <2>3, <2>4
<1>5. \A n \in Migrations, o \in Objects : Owes(n, o)' = Owes(n, o)
  BY DEF Owes
<1>6. Opened'
  BY <1>3, <1>5, OpenedStep DEF CompletionInv
<1>7. ASSUME NEW k \in Items, status'[k[1]] = "completed"
      PROVE  item'[k] \in Final \/ (status[k[1]] = "completed" /\ item'[k] = item[k])
  <2>1. CASE k[1] = m
    <3>1. k = <<m, k[2]>> /\ k[2] \in Files
      BY <2>1 DEF Items
    <3>2. item'[k] \notin {"pending", "running", "failed"}
      BY <1>4, <1>7, <2>1, <3>1
    <3> QED
      BY <3>2 DEF ItemTypes, Final
  <2>2. CASE k[1] # m
    BY <1>3, <1>4, <1>7, <2>2 DEF Items
  <2> QED
    BY <2>1, <2>2
<1>8. \A n \in Migrations : status'[n] = "completed" =>
         \A o \in Objects \ Copies : Owes(n, o)' => status[n] = "completed" /\ Owes(n, o)
  BY <1>4, <1>5 DEF Owes
<1>9. Decided'
  BY <1>7, <1>8, DecidedStep DEF CompletionInv
<1> QED
  BY <1>6, <1>9

\* The transaction that moves the row: from here on the worker, and nobody
\* else, is about to delete the source.
LEMMA CompleteAccounts ==
  ASSUME CompletionInv, NEW w \in Workers, CompleteStorageMigrationItem(w)
  PROVE  Accounts
<1> DEFINE i == job[w].item
<1>1. TypeOK /\ Claims
  BY DEF CompletionInv, StorageInv
<1>2. UNCHANGED <<stored, source, count, task, taskOf, uploads, job, leaked>>
  BY DEF CompleteStorageMigrationItem, MoveRow
<1>3. Busy(w) /\ doing[w] = "copied"
  BY DEF CompleteStorageMigrationItem, Busy
<1>4. i \in Items /\ File(w) \in Files /\ status[i[1]] # "none"
  BY <1>1, <1>3, BusyIs DEF Migration
<1>5. /\ doing'[w] = IF Unchanged(File(w), Source(w)) THEN "moved" ELSE "dropping"
      /\ \A v \in Workers : v # w => doing'[v] = doing[v]
  BY <1>1 DEF CompleteStorageMigrationItem, TypeOK
<1>6. PICK s : item' = [item EXCEPT ![i] = s] /\ (s = "succeeded" => Unchanged(File(w), Source(w)))
  <2>1. CASE Unchanged(File(w), Source(w))
    BY <2>1 DEF CompleteStorageMigrationItem, MoveRow
  <2>2. CASE ~Unchanged(File(w), Source(w))
    BY <2>2 DEF CompleteStorageMigrationItem, MoveRow
  <2> QED
    BY <2>1, <2>2
<1>7. item[i] = "running" /\ refreshMigration(i[1], item', task, taskOf)
  BY DEF CompleteStorageMigrationItem, MoveRow, OwnsLease
<1>8. ItemTypes /\ StatusStep
  BY <1>1, <1>3, MoveRowIs DEF CompleteStorageMigrationItem
<1>9. Opened' /\ Decided'
  BY <1>2, <1>4, <1>6, <1>7, <1>8, ItemEnds
<1>10. Traces
  <2>1. \A k \in Items : /\ k # i => item'[k] = item[k]
                         /\ k = i => item'[k] = s
    BY <1>1, <1>4, <1>6 DEF TypeOK
  <2>2. \A k \in Items : item'[k] = "succeeded" =>
           item[k] = "succeeded" \/ \E v \in Workers : doing'[v] = "moved" /\ job'[v].item = k
    BY <1>2, <1>5, <1>6, <2>1
  <2> QED
    BY <1>2, <1>3, <1>5, <2>2 DEF Traces
<1>11. SoleDoom'
  <2>1. IsComing(Target(w))
    BY <1>1, <1>3, WorkerAlone
  <2>2. Target(w)' = Target(w) /\ Source(w)' = Source(w)
    BY <1>2 DEF Target, Source
  <2>4. \A o : WorkerDooms(w, o)' => \/ IsComing(o)
                                     \/ doing'[w] = "moved" /\ o = Source(w)
    BY <2>1, <2>2 DEF WorkerDooms
  <2>5. \A o : TaskDooms(o)' = TaskDooms(o)
    BY <1>2 DEF TaskDooms
  <2>3. doing'[w] = "moved" => IsNamed(Source(w))
    BY <1>4, <1>5 DEF Unchanged, IsNamed
  <2> QED
    BY <1>2, <1>5, <2>3, <2>4, <2>5, WorkerIsSole DEF CompletionInv
<1> QED
  BY <1>2, <1>9, <1>10, <1>11 DEF Accounts

\* An item fails, or starts again.
LEMMA FailAccounts ==
  ASSUME CompletionInv, NEW w \in Workers, FailStorageMigrationItem(w)
  PROVE  Accounts
<1> DEFINE i == job[w].item
<1>1. TypeOK /\ Claims
  BY DEF CompletionInv, StorageInv
<1>2. UNCHANGED <<stored, source, count, task, taskOf, uploads, leaked>>
  BY DEF FailStorageMigrationItem
<1>3. Busy(w) /\ doing[w] = "failing"
  BY DEF FailStorageMigrationItem, Busy
<1>4. i \in Items /\ status[i[1]] # "none"
  BY <1>1, <1>3, BusyIs DEF Migration
<1>5. /\ doing'[w] = "idle"
      /\ \A v \in Workers : v # w => doing'[v] = doing[v] /\ job'[v] = job[v]
  BY <1>1 DEF FailStorageMigrationItem, Rest, TypeOK
<1>6. Opened' /\ Decided' /\ \A k \in Items : item'[k] = "succeeded" => item[k] = "succeeded"
  <2>1. CASE OwnsLease(w) /\ refreshMigration(i[1], item', task, taskOf)
             /\ item' = [item EXCEPT ![i] =
                    IF error[w] = "permanent" \/ job[w].try >= MaxAttempts
                    THEN "failed" ELSE "pending"]
    <3>1. PICK s \in {"failed", "pending"} : item' = [item EXCEPT ![i] = s]
      BY <2>1
    <3>2. ItemTypes /\ StatusStep
      BY <1>1, FailTypes DEF StepTypes
    <3>3. Opened' /\ Decided'
      BY <1>2, <1>4, <2>1, <3>1, <3>2, ItemEnds DEF OwnsLease
    <3> QED
      BY <1>1, <3>1, <3>3 DEF TypeOK
  <2>2. CASE UNCHANGED <<status, item, task, taskOf>>
    BY <2>2, RowsStay
  <2> QED
    BY <2>1, <2>2 DEF FailStorageMigrationItem
<1>7. Traces
  BY <1>2, <1>3, <1>5, <1>6 DEF Traces
<1>8. SoleDoom'
  <2>1. \A o : ~WorkerDooms(w, o)' /\ TaskDooms(o)' = TaskDooms(o)
    BY <1>2, <1>5 DEF WorkerDooms, TaskDooms
  <2> QED
    BY <1>2, <1>5, <2>1, WorkerIsSole DEF CompletionInv
<1> QED
  BY <1>2, <1>6, <1>7, <1>8 DEF Accounts

\* What deleteOrEnqueue makes of the object, its task and the migration.
LEMMA DeleteAccounts ==
  ASSUME TypeOK, NEW x \in Objects, NEW m, NEW b \in BOOLEAN, deleteOrEnqueue(x, m, b)
  PROVE  /\ \A o \in stored' : o \in stored
         /\ \A o \in leaked : o \in leaked'
         /\ \A o \in Objects : o # x \/ task[x] # "none" =>
               task'[o] = task[o] /\ taskOf'[o] = taskOf[o]
         /\ x \notin stored' \/ x \in leaked' \/ task'[x] # "none"
         /\ task[x] = "none" /\ task'[x] # "none" =>
               taskOf'[x] = m /\ (IF b THEN NotQuiteCompleted(m) ELSE UNCHANGED status)
         /\ \A n \in Migrations : status'[n] = "completed" => status[n] = "completed"
         /\ ~b => UNCHANGED status
<1>1. CASE stored' = stored \ {x} /\ UNCHANGED <<tasks, status, leaked>>
  BY <1>1 DEF tasks
<1>2. CASE /\ Enqueue(x, m)
           /\ IF b THEN NotQuiteCompleted(m) ELSE UNCHANGED status
           /\ UNCHANGED <<stored, leaked>>
  <2>1. \A n \in Migrations : status'[n] = "completed" => status[n] = "completed"
    BY <1>2 DEF NotQuiteCompleted, TypeOK
  <2>2. CASE task[x] # "none"
    BY <1>2, <2>1, <2>2 DEF Enqueue, tasks
  <2>3. CASE task[x] = "none"
    <3>1. /\ task'[x] = "pending" /\ taskOf'[x] = m
          /\ \A o \in Objects : o # x => task'[o] = task[o] /\ taskOf'[o] = taskOf[o]
      BY <1>2, <2>3 DEF Enqueue, TypeOK
    <3> QED
      BY <1>2, <2>1, <2>3, <3>1
  <2> QED
    BY <2>2, <2>3
<1>3. CASE leaked' = leaked \cup {x} /\ UNCHANGED <<stored, tasks, status>>
  BY <1>3 DEF tasks
<1> QED
  BY <1>1, <1>2, <1>3 DEF deleteOrEnqueue

\* A compensation may enqueue a task of a completed migration: for a copy.
LEMMA DropCopyAccounts ==
  ASSUME CompletionInv, NEW w \in Workers, DropCopy(w)
  PROVE  Accounts
<1>1. TypeOK /\ Claims
  BY DEF CompletionInv, StorageInv
<1>2. Busy(w) /\ doing[w] = "dropping" /\ WorkerDooms(w, Target(w))
  BY DEF DropCopy, Busy, WorkerDooms
<1>3. /\ Target(w) \in Objects /\ Migration(w) \in Migrations
      /\ job[w] \in Job /\ status[Migration(w)] # "none"
  BY <1>1, <1>2, BusyIs
<1>4. Target(w) \in Copies
  BY <1>3, ObjectTypes DEF Target
<1>5. deleteOrEnqueue(Target(w), Migration(w), FALSE) /\ UNCHANGED <<item, source, count, uploads>>
  BY DEF DropCopy
<1>6. /\ \A o \in stored' : o \in stored
      /\ \A o \in leaked : o \in leaked'
      /\ \A o \in Objects : o # Target(w) \/ task[Target(w)] # "none" =>
            task'[o] = task[o] /\ taskOf'[o] = taskOf[o]
      /\ task[Target(w)] = "none" /\ task'[Target(w)] # "none" => taskOf'[Target(w)] = Migration(w)
      /\ UNCHANGED status
  BY <1>1, <1>3, <1>5, DeleteAccounts
<1>7. /\ doing'[w] \in {"idle", "failing"}
      /\ \A v \in Workers : v # w => doing'[v] = doing[v] /\ job'[v] = job[v]
  BY <1>1 DEF DropCopy, Rest, TypeOK
<1>8. Traces
  BY <1>2, <1>5, <1>6, <1>7 DEF Traces
<1>9. SoleDoom'
  <2>1. \A o : ~WorkerDooms(w, o)' /\ (TaskDooms(o)' => TaskDooms(o) \/ o = Target(w))
    BY <1>6, <1>7 DEF WorkerDooms, TaskDooms
  <2>2. doing'[w] # "moved" /\ WorkerDooms(w, Target(w))
    BY <1>2, <1>7
  <2> QED
    BY <1>5, <1>7, <2>1, <2>2, WorkerIsSole DEF CompletionInv
<1>10. Opened'
  <2>1. \A m \in Migrations, o \in Objects : Owes(m, o)' => Owes(m, o) \/ m = Migration(w)
    BY <1>6 DEF Owes
  <2> QED
    BY <1>3, <1>5, <1>6, <2>1 DEF CompletionInv, Opened
<1>11. Decided'
  <2>1. \A m \in Migrations, o \in Objects \ Copies : Owes(m, o)' = Owes(m, o)
    BY <1>4, <1>6 DEF Owes
  <2> QED
    BY <1>5, <1>6, <2>1 DEF CompletionInv, Decided
<1> QED
  BY <1>5, <1>8, <1>9, <1>10, <1>11 DEF Accounts

\* The worker deletes the source, loses it, or enqueues a task of its migration,
\* which is then not completed.
LEMMA DropSourceAccounts ==
  ASSUME CompletionInv, NEW w \in Workers, DropSource(w)
  PROVE  Accounts
<1>1. TypeOK /\ Claims
  BY DEF CompletionInv, StorageInv
<1>2. Busy(w) /\ doing[w] = "moved" /\ WorkerDooms(w, Source(w))
  BY DEF DropSource, Busy, WorkerDooms
<1>3. Source(w) \in Objects /\ Migration(w) \in Migrations /\ status[Migration(w)] # "none"
  BY <1>1, <1>2, BusyIs DEF Claims
<1>4. task[Source(w)] = "none"
  BY <1>2, <1>3 DEF CompletionInv, SoleDoom, TaskDooms
<1>5. deleteOrEnqueue(Source(w), Migration(w), TRUE) /\ UNCHANGED <<item, source, count, uploads>>
  BY DEF DropSource
<1>6. /\ \A o \in stored' : o \in stored
      /\ \A o \in leaked : o \in leaked'
      /\ \A o \in Objects : o # Source(w) => task'[o] = task[o] /\ taskOf'[o] = taskOf[o]
      /\ Source(w) \notin stored' \/ Source(w) \in leaked' \/ task'[Source(w)] # "none"
      /\ task'[Source(w)] # "none" =>
            taskOf'[Source(w)] = Migration(w) /\ NotQuiteCompleted(Migration(w))
      /\ \A n \in Migrations : status'[n] = "completed" => status[n] = "completed"
  BY <1>1, <1>3, <1>4, <1>5, DeleteAccounts
<1>7. /\ doing'[w] = "idle"
      /\ \A v \in Workers : v # w => doing'[v] = doing[v] /\ job'[v] = job[v]
  BY <1>1 DEF DropSource, Rest, TypeOK
<1>8. Traces
  <2>1. \A o \in Objects : task[o] # "none" => task'[o] # "none" /\ taskOf'[o] = taskOf[o]
    BY <1>4, <1>6
  <2> QED
    BY <1>5, <1>6, <1>7, <2>1 DEF Traces
<1>9. SoleDoom'
  <2>1. \A o : ~WorkerDooms(w, o)' /\ (TaskDooms(o)' => TaskDooms(o) \/ o = Source(w))
    BY <1>6, <1>7 DEF WorkerDooms, TaskDooms
  <2>2. doing'[w] # "moved" /\ WorkerDooms(w, Source(w))
    BY <1>2, <1>7
  <2> QED
    BY <1>5, <1>7, <2>1, <2>2, WorkerIsSole DEF CompletionInv
<1>10. StatusStep
  BY <1>1, DropTypes DEF StepTypes
<1>11. Opened'
  <2>1. \A m \in Migrations, o \in Objects : Owes(m, o)' => Owes(m, o) \/ m = Migration(w)
    BY <1>6 DEF Owes
  <2> QED
    BY <1>3, <1>5, <1>10, <2>1, OpenedStep DEF CompletionInv
<1>12. Decided'
  <2>1. \A i \in Items : i[1] \in Migrations
    BY DEF Items
  <2>2. NotQuiteCompleted(Migration(w)) => status'[Migration(w)] # "completed"
    BY <1>1, <1>3, NoMigrationAssumption DEF NotQuiteCompleted, TypeOK
  <2>3. \A m \in Migrations : status'[m] = "completed" =>
           \A o \in Objects \ Copies : Owes(m, o)' => Owes(m, o)
    BY <1>6, <2>2 DEF Owes
  <2> QED
    BY <1>5, <1>6, <2>1, <2>3, DecidedStep DEF CompletionInv
<1> QED
  BY <1>5, <1>8, <1>9, <1>11, <1>12 DEF Accounts

\* A stop of the gateway loses the source its worker was about to delete.
LEMMA CrashAccounts ==
  ASSUME CompletionInv, NEW w \in Workers, Crash(w)
  PROVE  Accounts
<1>1. TypeOK
  BY DEF CompletionInv, StorageInv
<1>2. UNCHANGED <<stored, status, item, source, task, taskOf, uploads>>
  BY DEF Crash, items, tasks
<1>3. /\ doing'[w] = "idle"
      /\ \A v \in Workers : v # w => doing'[v] = doing[v] /\ job'[v] = job[v]
  BY <1>1 DEF Crash, Rest, TypeOK
<1>4. /\ \A o \in leaked : o \in leaked'
      /\ doing[w] = "moved" => Source(w) \in leaked'
  BY DEF Crash
<1>5. Traces
  BY <1>2, <1>3, <1>4 DEF Traces
<1>6. SoleDoom'
  <2>1. \A o : ~WorkerDooms(w, o)' /\ TaskDooms(o)' = TaskDooms(o)
    BY <1>2, <1>3 DEF WorkerDooms, TaskDooms
  <2> QED
    BY <1>2, <1>3, <2>1, WorkerIsSole DEF CompletionInv
<1> QED
  BY <1>2, <1>5, <1>6, RowsStay DEF Accounts

\* An upload leaves the rows of migrations alone, and its tasks are no
\* migration's; what it puts was coming.
LEMMA UploadAccounts ==
  ASSUME CompletionInv, ~LostCommits, NEW u \in Uploads,
         \/ \E p \in Profiles : PutFails(u, p) \/ \E f \in Files : PutUpload(u, f, p)
         \/ ReplaceFile(u) \/ ReplaceFails(u) \/ DropUpload(u) \/ UploadCrash(u)
  PROVE  Accounts
<1>1. TypeOK /\ Claims
  BY DEF CompletionInv, StorageInv
<1>2. UNCHANGED <<item, source, workers>>
  BY DEF PutFails, PutUpload, ReplaceFile, ReplaceFails, DropUpload, UploadCrash, items
<1>3. \A v \in Uploads : v # u => at'[v] = at[v] /\ draft'[v] = draft[v]
  <2>1. at \in [Uploads -> {"new", "stored", "dropping", "replaced", "done"}]
        /\ draft \in [Uploads -> Draft \cup {NoDraft}]
    BY <1>1 DEF TypeOK
  <2>2. CASE ReplaceFile(u)
    BY <2>1, <2>2 DEF ReplaceFile
  <2>3. CASE \E p \in Profiles : PutFails(u, p) \/ \E f \in Files : PutUpload(u, f, p)
    BY <2>1, <2>3 DEF PutFails, PutUpload
  <2>4. CASE ReplaceFails(u) \/ DropUpload(u) \/ UploadCrash(u)
    BY <2>1, <2>4 DEF ReplaceFails, DropUpload, UploadCrash
  <2> QED
    BY <2>2, <2>3, <2>4
<1>4. /\ \A o \in stored' : o \in stored \/ IsComing(o)
      /\ \A o \in leaked : o \in leaked'
      /\ \A o : UploadDooms(u, o)' => UploadDooms(u, o) \/ IsComing(o) \/ IsNamed(o)
      /\ \A o \in Objects : task[o] # "none" => task'[o] = task[o] /\ taskOf'[o] = taskOf[o]
      /\ \A o \in Objects : task[o] = "none" /\ task'[o] # "none" =>
            UploadDooms(u, o) /\ taskOf'[o] = NoMigration
      /\ UNCHANGED status
  <2> DEFINE Goal == /\ \A o \in stored' : o \in stored \/ IsComing(o)
                     /\ \A o \in leaked : o \in leaked'
                     /\ \A o : UploadDooms(u, o)' => UploadDooms(u, o) \/ IsComing(o) \/ IsNamed(o)
                     /\ \A o \in Objects : task[o] # "none" =>
                           task'[o] = task[o] /\ taskOf'[o] = taskOf[o]
                     /\ \A o \in Objects : task[o] = "none" /\ task'[o] # "none" =>
                           UploadDooms(u, o) /\ taskOf'[o] = NoMigration
                     /\ UNCHANGED status
  <2>1. ASSUME NEW p \in Profiles, PutFails(u, p) \/ \E f \in Files : PutUpload(u, f, p)
        PROVE  Goal
    <3>1. IsComing(Fresh(u, p))
      BY <2>1 DEF PutFails, PutUpload, IsComing, UploadBrings
    <3>2. UNCHANGED <<status, task, taskOf>> /\ at'[u] \in {"stored", "done"}
      BY <1>1, <2>1 DEF PutFails, PutUpload, items, tasks, TypeOK
    <3>3. /\ \A o \in stored' : o \in stored \/ o = Fresh(u, p)
          /\ \A o \in leaked : o \in leaked'
      BY <2>1 DEF PutFails, PutUpload
    <3> QED
      BY <3>1, <3>2, <3>3 DEF UploadDooms
  <2>2. CASE ReplaceFile(u)
    <3>1. draft[u].file \in Files
      BY <1>1, <2>2, DraftIs DEF ReplaceFile, Drafted
    <3>2. at'[u] = "replaced" /\ draft'[u].old = object[draft[u].file]
      BY <1>1, <2>2 DEF ReplaceFile, TypeOK
    <3>3. UNCHANGED <<status, task, taskOf, stored, leaked>>
      BY <2>2 DEF ReplaceFile, items, tasks
    <3>4. \A o : UploadDooms(u, o)' => IsNamed(o)
      BY <3>1, <3>2 DEF UploadDooms, IsNamed
    <3> QED
      BY <3>3, <3>4
  <2>3. CASE ReplaceFails(u)
    <3>1. at[u] = "stored" /\ at'[u] = "dropping" /\ draft' = draft
      BY <1>1, <2>3 DEF ReplaceFails, TypeOK
    <3>2. \A o : UploadDooms(u, o)' => IsComing(o)
      BY <3>1 DEF UploadDooms, IsComing, UploadBrings, UploadWrites
    <3>3. UNCHANGED <<status, task, taskOf, stored, leaked>>
      BY <2>3 DEF ReplaceFails, items, tasks
    <3> QED
      BY <3>2, <3>3
  <2>4. CASE DropUpload(u)
    <3>1. draft[u].object \in Objects /\ (at[u] = "replaced" => draft[u].old \in Objects)
      BY <1>1, <2>4, DraftIs DEF DropUpload, Drafted, Claims
    <3>2. PICK x \in Objects : UploadDooms(u, x) /\ deleteOrEnqueue(x, NoMigration, FALSE)
      BY <2>4, <3>1 DEF DropUpload, UploadDooms
    <3>3. /\ \A o \in stored' : o \in stored
          /\ \A o \in leaked : o \in leaked'
          /\ \A o \in Objects : o # x \/ task[x] # "none" =>
                task'[o] = task[o] /\ taskOf'[o] = taskOf[o]
          /\ task[x] = "none" /\ task'[x] # "none" => taskOf'[x] = NoMigration
          /\ UNCHANGED status
      BY <1>1, <3>2, DeleteAccounts
    <3>4. \A o : ~UploadDooms(u, o)'
      BY <1>1, <2>4 DEF DropUpload, UploadDooms, TypeOK
    <3> QED
      BY <3>2, <3>3, <3>4
  <2>5. CASE UploadCrash(u)
    <3>1. UNCHANGED <<status, task, taskOf, stored>> /\ \A o \in leaked : o \in leaked'
      BY <2>5 DEF UploadCrash, items, tasks
    <3>2. \A o : ~UploadDooms(u, o)'
      BY <1>1, <2>5 DEF UploadCrash, UploadDooms, TypeOK
    <3> QED
      BY <3>1, <3>2
  <2> QED
    BY <2>1, <2>2, <2>3, <2>4, <2>5
<1>5. Traces
  BY <1>2, <1>4 DEF Traces, workers
<1>6. SoleDoom'
  <2>1. \A o : TaskDooms(o)' => TaskDooms(o) \/ UploadDooms(u, o)
    BY <1>4 DEF TaskDooms
  <2> QED
    BY <1>2, <1>3, <1>4, <2>1, UploadIsSole DEF CompletionInv
<1>7. Opened' /\ Decided'
  <2>1. \A m \in Migrations, o \in Objects : Owes(m, o)' => Owes(m, o)
    BY <1>4, NoMigrationAssumption DEF Owes
  <2> QED
    BY <1>2, <1>4, <2>1 DEF CompletionInv, Opened, Decided
<1> QED
  BY <1>2, <1>5, <1>6, <1>7 DEF Accounts

\* A task ends when its object is deleted, and its migration may be completed.
LEMMA SweeperAccounts ==
  ASSUME CompletionInv, NEW s \in Sweepers,
         FinishCleanupTask(s) \/ SweeperCrash(s) \/ \E o \in Objects : ClaimCleanupTask(s, o)
  PROVE  Accounts
<1>1. TypeOK /\ Claims
  BY DEF CompletionInv, StorageInv
<1>2. UNCHANGED <<item, source, leaked, workers, uploads>>
  BY DEF FinishCleanupTask, SweeperCrash, ClaimCleanupTask, items
<1>3. /\ StatusStep
      /\ \A o \in stored' : o \in stored
      /\ \A o : TaskDooms(o)' => TaskDooms(o)
  BY <1>1, SweeperIs DEF StepTypes
<1>4. SoleDoom'
  BY <1>2, <1>3, OthersAreSole DEF CompletionInv, Source, workers
<1> DEFINE Goal == /\ \A o \in Objects : task[o] # "none" =>
                         o \notin stored' \/ (task'[o] # "none" /\ taskOf'[o] = taskOf[o])
                   /\ \A m \in Migrations, o \in Objects : Owes(m, o)' => Owes(m, o)
                   /\ Decided'
<1>5. ASSUME FinishCleanupTask(s) PROVE Goal
  <2> DEFINE o == sweeping[s].object
  <2>1. o \in Objects
    BY <1>1, <1>5 DEF FinishCleanupTask, Claims, Sweep
  <2>2. PICK deleted \in BOOLEAN :
             /\ stored' = IF deleted THEN stored \ {o} ELSE stored
             /\ IF task[o] = "running" /\ sweeps[o] = sweeping[s].try
                THEN /\ task' = [task EXCEPT ![o] = IF deleted THEN "none" ELSE "failed"]
                     /\ taskOf' = IF deleted THEN [taskOf EXCEPT ![o] = NoMigration] ELSE taskOf
                     /\ sweeps' = IF deleted THEN [sweeps EXCEPT ![o] = 0] ELSE sweeps
                     /\ UNCHANGED item
                     /\ IF taskOf[o] # NoMigration THEN refreshMigration(taskOf[o], item, task', taskOf')
                        ELSE UNCHANGED status
                ELSE UNCHANGED <<tasks, item, status>>
    BY <1>5 DEF FinishCleanupTask
  <2>3. /\ \A x \in Objects : task[x] # "none" =>
               x \notin stored' \/ (task'[x] # "none" /\ taskOf'[x] = taskOf[x])
        /\ \A x \in Objects : task'[x] # "none" => task[x] # "none" /\ taskOf'[x] = taskOf[x]
    <3>1. CASE UNCHANGED tasks
      BY <3>1 DEF tasks
    <3>2. CASE /\ task[o] = "running"
               /\ task' = [task EXCEPT ![o] = IF deleted THEN "none" ELSE "failed"]
               /\ taskOf' = IF deleted THEN [taskOf EXCEPT ![o] = NoMigration] ELSE taskOf
      <4>1. CASE deleted
        BY <1>1, <2>1, <2>2, <3>2, <4>1 DEF TypeOK
      <4>2. CASE ~deleted
        BY <1>1, <2>1, <3>2, <4>2 DEF TypeOK
      <4> QED
        BY <4>1, <4>2
    <3> QED
      BY <2>2, <3>1, <3>2
  <2>4. \A m \in Migrations, x \in Objects : Owes(m, x)' => Owes(m, x)
    BY <2>3 DEF Owes
  <2>5. CASE UNCHANGED status
    BY <1>2, <2>3, <2>4, <2>5 DEF CompletionInv, Decided
  <2>6. CASE taskOf[o] # NoMigration /\ refreshMigration(taskOf[o], item, task', taskOf')
    <3> DEFINE m == taskOf[o]
    <3>1. m \in Migrations
      BY <1>1, <2>1, <2>6 DEF TypeOK
    <3>2. refreshMigration(m, item, task', taskOf')
      BY <2>6
    <3> HIDE DEF m
    <3>3. \A n \in Migrations : n # m => status'[n] = status[n]
      BY <1>1, <3>1, <3>2, RefreshDecides
    <3>4. status'[m] = "completed" =>
             \/ status[m] = "completed"
             \/ \A f \in Files : item[<<m, f>>] \notin {"pending", "running", "failed"}
      BY <1>1, <3>1, <3>2, RefreshDecides
    <3>5. status'[m] = "completed" =>
             \/ status[m] = "completed"
             \/ \A x \in Objects : ~(task'[x] # "none" /\ taskOf'[x] = m)
      BY <1>1, <3>1, <3>2, RefreshDecides
    <3>6. ASSUME NEW i \in Items, status'[i[1]] = "completed"
          PROVE  item'[i] \in Final \/ (status[i[1]] = "completed" /\ item'[i] = item[i])
      <4>1. i = <<i[1], i[2]>> /\ i[1] \in Migrations /\ i[2] \in Files
        BY DEF Items
      <4>2. item[i] \in {"none", "pending", "running", "succeeded", "failed", "skipped"}
        BY <1>1 DEF TypeOK
      <4> QED
        BY <1>2, <3>3, <3>4, <3>6, <4>1, <4>2 DEF Final
    <3>7. \A n \in Migrations : status'[n] = "completed" =>
             \A x \in Objects \ Copies : Owes(n, x)' => status[n] = "completed" /\ Owes(n, x)
      BY <2>4, <3>3, <3>5 DEF Owes
    <3>8. Decided'
      BY <3>6, <3>7, DecidedStep DEF CompletionInv
    <3> QED
      BY <2>3, <2>4, <3>8
  <2> QED
    BY <2>2, <2>5, <2>6
<1>6. ASSUME SweeperCrash(s) \/ \E o \in Objects : ClaimCleanupTask(s, o) PROVE Goal
  <2>1. \A x \in Objects : (task'[x] # "none") = (task[x] # "none") /\ taskOf'[x] = taskOf[x]
    BY <1>1, <1>6 DEF SweeperCrash, ClaimCleanupTask, tasks, TypeOK
  <2>2. status' = status
    BY <1>6 DEF SweeperCrash, ClaimCleanupTask, items
  <2> QED
    BY <1>2, <2>1, <2>2 DEF CompletionInv, Decided, Owes
<1>7. Goal
  BY <1>5, <1>6
<1>8. Opened'
  BY <1>2, <1>3, <1>7, OpenedStep DEF CompletionInv
<1>9. Traces
  BY <1>2, <1>3, <1>7 DEF Traces, workers
<1> QED
  BY <1>2, <1>4, <1>7, <1>8, <1>9 DEF Accounts

LEMMA CompletionInit == Init => CompletionInv
<1> SUFFICES ASSUME Init PROVE CompletionInv
  OBVIOUS
<1>1. StorageInv
  BY InitInv
<1>2. /\ \A i \in Items : item[i] = "none" /\ source[i] = NoObject
      /\ \A o \in Objects : task[o] = "none"
      /\ \A m \in Migrations : status[m] = "none"
      /\ \A w \in Workers : doing[w] = "idle"
  BY DEF Init
<1>3. Opened /\ Decided
  BY <1>2 DEF Opened, Decided, Owes, Final
<1>4. Snapshots /\ Followed /\ SoleDoom
  BY <1>2, NoObjectAssumption DEF Snapshots, Followed, SoleDoom
<1> QED
  BY <1>1, <1>3, <1>4 DEF CompletionInv

LEMMA NextAccounts ==
  ASSUME CompletionInv, ~LostCommits, Next
  PROVE  Accounts
BY MigrationAccounts, ClaimAccounts, CopyAccounts, CompleteAccounts, DropCopyAccounts,
   DropSourceAccounts, FailAccounts, CrashAccounts, UploadAccounts, SweeperAccounts DEF Next

LEMMA CompletionNext ==
  ASSUME CompletionInv, ~LostCommits, Next
  PROVE  CompletionInv'
<1>1. Accounts
  BY NextAccounts
<1>2. TypeOK' /\ AbstractStep /\ StorageInv'
  BY NextIsAbstract, NextStep DEF CompletionInv
<1>3. Snapshots'
  BY <1>1, <1>2, SnapshotsStep DEF CompletionInv, Accounts
<1>4. Followed'
  BY <1>1, <1>2, FollowedStep DEF CompletionInv, Accounts
<1> QED
  BY <1>1, <1>2, <1>3, <1>4 DEF CompletionInv, Accounts

LEMMA CompletionStutter ==
  ASSUME CompletionInv, UNCHANGED vars
  PROVE  CompletionInv'
<1>1. UNCHANGED <<object, stored, leaked, status, item, source, count, task, taskOf,
                  workers, uploads>>
  BY DEF vars, files, items, tasks
<1>2. Opened' /\ Decided'
  BY <1>1, RowsStay
<1>3. \A o : IsComing(o)' = IsComing(o)
  BY <1>1 DEF IsComing, WorkerBrings, UploadBrings, UploadWrites, Unused, Target, workers, uploads
<1>4. Snapshots'
  <2>1. \A i \in Items : \A o : o = source'[i] /\ o \in Objects => ~IsComing(o)'
    BY <1>1, <1>3 DEF CompletionInv, Snapshots
  <2> QED
    BY <2>1 DEF Snapshots
<1>5. Followed'
  BY <1>1 DEF CompletionInv, Followed, Traced, workers
<1>6. SoleDoom'
  BY <1>1, OthersAreSole DEF CompletionInv, TaskDooms, Source, workers
<1> QED
  BY <1>2, <1>4, <1>5, <1>6, StutterStep DEF CompletionInv

\* In every state the status of a migration, its items, its cleanup tasks and
\* the workers that delete its sources agree, when a commit that is reported as
\* failed did not take place (refreshMigration, deleteOrEnqueue and the
\* transaction of CompleteStorageMigrationItem).
THEOREM Accounted ==
  ASSUME ~LostCommits
  PROVE  Spec => []CompletionInv
<1>1. Init => CompletionInv
  BY CompletionInit
<1>2. CompletionInv /\ [Next]_vars => CompletionInv'
  BY CompletionNext, CompletionStutter
<1> QED
  BY <1>1, <1>2, PTL DEF Spec

\* A completed migration has moved or skipped every file of its snapshot, and
\* the sources of those it moved are deleted, but for one that a worker is just
\* deleting and those lost in a stop or with a task that could not be written.
THEOREM CompletedMigrations ==
  ASSUME ~LostCommits
  PROVE  Spec => []CompletedIsComplete
<1>1. ASSUME CompletionInv PROVE CompletedIsComplete
  <2> SUFFICES ASSUME NEW m \in Migrations, status[m] = "completed", NEW f \in Files
               PROVE  /\ item[<<m, f>>] \in {"none", "succeeded", "skipped"}
                      /\ item[<<m, f>>] = "succeeded" =>
                            source[<<m, f>>] \notin stored \ (Held \cup leaked)
    BY DEF CompletedIsComplete
  <2> DEFINE i == <<m, f>>
  <2>1. i \in Items /\ i[1] = m
    BY DEF Items
  <2>2. item[i] \in Final
    BY <1>1, <2>1 DEF CompletionInv, Decided
  <2>3. ASSUME item[i] = "succeeded", source[i] \in stored
        PROVE  source[i] \in Held \/ source[i] \in leaked
    <3>1. Traced(i)
      BY <1>1, <2>1, <2>3 DEF CompletionInv, Followed
    <3>2. source[i] \in Objects \ Copies
      BY <1>1, <2>1, <2>3 DEF CompletionInv, StorageInv, Origins, TypeOK
    <3>3. ~(task[source[i]] # "none" /\ taskOf[source[i]] = i[1])
      BY <1>1, <2>1, <3>2 DEF CompletionInv, Decided, Owes
    <3>4. ASSUME NEW w \in Workers, doing[w] = "moved", job[w].item = i
          PROVE  source[i] \in Held
      BY <3>4 DEF Held, Source
    <3> QED
      BY <3>1, <3>3, <3>4 DEF Traced
  <2> QED
    BY <2>2, <2>3 DEF Final
<1> QED
  BY <1>1, Accounted, PTL
=============================================================================
