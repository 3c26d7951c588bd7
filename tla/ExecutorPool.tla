---------------------------- MODULE ExecutorPool ----------------------------
(***************************************************************************)
(* The slot pool of the persistent app-server executor                     *)
(* (client/apps/daemon/src/runs/persistent-app-server-executor-*.ts).      *)
(*                                                                         *)
(* A slot owns one Codex app-server process.  It executes one run at a     *)
(* time, and remembers the threads it has run: a thread is resumed only by *)
(* the process that established it.  The run manager asks CanStart before  *)
(* it takes a run out of its queue, and start (SelectSlot, Occupy) in a    *)
(* later microtask.                                                        *)
(*                                                                         *)
(* A pool is a function from slots to records: the threads the slot owns   *)
(* and the run it executes.  A slot that has been created owns at least    *)
(* the thread it was created for, so the slots with no thread are the ones *)
(* the code has not created.  With MaxConcurrency = 1 the code uses a      *)
(* single slot executor that accepts any thread when it is not busy, which *)
(* is what a pool of one slot does.                                        *)
(***************************************************************************)
EXTENDS Naturals, FiniteSets

CONSTANTS Threads,        \* the conversation threads
          MaxConcurrency  \* normalizeMaxConcurrency: the slots of the pool

ASSUME MaxConcurrencyAssumption == MaxConcurrency \in Nat \ {0}

Slots == 1..MaxConcurrency
NoSlot == 0
NoRun == 0

Pools(runs) == [Slots -> [threads : SUBSET Threads, run : runs \cup {NoRun}]]

EmptyPool == [s \in Slots |-> [threads |-> {}, run |-> NoRun]]

Created(pool) == {s \in Slots : pool[s].threads # {}}
Free(pool) == {s \in Created(pool) : pool[s].run = NoRun}

\* findOwner: the slots that have executed a run of t.
Owners(pool, t) == {s \in Slots : t \in pool[s].threads}

\* canStart, but for the closing flag.
CanStart(pool, t) ==
    IF Owners(pool, t) # {}
      THEN \E s \in Owners(pool, t) :
              pool[s].run = NoRun /\ \A o \in Owners(pool, t) : s <= o
      ELSE Free(pool) # {} \/ Created(pool) # Slots

\* s comes first when the free slots are sorted by the threads they own.
LeastLoaded(pool, s) ==
    \A o \in Free(pool) :
       \/ Cardinality(pool[s].threads) < Cardinality(pool[o].threads)
       \/ Cardinality(pool[s].threads) = Cardinality(pool[o].threads) /\ s <= o

\* Mutant: a free slot comes before the owner of the thread.
SelectAnySlot(pool, t) ==
    LET candidates ==
          IF Free(pool) # {}
            THEN {s \in Free(pool) : LeastLoaded(pool, s)}
          ELSE {s \in Slots \ Created(pool) :
                  \A o \in Slots \ Created(pool) : s <= o}
    IN  IF candidates = {} THEN NoSlot ELSE CHOOSE s \in candidates : TRUE

\* selectSlot: the owner if it is idle, else the free slot that owns fewest
\* threads, else a new slot.
SelectSlot(pool, t) ==
    LET candidates ==
          IF Owners(pool, t) # {}
            THEN {s \in Owners(pool, t) :
                    pool[s].run = NoRun /\ \A o \in Owners(pool, t) : s <= o}
          ELSE IF Free(pool) # {}
            THEN {s \in Free(pool) : LeastLoaded(pool, s)}
          ELSE {s \in Slots \ Created(pool) :
                  \A o \in Slots \ Created(pool) : s <= o}
    IN  IF candidates = {} THEN NoSlot ELSE CHOOSE s \in candidates : TRUE

\* start: the slot becomes busy with r and owns its thread.
Occupy(pool, s, t, r) ==
    [pool EXCEPT ![s] = [threads |-> @.threads \cup {t}, run |-> r]]

\* The finally of the execution's result: the slot of r is free again.
Vacate(pool, r) ==
    [s \in Slots |->
       IF pool[s].run = r THEN [pool[s] EXCEPT !.run = NoRun] ELSE pool[s]]
=============================================================================
