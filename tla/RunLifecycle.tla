---------------------------- MODULE RunLifecycle ----------------------------
(***************************************************************************)
(* What the run manager promises to the clients of its API about the       *)
(* public status of runs (client/docs/runtime-api-for-ui-v1.md), whatever  *)
(* happens to the daemon:                                                  *)
(*                                                                         *)
(*   - a run is queued, then possibly runs, then reaches one terminal      *)
(*     status and keeps it;                                                *)
(*   - the runs of a thread run one at a time;                             *)
(*   - at most MaxConcurrency of the runs that share the pool of           *)
(*     app-server processes run together.                                  *)
(*                                                                         *)
(* It knows nothing of queues, processes, events or restarts.              *)
(***************************************************************************)
EXTENDS Naturals, FiniteSets

CONSTANTS Runs, Threads, MaxConcurrency

VARIABLES status,   \* the public status of each run
          thread,   \* the thread of each submitted run
          pooled    \* the submitted runs that share the pool

vars == <<status, thread, pooled>>

Terminal == {"succeeded", "failed", "canceled"}
Running == {r \in Runs : status[r] = "running"}

Init ==
    /\ status = [r \in Runs |-> "none"]
    /\ thread = <<>>
    /\ pooled = {}

\* A client submits r to thread t.
Submit(r, t) ==
    /\ status[r] = "none"
    /\ status' = [status EXCEPT ![r] = "queued"]
    /\ thread' = [s \in DOMAIN thread \cup {r} |->
                    IF s = r THEN t ELSE thread[s]]
    /\ pooled' \in {pooled, pooled \cup {r}}

\* r takes its thread and, if it shares the pool, one of its places.
Start(r) ==
    /\ status[r] = "queued"
    /\ \A s \in Running : thread[s] # thread[r]
    /\ r \in pooled => Cardinality(Running \cap pooled) < MaxConcurrency
    /\ status' = [status EXCEPT ![r] = "running"]
    /\ UNCHANGED <<thread, pooled>>

\* r succeeds, fails or is canceled; one that never ran cannot succeed.
End(r, s) ==
    /\ status[r] \in {"queued", "running"}
    /\ status[r] = "queued" => s # "succeeded"
    /\ status' = [status EXCEPT ![r] = s]
    /\ UNCHANGED <<thread, pooled>>

Next ==
    \E r \in Runs : \/ \E t \in Threads : Submit(r, t)
                    \/ Start(r)
                    \/ \E s \in Terminal : End(r, s)

Spec == Init /\ [][Next]_vars
=============================================================================
