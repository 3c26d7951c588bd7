------------------------------ MODULE TurnHost ------------------------------
(***************************************************************************)
(* What a Codex app-server host promises to the slot that owns it          *)
(* (CodexAppServerHost, client/apps/daemon/src/codex/app-server-host-*.ts, *)
(* used by the slot executor, AppServerSlot): it takes one job at a time,  *)
(* settles every job once, takes no job after it has begun to end, and has *)
(* settled every job when it is gone.                                      *)
(***************************************************************************)
CONSTANT Jobs

VARIABLES
    status,  \* "ready", "turn" (a job is taken), "ending", "gone"
    job,     \* the job that is taken, or none
    outcome  \* of every job: "none", "result", "error"

hostVars == <<status, job, outcome>>

Init ==
    /\ status = "ready"
    /\ job = {}
    /\ outcome = [j \in Jobs |-> "none"]

\* run.
Take(j) ==
    /\ status = "ready" /\ outcome[j] = "none"
    /\ status' = "turn"
    /\ job' = {j}
    /\ UNCHANGED outcome

\* The promise of a job settles; the host goes on unless it is ending.
Settle(j, how) ==
    /\ job = {j} /\ outcome[j] = "none"
    /\ job' = {}
    /\ outcome' = [outcome EXCEPT ![j] = how]
    /\ status' = IF status = "turn" THEN "ready" ELSE status

\* The host fails, and the job with it, or it is told to close.
End ==
    /\ status \in {"ready", "turn"}
    /\ status' = "ending"
    /\ \/ UNCHANGED <<job, outcome>>
       \/ /\ job' = {}
          /\ outcome' = [j \in Jobs |->
                            IF j \in job THEN "error" ELSE outcome[j]]

\* The process has ended.
Go ==
    /\ status # "gone"
    /\ status' = "gone"
    /\ job' = {}
    /\ outcome' = [j \in Jobs |-> IF j \in job THEN "error" ELSE outcome[j]]

Next ==
    \/ \E j \in Jobs : Take(j) \/ \E how \in {"result", "error"} : Settle(j, how)
    \/ End
    \/ Go

Spec == Init /\ [][Next]_hostVars
=============================================================================
