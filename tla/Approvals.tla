----------------------------- MODULE Approvals -----------------------------
(***************************************************************************)
(* Approvals (client/apps/daemon/src/approvals/manager.ts): the requests   *)
(* of a Codex turn that a user has to decide, from the app-server host     *)
(* that receives them (codex/app-server-host-*.ts, respondToServerRequest) *)
(* through the run manager that announces them (runs/manager.ts,           *)
(* onApprovalRequest) and back.                                            *)
(*                                                                         *)
(* A request waits across three awaits: the event that announces it, the   *)
(* decision, and the event that reports the decision.  Meanwhile users     *)
(* decide, the timer of the request fires, the run is canceled, its turn   *)
(* ends or its process fails, and the next run starts on the same host.    *)
(* Rows are in SQLite; timers, promises and turns are lost when the daemon *)
(* restarts.                                                               *)
(*                                                                         *)
(* The host executes the turn of one run at a time, numbered as they       *)
(* start; the next may start before the last is finalized.  Runs with full *)
(* access, whose requests are accepted without an approval, are left out.  *)
(***************************************************************************)
EXTENDS Naturals, FiniteSets

CONSTANTS Approvals,    \* requests that Codex may make
          MaxRuns,      \* bound: runs ever started
          MaxRestarts   \* bound: restarts of the daemon

ASSUME ApprovalsAssumption ==
    /\ MaxRuns \in Nat
    /\ MaxRestarts \in Nat

VARIABLES
    run,        \* the last run started
    phase,      \* where every run is
    ending,     \* how the turn of every run ended
    canceled,   \* runs whose job is to be canceled
    owner,      \* the run that made each request
    status,     \* the row of each request
    active,     \* requests with a timer and a promise in memory
    decision,   \* what each promise was resolved with
    task,       \* where respondToServerRequest is
    answer,     \* what Codex was told
    restarts

runVars == <<run, phase, ending, canceled>>
rowVars == <<status, active, decision>>
taskVars == <<task, answer>>
vars == <<runVars, owner, rowVars, taskVars, restarts>>

Phase == {"none",
          "turn",        \* a job of the host, from its start to its end
          "settled",     \* the host is done with the job
          "finalizing",
          "ended"}       \* the row of the run is final

Ending == {"none", "completed", "canceled", "error"}

Final == {"approved", "rejected", "expired", "canceled"}
Status == {"none", "pending"} \cup Final

Task == {"none", "announcing", "deciding", "reporting", "answered"}

\* "refused": an error, or nothing because the process is gone.
Answer == {"none", "accept", "decline", "cancel", "refused"}

Init ==
    /\ run = 0
    /\ phase = [r \in 1..MaxRuns |-> "none"]
    /\ ending = [r \in 1..MaxRuns |-> "none"]
    /\ canceled = {}
    /\ owner = [a \in Approvals |-> 0]
    /\ status = [a \in Approvals |-> "none"]
    /\ active = {}
    /\ decision = [a \in Approvals |-> "none"]
    /\ task = [a \in Approvals |-> "none"]
    /\ answer = [a \in Approvals |-> "none"]
    /\ restarts = 0

-----------------------------------------------------------------------------
(* The manager of approvals.                                               *)

\* Mutant: a decision overwrites another.
TransitionAgain(A, s) ==
    /\ status' = [a \in Approvals |->
                    IF a \in A /\ status[a] # "none" THEN s ELSE status[a]]
    /\ decision' = [a \in Approvals |->
                      IF a \in A \cap active THEN s ELSE decision[a]]
    /\ active' = active \ A

\* transition of each request in A: the pending ones become s, and whoever
\* awaits the decision is told.
Transition(A, s) ==
    LET pending == {a \in A : status[a] = "pending"}
    IN  /\ status' = [a \in Approvals |->
                        IF a \in pending THEN s ELSE status[a]]
        /\ decision' = [a \in Approvals |->
                          IF a \in pending \cap active THEN s ELSE decision[a]]
        /\ active' = active \ pending

OwnedBy(r) == {a \in Approvals : owner[a] = r}

\* approve and reject, which anyone may call at any time.
Decide(a, s) ==
    /\ s \in {"approved", "rejected"} /\ status[a] # "none"
    /\ Transition({a}, s)
    /\ UNCHANGED <<runVars, owner, taskVars, restarts>>

\* The timer of a request.
Expire(a) ==
    /\ a \in active
    /\ Transition({a}, "expired")
    /\ UNCHANGED <<runVars, owner, taskVars, restarts>>

-----------------------------------------------------------------------------
(* The runs.                                                               *)

JobIsActive(r) == phase[r] = "turn"

Moves(r, from, to) ==
    /\ phase[r] = from
    /\ phase' = [phase EXCEPT ![r] = to]

\* A turn is sent to the host, which has no other.
StartRun ==
    /\ run < MaxRuns /\ \A r \in 1..run : ~JobIsActive(r)
    /\ run' = run + 1
    /\ phase' = [phase EXCEPT ![run + 1] = "turn"]
    /\ UNCHANGED <<ending, canceled, owner, rowVars, taskVars, restarts>>

Settle(r, how) ==
    /\ phase' = [phase EXCEPT ![r] = "settled"]
    /\ ending' = [ending EXCEPT ![r] = how]
    /\ canceled' = canceled \ {r}
    /\ UNCHANGED <<run, owner, rowVars, taskVars, restarts>>

\* turn/completed, of a turn that is over or was interrupted.
TurnEnds(r) ==
    /\ JobIsActive(r)
    /\ Settle(r, IF r \in canceled THEN "canceled" ELSE "completed")

\* The process fails or a timeout fails it, or the turn is not started.
JobFails(r) == JobIsActive(r) /\ Settle(r, "error")

\* handleAppServerResult.
HandleResult(r) ==
    /\ ending[r] # "error" /\ Moves(r, "settled", "finalizing")
    /\ UNCHANGED <<run, ending, canceled, owner, rowVars, taskVars, restarts>>

\* handleAppServerError.
HandleError(r) ==
    /\ ending[r] = "error" /\ Moves(r, "settled", "finalizing")
    /\ Transition(OwnedBy(r), "canceled")
    /\ UNCHANGED <<run, ending, canceled, owner, taskVars, restarts>>

\* The end of finalizeRun.
FinishRun(r) ==
    /\ Moves(r, "finalizing", "ended")
    /\ UNCHANGED <<run, ending, canceled, owner, rowVars, taskVars, restarts>>

\* A user cancels the run, which is active until finalizeRun has ended.
CancelRun(r) ==
    /\ phase[r] \notin {"none", "ended"}
    /\ canceled' = IF JobIsActive(r) THEN canceled \cup {r} ELSE canceled
    /\ Transition(OwnedBy(r), "canceled")
    /\ UNCHANGED <<run, phase, ending, owner, taskVars, restarts>>

-----------------------------------------------------------------------------
(* respondToServerRequest and onApprovalRequest.                           *)

\* Mutant: a request without a timer.
AskUntimed(a) ==
    /\ task[a] = "none" /\ run > 0 /\ JobIsActive(run)
    /\ owner' = [owner EXCEPT ![a] = run]
    /\ status' = [status EXCEPT ![a] = "pending"]
    /\ task' = [task EXCEPT ![a] = "announcing"]
    /\ UNCHANGED <<runVars, active, decision, answer, restarts>>

\* Codex asks.  The request of a turn that is over, from a process that has
\* been told to end or has not heard of its interrupt, is refused.
Ask(a) ==
    /\ task[a] = "none" /\ run > 0
    /\ IF JobIsActive(run)
         THEN /\ owner' = [owner EXCEPT ![a] = run]
              /\ status' = [status EXCEPT ![a] = "pending"]
              /\ active' = active \cup {a}
              /\ task' = [task EXCEPT ![a] = "announcing"]
              /\ UNCHANGED answer
         ELSE /\ task' = [task EXCEPT ![a] = "answered"]
              /\ answer' = [answer EXCEPT ![a] = "refused"]
              /\ UNCHANGED <<owner, status, active>>
    /\ UNCHANGED <<runVars, decision, restarts>>

\* Publishing an event fails: the request is answered with an error, and its
\* approval is left alone.
PublishFails(a) ==
    /\ task[a] \in {"announcing", "reporting"}
    /\ task' = [task EXCEPT ![a] = "answered"]
    /\ answer' = [answer EXCEPT ![a] = "refused"]
    /\ UNCHANGED <<runVars, owner, rowVars, restarts>>

\* The request is announced.
Announce(a) ==
    /\ task[a] = "announcing"
    /\ task' = [task EXCEPT ![a] = "deciding"]
    /\ UNCHANGED <<runVars, owner, rowVars, answer, restarts>>

\* The decision is there.
Report(a) ==
    /\ task[a] = "deciding" /\ decision[a] # "none"
    /\ task' = [task EXCEPT ![a] = "reporting"]
    /\ UNCHANGED <<runVars, owner, rowVars, answer, restarts>>

\* approvalResponse.
Response(d) ==
    CASE d = "approved" -> "accept"
      [] d = "canceled" -> "cancel"
      [] OTHER -> "decline"

\* Mutant: answers whoever the job is now.
RespondAnyway(a) ==
    /\ task[a] = "reporting"
    /\ task' = [task EXCEPT ![a] = "answered"]
    /\ answer' = [answer EXCEPT ![a] = Response(decision[a])]
    /\ UNCHANGED <<runVars, owner, rowVars, restarts>>

\* Codex is told, if the job that asked is still the active one.
Respond(a) ==
    /\ task[a] = "reporting"
    /\ task' = [task EXCEPT ![a] = "answered"]
    /\ answer' = [answer EXCEPT ![a] =
                    IF JobIsActive(owner[a]) THEN Response(decision[a])
                    ELSE "refused"]
    /\ UNCHANGED <<runVars, owner, rowVars, restarts>>

-----------------------------------------------------------------------------
(* The daemon.                                                             *)

\* Mutant: leaves pending rows as they are.
RestartOnly ==
    /\ restarts < MaxRestarts
    /\ restarts' = restarts + 1
    /\ phase' = [r \in 1..MaxRuns |->
                   IF phase[r] = "none" THEN "none" ELSE "ended"]
    /\ canceled' = {}
    /\ active' = {}
    /\ task' = [a \in Approvals |->
                  IF task[a] = "none" THEN "none" ELSE "answered"]
    /\ answer' = [a \in Approvals |->
                    IF task[a] \in {"announcing", "deciding", "reporting"}
                      THEN "refused" ELSE answer[a]]
    /\ UNCHANGED <<run, ending, owner, status, decision>>

\* The daemon stops at any moment, with its processes, and starts again:
\* pending rows are canceled and the run is recovered as failed.
Restart ==
    /\ restarts < MaxRestarts
    /\ restarts' = restarts + 1
    /\ phase' = [r \in 1..MaxRuns |->
                   IF phase[r] = "none" THEN "none" ELSE "ended"]
    /\ ending' = [r \in 1..MaxRuns |->
                    IF phase[r] \in {"none", "ended"} THEN ending[r]
                    ELSE "error"]
    /\ status' = [a \in Approvals |->
                    IF status[a] = "pending" THEN "canceled" ELSE status[a]]
    /\ canceled' = {}
    /\ active' = {}
    /\ task' = [a \in Approvals |->
                  IF task[a] = "none" THEN "none" ELSE "answered"]
    /\ answer' = [a \in Approvals |->
                    IF task[a] \in {"announcing", "deciding", "reporting"}
                      THEN "refused" ELSE answer[a]]
    /\ UNCHANGED <<run, owner, decision>>

-----------------------------------------------------------------------------
(* The specification.                                                      *)

RunStep(r) == HandleResult(r) \/ HandleError(r) \/ FinishRun(r)

TaskStep(a) == PublishFails(a) \/ Announce(a) \/ Report(a) \/ Respond(a)

Next ==
    \/ StartRun
    \/ \E r \in 1..run :
          \/ TurnEnds(r) \/ JobFails(r)
          \/ RunStep(r)
          \/ CancelRun(r)
    \/ \E a \in Approvals :
          \/ Ask(a)
          \/ TaskStep(a)
          \/ \E s \in {"approved", "rejected"} : Decide(a, s)
          \/ Expire(a)
    \/ Restart

Spec == Init /\ [][Next]_vars

\* Promises that are resolved go on, and timers fire.
Fairness ==
    \A a \in Approvals : WF_vars(TaskStep(a)) /\ WF_vars(Expire(a))

FairSpec == Spec /\ Fairness

-----------------------------------------------------------------------------
(* Properties.                                                             *)

RunType ==
    /\ run \in 0..MaxRuns
    /\ phase \in [1..MaxRuns -> Phase]
    /\ ending \in [1..MaxRuns -> Ending]
    /\ canceled \subseteq 1..run
    /\ restarts \in 0..MaxRestarts
    /\ \A r \in 1..MaxRuns :
          /\ phase[r] = "none" <=> r > run
          /\ r \in canceled => JobIsActive(r)

RequestType ==
    /\ owner \in [Approvals -> 0..run]
    /\ status \in [Approvals -> Status]
    /\ active \subseteq Approvals
    /\ decision \in [Approvals -> {"none"} \cup Final]
    /\ task \in [Approvals -> Task]
    /\ answer \in [Approvals -> Answer]

\* The types of the state; only runs that have started own requests, and only
\* a job that is not settled takes a cancel.
TypeOK == RunType /\ RequestType

\* An approval is pending in its row exactly as long as the daemon holds its
\* timer and its promise, restarts included: none is pending for ever.
PendingIsArmed == \A a \in Approvals : status[a] = "pending" <=> a \in active

\* Codex is never told anything else than what the row says, whoever decided
\* at the same time.
AnswerMatchesRow ==
    \A a \in Approvals :
        answer[a] \notin {"none", "refused"} =>
            status[a] \in Final /\ answer[a] = Response(status[a])

\* A decision that is made stays (approve and reject are idempotent,
\* runtime-api-for-ui-v1.md:1143).
DecidedOnce ==
    [][\A a \in Approvals : status[a] \in Final => status'[a] = status[a]]_vars

\* Codex is told of a decision in the turn that asked, never in a later one.
ToldInItsTurn ==
    [][\A a \in Approvals :
          answer'[a] # answer[a] /\ answer'[a] # "refused" =>
              phase[owner[a]] = "turn"]_vars

\* A run whose process failed leaves no pending approval
\* (runtime-api-for-ui-v1.md:1143).
FailedLeavesNone ==
    \A a \in Approvals :
        status[a] = "pending" =>
            ~(phase[owner[a]] = "ended" /\ ending[owner[a]] = "error")

\* Neither does one that was canceled, as the same line says.  It does: a
\* request that Codex makes after the cancel, before it hears of the interrupt,
\* stays pending when turn/completed ends the run, until its time to live.
CanceledLeavesNone ==
    \A a \in Approvals :
        status[a] = "pending" =>
            ~(phase[owner[a]] = "ended" /\ ending[owner[a]] = "canceled")

\* Every request of Codex is answered, or its process is gone, and its
\* approval is decided in the end, if only by its timer.
EveryRequestEnds ==
    \A a \in Approvals :
        task[a] # "none" ~> task[a] = "answered" /\ status[a] # "pending"
=============================================================================
