----------------------------- MODULE RunManager -----------------------------
(***************************************************************************)
(* The run manager of the Clawee daemon                                    *)
(* (client/apps/daemon/src/runs/manager.ts) over the slot pool of the      *)
(* persistent app-server executor.                                         *)
(*                                                                         *)
(* A run is a prompt sent to a conversation thread.  The manager admits    *)
(* it, queues it behind the thread's active run or for want of a slot,     *)
(* starts it, cancels or steers it, and writes its terminal state.  Rows   *)
(* and events are in SQLite and survive a restart; everything else is in   *)
(* memory.                                                                 *)
(*                                                                         *)
(* One action is one synchronous stretch of the code, between two points   *)
(* where the event loop can run something else.  The functions that call   *)
(* one another inside such a stretch (cancelRun calls                      *)
(* startNextPersistentRuns, which calls startExistingRun, which calls      *)
(* completeThreadRun when it fails, and so on) are actions of their own,   *)
(* chained by the call stack `calls': while it is not empty its top call   *)
(* is the only step the daemon can take.  A microtask that runs before     *)
(* any other callback can is either merged with the step that queues it    *)
(* or given priority by Idle.                                              *)
(*                                                                         *)
(* Runs are numbered in the order they are submitted.                      *)
(***************************************************************************)
EXTENDS ExecutorPool, Sequences, SequencesExt

CONSTANTS PersistentQueue,  \* the key of the queue of persistent runs
          AppServer,        \* runtimeTransport = 'app-server' with an executor
          Origins,          \* createdBy values in use: "api", "schedule"
          Modes,            \* submission modes in use
          Requests,         \* what users do besides submitting runs
          Failures,         \* what goes wrong outside the daemon's code
          MaxRuns,          \* bound: runs ever submitted
          MaxRestarts       \* bound: daemon restarts

ASSUME RunManagerAssumption ==
    /\ PersistentQueue \notin Threads
    /\ AppServer \in BOOLEAN
    /\ Origins \subseteq {"api", "schedule"}
    /\ Modes \subseteq {"enqueue", "interrupt_and_enqueue"}
    /\ Requests \subseteq {"cancel", "steer", "signOut", "close"}
    /\ Failures \subseteq {"beforeSpawn", "preparation", "turn",
                           "resumeMissing"}
    /\ MaxRuns \in Nat
    /\ MaxRestarts \in Nat

Runs == 1..MaxRuns

VARIABLES
    input,                  \* what each submitted run asked for, in order
    row,                    \* persisted: the status columns of each run
    log,                    \* persisted: the events a client acts on
    restarts,
    phase,                  \* where the run's task is in the manager's code
    outcome,                \* how its Codex process ended
    rotated,                \* runs that replaced their Codex thread
    canceledProcesses,      \* runs whose current process was told to cancel
    queues,                 \* persistentRunQueue and the threadQueues
    runningThreadRun,       \* the run that holds each thread
    runningPersistentRunIds,
    pool,                   \* the executor's slots
    closing,
    calls                   \* the synchronous calls still to be executed

persisted == <<input, row, log, restarts>>
vars == <<input, row, log, restarts, phase, outcome, rotated,
          canceledProcesses, queues, runningThreadRun,
          runningPersistentRunIds, pool, closing, calls>>

-----------------------------------------------------------------------------
(* The data.                                                               *)

TerminalStatus == {"succeeded", "failed", "canceled"}
PublicStatus == {"none", "queued", "running"} \cup TerminalStatus
InternalStatus == {"none", "created", "queued", "running", "canceling",
                   "orphaned"} \cup TerminalStatus
QueueState == {"none", "queued", "started"}

\* The events of the stream that decide what a client shows: canceling, and
\* done with the status it announces.
Event == {"canceling"} \cup TerminalStatus

\* "idle": no task; "admitted": startExistingRun is the next call.
Executing == {"preparing", "turn", "releasing", "reporting", "finalizing",
              "stuck"}
Phase == {"idle", "queued", "admitted"} \cup Executing

\* "refused": executor.start threw.  "resumeMissing": thread/resume failed
\* because Codex no longer has the thread.
Outcome == {"none", "completed", "canceled", "failed", "refused",
            "resumeMissing"}

Input == [thread : Threads, origin : Origins, mode : Modes]
Row == [public : PublicStatus, internal : InternalStatus, queue : QueueState]

QueueKeys == Threads \cup {PersistentQueue}

Submitted == DOMAIN input

Call == [op : {"startExistingRun", "publishQueuedCancel", "recoverEvents"},
         run : Submitted]
        \cup [op : {"startNextQueuedThreadRun"}, thread : Threads]
        \cup [op : {"startNextPersistentRuns", "cancelAll", "recover"}]

CallRun(f, r) == [op |-> f, run |-> r]
CallThread(t) == [op |-> "startNextQueuedThreadRun", thread |-> t]
CallAlone(f) == [op |-> f]

RowOf(public, internal, queue) ==
    [public |-> public, internal |-> internal, queue |-> queue]

ThreadOf(r) == input[r].thread
IsPersistent(r) == AppServer /\ input[r].origin = "api"
Terminal(r) == row[r].public \in TerminalStatus
ActiveRuns == {r \in Runs : phase[r] \in Executing}

\* The event is appended, except that a canceling event after a canceling
\* event says nothing new and is left out to keep the log finite.
Published(events, e) ==
    IF e = "canceling" /\ events # <<>> /\ events[Len(events)] = "canceling"
      THEN events
      ELSE Append(events, e)

HasDone(events) == \E i \in DOMAIN events : events[i] \in TerminalStatus

-----------------------------------------------------------------------------
(* Control.                                                                *)

Init ==
    /\ input = <<>>
    /\ row = [r \in Runs |-> RowOf("none", "none", "none")]
    /\ log = [r \in Runs |-> <<>>]
    /\ restarts = 0
    /\ phase = [r \in Runs |-> "idle"]
    /\ outcome = [r \in Runs |-> "none"]
    /\ rotated = {}
    /\ canceledProcesses = {}
    /\ queues = [k \in QueueKeys |-> <<>>]
    /\ runningThreadRun = [t \in Threads |-> NoRun]
    /\ runningPersistentRunIds = {}
    /\ pool = EmptyPool
    /\ closing = FALSE
    /\ calls = <<>>

\* The task of r goes on in a microtask: the first attempt of a persistent run,
\* and the handlers of an exec process, which settles once its output has been
\* handled.
Microtask(r) ==
    \/ phase[r] = "preparing" /\ IsPersistent(r)
    \/ phase[r] = "releasing" /\ ~AppServer

\* A callback of the event loop can run: nothing is left of the previous one.
Idle == calls = <<>> /\ \A r \in Submitted : ~Microtask(r)

\* The task of r can take its next step.
Ready(r) == IF Microtask(r) THEN calls = <<>> ELSE Idle

OnTop(call) == calls # <<>> /\ Head(calls) = call

AtCapacity == Cardinality(runningPersistentRunIds) >= MaxConcurrency

-----------------------------------------------------------------------------
(* Canceling: the cancel closure of an active run, applied to a set of     *)
(* runs.  Only a process that has not ended takes notice.                  *)

CancelingRows(rows, canceled) ==
    [r \in Runs |->
       IF r \in canceled
         THEN [rows[r] EXCEPT !.public = "running", !.internal = "canceling"]
         ELSE rows[r]]

CancelingLogs(canceled) ==
    [r \in Runs |->
       IF r \in canceled THEN Published(log[r], "canceling") ELSE log[r]]

CancelProcesses(canceled) ==
    canceledProcesses' =
        canceledProcesses \cup {r \in canceled : phase[r] = "turn"}

\* The active run of t that an interrupting or steered run cancels.
Interrupted(t) ==
    {r \in ActiveRuns :
       r = runningThreadRun[t] /\ row[r].internal # "canceling"}

-----------------------------------------------------------------------------
(* startRun.                                                               *)

\* Mutant: every run goes to the front.
InsertionPointInFront(queue, mode, i) == i = 1

\* The position of a run in its queue: an interrupting run goes before the
\* first regular one.
InsertionPoint(queue, mode, i) ==
    /\ i \in 1..(Len(queue) + 1)
    /\ IF mode = "interrupt_and_enqueue"
         THEN /\ \A j \in 1..(i - 1) : input[queue[j]].mode # "enqueue"
              /\ i <= Len(queue) => input[queue[i]].mode = "enqueue"
         ELSE i = Len(queue) + 1

\* Mutant: leaves the thread to the executor, which knows only its slots.
MustQueueForSlotOnly(t, persistent) ==
    persistent /\ (AtCapacity \/ ~CanStart(pool, t))

MustQueue(t, persistent) ==
    \/ runningThreadRun[t] # NoRun
    \/ persistent /\ (AtCapacity \/ ~CanStart(pool, t))

QueueRun(r, request, persistent) ==
    LET key == IF persistent THEN PersistentQueue ELSE request.thread
        canceled == IF request.mode = "interrupt_and_enqueue"
                      THEN Interrupted(request.thread) ELSE {}
    IN  /\ row' = [CancelingRows(row, canceled) EXCEPT
                     ![r] = RowOf("queued", "queued", "queued")]
        /\ log' = CancelingLogs(canceled)
        /\ CancelProcesses(canceled)
        /\ phase' = [phase EXCEPT ![r] = "queued"]
        /\ \E i \in 1..(Len(queues[key]) + 1) :
              /\ InsertionPoint(queues[key], request.mode, i)
              /\ queues' = [queues EXCEPT ![key] = InsertAt(@, i, r)]
        /\ UNCHANGED calls

AdmitRun(r) ==
    /\ row' = [row EXCEPT ![r] = RowOf("queued", "created", "none")]
    /\ phase' = [phase EXCEPT ![r] = "admitted"]
    /\ calls' = <<CallRun("startExistingRun", r)>>
    /\ UNCHANGED <<log, canceledProcesses, queues>>

StartRun(t, origin, mode) ==
    LET r == Len(input) + 1
        request == [thread |-> t, origin |-> origin, mode |-> mode]
        persistent == AppServer /\ origin = "api"
    IN  /\ Idle /\ ~closing /\ r \in Runs
        /\ origin = "schedule" => mode = "enqueue"
        /\ input' = Append(input, request)
        /\ IF MustQueue(t, persistent)
             THEN QueueRun(r, request, persistent)
             ELSE AdmitRun(r)
        /\ UNCHANGED <<restarts, outcome, rotated, runningThreadRun,
                       runningPersistentRunIds, pool, closing>>

-----------------------------------------------------------------------------
(* startExistingRun: the run takes the thread and is launched, or fails    *)
(* before anything is spawned (no Codex thread to resume, resume not       *)
(* verified, profile not valid) and completeThreadRun gives it back.       *)

Launch(r) ==
    /\ OnTop(CallRun("startExistingRun", r))
    /\ row' = [row EXCEPT ![r] = RowOf("running", "running", "started")]
    /\ phase' = [phase EXCEPT ![r] = "preparing"]
    /\ outcome' = [outcome EXCEPT ![r] = "none"]
    /\ runningThreadRun' = [runningThreadRun EXCEPT ![ThreadOf(r)] = r]
    /\ runningPersistentRunIds' =
          IF IsPersistent(r) THEN runningPersistentRunIds \cup {r}
                             ELSE runningPersistentRunIds
    /\ calls' = Tail(calls)
    /\ UNCHANGED <<input, log, restarts, rotated, canceledProcesses, queues,
                   pool, closing>>

\* completeThreadRun, up to the calls it makes.
ReleaseThread(r) ==
    /\ runningPersistentRunIds' = runningPersistentRunIds \ {r}
    /\ runningThreadRun' =
          [runningThreadRun EXCEPT ![ThreadOf(r)] = IF @ = r THEN NoRun ELSE @]

\* Mutant: forgets the runs that wait for a place.
CompletionCallsOfThread(r) == <<CallThread(ThreadOf(r))>>

CompletionCalls(r) ==
    <<CallAlone("startNextPersistentRuns"), CallThread(ThreadOf(r))>>

FailBeforeSpawn(r) ==
    /\ "beforeSpawn" \in Failures
    /\ OnTop(CallRun("startExistingRun", r))
    /\ row' = [row EXCEPT ![r] = RowOf("failed", "failed", "none")]
    /\ log' = [log EXCEPT ![r] = Published(@, "failed")]
    /\ phase' = [phase EXCEPT ![r] = "idle"]
    /\ ReleaseThread(r)
    /\ calls' = CompletionCalls(r) \o Tail(calls)
    /\ UNCHANGED <<input, restarts, outcome, rotated, canceledProcesses,
                   queues, pool, closing>>

\* A queued run leaves its queue for startExistingRun; `rest' are the calls
\* that follow.
Dequeue(key, i, rest) ==
    LET r == queues[key][i]
    IN  /\ queues' = [queues EXCEPT ![key] = RemoveAt(@, i)]
        /\ phase' = [phase EXCEPT ![r] = "admitted"]
        /\ calls' = <<CallRun("startExistingRun", r)>> \o rest
        /\ UNCHANGED <<row, log>>

Startable(r) ==
    runningThreadRun[ThreadOf(r)] = NoRun /\ CanStart(pool, ThreadOf(r))

\* One turn of the loop of startNextPersistentRuns, or its end.
StartNextPersistentRuns ==
    LET queue == queues[PersistentQueue]
        mayStart == ~closing /\ ~AtCapacity
    IN  /\ OnTop(CallAlone("startNextPersistentRuns"))
        /\ \/ \E i \in DOMAIN queue :
                /\ mayStart /\ Startable(queue[i])
                /\ \A j \in 1..(i - 1) : ~Startable(queue[j])
                /\ Dequeue(PersistentQueue, i, calls)
           \/ /\ mayStart => \A i \in DOMAIN queue : ~Startable(queue[i])
              /\ calls' = Tail(calls)
              /\ UNCHANGED <<row, log, phase, queues>>
        /\ UNCHANGED <<input, restarts, outcome, rotated, canceledProcesses,
                       runningThreadRun, runningPersistentRunIds, pool,
                       closing>>

StartNextQueuedThreadRun(t) ==
    /\ OnTop(CallThread(t))
    /\ IF closing \/ runningThreadRun[t] # NoRun \/ queues[t] = <<>>
         THEN calls' = Tail(calls) /\ UNCHANGED <<row, log, phase, queues>>
         ELSE Dequeue(t, 1, Tail(calls))
    /\ UNCHANGED <<input, restarts, outcome, rotated, canceledProcesses,
                   runningThreadRun, runningPersistentRunIds, pool, closing>>

-----------------------------------------------------------------------------
(* The task of an active run.                                              *)

\* A process is started for r: in a slot of the pool for a persistent run,
\* on its own otherwise.  It is told at once of a cancel that came before it
\* when `tell' holds.
BeginTurn(r, tell) ==
    /\ phase' = [phase EXCEPT ![r] = "turn"]
    /\ outcome' = [outcome EXCEPT ![r] = "none"]
    /\ canceledProcesses' =
          IF tell /\ row[r].internal = "canceling"
            THEN canceledProcesses \cup {r}
            ELSE canceledProcesses \ {r}

FailAttempt(r, how) ==
    /\ phase' = [phase EXCEPT ![r] = "reporting"]
    /\ outcome' = [outcome EXCEPT ![r] = how]
    /\ UNCHANGED canceledProcesses

\* The first attempt of a persistent run, a microtask after startExistingRun.
StartPersistentAttempt(r) ==
    LET s == SelectSlot(pool, ThreadOf(r))
    IN  /\ Ready(r)
        /\ phase[r] = "preparing" /\ IsPersistent(r)
        /\ IF closing \/ s = NoSlot
             THEN FailAttempt(r, "refused") /\ UNCHANGED pool
             ELSE /\ BeginTurn(r, TRUE)
                  /\ pool' = Occupy(pool, s, ThreadOf(r), r)
        /\ UNCHANGED <<input, row, log, restarts, rotated, queues,
                       runningThreadRun, runningPersistentRunIds, closing,
                       calls>>

\* Mutant: forgets a cancel that came during the preparation.
StartDirectAttemptUntold(r) ==
    /\ Idle
    /\ phase[r] = "preparing" /\ ~IsPersistent(r)
    /\ \/ BeginTurn(r, FALSE)
       \/ "preparation" \in Failures /\ FailAttempt(r, "failed")
    /\ UNCHANGED <<input, row, log, restarts, rotated, queues,
                   runningThreadRun, runningPersistentRunIds, pool, closing,
                   calls>>

\* The first attempt of any other run follows the preparation of its tools,
\* which can fail.
StartDirectAttempt(r) ==
    /\ Idle
    /\ phase[r] = "preparing" /\ ~IsPersistent(r)
    /\ \/ BeginTurn(r, TRUE)
       \/ "preparation" \in Failures /\ FailAttempt(r, "failed")
    /\ UNCHANGED <<input, row, log, restarts, rotated, queues,
                   runningThreadRun, runningPersistentRunIds, pool, closing,
                   calls>>

\* The Codex process ends its turn.  Told to cancel it reports a cancel or
\* fails.  An attempt that resumes a thread, which a rotated one does not, can
\* find it missing; an app-server reports that even when it was told to cancel.
MayMissThread(r) ==
    r \notin rotated /\ (AppServer \/ r \notin canceledProcesses)

PossibleOutcomes(r) ==
    {IF r \in canceledProcesses THEN "canceled" ELSE "completed"}
    \cup {how \in {"failed"} : "turn" \in Failures}
    \cup {how \in {"resumeMissing"} :
            "resumeMissing" \in Failures /\ MayMissThread(r)}

EndTurn(r) ==
    /\ Idle
    /\ phase[r] = "turn"
    /\ phase' = [phase EXCEPT ![r] = "releasing"]
    /\ \E how \in PossibleOutcomes(r) : outcome' = [outcome EXCEPT ![r] = how]
    /\ UNCHANGED <<input, row, log, restarts, rotated, canceledProcesses,
                   queues, runningThreadRun, runningPersistentRunIds, pool,
                   closing, calls>>

\* The executor (or the one-shot runner) has cleared up: the slot is free and
\* the result reaches handleAppServerResult, which goes on to finalizeRun.
HandleResult(r) ==
    /\ Ready(r)
    /\ phase[r] = "releasing" /\ outcome[r] # "resumeMissing"
    /\ phase' = [phase EXCEPT ![r] = "reporting"]
    /\ pool' = Vacate(pool, r)
    /\ UNCHANGED <<input, row, log, restarts, outcome, rotated,
                   canceledProcesses, queues, runningThreadRun,
                   runningPersistentRunIds, closing, calls>>

\* rotateAppServerAfterResumeFailure: one more attempt, on a new Codex thread.
\* An executor that refuses it makes the handler itself reject, and nothing
\* finalizes the run.
Rotate(r) ==
    LET vacated == Vacate(pool, r)
        s == SelectSlot(vacated, ThreadOf(r))
    IN  /\ Ready(r)
        /\ phase[r] = "releasing" /\ outcome[r] = "resumeMissing"
        /\ rotated' = rotated \cup {r}
        /\ IF ~IsPersistent(r)
             THEN BeginTurn(r, FALSE) /\ UNCHANGED pool
           ELSE IF closing \/ s = NoSlot
             THEN /\ phase' = [phase EXCEPT ![r] = "stuck"]
                  /\ pool' = vacated
                  /\ UNCHANGED <<outcome, canceledProcesses>>
           ELSE /\ BeginTurn(r, FALSE)
                /\ pool' = Occupy(vacated, s, ThreadOf(r), r)
        /\ UNCHANGED <<input, row, log, restarts, queues, runningThreadRun,
                       runningPersistentRunIds, closing, calls>>

\* The public status that a process outcome gives the run.
StatusOf(how) ==
    CASE how = "completed" -> "succeeded"
      [] how = "canceled"  -> "canceled"
      [] OTHER             -> "failed"

\* finalizeRun, up to the wait for the log to be closed.
PublishDone(r) ==
    /\ Idle
    /\ phase[r] = "reporting"
    /\ log' = [log EXCEPT ![r] =
                  IF HasDone(@) THEN @ ELSE Published(@, StatusOf(outcome[r]))]
    /\ phase' = [phase EXCEPT ![r] = "finalizing"]
    /\ UNCHANGED <<input, row, restarts, outcome, rotated, canceledProcesses,
                   queues, runningThreadRun, runningPersistentRunIds, pool,
                   closing, calls>>

\* Mutant: reads the status from the row, where a cancel may have come since.
FinishRunFromRow(r) ==
    LET status == IF row[r].internal = "canceling" THEN "canceled"
                  ELSE StatusOf(outcome[r])
    IN  /\ Idle
        /\ phase[r] = "finalizing"
        /\ row' = [row EXCEPT ![r] = RowOf(status, status, "none")]
        /\ phase' = [phase EXCEPT ![r] = "idle"]
        /\ outcome' = [outcome EXCEPT ![r] = "none"]
        /\ rotated' = rotated \ {r}
        /\ canceledProcesses' = canceledProcesses \ {r}
        /\ ReleaseThread(r)
        /\ calls' = CompletionCalls(r)
        /\ UNCHANGED <<input, log, restarts, queues, pool, closing>>

\* finalizeRun, once the log is closed; the closure of the run goes with it.
FinishRun(r) ==
    LET status == StatusOf(outcome[r])
    IN  /\ Idle
        /\ phase[r] = "finalizing"
        /\ row' = [row EXCEPT ![r] = RowOf(status, status, "none")]
        /\ phase' = [phase EXCEPT ![r] = "idle"]
        /\ outcome' = [outcome EXCEPT ![r] = "none"]
        /\ rotated' = rotated \ {r}
        /\ canceledProcesses' = canceledProcesses \ {r}
        /\ ReleaseThread(r)
        /\ calls' = CompletionCalls(r)
        /\ UNCHANGED <<input, log, restarts, queues, pool, closing>>

-----------------------------------------------------------------------------
(* cancelRun, steerRun, cancelAll, close.                                  *)

CancelActive(canceled) ==
    /\ row' = CancelingRows(row, canceled)
    /\ log' = CancelingLogs(canceled)
    /\ CancelProcesses(canceled)

\* The route refuses a run whose row is terminal.
CancelActiveRun(r) ==
    /\ Idle /\ "cancel" \in Requests
    /\ r \in ActiveRuns /\ ~Terminal(r)
    /\ CancelActive({r})
    /\ UNCHANGED <<input, restarts, phase, outcome, rotated, queues,
                   runningThreadRun, runningPersistentRunIds, pool, closing,
                   calls>>

\* The part of cancelRun for a run at position i of a queue, up to the call of
\* startNextPersistentRuns; `rest' are the calls that follow.
RemoveQueuedRun(key, i, rest) ==
    LET r == queues[key][i]
    IN  /\ queues' = [queues EXCEPT ![key] = RemoveAt(@, i)]
        /\ row' = [row EXCEPT ![r] = RowOf("canceled", "canceled", "none")]
        /\ phase' = [phase EXCEPT ![r] = "idle"]
        /\ calls' = <<CallAlone("startNextPersistentRuns"),
                      CallRun("publishQueuedCancel", r)>> \o rest
        /\ UNCHANGED <<log, canceledProcesses>>

CancelQueuedRun(r) ==
    /\ Idle /\ "cancel" \in Requests
    /\ \E key \in QueueKeys : \E i \in DOMAIN queues[key] :
          queues[key][i] = r /\ RemoveQueuedRun(key, i, <<>>)
    /\ UNCHANGED <<input, restarts, outcome, rotated, runningThreadRun,
                   runningPersistentRunIds, pool, closing>>

\* The events of a canceled queued run, published after the next runs start.
PublishQueuedCancel(r) ==
    /\ OnTop(CallRun("publishQueuedCancel", r))
    /\ log' = [log EXCEPT ![r] =
                  Published(Published(@, "canceling"), "canceled")]
    /\ calls' = Tail(calls)
    /\ UNCHANGED <<input, row, restarts, phase, outcome, rotated,
                   canceledProcesses, queues, runningThreadRun,
                   runningPersistentRunIds, pool, closing>>

\* Mutant: moves the run to the front and leaves it in its old place too.
SteerRunTwice(r) ==
    /\ Idle /\ "steer" \in Requests
    /\ \E key \in QueueKeys : \E i \in DOMAIN queues[key] :
          /\ queues[key][i] = r
          /\ queues' = [queues EXCEPT ![key] = <<r>> \o @]
          /\ calls' = IF key = PersistentQueue
                        THEN <<CallAlone("startNextPersistentRuns")>>
                        ELSE <<>>
    /\ CancelActive(Interrupted(ThreadOf(r)))
    /\ UNCHANGED <<input, restarts, phase, outcome, rotated,
                   runningThreadRun, runningPersistentRunIds, pool, closing>>

SteerRun(r) ==
    /\ Idle /\ "steer" \in Requests
    /\ \E key \in QueueKeys : \E i \in DOMAIN queues[key] :
          /\ queues[key][i] = r
          /\ queues' = [queues EXCEPT ![key] = <<r>> \o RemoveAt(@, i)]
          /\ calls' = IF key = PersistentQueue
                        THEN <<CallAlone("startNextPersistentRuns")>>
                        ELSE <<>>
    /\ CancelActive(Interrupted(ThreadOf(r)))
    /\ UNCHANGED <<input, restarts, phase, outcome, rotated,
                   runningThreadRun, runningPersistentRunIds, pool, closing>>

\* A sign-out of the model service calls cancelAll; so does close.
SomethingToCancel ==
    \E r \in Submitted :
       \/ phase[r] = "queued"
       \/ r \in ActiveRuns /\ row[r].internal # "canceling"

SignOut ==
    /\ Idle /\ "signOut" \in Requests
    /\ SomethingToCancel
    /\ calls' = <<CallAlone("cancelAll")>>
    /\ UNCHANGED <<persisted, phase, outcome, rotated, canceledProcesses,
                   queues, runningThreadRun, runningPersistentRunIds, pool,
                   closing>>

Close ==
    /\ Idle /\ ~closing /\ "close" \in Requests
    /\ closing' = TRUE
    /\ calls' = <<CallAlone("cancelAll")>>
    /\ UNCHANGED <<persisted, phase, outcome, rotated, canceledProcesses,
                   queues, runningThreadRun, runningPersistentRunIds, pool>>

\* The loops of cancelAll: the queued runs of the threads, the persistent
\* queue, then every active run.
CancelAll ==
    LET waiting == {k \in QueueKeys : queues[k] # <<>>}
    IN  /\ OnTop(CallAlone("cancelAll"))
        /\ \/ \E k \in waiting :
                /\ k = PersistentQueue => waiting = {PersistentQueue}
                /\ RemoveQueuedRun(k, 1, calls)
           \/ /\ waiting = {}
              /\ CancelActive(ActiveRuns)
              /\ calls' = Tail(calls)
              /\ UNCHANGED <<phase, queues>>
        /\ UNCHANGED <<input, restarts, outcome, rotated, runningThreadRun,
                       runningPersistentRunIds, pool, closing>>

-----------------------------------------------------------------------------
(* Restart: the daemon stops at any point, even between two calls of one   *)
(* stretch, and a new one recovers the orphaned runs before anything else. *)

Restart ==
    /\ restarts < MaxRestarts
    /\ restarts' = restarts + 1
    /\ phase' = [r \in Runs |-> "idle"]
    /\ outcome' = [r \in Runs |-> "none"]
    /\ rotated' = {}
    /\ canceledProcesses' = {}
    /\ queues' = [k \in QueueKeys |-> <<>>]
    /\ runningThreadRun' = [t \in Threads |-> NoRun]
    /\ runningPersistentRunIds' = {}
    /\ pool' = EmptyPool
    /\ closing' = FALSE
    /\ calls' = <<CallAlone("recover")>>
    /\ UNCHANGED <<input, row, log>>

\* Mutant: recovers the ended runs of the last session too.
RecoverAnyRun ==
    LET orphans == {r \in Submitted : row[r].internal # "orphaned"}
    IN  /\ OnTop(CallAlone("recover"))
        /\ \/ \E r \in orphans :
                /\ row' = [row EXCEPT ![r] =
                              RowOf("failed", "orphaned", @.queue)]
                /\ calls' = <<CallRun("recoverEvents", r)>> \o calls
           \/ orphans = {} /\ calls' = Tail(calls) /\ UNCHANGED row
        /\ UNCHANGED <<input, log, restarts, phase, outcome, rotated,
                       canceledProcesses, queues, runningThreadRun,
                       runningPersistentRunIds, pool, closing>>

\* recoverOrphanedRuns: the row of one orphan, then the events it lacks.
RecoverOrphan ==
    LET orphans == {r \in Submitted : ~Terminal(r)}
    IN  /\ OnTop(CallAlone("recover"))
        /\ \/ \E r \in orphans :
                /\ row' = [row EXCEPT ![r] =
                              RowOf("failed", "orphaned", @.queue)]
                /\ calls' = <<CallRun("recoverEvents", r)>> \o calls
           \/ orphans = {} /\ calls' = Tail(calls) /\ UNCHANGED row
        /\ UNCHANGED <<input, log, restarts, phase, outcome, rotated,
                       canceledProcesses, queues, runningThreadRun,
                       runningPersistentRunIds, pool, closing>>

\* Mutant: does not look for a done event.
RecoverEventsAgain(r) ==
    /\ OnTop(CallRun("recoverEvents", r))
    /\ log' = [log EXCEPT ![r] = Published(@, "failed")]
    /\ calls' = Tail(calls)
    /\ UNCHANGED <<input, row, restarts, phase, outcome, rotated,
                   canceledProcesses, queues, runningThreadRun,
                   runningPersistentRunIds, pool, closing>>

RecoverEvents(r) ==
    /\ OnTop(CallRun("recoverEvents", r))
    /\ log' = [log EXCEPT ![r] =
                  IF HasDone(@) THEN @ ELSE Published(@, "failed")]
    /\ calls' = Tail(calls)
    /\ UNCHANGED <<input, row, restarts, phase, outcome, rotated,
                   canceledProcesses, queues, runningThreadRun,
                   runningPersistentRunIds, pool, closing>>

-----------------------------------------------------------------------------

\* The calls of the stretch under way.
CallStep ==
    \/ \E r \in Runs : \/ Launch(r) \/ FailBeforeSpawn(r)
                       \/ PublishQueuedCancel(r) \/ RecoverEvents(r)
    \/ StartNextPersistentRuns
    \/ \E t \in Threads : StartNextQueuedThreadRun(t)
    \/ CancelAll
    \/ RecoverOrphan

\* The steps of a run's own task.
TaskStep(r) ==
    \/ StartPersistentAttempt(r) \/ StartDirectAttempt(r)
    \/ EndTurn(r)
    \/ HandleResult(r) \/ Rotate(r)
    \/ PublishDone(r) \/ FinishRun(r)

\* What users and the owner of the process do.
Request ==
    \/ \E t \in Threads, origin \in Origins, mode \in Modes :
          StartRun(t, origin, mode)
    \/ \E r \in Submitted : \/ CancelActiveRun(r) \/ CancelQueuedRun(r)
                            \/ SteerRun(r)
    \/ SignOut
    \/ Close

Next == CallStep \/ (\E r \in Runs : TaskStep(r)) \/ Request \/ Restart

Spec == Init /\ [][Next]_vars

\* The event loop runs every pending callback, and the timeouts of the process
\* runners end every turn.  A task is ready again and again, not always, since
\* other callbacks run in between: its fairness is strong.
Fairness == WF_vars(CallStep) /\ \A r \in Runs : SF_vars(TaskStep(r))

FairSpec == Spec /\ Fairness

-----------------------------------------------------------------------------
(* Properties.                                                             *)

\* The variables hold values of the code's types, and only submitted runs are
\* anywhere in the manager's memory.
TypeOK ==
    /\ input \in Seq(Input) /\ Len(input) <= MaxRuns
    /\ row \in [Runs -> Row]
    /\ log \in [Runs -> Seq(Event)]
    /\ restarts \in 0..MaxRestarts
    /\ phase \in [Runs -> Phase]
    /\ \A r \in Runs \ Submitted : phase[r] = "idle"
    /\ outcome \in [Runs -> Outcome]
    /\ rotated \subseteq Runs
    /\ canceledProcesses \subseteq Runs
    /\ queues \in [QueueKeys -> Seq(Submitted)]
    /\ runningThreadRun \in [Threads -> Runs \cup {NoRun}]
    /\ runningPersistentRunIds \subseteq Runs
    /\ pool \in Pools(Runs)
    /\ closing \in BOOLEAN
    /\ calls \in Seq(Call)

\* The runs of a thread are serial: whichever of the two queues, the
\* immediate start, a steer or a rotation started them, two runs of one
\* thread are never active together (runtime-api-for-ui-v1.md:149).
ThreadExclusive ==
    \A r, s \in ActiveRuns : ThreadOf(r) = ThreadOf(s) => r = s

\* No more persistent runs are active than the executor has slots, although
\* runs are started from three places and in loops.
WithinCapacity ==
    Cardinality({r \in ActiveRuns : IsPersistent(r)}) <= MaxConcurrency

\* A Codex thread lives in one app-server process: no two slots have run the
\* same thread.
OneOwner == \A t \in Threads : Cardinality(Owners(pool, t)) <= 1

QueuedAt(r) ==
    {place \in QueueKeys \X Runs :
       LET queue == queues[place[1]]
       IN  place[2] \in DOMAIN queue /\ queue[place[2]] = r}

\* No run is lost or run twice.  Between callbacks a row that says queued is
\* in exactly one queue, once; a row that says running has a task; any other
\* row has neither.
MemoryMatchesRows ==
    Idle => \A r \in Submitted :
        /\ Cardinality(QueuedAt(r)) = IF row[r].public = "queued" THEN 1 ELSE 0
        /\ r \in ActiveRuns <=> row[r].public = "running"

\* The run has left its process; finalizeRun will free its thread and place.
Ending(r) == phase[r] \in {"reporting", "finalizing"}

\* No wake-up is missed, although runs are woken from five places and each
\* wakes one queue or both.  Between callbacks, unless the daemon is closing, a
\* run waits in the queue of its thread only while another one holds the
\* thread; and in the persistent queue only while its thread is held, the
\* places are taken, its slot is busy, or a run of the pool is ending, which
\* will wake it.
NoMissedWakeUp ==
    Idle /\ ~closing =>
       /\ \A t \in Threads : queues[t] # <<>> => runningThreadRun[t] # NoRun
       /\ \A i \in DOMAIN queues[PersistentQueue] :
             Startable(queues[PersistentQueue][i]) /\ ~AtCapacity
             => \E q \in runningPersistentRunIds : Ending(q)

\* A cancel that the daemon accepted reaches the process that executes the
\* run (runtime-api-for-ui-v1.md:202), however it falls between the steps of
\* the start.  It holds as long as no Codex thread is missing: the second
\* process of a run that replaces its thread is not told.
CancelReachesProcess ==
    \A r \in Runs :
       phase[r] = "turn" /\ row[r].internal = "canceling"
       => r \in canceledProcesses

\* The done event and the terminal row of a run announce the same status.
DoneMatchesRow ==
    \A r \in Submitted : \A i \in DOMAIN log[r] :
       log[r][i] \in TerminalStatus /\ Terminal(r)
       => row[r].public = log[r][i]

\* A run has one done event at most, restarts and recoveries included.
AtMostOneDone ==
    \A r \in Runs :
       Cardinality({i \in DOMAIN log[r] : log[r][i] \in TerminalStatus}) <= 1

\* A run waits until a slot is free for it, then starts: the executor never
\* refuses one, unless the daemon is closing
\* (clawee-user-guide-and-troubleshooting.md:23).  The code starts two queued
\* runs of one slot together, and the second one is refused.
NeverRefused == \A r \in Runs : outcome[r] = "refused" => closing

\* Submissions with mode enqueue to one thread start in the order they were
\* made (runtime-api-for-ui-v1.md:1129), as long as users do not steer, which
\* is a way to change that order.
FifoStep ==
    "steer" \notin Requests =>
    \A r \in DOMAIN input' : \A s \in Submitted :
       LET later == input'[r]
           earlier == input[s]
       IN  /\ s < r /\ later.thread = earlier.thread
           /\ later.origin = earlier.origin
           /\ later.mode = "enqueue" /\ earlier.mode = "enqueue"
           /\ phase[r] # "admitted" /\ phase'[r] = "admitted"
           => ~(phase[s] = "queued" /\ phase'[s] = "queued")

ThreadFifo == [][FifoStep]_vars

\* Every submitted run reaches a terminal status, whatever its turn and the
\* queue it waits in, unless the closing daemon gives it up.
EveryRunEnds ==
    \A r \in Runs :
       r \in Submitted ~> (Terminal(r) \/ phase[r] = "stuck")

\* The manager implements RunLifecycle: read as the public status of runs,
\* every step of the daemon, restarts and recoveries included, is a step that
\* a client was promised.
Lifecycle ==
    INSTANCE RunLifecycle
        WITH status <- [r \in Runs |-> row[r].public],
             thread <- [r \in Submitted |-> ThreadOf(r)],
             pooled <- {r \in Submitted : IsPersistent(r)}

ImplementsLifecycle == Lifecycle!Spec
=============================================================================
