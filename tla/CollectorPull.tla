----------------------------- MODULE CollectorPull -----------------------------
(***************************************************************************)
(* The broker that carries questions from the gateway to the collectors    *)
(* (collectorpull/broker.go), the two HTTP handlers in front of it         *)
(* (office/httpapi/collector_task_handlers.go) and the workers of a        *)
(* collector (collector/taskworker).                                       *)
(*                                                                         *)
(* A gateway call submits a task and waits for its result or its timeout.  *)
(* A worker long-polls for a task: the handler claims one under the        *)
(* broker's mutex, or waits on the collector's notify channel, which the   *)
(* next submission closes and replaces.  The worker runs the question and  *)
(* posts the result, with retries.  Requests and answers get lost or late, *)
(* callers give up, collectors restart.  The broker lives in the memory of *)
(* the server and dies with it: no restart of the server is modelled.      *)
(***************************************************************************)
EXTENDS Naturals, Sequences, FiniteSets, SequencesExt

CONSTANTS
    Tasks,        \* the gateway's calls, one task each
    Collectors,
    Lanes,        \* the worker goroutines of a collector (workerCount)
    Pulls,        \* the pull requests the server can be handling at once
    NoTask,
    NoWorker,
    MaxInFlight,  \* maxInFlightPerCollector
    MaxAttempts   \* resultMaxAttempts

Workers == Collectors \X Lanes
CollectorOf(w) == w[1]

ASSUME TaskAssumption   == NoTask \notin Tasks
ASSUME WorkerAssumption == NoWorker \notin Workers
ASSUME BoundAssumption  == MaxInFlight \in Nat /\ MaxAttempts \in Nat \ {0}

VARIABLES
    tasks,      \* Broker.tasks: the state of each task in the map, or "none"
    aimed,      \* task.collectorID
    pending,    \* Broker.pending: the queue of each collector
    completed,  \* Broker.completed
    result,     \* the tasks whose result channel holds a completion
    caller,     \* where the gateway's call of Submit is, or what it returned
    phase,      \* where each pull request's handler is
    source,     \* the collector a pull request comes from
    client,     \* the worker still listening to it
    carries,    \* the task the answer of a pull request delivers
    step,       \* what a worker does
    held,       \* the task a worker was given
    attempt,    \* the number of the result post it waits for
    posts,      \* the result requests on their way
    told        \* what the worker of a task heard of its result

broker  == <<tasks, aimed, pending, completed, result>>
polls   == <<phase, source, client, carries>>
workers == <<step, held, attempt>>
vars    == <<broker, caller, polls, workers, posts, told>>

\* A result request; whether it says succeeded or failed is nothing to the broker.
Post == [task : Tasks, attempt : 1..MaxAttempts]

TypeOK ==
    /\ tasks \in [Tasks -> {"none", "pending", "claimed"}]
    /\ aimed \in [Tasks -> Collectors]
    /\ pending \in [Collectors -> Seq(Tasks)]
    /\ completed \subseteq Tasks
    /\ result \subseteq Tasks
    /\ caller \in [Tasks -> {"new", "waiting", "leaving", "busy", "gone", "answered"}]
    /\ phase \in [Pulls -> {"free", "ready", "parked", "woken", "sent"}]
    /\ source \in [Pulls -> Collectors]
    /\ client \in [Pulls -> Workers \cup {NoWorker}]
    /\ carries \in [Pulls -> Tasks \cup {NoTask}]
    /\ step \in [Workers -> {"idle", "pulling", "asking", "telling"}]
    /\ held \in [Workers -> Tasks \cup {NoTask}]
    /\ attempt \in [Workers -> 0..MaxAttempts]
    /\ posts \subseteq Post
    /\ told \in [Tasks -> {"nothing", "accepted", "refused"}]

Init ==
    /\ tasks = [t \in Tasks |-> "none"]
    /\ aimed \in [Tasks -> Collectors]
    /\ pending = [c \in Collectors |-> <<>>]
    /\ completed = {}
    /\ result = {}
    /\ caller = [t \in Tasks |-> "new"]
    /\ phase = [p \in Pulls |-> "free"]
    /\ source \in [Pulls -> Collectors]
    /\ client = [p \in Pulls |-> NoWorker]
    /\ carries = [p \in Pulls |-> NoTask]
    /\ step = [w \in Workers |-> "idle"]
    /\ held = [w \in Workers |-> NoTask]
    /\ attempt = [w \in Workers |-> 0]
    /\ posts = {}
    /\ told = [t \in Tasks |-> "nothing"]

-----------------------------------------------------------------------------
(* The gateway's call: Submit.                                             *)

InFlight(c) == {t \in Tasks : tasks[t] # "none" /\ aimed[t] = c}

\* Mutant: a submission closes no channel.
SignalNobody(c) == UNCHANGED phase

\* signalLocked: the channel every parked pull of the collector waits on is
\* closed, and a new one takes its place.
signalLocked(c) ==
    phase' = [p \in Pulls |->
                IF phase[p] = "parked" /\ source[p] = c THEN "woken" ELSE phase[p]]

\* Submit, up to its select: the task takes one of the collector's places.
Submit(t) ==
    /\ caller[t] = "new"
    /\ Cardinality(InFlight(aimed[t])) < MaxInFlight
    /\ tasks' = [tasks EXCEPT ![t] = "pending"]
    /\ pending' = [pending EXCEPT ![aimed[t]] = Append(@, t)]
    /\ signalLocked(aimed[t])
    /\ caller' = [caller EXCEPT ![t] = "waiting"]
    /\ UNCHANGED <<aimed, completed, result, source, client, carries, workers, posts, told>>

\* ErrBusy: the collector has no place left.
SubmitBusy(t) ==
    /\ caller[t] = "new"
    /\ Cardinality(InFlight(aimed[t])) >= MaxInFlight
    /\ caller' = [caller EXCEPT ![t] = "busy"]
    /\ UNCHANGED <<broker, polls, workers, posts, told>>

\* The select of Submit takes the result.
Return(t) ==
    /\ caller[t] = "waiting" /\ t \in result
    /\ caller' = [caller EXCEPT ![t] = "answered"]
    /\ result' = result \ {t}
    /\ UNCHANGED <<tasks, aimed, pending, completed, polls, workers, posts, told>>

\* The select takes the end of the context: the gateway's client went away or
\* taskTimeout passed.  It may do so although a result is there.
GiveUp(t) ==
    /\ caller[t] = "waiting"
    /\ caller' = [caller EXCEPT ![t] = "leaving"]
    /\ UNCHANGED <<broker, polls, workers, posts, told>>

\* Mutant: only a pending task is removed, a claimed one keeps its place.
CancelPendingOnly(t) ==
    /\ caller[t] = "leaving"
    /\ caller' = [caller EXCEPT ![t] = "gone"]
    /\ tasks' = IF tasks[t] = "pending" THEN [tasks EXCEPT ![t] = "none"] ELSE tasks
    /\ pending' = IF tasks[t] = "pending"
                  THEN [pending EXCEPT ![aimed[t]] = RemoveFirst(@, t)]
                  ELSE pending
    /\ UNCHANGED <<aimed, completed, result, polls, workers, posts, told>>

\* cancel: the task leaves the map, whatever its state, and the queue.
cancel(t) ==
    /\ caller[t] = "leaving"
    /\ caller' = [caller EXCEPT ![t] = "gone"]
    /\ tasks' = [tasks EXCEPT ![t] = "none"]
    /\ pending' = IF tasks[t] = "pending"
                  THEN [pending EXCEPT ![aimed[t]] = RemoveFirst(@, t)]
                  ELSE pending
    /\ UNCHANGED <<aimed, completed, result, polls, workers, posts, told>>

-----------------------------------------------------------------------------
(* The handler of a pull request: handleTaskPull and Broker.Pull.          *)

\* The tasks a queue holds are all gone: claimLocked drops them.
NonePending(q) == \A i \in 1..Len(q) : tasks[q[i]] # "pending"

\* claimLocked: the first task that is still pending, past the ones that are not.
\* Its error path is never taken: since Go 1.24, crypto/rand.Read, which makes
\* the number of the claim, returns no error (it ends the program).
Claim(p) ==
    /\ phase[p] \in {"ready", "woken"}
    /\ LET c == source[p]
           q == pending[c]
       IN \E i \in 1..Len(q) :
             /\ NonePending(SubSeq(q, 1, i - 1)) /\ tasks[q[i]] = "pending"
             /\ tasks' = [tasks EXCEPT ![q[i]] = "claimed"]
             /\ pending' = [pending EXCEPT ![c] = SubSeq(q, i + 1, Len(q))]
             /\ carries' = [carries EXCEPT ![p] = q[i]]
    /\ phase' = [phase EXCEPT ![p] = "sent"]
    /\ UNCHANGED <<aimed, completed, result, caller, source, client, workers, posts, told>>

\* notifyLocked, under the mutex that found nothing to claim.
Park(p) ==
    /\ phase[p] \in {"ready", "woken"}
    /\ NonePending(pending[source[p]])
    /\ pending' = [pending EXCEPT ![source[p]] = <<>>]
    /\ phase' = [phase EXCEPT ![p] = "parked"]
    /\ UNCHANGED <<tasks, aimed, completed, result, caller, source, client, carries,
                   workers, posts, told>>

Free(p) ==
    /\ phase' = [phase EXCEPT ![p] = "free"]
    /\ client' = [client EXCEPT ![p] = NoWorker]
    /\ UNCHANGED source
    /\ carries' = [carries EXCEPT ![p] = NoTask]

\* The worker that listens to p goes on with s and the task t.
Wake(p, s, t) ==
    IF client[p] = NoWorker THEN UNCHANGED <<step, held>>
    ELSE /\ step' = [step EXCEPT ![client[p]] = s]
         /\ held' = [held EXCEPT ![client[p]] = t]

\* The select of Pull takes the end of the context (collectorTaskLongPollTimeout
\* or a client that hung up), which it may do although the channel is closed:
\* 204, to whoever listens.
PollEnds(p) ==
    /\ phase[p] \in {"parked", "woken"}
    /\ Wake(p, "idle", NoTask)
    /\ Free(p)
    /\ UNCHANGED <<broker, caller, attempt, posts, told>>

\* The delivery arrives.  When nobody listens any more it is lost, and the task
\* stays claimed.
Deliver(p) ==
    /\ phase[p] = "sent"
    /\ Wake(p, "asking", carries[p])
    /\ Free(p)
    /\ UNCHANGED <<broker, caller, attempt, posts, told>>

-----------------------------------------------------------------------------
(* A worker of the collector: runOne, execute, completeWithRetry.          *)

Pull(w) ==
    /\ step[w] = "idle"
    /\ \E p \in Pulls :
          /\ phase[p] = "free"
          /\ phase' = [phase EXCEPT ![p] = "ready"]
          /\ source' = [source EXCEPT ![p] = CollectorOf(w)]
          /\ client' = [client EXCEPT ![p] = w]
    /\ step' = [step EXCEPT ![w] = "pulling"]
    /\ UNCHANGED <<broker, caller, carries, held, attempt, posts, told>>

\* The pull fails on the worker's side (connection, 30 s client timeout): its
\* handler may not have noticed, or may have answered already.
PullFails(w) ==
    /\ step[w] = "pulling"
    /\ step' = [step EXCEPT ![w] = "idle"]
    /\ client' = [p \in Pulls |-> IF client[p] = w THEN NoWorker ELSE client[p]]
    /\ UNCHANGED <<broker, caller, phase, source, carries, held, attempt, posts, told>>

\* execute, and the first post of completeWithRetry.
Execute(w) ==
    /\ step[w] = "asking"
    /\ step' = [step EXCEPT ![w] = "telling"]
    /\ posts' = posts \cup {[task |-> held[w], attempt |-> 1]}
    /\ attempt' = [attempt EXCEPT ![w] = 1]
    /\ UNCHANGED <<broker, caller, polls, held, told>>

\* The worker is through with its task, and heard a of it.
Finish(w, a) ==
    /\ told' = [told EXCEPT ![held[w]] = a]
    /\ step' = [step EXCEPT ![w] = "idle"]
    /\ held' = [held EXCEPT ![w] = NoTask]
    /\ attempt' = [attempt EXCEPT ![w] = 0]

\* A post fails: no answer, a lost answer or a status of 500 and above.
TellFails(w) ==
    /\ step[w] = "telling"
    /\ \/ /\ attempt[w] < MaxAttempts
          /\ attempt' = [attempt EXCEPT ![w] = @ + 1]
          /\ posts' = posts \cup {[task |-> held[w], attempt |-> attempt[w] + 1]}
          /\ UNCHANGED <<step, held, told>>
       \/ /\ attempt[w] = MaxAttempts
          /\ Finish(w, "nothing")
          /\ UNCHANGED posts
    /\ UNCHANGED <<broker, caller, polls>>

-----------------------------------------------------------------------------
(* The handler of a result: handleTaskResult and Broker.Complete.          *)

\* The worker that waits for the answer to post m, if any still does.
Waiting(m) == {w \in Workers : step[w] = "telling" /\ held[w] = m.task /\ attempt[w] = m.attempt}

\* The answer to m reaches the worker that waits for it, or nobody.
Answer(m, a) ==
    \/ \E w \in Waiting(m) : Finish(w, a)
    \/ UNCHANGED <<workers, told>>

\* Complete of a claimed task: its result is put in the channel.
Complete(m) ==
    /\ m \in posts
    /\ posts' = posts \ {m}
    /\ m.task \notin completed /\ tasks[m.task] = "claimed"
    /\ result' = result \cup {m.task}
    /\ tasks' = [tasks EXCEPT ![m.task] = "none"]
    /\ completed' = completed \cup {m.task}
    /\ Answer(m, "accepted")
    /\ UNCHANGED <<aimed, pending, caller, polls>>

\* Mutant: completed results are not remembered.
CompleteForgotten(m) ==
    /\ m \in posts
    /\ posts' = posts \ {m}
    /\ m.task \in completed
    /\ Answer(m, "refused")
    /\ UNCHANGED <<broker, caller, polls>>

\* Complete of a task this claim has completed already: accepted again.
CompleteAgain(m) ==
    /\ m \in posts
    /\ posts' = posts \ {m}
    /\ m.task \in completed
    /\ Answer(m, "accepted")
    /\ UNCHANGED <<broker, caller, polls>>

\* ErrNotFound and ErrConflict: 409, which ends the retries.
CompleteRefused(m) ==
    /\ m \in posts
    /\ posts' = posts \ {m}
    /\ m.task \notin completed /\ tasks[m.task] # "claimed"
    /\ Answer(m, "refused")
    /\ UNCHANGED <<broker, caller, polls>>

\* The request is lost, or answered before the broker sees it (authenticate):
\* a status below 500 ends the retries.
PostLost(m) ==
    /\ m \in posts
    /\ posts' = posts \ {m}
    /\ Answer(m, "nothing")
    /\ UNCHANGED <<broker, caller, polls>>

\* cleanupCompletedLocked, ten minutes later: by then no post of the task is on
\* its way and no worker repeats one.
cleanupCompletedLocked(t) ==
    /\ t \in completed
    /\ \A m \in posts : m.task # t
    /\ \A w \in Workers : held[w] # t
    /\ completed' = completed \ {t}
    /\ UNCHANGED <<tasks, aimed, pending, result, caller, polls, workers, posts, told>>

\* The collector stops and starts again: its workers forget what they did.
CollectorRestarts(c) ==
    LET own == {w \in Workers : CollectorOf(w) = c}
    IN /\ step' = [w \in Workers |-> IF w \in own THEN "idle" ELSE step[w]]
       /\ held' = [w \in Workers |-> IF w \in own THEN NoTask ELSE held[w]]
       /\ attempt' = [w \in Workers |-> IF w \in own THEN 0 ELSE attempt[w]]
       /\ client' = [p \in Pulls |-> IF client[p] \in own THEN NoWorker ELSE client[p]]
       /\ UNCHANGED <<broker, caller, phase, source, carries, posts, told>>

-----------------------------------------------------------------------------
Handler(p) == Claim(p) \/ Park(p)
Reply(m) == \/ Complete(m) \/ CompleteAgain(m) \/ CompleteRefused(m) \/ PostLost(m)

Next ==
    \/ \E t \in Tasks : \/ Submit(t) \/ SubmitBusy(t) \/ Return(t) \/ GiveUp(t)
                        \/ cancel(t) \/ cleanupCompletedLocked(t)
    \/ \E p \in Pulls : Handler(p) \/ PollEnds(p) \/ Deliver(p)
    \/ \E w \in Workers : Pull(w) \/ PullFails(w) \/ Execute(w) \/ TellFails(w)
    \/ \E m \in posts : Reply(m)
    \/ \E c \in Collectors : CollectorRestarts(c)

Spec == Init /\ [][Next]_vars

-----------------------------------------------------------------------------
(* Properties.                                                             *)

\* No wake-up is lost: a pull that waits on an open channel has nothing to
\* take, however many pulls, submissions and cancellations came in between
\* (Pull takes the channel in the same critical section in which it found the
\* queue empty; signalLocked closes it for all of them).
NoLostWakeup ==
    \A p \in Pulls : phase[p] = "parked" =>
        \A t \in Tasks : tasks[t] = "pending" => aimed[t] # source[p]

\* Every place taken at a collector belongs to a call that still waits and has
\* no result yet, and the queue holds the pending tasks only: no lost answer,
\* late result or timeout leaks a place, and the send in Complete, made under
\* the mutex, always finds its buffer empty.
PlacesHaveCallers ==
    \A t \in Tasks :
        /\ tasks[t] # "none" => caller[t] \in {"waiting", "leaving"} /\ t \notin result
        /\ \A c \in Collectors :
              Contains(pending[c], t) <=> tasks[t] = "pending" /\ aimed[t] = c

\* What a worker hears of its result is true: an accepted result is the one its
\* call returns, unless the call was giving up; a refused one has no call left.
\* So a repeated post of a result whose first answer was lost is not refused.
ToldTheTruth ==
    \A t \in Tasks :
        /\ told[t] = "accepted" => caller[t] = "answered" \/ t \in result
        /\ told[t] = "refused" => caller[t] = "gone"
=============================================================================
