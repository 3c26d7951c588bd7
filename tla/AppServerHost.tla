---------------------------- MODULE AppServerHost ----------------------------
(***************************************************************************)
(* One Codex app-server process and the host object that speaks with it    *)
(* (client/apps/daemon/src/codex/app-server-host-*.ts).                    *)
(*                                                                         *)
(* The host keeps one process for many jobs.  A job asks Codex, one        *)
(* request after the other, for its thread, for a reload of the MCP        *)
(* servers when its manifest is not the one loaded, and for its turn; it   *)
(* ends when the frame that says its turn is completed arrives.  Codex's   *)
(* frames come in one order and are handled one after the other, each      *)
(* notification awaiting the callbacks of the run manager.  A cancel before *)
(* turn/start is written ends the job; later it asks Codex to interrupt    *)
(* the turn.  An error after turn/start is written leaves it open whether  *)
(* a turn is running: the host fails and its process is killed, as it is   *)
(* when a timer fires, a pipe breaks or a frame is no JSON.                *)
(*                                                                         *)
(* An action is a stretch of the code between two awaits; the write of a   *)
(* request belongs to the step that makes it (its callback comes before    *)
(* any answer), and the promise of an answer goes on in the step that      *)
(* handles the frame.  Codex itself is external: it answers, runs turns    *)
(* and dies as the code must expect.  It answers turn/start before it      *)
(* sends notifications of the turn.  Approvals are in module Approvals;    *)
(* whether MCP servers are still starting is a choice.                     *)
(***************************************************************************)
EXTENDS Naturals, Sequences

CONSTANTS Keys,     \* manifest keys of jobs
          NoKey,    \* no manifest is loaded
          MaxJobs   \* bound: jobs ever run

ASSUME AppServerHostAssumption ==
    /\ Keys # {} /\ NoKey \notin Keys
    /\ MaxJobs \in Nat

Jobs == 1..MaxJobs
NoJob == 0

VARIABLES
    state,      \* HostState
    jobs,       \* generationSequence
    active,     \* activeJob
    stage,      \* of every job
    canceled,   \* jobs with cancelRequested
    key,        \* manifestKey of every job
    outcome,    \* of every job: the status of its turn, or error
    initialized,      \* initializePromise is resolved
    gatePassed,       \* writableGatePassed
    lastManifestKey,
    pending,    \* requests whose promise is pending
    delivering, \* the notification whose callback is awaited, with its job
    frames,     \* what Codex has sent and the host has not handled
    alive,      \* Codex: the process
    asked,      \* Codex: requests not answered
    turn,       \* Codex: the job whose turn is running
    stopping,   \* Codex: the turn was told to stop
    ended,      \* Codex: how the turn of every job ended
    loadedKey   \* Codex: the manifest its MCP servers were loaded with

jobVars == <<state, active, stage, outcome>>
memory == <<initialized, gatePassed, lastManifestKey>>
codexVars == <<alive, turn, stopping, ended, loadedKey>>
vars == <<jobVars, jobs, canceled, key, memory, pending, delivering, frames,
          asked, codexVars>>

HostState == {"starting", "ready", "turn_active", "closing", "failed",
              "closed"}

\* The stages of the code, its acquiring and thread_starting in two: before
\* and after the writable request gate, and the callback of thread/start.
Stage == {"none", "acquiring", "gating", "thread_starting",
          "thread_callback", "mcp_refreshing", "mcp_waiting",
          "turn_start_written", "turn_active", "interrupting", "settled"}

\* The stages in which job.turnId is set.
TurnKnown == {"turn_active", "interrupting"}

TurnStatus == {"completed", "interrupted", "failed"}
JobMethods == {"thread", "reload", "turn", "interrupt"}
Methods == JobMethods \union {"initialize"}

Request(method, j) == [method |-> method, job |-> j]

\* A frame is an answer, to the request of a job, or turn/completed, of the
\* turn of a job or, when the job is NoJob, of a turn the host did not start.
Frame(about, j, what) == [about |-> about, job |-> j, what |-> what]
NoFrame == Frame("none", NoJob, "none")

Init ==
    /\ state = "starting"
    /\ jobs = 0
    /\ active = NoJob
    /\ stage = [j \in Jobs |-> "none"]
    /\ canceled = {}
    /\ key = [j \in Jobs |-> NoKey]
    /\ outcome = [j \in Jobs |-> "none"]
    /\ initialized = FALSE
    /\ gatePassed = FALSE
    /\ lastManifestKey = NoKey
    /\ pending = {Request("initialize", NoJob)}
    /\ delivering = [frame |-> NoFrame, job |-> NoJob]
    /\ frames = <<>>
    /\ alive = TRUE
    /\ asked = {Request("initialize", NoJob)}
    /\ turn = NoJob
    /\ stopping = FALSE
    /\ ended = [j \in Jobs |-> "none"]
    /\ loadedKey = NoKey

-----------------------------------------------------------------------------
(* Pieces of the actions.  left are the requests that stay pending.        *)

\* Mutant: a host that is closing is reusable again after an error.
SettledReusable(j, how, left) ==
    /\ stage' = [stage EXCEPT ![j] = "settled"]
    /\ outcome' = [outcome EXCEPT ![j] = how]
    /\ pending' = left
    /\ active' = NoJob
    /\ state' = "ready"

\* The promise of a job settles, and the host is ready for the next one.
Settled(j, how, left) ==
    /\ stage' = [stage EXCEPT ![j] = "settled"]
    /\ outcome' = [outcome EXCEPT ![j] = how]
    /\ pending' = left
    /\ active' = NoJob
    /\ state' = IF state = "turn_active" THEN "ready" ELSE state

\* settleJobError(job, error, true).
SettleJobError(j, left) ==
    Settled(j, "error", {q \in left : q.job # j})

\* failHost: the process is told to end, SIGKILL follows.
FailHost(left) ==
    \/ /\ state \in {"closing", "failed", "closed"}
       /\ pending' = left
       /\ UNCHANGED jobVars
    \/ /\ state \notin {"closing", "failed", "closed"}
       /\ state' = "failed"
       /\ pending' = {}
       /\ active' = NoJob
       /\ stage' = [j \in Jobs |-> IF j = active THEN "settled" ELSE stage[j]]
       /\ outcome' = [j \in Jobs |-> IF j = active THEN "error" ELSE outcome[j]]

\* The job goes on to the stage.
Enter(j, next, left) ==
    /\ stage' = [stage EXCEPT ![j] = next]
    /\ pending' = left
    /\ UNCHANGED <<state, active, outcome>>

\* request: Codex gets it unless its process is gone.
Ask(j, next, method, left) ==
    /\ Enter(j, next, left \union {Request(method, j)})
    /\ asked' = IF alive THEN asked \union {Request(method, j)} ELSE asked

\* 'run canceled before turn start'.
CanceledBeforeTurn(j, left) ==
    /\ j \in canceled
    /\ SettleJobError(j, left)
    /\ UNCHANGED asked

StartThread(j) ==
    \/ CanceledBeforeTurn(j, pending)
    \/ j \notin canceled /\ Ask(j, "thread_starting", "thread", pending)

StartTurn(j, left) ==
    \/ CanceledBeforeTurn(j, left)
    \/ j \notin canceled /\ Ask(j, "turn_start_written", "turn", left)

\* MCP servers of the thread are starting, or none is.
AwaitServers(j, left) ==
    \/ Enter(j, "mcp_waiting", left) /\ UNCHANGED asked
    \/ StartTurn(j, left)

\* Mutant: once a manifest is loaded, it is loaded for good.
ReloadOnce(j) ==
    \/ /\ lastManifestKey = NoKey
       /\ Ask(j, "mcp_refreshing", "reload", pending)
    \/ /\ lastManifestKey # NoKey
       /\ AwaitServers(j, pending)

ReloadServers(j) ==
    \/ /\ key[j] # lastManifestKey
       /\ Ask(j, "mcp_refreshing", "reload", pending)
    \/ /\ key[j] = lastManifestKey
       /\ AwaitServers(j, pending)

-----------------------------------------------------------------------------
(* run, cancel and close, and the callbacks a job awaits.                  *)

Run(k) ==
    /\ state \in {"starting", "ready"} /\ active = NoJob /\ jobs < MaxJobs
    /\ jobs' = jobs + 1
    /\ active' = jobs'
    /\ stage' = [stage EXCEPT ![jobs'] = "acquiring"]
    /\ key' = [key EXCEPT ![jobs'] = k]
    /\ state' = "turn_active"
    /\ UNCHANGED <<outcome, canceled, memory, pending, delivering, frames,
                   asked, codexVars>>

Cancel(j) ==
    /\ active = j /\ j \notin canceled
    /\ canceled' = canceled \union {j}
    /\ \/ /\ stage[j] = "turn_active"
          /\ Ask(j, "interrupting", "interrupt", pending)
       \/ /\ stage[j] # "turn_active"
          /\ UNCHANGED <<jobVars, pending, asked>>
    /\ UNCHANGED <<jobs, key, memory, delivering, frames, codexVars>>

Close ==
    /\ state \notin {"closing", "closed"}
    /\ state' = "closing"
    /\ UNCHANGED <<active, stage, outcome, jobs, canceled, key, memory,
                   pending, delivering, frames, asked, codexVars>>

\* The job has awaited initializePromise.
Acquired(j) ==
    /\ active = j /\ stage[j] = "acquiring" /\ initialized
    /\ \/ /\ j \notin canceled /\ ~gatePassed
          /\ Enter(j, "gating", pending)
          /\ UNCHANGED asked
       \/ /\ j \in canceled \/ gatePassed
          /\ StartThread(j)
    /\ UNCHANGED <<jobs, canceled, key, memory, delivering, frames, codexVars>>

\* onBeforeWritableRequest.
GatePassed(j) ==
    /\ active = j /\ stage[j] = "gating"
    /\ gatePassed' = TRUE
    /\ StartThread(j)
    /\ UNCHANGED <<jobs, canceled, key, initialized, lastManifestKey,
                   delivering, frames, codexVars>>

\* onThreadStarted.
ThreadStarted(j) ==
    /\ active = j /\ stage[j] = "thread_callback"
    /\ ReloadServers(j)
    /\ UNCHANGED <<jobs, canceled, key, memory, delivering, frames, codexVars>>

\* onBeforeWritableRequest or onThreadStarted rejects.
CallbackFails(j) ==
    /\ active = j /\ stage[j] \in {"gating", "thread_callback"}
    /\ SettleJobError(j, pending)
    /\ UNCHANGED <<jobs, canceled, key, memory, delivering, frames, asked,
                   codexVars>>

\* waitForMcpStartup returns: the servers are ready, the time is up, or the
\* job was canceled.
ServersAwaited(j) ==
    /\ active = j /\ stage[j] = "mcp_waiting"
    /\ StartTurn(j, pending)
    /\ UNCHANGED <<jobs, canceled, key, memory, delivering, frames, codexVars>>

-----------------------------------------------------------------------------
(* Frames.                                                                 *)

\* The next frame is an answer the host waits for.
Answer(method, whats) ==
    /\ delivering.frame = NoFrame /\ frames # <<>>
    /\ Head(frames).about = method /\ Head(frames).what \in whats
    /\ Request(method, Head(frames).job) \in pending
    /\ frames' = Tail(frames)

Left(method) == pending \ {Request(method, Head(frames).job)}

Initialized ==
    /\ Answer("initialize", {"ok"})
    /\ initialized' = TRUE
    /\ state' = IF state = "starting" THEN "ready" ELSE state
    /\ pending' = Left("initialize")
    /\ UNCHANGED <<active, stage, outcome, jobs, canceled, key, gatePassed,
                   lastManifestKey, delivering, asked, codexVars>>

\* The host fails, or, when it is closing, the job that awaits its start.
InitializeFails ==
    /\ Answer("initialize", {"error"})
    /\ IF state = "closing" /\ active # NoJob
       THEN SettleJobError(active, Left("initialize"))
       ELSE FailHost(Left("initialize"))
    /\ UNCHANGED <<jobs, canceled, key, memory, delivering, asked, codexVars>>

ThreadKnown ==
    /\ Answer("thread", {"ok"})
    /\ Enter(Head(frames).job, "thread_callback", Left("thread"))
    /\ UNCHANGED <<jobs, canceled, key, memory, delivering, asked, codexVars>>

ThreadRefused ==
    /\ Answer("thread", {"error"})
    /\ SettleJobError(Head(frames).job, Left("thread"))
    /\ UNCHANGED <<jobs, canceled, key, memory, delivering, asked, codexVars>>

Refreshed ==
    /\ Answer("reload", {"ok"})
    /\ lastManifestKey' = key[Head(frames).job]
    /\ AwaitServers(Head(frames).job, Left("reload"))
    /\ UNCHANGED <<jobs, canceled, key, initialized, gatePassed, delivering,
                   codexVars>>

\* Mutant: a cancel that came before the turn was known is not passed on.
TurnAnsweredQuietly ==
    /\ Answer("turn", {"ok"})
    /\ Enter(Head(frames).job, "turn_active", Left("turn"))
    /\ UNCHANGED <<jobs, canceled, key, memory, delivering, asked, codexVars>>

TurnAnswered ==
    /\ Answer("turn", {"ok"})
    /\ LET j == Head(frames).job IN
       \/ /\ j \in canceled
          /\ Ask(j, "interrupting", "interrupt", Left("turn"))
       \/ /\ j \notin canceled
          /\ Enter(j, "turn_active", Left("turn"))
          /\ UNCHANGED asked
    /\ UNCHANGED <<jobs, canceled, key, memory, delivering, codexVars>>

InterruptAnswered ==
    /\ Answer("interrupt", {"ok"})
    /\ pending' = Left("interrupt")
    /\ UNCHANGED <<jobVars, jobs, canceled, key, memory, delivering, asked,
                   codexVars>>

\* Mutant: an error of turn/start ends the job only.
AnswerIsFatalUnlessTurn ==
    \/ /\ Answer("turn", {"error"})
       /\ SettleJobError(Head(frames).job, Left("turn"))
       /\ UNCHANGED <<jobs, canceled, key, memory, delivering, asked, codexVars>>
    \/ \E method \in JobMethods \ {"turn"} :
          /\ Answer(method, IF method = "thread" THEN {"unusable"}
                            ELSE {"error"})
          /\ FailHost(Left(method))
          /\ UNCHANGED <<jobs, canceled, key, memory, delivering, asked,
                         codexVars>>

\* An answer after which the host cannot know what Codex has done: an error,
\* except to thread/start or thread/resume, or an answer without an id.
AnswerIsFatal ==
    \E method \in JobMethods :
        /\ Answer(method, IF method = "thread" THEN {"unusable"} ELSE {"error"})
        /\ FailHost(Left(method))
        /\ UNCHANGED <<jobs, canceled, key, memory, delivering, asked,
                       codexVars>>

\* messageBelongsToJob: the turn is compared when the job knows its own.
ForActiveJob(f) ==
    /\ active # NoJob
    /\ stage[active] \in TurnKnown => f.job = active

\* An answer to a request that is not pending any more, or a notification
\* that is not for the active job.
FrameIgnored ==
    /\ delivering.frame = NoFrame /\ frames # <<>>
    /\ LET f == Head(frames) IN
       IF f.about \in Methods
       THEN Request(f.about, f.job) \notin pending
       ELSE ~ForActiveJob(f)
    /\ frames' = Tail(frames)
    /\ UNCHANGED <<jobVars, jobs, canceled, key, memory, pending, delivering,
                   asked, codexVars>>

\* onNotification is called.
Notify ==
    /\ delivering.frame = NoFrame /\ frames # <<>>
    /\ Head(frames).about = "completed"
    /\ ForActiveJob(Head(frames))
    /\ delivering' = [frame |-> Head(frames), job |-> active]
    /\ frames' = Tail(frames)
    /\ UNCHANGED <<jobVars, jobs, canceled, key, memory, pending, asked,
                   codexVars>>

\* Mutant: the identity of the completed turn is not compared.
NotifiedAnyTurn ==
    /\ delivering.frame # NoFrame
    /\ delivering' = [frame |-> NoFrame, job |-> NoJob]
    /\ \/ /\ stage[delivering.job] \notin {"none", "settled"}
          /\ Settled(delivering.job, delivering.frame.what, pending)
       \/ /\ stage[delivering.job] = "settled"
          /\ UNCHANGED <<jobVars, pending>>
    /\ UNCHANGED <<jobs, canceled, key, memory, frames, asked, codexVars>>

\* onNotification returns, and the turn that is completed is compared with
\* the turn of the job.
Notified ==
    /\ delivering.frame # NoFrame
    /\ delivering' = [frame |-> NoFrame, job |-> NoJob]
    /\ LET j == delivering.job
           own == stage[j] \in TurnKnown /\ delivering.frame.job = j
       IN  \/ own /\ Settled(j, delivering.frame.what, pending)
           \/ ~own /\ UNCHANGED <<jobVars, pending>>
    /\ UNCHANGED <<jobs, canceled, key, memory, frames, asked, codexVars>>

\* onNotification rejects: the frames of the same chunk are lost.
NotifyFails ==
    /\ delivering.frame # NoFrame
    /\ delivering' = [frame |-> NoFrame, job |-> NoJob]
    /\ \E n \in 0..Len(frames) : frames' = SubSeq(frames, n + 1, Len(frames))
    /\ FailHost(pending)
    /\ UNCHANGED <<jobs, canceled, key, memory, asked, codexVars>>

-----------------------------------------------------------------------------
(* Failures and the end of the process.                                    *)

\* A timer of the job or of the spawn fires, a pipe breaks, a frame is no
\* JSON, or the callback of stderr rejects.
HostFails ==
    /\ state \in {"starting", "ready", "turn_active"}
    /\ FailHost(pending)
    /\ UNCHANGED <<jobs, canceled, key, memory, delivering, frames, asked,
                   codexVars>>

\* The write of a request fails while the host is closing.
WriteFails(j) ==
    /\ state = "closing" /\ ~alive /\ active = j
    /\ stage[j] \in {"thread_starting", "turn_start_written"}
    /\ SettleJobError(j, pending)
    /\ UNCHANGED <<jobs, canceled, key, memory, delivering, frames, asked,
                   codexVars>>

\* The close event, after the frames that came before it.
Closed ==
    /\ ~alive /\ state # "closed"
    /\ frames = <<>> /\ delivering.frame = NoFrame
    /\ state' = "closed"
    /\ pending' = {}
    /\ active' = NoJob
    /\ stage' = [j \in Jobs |-> IF j = active THEN "settled" ELSE stage[j]]
    /\ outcome' = [j \in Jobs |-> IF j = active THEN "error" ELSE outcome[j]]
    /\ UNCHANGED <<jobs, canceled, key, memory, delivering, frames, asked,
                   codexVars>>

-----------------------------------------------------------------------------
(* Codex.                                                                  *)

hostSide == <<jobVars, jobs, canceled, key, memory, pending, delivering>>

Answers(q, what) ==
    /\ alive /\ q \in asked
    /\ asked' = asked \ {q}
    /\ frames' = Append(frames, Frame(q.method, q.job, what))
    /\ UNCHANGED <<hostSide, alive>>

AnswersInitialize ==
    /\ \E what \in {"ok", "error"} :
           Answers(Request("initialize", NoJob), what)
    /\ UNCHANGED codexVars

AnswersThread(j) ==
    /\ \E what \in {"ok", "error", "unusable"} :
           Answers(Request("thread", j), what)
    /\ UNCHANGED codexVars

\* When the reload fails, it may have come some way.
AnswersReload(j) ==
    /\ \/ /\ Answers(Request("reload", j), "ok")
          /\ loadedKey' = key[j]
       \/ /\ Answers(Request("reload", j), "error")
          /\ loadedKey' \in {loadedKey, key[j]}
    /\ UNCHANGED <<turn, stopping, ended>>

\* A turn may be running also when turn/start is answered with an error.
AnswersTurn(j) ==
    /\ \/ Answers(Request("turn", j), "ok") /\ turn' = j
       \/ Answers(Request("turn", j), "error") /\ turn' \in {turn, j}
    /\ stopping' = FALSE
    /\ UNCHANGED <<ended, loadedKey>>

\* An interrupt stops the turn, or is refused, as one of a turn that has
\* ended may be.
AnswersInterrupt(j) ==
    /\ \/ /\ Answers(Request("interrupt", j), "ok")
          /\ stopping' = (stopping \/ turn = j)
       \/ /\ Answers(Request("interrupt", j), "error")
          /\ ended[j] # "interrupted"
          /\ UNCHANGED stopping
    /\ UNCHANGED <<turn, ended, loadedKey>>

EndsTurn(status) ==
    /\ alive /\ turn # NoJob
    /\ ended' = [ended EXCEPT ![turn] = status]
    /\ frames' = Append(frames, Frame("completed", turn, status))
    /\ turn' = NoJob
    /\ stopping' = FALSE
    /\ UNCHANGED <<hostSide, asked, alive, loadedKey>>

CompletesTurn == \E status \in {"completed", "failed"} : EndsTurn(status)

\* Before or after the interrupt is answered.
InterruptsTurn ==
    /\ stopping \/ Request("interrupt", turn) \in asked
    /\ EndsTurn("interrupted")

\* turn/completed of a turn the host did not start.
CompletesOther ==
    /\ alive
    /\ turn # NoJob \/ \E q \in asked : q.method = "turn"
    /\ \A i \in 1..Len(frames) : frames[i].about # "completed"
    /\ frames' = Append(frames, Frame("completed", NoJob, "completed"))
    /\ UNCHANGED <<hostSide, asked, codexVars>>

\* On its own, at any time.
Dies ==
    /\ alive
    /\ alive' = FALSE
    /\ asked' = {}
    /\ turn' = NoJob
    /\ stopping' = FALSE
    /\ UNCHANGED <<hostSide, frames, ended, loadedKey>>

\* Mutant: only a host that is closed is killed.
KilledByClose == state = "closing" /\ Dies

\* By SIGTERM, or by SIGKILL after the grace.
Killed == state \in {"closing", "failed"} /\ Dies

-----------------------------------------------------------------------------
(* The specification.                                                      *)

\* Steps of the host that come by themselves.
HostStep ==
    \/ \E j \in Jobs :
          \/ Acquired(j) \/ GatePassed(j) \/ ThreadStarted(j)
          \/ CallbackFails(j) \/ ServersAwaited(j) \/ WriteFails(j)
    \/ Initialized \/ InitializeFails \/ ThreadKnown \/ ThreadRefused \/ Refreshed
    \/ TurnAnswered \/ InterruptAnswered \/ AnswerIsFatal
    \/ FrameIgnored \/ Notify \/ Notified \/ NotifyFails
    \/ Closed

CodexAnswers ==
    \/ AnswersInitialize
    \/ \E j \in Jobs :
          \/ AnswersThread(j) \/ AnswersReload(j) \/ AnswersTurn(j)
          \/ AnswersInterrupt(j)

Next ==
    \/ \E k \in Keys : Run(k)
    \/ \E j \in Jobs : Cancel(j)
    \/ Close
    \/ HostStep
    \/ HostFails
    \/ CodexAnswers
    \/ CompletesTurn \/ InterruptsTurn \/ CompletesOther
    \/ Dies \/ Killed

Spec == Init /\ [][Next]_vars

\* The event loop runs what is ready and callbacks settle.  Codex answers
\* requests and ends a turn it was told to stop; it need not end any other.
\* A process that was told to end is killed.  No timer need ever fire.
Fairness ==
    /\ WF_vars(HostStep)
    /\ WF_vars(CodexAnswers)
    /\ WF_vars(stopping /\ InterruptsTurn)
    /\ WF_vars(Killed)

FairSpec == Spec /\ Fairness

-----------------------------------------------------------------------------
(* Properties.                                                             *)

TypeOK ==
    /\ state \in HostState
    /\ jobs \in 0..MaxJobs
    /\ active \in 0..jobs
    /\ stage \in [Jobs -> Stage]
    /\ canceled \subseteq 1..jobs
    /\ key \in [Jobs -> Keys \union {NoKey}]
    /\ outcome \in [Jobs -> TurnStatus \union {"none", "error"}]
    /\ <<initialized, gatePassed, alive, stopping>>
           \in BOOLEAN \X BOOLEAN \X BOOLEAN \X BOOLEAN
    /\ {lastManifestKey, loadedKey} \subseteq Keys \union {NoKey}
    /\ pending \union asked \subseteq [method : Methods, job : 0..jobs]
    /\ delivering.job \in 0..jobs
    /\ turn \in 0..jobs
    /\ ended \in [Jobs -> TurnStatus \union {"none"}]

\* While the host takes jobs, the turn that Codex runs is the turn of the
\* active job: no turn of a job that has settled goes on behind the next one,
\* whatever failed, was refused or was canceled (the catch of executeJob).
NoTurnLeftBehind ==
    state \in {"starting", "ready", "turn_active"} /\ turn # NoJob =>
        turn = active

\* A job ends with the status its own turn ended with in Codex, whichever
\* other turns are completed while its callbacks are awaited (handleMessage).
OutcomeIsOwn ==
    \A j \in Jobs : outcome[j] \in TurnStatus => outcome[j] = ended[j]

\* A turn runs with the manifest of its job, after reloads that failed or
\* were skipped in the jobs before it (lastManifestKey).
TurnHasItsManifest ==
    turn # NoJob /\ state \in {"starting", "ready", "turn_active"} =>
        loadedKey = key[turn]

Abstract ==
    INSTANCE TurnHost WITH
        status <- CASE state \in {"starting", "ready"} -> "ready"
                    [] state = "turn_active" -> "turn"
                    [] state \in {"closing", "failed"} -> "ending"
                    [] state = "closed" -> "gone",
        job <- {active} \ {NoJob},
        outcome <- [j \in Jobs |-> IF outcome[j] \in TurnStatus THEN "result"
                                   ELSE outcome[j]]

\* The host is what its slot takes it for: it takes one job at a time,
\* settles each once, takes none when it has begun to end (isReusable), and
\* leaves none unsettled when it is gone.
ImplementsTurnHost == Abstract!Spec

\* A canceled job settles although no timer fires and its turn would never
\* end by itself: whatever its stage was, it ends before its turn, or the
\* turn is interrupted, or the host fails.
CancelSettles == \A j \in Jobs : j \in canceled ~> stage[j] = "settled"

\* A host that fails or is closed ends, also when it ignores SIGTERM, and has
\* handled what it was sent before.
HostGoes == state \in {"closing", "failed"} ~> state = "closed"

\* An answer that comes when its job has settled fails no other job.
\* client/apps/daemon/test/unit/persistent-app-server-executor-2026-07-28
\* .test.ts:523 'keeps the host reusable after a matched interrupt terminal
\* event'.  The code fails the next job when that answer is a refused interrupt.
LateAnswerIsHarmless ==
    [][frames # <<>> /\ frames' = Tail(frames) =>
            LET f == Head(frames) IN
            f.about \in JobMethods /\ stage[f.job] = "settled"
                => outcome' = outcome]_vars
=============================================================================
