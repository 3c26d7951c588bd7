---------------------------- MODULE AppServerSlot ----------------------------
(***************************************************************************)
(* One slot of the persistent app-server executor                          *)
(* (client/apps/daemon/src/runs/persistent-app-server-executor-*.ts) with  *)
(* the Codex processes it owns (codex/app-server-host-*.ts).               *)
(*                                                                         *)
(* A slot keeps a Codex app-server process (a host) alive between runs.    *)
(* Starting a run reuses the host when its configuration is the one the    *)
(* run needs, and otherwise closes it and creates another.  Whoever        *)
(* changes something that Codex reads only when it starts calls            *)
(* invalidate: an idle host is closed at once, a busy one is marked stale  *)
(* and closed before it is used again.  close ends the run and the process *)
(* when the daemon shuts down.  The three overlap: each awaits the end of  *)
(* processes while the others go on.                                       *)
(*                                                                         *)
(* An action is a stretch of the code between two awaits; those that go on *)
(* in a microtask (a host whose pid is known, a result that is rejected)   *)
(* belong to the same action.  The pool (ExecutorPool) starts a run only   *)
(* on a slot that is not busy.  Runs are numbered as they start, and a     *)
(* host has the number of the run that created it.                         *)
(***************************************************************************)
EXTENDS Naturals, FiniteSets

CONSTANTS Configurations,  \* pairs of a profile and an MCP fingerprint
          MaxRuns          \* bound: runs ever started

ASSUME AppServerSlotAssumption ==
    /\ Configurations # {}
    /\ MaxRuns \in Nat

Hosts == 1..MaxRuns
NoHost == 0

VARIABLES
    run,               \* the last run started
    stage,             \* where the chain of promises of that run is
    needed,            \* the configuration it needs
    cancelRequested,
    told,              \* its job in the host was told to cancel
    current,           \* the host that executes it, or whose end it awaits
    host,              \* the host the slot keeps
    hostConfiguration,
    process,           \* the state of every host
    staleReason,       \* TRUE when it is set
    idleInvalidation,  \* the host that idleInvalidationWork is closing
    closing,
    closeStage,        \* where close is
    closed,            \* the host whose end close awaits
    outdated           \* history: hosts older than the last invalidate

runVars == <<run, needed, cancelRequested, told>>
closeVars == <<closing, closeStage, closed>>
vars == <<runVars, stage, current, host, hostConfiguration, process,
          staleReason, idleInvalidation, closeVars, outdated>>

Stage == {"free",       \* not busy
          "waiting",    \* for idleInvalidationWork
          "preparing",  \* runtimeInjector.prepare
          "clearing",   \* clearHost, before a new host is created
          "spawning",   \* the process could not be spawned
          "unspawned",  \* clearHost of that process
          "turn",       \* the host executes the run
          "releasing"}  \* clearHost, in the finally of the result

CloseStage == {"open", "interrupting", "clearing", "settling", "closed"}

\* HostState, with starting and ready as one.
Process == {"none", "spawning", "ready", "turn", "failed", "closing",
            "closed"}

\* isReusable.
Reusable == {"ready"}

\* The states of a host whose operating system process may be alive.
Alive == {"ready", "turn", "failed", "closing"}

Busy == stage # "free"

Init ==
    /\ run = 0
    /\ stage = "free"
    /\ needed \in Configurations
    /\ cancelRequested = FALSE
    /\ told = FALSE
    /\ current = NoHost
    /\ host = NoHost
    /\ hostConfiguration = needed
    /\ process = [h \in Hosts |-> "none"]
    /\ staleReason = FALSE
    /\ idleInvalidation = NoHost
    /\ closing = FALSE
    /\ closeStage = "open"
    /\ closed = NoHost
    /\ outdated = {}

-----------------------------------------------------------------------------
(* Pieces of the actions.                                                  *)

\* close of a host: it is told to end, unless it has ended.
Closing(p, h) == [p EXCEPT ![h] = IF @ = "closed" THEN @ ELSE "closing"]

\* host.run, and the cancel that came before there was a job to cancel.
Assign(h) ==
    /\ stage' = "turn"
    /\ current' = h
    /\ host' = h
    /\ process' = [process EXCEPT ![h] = "turn"]
    /\ told' = cancelRequested

\* Mutant: keeps a host that was invalidated while it executed a run.
FinallyKeep(p) ==
    LET broken == host # NoHost /\ p[host] \notin Reusable
    IN  /\ stage' = IF broken THEN "releasing" ELSE "free"
        /\ current' = IF broken THEN host ELSE NoHost
        /\ host' = IF broken THEN NoHost ELSE host
        /\ process' = IF broken THEN Closing(p, host) ELSE p
        /\ staleReason' = FALSE

\* The finally of a result, when the processes are p: a host that cannot be
\* used again, or that was invalidated meanwhile, is closed and awaited.
Finally(p) ==
    LET broken == host # NoHost /\ p[host] \notin Reusable
        drop == broken \/ (host # NoHost /\ staleReason)
    IN  /\ stage' = IF drop THEN "releasing" ELSE "free"
        /\ current' = IF drop THEN host ELSE NoHost
        /\ host' = IF drop THEN NoHost ELSE host
        /\ process' = IF drop THEN Closing(p, host) ELSE p
        /\ staleReason' = (staleReason /\ (broken \/ host = NoHost))

\* clearHost of the host, by the chain of the run.
ClearFor(next) ==
    /\ stage' = next
    /\ current' = host
    /\ host' = NoHost
    /\ process' = Closing(process, host)

-----------------------------------------------------------------------------
(* start and prepareExecution.                                             *)

\* Mutant: does not wait for a host that is being closed.
StartAtOnce(configuration) ==
    /\ ~Busy /\ ~closing /\ run < MaxRuns
    /\ run' = run + 1
    /\ needed' = configuration
    /\ cancelRequested' = FALSE
    /\ told' = FALSE
    /\ stage' = "preparing"
    /\ UNCHANGED <<current, host, hostConfiguration, process, staleReason,
                   idleInvalidation, closeVars, outdated>>

Start(configuration) ==
    /\ ~Busy /\ ~closing /\ run < MaxRuns
    /\ run' = run + 1
    /\ needed' = configuration
    /\ cancelRequested' = FALSE
    /\ told' = FALSE
    /\ stage' = IF idleInvalidation # NoHost THEN "waiting" ELSE "preparing"
    /\ UNCHANGED <<current, host, hostConfiguration, process, staleReason,
                   idleInvalidation, closeVars, outdated>>

\* A run that waits for idleInvalidationWork goes on, or finds the executor
\* closing.
Resume ==
    \/ /\ stage = "waiting" /\ closing
       /\ Finally(process)
    \/ /\ stage = "waiting" /\ ~closing
       /\ stage' = "preparing"
       /\ UNCHANGED <<current, host, process, staleReason>>
    \/ /\ stage # "waiting"
       /\ UNCHANGED <<stage, current, host, process, staleReason>>

\* Mutant: the work that ended is never forgotten.
InvalidationStays ==
    /\ idleInvalidation # NoHost
    /\ process[idleInvalidation] = "closed"
    /\ Resume
    /\ UNCHANGED <<runVars, hostConfiguration, idleInvalidation, closeVars,
                   outdated>>

\* idleInvalidationWork ends.
InvalidationEnds ==
    /\ idleInvalidation # NoHost
    /\ process[idleInvalidation] = "closed"
    /\ idleInvalidation' = NoHost
    /\ Resume
    /\ UNCHANGED <<runVars, hostConfiguration, closeVars, outdated>>

\* prepare has returned, or the host that was cleared after it has ended.
Prepared ==
    \/ stage = "preparing"
    \/ stage = "clearing" /\ process[current] = "closed"

\* prepare or an injection throws, or the executor turns out to be closing.
PrepareFails ==
    /\ Prepared
    /\ Finally(process)
    /\ UNCHANGED <<runVars, hostConfiguration, idleInvalidation, closeVars,
                   outdated>>

ClearStaleHost ==
    /\ stage = "preparing" /\ host # NoHost /\ staleReason
    /\ staleReason' = FALSE
    /\ ClearFor("clearing")
    /\ UNCHANGED <<runVars, hostConfiguration, idleInvalidation, closeVars,
                   outdated>>

Suits(h) == process[h] \in Reusable /\ hostConfiguration = needed

ClearOtherHost ==
    /\ stage = "preparing" /\ host # NoHost /\ ~staleReason
    /\ ~Suits(host)
    /\ ClearFor("clearing")
    /\ UNCHANGED <<runVars, hostConfiguration, staleReason, idleInvalidation,
                   closeVars, outdated>>

\* Mutant: the host is not looked at again after prepare.
ReuseAnyHost ==
    /\ stage = "preparing" /\ host # NoHost /\ ~closing
    /\ Suits(host)
    /\ Assign(host)
    /\ UNCHANGED <<run, needed, cancelRequested, hostConfiguration,
                   staleReason, idleInvalidation, closeVars, outdated>>

ReuseHost ==
    /\ stage = "preparing" /\ host # NoHost /\ ~staleReason /\ ~closing
    /\ Suits(host)
    /\ Assign(host)
    /\ UNCHANGED <<run, needed, cancelRequested, hostConfiguration,
                   staleReason, idleInvalidation, closeVars, outdated>>

\* The process of a new host is spawned, and has a pid, or is not.
CreateHost ==
    /\ Prepared /\ host = NoHost /\ ~closing
    /\ hostConfiguration' = needed
    /\ \/ Assign(run)
       \/ /\ stage' = "spawning"
          /\ current' = run
          /\ host' = run
          /\ process' = [process EXCEPT ![run] = "spawning"]
          /\ UNCHANGED told
    /\ UNCHANGED <<run, needed, cancelRequested, staleReason,
                   idleInvalidation, closeVars, outdated>>

\* The error event of a process that was not spawned rejects started; the
\* catch clears the host, unless close has.
SpawnFails ==
    /\ stage = "spawning"
    /\ \/ /\ host # NoHost
          /\ ClearFor("unspawned")
          /\ UNCHANGED staleReason
       \/ /\ host = NoHost
          /\ Finally(process)
    /\ UNCHANGED <<runVars, hostConfiguration, idleInvalidation, closeVars,
                   outdated>>

\* The catch rethrows, or the finally ends, once the host has ended.
ClearedAfterRun ==
    /\ stage \in {"unspawned", "releasing"}
    /\ process[current] = "closed"
    /\ Finally(process)
    /\ UNCHANGED <<runVars, hostConfiguration, idleInvalidation, closeVars,
                   outdated>>

-----------------------------------------------------------------------------
(* The host.                                                               *)

\* settleJobResult, and settleJobError of an error the host survives.
TurnEnds ==
    /\ stage = "turn" /\ process[current] \in {"turn", "closing"}
    /\ Finally([process EXCEPT ![current] =
                    IF @ = "turn" THEN "ready" ELSE @])
    /\ UNCHANGED <<runVars, hostConfiguration, idleInvalidation, closeVars,
                   outdated>>

\* The processes are p from now on, and the job h executes, if any, fails.
Becomes(h, p) ==
    /\ \/ /\ stage = "turn" /\ current = h
          /\ Finally(p)
       \/ /\ ~(stage = "turn" /\ current = h)
          /\ process' = p
          /\ UNCHANGED <<stage, current, host, staleReason>>
    /\ UNCHANGED <<runVars, hostConfiguration, idleInvalidation, closeVars,
                   outdated>>

\* failHost: a timeout, a frame that is not JSON, a write that fails.
HostFails(h) ==
    /\ process[h] \in {"ready", "turn"}
    /\ Becomes(h, [process EXCEPT ![h] = "failed"])

\* A process that was told to end; SIGKILL follows after the grace.
Doomed(h) ==
    /\ process[h] \in {"failed", "closing"}
    /\ ~(stage = "spawning" /\ current = h)

\* The close event, which a process may also have on its own.
ProcessExits(h) ==
    /\ process[h] \in {"ready", "turn"} \/ Doomed(h)
    /\ Becomes(h, [process EXCEPT ![h] = "closed"])

-----------------------------------------------------------------------------
(* cancel, invalidate and close.                                           *)

CancelRun ==
    /\ cancelRequested' = TRUE
    /\ told' = (told \/ stage = "turn")

Cancel ==
    /\ Busy
    /\ CancelRun
    /\ UNCHANGED <<run, needed, stage, current, host, hostConfiguration,
                   process, staleReason, idleInvalidation, closeVars,
                   outdated>>

\* What Codex reads when it starts has changed, and invalidate is called.
\* One that awaits the work of another changes nothing.
Invalidate ==
    /\ ~closing
    /\ outdated' = {h \in Hosts : process[h] # "none"}
    /\ \/ /\ Busy
          /\ staleReason' = TRUE
          /\ UNCHANGED <<host, process, idleInvalidation>>
       \/ /\ ~Busy
          /\ idleInvalidation # NoHost \/ host = NoHost
          /\ UNCHANGED <<host, process, staleReason, idleInvalidation>>
       \/ /\ ~Busy
          /\ idleInvalidation = NoHost /\ host # NoHost
          /\ host' = NoHost
          /\ process' = Closing(process, host)
          /\ idleInvalidation' = host
          /\ UNCHANGED staleReason
    /\ UNCHANGED <<runVars, stage, current, hostConfiguration, closeVars>>

\* clearHost of the host there is, by close.
ClearForClose ==
    \/ /\ host # NoHost
       /\ closeStage' = "clearing"
       /\ closed' = host
       /\ host' = NoHost
       /\ process' = Closing(process, host)
    \/ /\ host = NoHost
       /\ closeStage' = "settling"
       /\ UNCHANGED <<closed, host, process>>

Close ==
    /\ ~closing
    /\ closing' = TRUE
    /\ \/ /\ Busy
          /\ CancelRun
          /\ closeStage' = "interrupting"
          /\ UNCHANGED <<closed, host, process>>
       \/ /\ ~Busy
          /\ ClearForClose
          /\ UNCHANGED <<cancelRequested, told>>
    /\ UNCHANGED <<run, needed, stage, current, hostConfiguration,
                   staleReason, idleInvalidation, outdated>>

\* The run has settled, or the grace it had is over.
InterruptEnds ==
    /\ closeStage = "interrupting"
    /\ ClearForClose
    /\ UNCHANGED <<runVars, stage, current, hostConfiguration, staleReason,
                   idleInvalidation, closing, outdated>>

ClearEnds ==
    /\ closeStage = "clearing" /\ process[closed] = "closed"
    /\ closeStage' = "settling"
    /\ UNCHANGED <<runVars, stage, current, host, hostConfiguration, process,
                   staleReason, idleInvalidation, closing, closed, outdated>>

CloseReturns ==
    /\ closeStage = "settling" /\ idleInvalidation = NoHost /\ ~Busy
    /\ closeStage' = "closed"
    /\ UNCHANGED <<runVars, stage, current, host, hostConfiguration, process,
                   staleReason, idleInvalidation, closing, closed, outdated>>

-----------------------------------------------------------------------------
(* The specification.                                                      *)

\* The chain of promises of a run, up to the turn and after it.
ChainStep ==
    \/ PrepareFails \/ ClearStaleHost \/ ClearOtherHost
    \/ ReuseHost \/ CreateHost \/ SpawnFails \/ ClearedAfterRun

CloseStep == InterruptEnds \/ ClearEnds \/ CloseReturns

Next ==
    \/ \E configuration \in Configurations : Start(configuration)
    \/ InvalidationEnds
    \/ ChainStep
    \/ TurnEnds
    \/ \E h \in Hosts : HostFails(h) \/ ProcessExits(h)
    \/ Cancel
    \/ Invalidate
    \/ Close
    \/ CloseStep

Spec == Init /\ [][Next]_vars

\* prepare and the steps after it settle; a turn ends, or a timeout of its
\* job fails the host; a process that was told to end is killed in the end.
Fairness ==
    /\ WF_vars(ChainStep)
    /\ WF_vars(InvalidationEnds)
    /\ WF_vars(TurnEnds)
    /\ \A h \in Hosts : WF_vars(Doomed(h) /\ ProcessExits(h))
    /\ WF_vars(CloseStep)

FairSpec == Spec /\ Fairness

-----------------------------------------------------------------------------
(* Properties.                                                             *)

\* The type of the state: what is spoken of has been started, and the host
\* the slot keeps is not one it has told to end (clearHost forgets the host
\* before it closes it).
TypeOK ==
    /\ run \in 0..MaxRuns
    /\ stage \in Stage
    /\ needed \in Configurations
    /\ cancelRequested \in BOOLEAN
    /\ told \in BOOLEAN
    /\ current \in 0..run
    /\ host \in 0..run
    /\ hostConfiguration \in Configurations
    /\ process \in [Hosts -> Process]
    /\ \A h \in Hosts : h > run => process[h] = "none"
    /\ host # NoHost => process[host] \notin {"none", "closing"}
    /\ staleReason \in BOOLEAN
    /\ idleInvalidation \in 0..run
    /\ closing \in BOOLEAN
    /\ closeStage \in CloseStage
    /\ closed \in 0..run
    /\ outdated \subseteq {h \in Hosts : process[h] # "none"}

\* A slot never has two Codex processes at a time: a host is created only
\* when the one before it has ended, however prepare, invalidate and close
\* overlap.
OneProcess ==
    \A g, h \in Hosts :
        process[g] \in Alive /\ process[h] \in Alive => g = h

\* No run starts its turn in a process older than the last invalidate: one
\* that was idle has been closed, one that was busy or was being prepared for
\* is looked at again.
NoRunOnOutdatedHost ==
    [][stage # "turn" /\ stage' = "turn" => current' \notin outdated]_vars

\* When close has returned, no process is left and no run is under way, even
\* if an invalidate or a start was under way when it was called.
ClosedMeansNoProcess ==
    closeStage = "closed" =>
        /\ ~Busy
        /\ \A h \in Hosts : process[h] \notin Alive

\* A cancel, also one that came while the run was being prepared, reaches the
\* job of the run as soon as there is one.
CancelReachesJob == stage = "turn" /\ cancelRequested => told

\* A process older than an invalidate ends, also one that is busy then.
OutdatedHostGoes ==
    \A h \in Hosts : h \in outdated ~> process[h] = "closed"

\* close returns.
CloseEnds == closing ~> closeStage = "closed"
=============================================================================
