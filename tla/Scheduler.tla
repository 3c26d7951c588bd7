----------------------------- MODULE Scheduler -----------------------------
(***************************************************************************)
(* The scheduler of the daemon (client/apps/daemon/src/scheduler): the     *)
(* service with its two timers, the coordinator through which users and    *)
(* agents change schedules, and the rows both keep in SQLite.              *)
(*                                                                         *)
(* The timer is set for the earliest next_run_at of an enabled schedule;   *)
(* the queue timer polls schedules whose trigger found their thread busy.  *)
(* Nothing in the service awaits, so a pass over the due or the pending    *)
(* schedules is not interleaved with anything; it is cut into steps only   *)
(* because the daemon may stop between two statements of SQLite.  A        *)
(* schedule has a thread of its own, in which users may also start runs;   *)
(* the run manager is the number of runs of the thread that have not       *)
(* ended, which is what hasActiveRunForThread looks at.                    *)
(***************************************************************************)
EXTENDS Naturals, FiniteSets

CONSTANTS Schedules,    \* schedules that may be created
          Nobody,       \* no schedule
          MaxUserRuns,  \* bound: runs that users start
          MaxRestarts,  \* bound: restarts of the daemon
          MaxFailures   \* bound: expressions whose next time is not computed

ASSUME SchedulerAssumption ==
    /\ Nobody \notin Schedules
    /\ MaxUserRuns \in Nat
    /\ MaxRestarts \in Nat
    /\ MaxFailures \in Nat

VARIABLES
    status,      \* enabled and deleted_at of every schedule
    policy,      \* concurrency_policy
    nextRunAt,   \* next_run_at, compared with the clock
    pending,     \* pending_trigger
    scheduled,   \* runs of the schedule that have not ended
    users,       \* runs of users in its thread that have not ended
    started,     \* the service is started
    timer,       \* it has set its timer
    queueTimer,  \* it has set its queue timer
    pass,        \* what the service is doing
    listed,      \* schedules it has still to look at
    recording,   \* the schedule whose run is started and not recorded
    userRuns,    \* runs that users have started
    restarts,
    failures,    \* expressions whose next time was not computed
    resumed      \* history: schedules enabled again with a pending trigger
                 \* since the queue timer was last looked at

rowVars == <<status, policy, nextRunAt, pending>>
runVars == <<scheduled, users, userRuns>>
timerVars == <<started, timer, queueTimer>>
passVars == <<pass, listed, recording>>
counters == <<restarts, failures>>
vars == <<rowVars, runVars, timerVars, passVars, counters, resumed>>

Status == {"absent", "enabled", "disabled", "deleted"}
Policy == {"skip", "queue"}

\* Never, to come, reached, and reached longer ago than the grace.
NextRunAt == {"null", "future", "due", "late"}
Pass == {"none", "due", "queue", "now"}

Init ==
    /\ status = [s \in Schedules |-> "absent"]
    /\ policy \in [Schedules -> Policy]
    /\ nextRunAt = [s \in Schedules |-> "null"]
    /\ pending = [s \in Schedules |-> FALSE]
    /\ scheduled = [s \in Schedules |-> 0]
    /\ users = [s \in Schedules |-> 0]
    /\ started \in BOOLEAN
    /\ timer = FALSE
    /\ queueTimer = FALSE
    /\ pass = "none"
    /\ listed = {}
    /\ recording = Nobody
    /\ userRuns = 0
    /\ restarts = 0
    /\ failures = 0
    /\ resumed = {}

-----------------------------------------------------------------------------
(* What the service reads.                                                 *)

\* hasActiveRunForThread.
Active(s) == scheduled[s] + users[s] > 0

\* listDue.
ListDue ==
    {s \in Schedules : status[s] = "enabled" /\ nextRunAt[s] \in {"due", "late"}}

\* listPendingTriggers.
ListPending == {s \in Schedules : status[s] = "enabled" /\ pending[s]}

\* getNextEnabled finds one.
HasNext == \E s \in Schedules : status[s] = "enabled" /\ nextRunAt[s] # "null"

RefreshTimer == timer' = (started' /\ HasNext')
RefreshQueueTimer ==
    /\ queueTimer' = (started' /\ ListPending' # {})
    /\ resumed' = {}
RefreshTimers == RefreshTimer /\ RefreshQueueTimer

-----------------------------------------------------------------------------
(* The passes of the two timers, and runNow.                               *)

\* A timer for an occurrence more than 24 days away fires early, finds
\* nothing due and is set again.
TimerFires ==
    /\ pass = "none" /\ timer
    /\ timer' = FALSE
    /\ pass' = "due"
    /\ listed' = ListDue
    /\ UNCHANGED <<rowVars, runVars, started, queueTimer, recording, counters,
                   resumed>>

QueueTimerFires ==
    /\ pass = "none" /\ queueTimer
    /\ queueTimer' = FALSE
    /\ pass' = "queue"
    /\ listed' = ListPending
    /\ UNCHANGED <<rowVars, runVars, started, timer, recording, counters,
                   resumed>>

\* startRun: the run is there, and not yet in the row of the schedule.
StartRun(s) ==
    /\ scheduled' = [scheduled EXCEPT ![s] = @ + 1]
    /\ recording' = s

\* processDueSchedule of a trigger older than the grace.
SkipMisfire(s) ==
    /\ pass = "due" /\ recording = Nobody /\ s \in listed
    /\ nextRunAt[s] = "late"
    /\ nextRunAt' = [nextRunAt EXCEPT ![s] = "future"]
    /\ listed' = listed \ {s}
    /\ UNCHANGED <<status, policy, pending, runVars, timerVars, pass,
                   recording, counters, resumed>>

\* processDueSchedule: next_run_at moves on before anything can fail, and
\* then the schedule is skipped, queued, run, or startRun throws.
ProcessDue(s) ==
    /\ pass = "due" /\ recording = Nobody /\ s \in listed
    /\ nextRunAt[s] = "due"
    /\ nextRunAt' = [nextRunAt EXCEPT ![s] = "future"]
    /\ UNCHANGED <<status, policy, users, userRuns, started, timer, pass,
                   counters>>
    /\ \/ /\ Active(s) /\ policy[s] = "queue"
          /\ pending' = [pending EXCEPT ![s] = TRUE]
          /\ RefreshQueueTimer
          /\ listed' = listed \ {s}
          /\ UNCHANGED <<scheduled, recording>>
       \/ /\ Active(s) => policy[s] = "skip"
          /\ listed' = listed \ {s}
          /\ UNCHANGED <<pending, queueTimer, resumed, scheduled, recording>>
       \/ /\ ~Active(s)
          /\ StartRun(s)
          /\ UNCHANGED <<pending, queueTimer, resumed, listed>>

\* Mutant: runs a queued trigger whatever its thread does.
ProcessPendingAnyway(s) ==
    /\ pass = "queue" /\ recording = Nobody /\ s \in listed
    /\ StartRun(s)
    /\ UNCHANGED <<rowVars, users, userRuns, timerVars, pass, listed,
                   counters, resumed>>

\* processDueSchedule throws before it has written anything: the expression
\* was accepted when it was stored, and now yields no next time (the data on
\* time zones have changed).  The schedule stays due.
ProcessDueThrows(s) ==
    /\ pass = "due" /\ recording = Nobody /\ s \in listed
    /\ failures < MaxFailures
    /\ failures' = failures + 1
    /\ listed' = listed \ {s}
    /\ UNCHANGED <<rowVars, runVars, timerVars, pass, recording, restarts,
                   resumed>>

\* One schedule of processPendingTriggers: its thread is still busy, it is
\* run, or startRun throws and the trigger is given up.
ProcessPending(s) ==
    /\ pass = "queue" /\ recording = Nobody /\ s \in listed
    /\ \/ /\ Active(s)
          /\ listed' = listed \ {s}
          /\ UNCHANGED <<pending, scheduled, recording>>
       \/ /\ ~Active(s)
          /\ StartRun(s)
          /\ UNCHANGED <<pending, listed>>
       \/ /\ ~Active(s)
          /\ pending' = [pending EXCEPT ![s] = FALSE]
          /\ listed' = listed \ {s}
          /\ UNCHANGED <<scheduled, recording>>
    /\ UNCHANGED <<status, policy, nextRunAt, users, userRuns, timerVars,
                   pass, counters, resumed>>

\* runNow; when startRun throws nothing changes.
RunNow(s) ==
    /\ pass = "none" /\ status[s] \in {"enabled", "disabled"}
    /\ UNCHANGED <<status, policy, nextRunAt, users, userRuns, started, listed,
                   counters>>
    /\ \/ /\ Active(s)
          /\ pending' = [pending EXCEPT ![s] = @ \/ policy[s] = "queue"]
          /\ RefreshTimers
          /\ UNCHANGED <<scheduled, pass, recording>>
       \/ /\ ~Active(s)
          /\ StartRun(s)
          /\ pass' = "now"
          /\ UNCHANGED <<pending, timer, queueTimer, resumed>>

\* Mutant: the trigger of a queued run stays pending.
RecordRunOnly ==
    /\ recording # Nobody
    /\ listed' = listed \ {recording}
    /\ recording' = Nobody
    /\ pass' = IF pass = "now" THEN "none" ELSE pass
    /\ UNCHANGED <<rowVars, runVars, started, counters>>
    /\ IF pass = "now" THEN RefreshTimers
                       ELSE UNCHANGED <<timer, queueTimer, resumed>>

\* recordRun, with which runNow ends.
Record ==
    /\ recording # Nobody
    /\ pending' = [pending EXCEPT ![recording] = FALSE]
    /\ listed' = listed \ {recording}
    /\ recording' = Nobody
    /\ pass' = IF pass = "now" THEN "none" ELSE pass
    /\ UNCHANGED <<status, policy, nextRunAt, runVars, started, counters>>
    /\ IF pass = "now" THEN RefreshTimers
                       ELSE UNCHANGED <<timer, queueTimer, resumed>>

\* Mutant: a pass over the due schedules does not set the timer again.
EndPassOnce ==
    /\ pass \in {"due", "queue"} /\ listed = {} /\ recording = Nobody
    /\ pass' = "none"
    /\ UNCHANGED <<rowVars, runVars, started, listed, recording, counters>>
    /\ RefreshQueueTimer
    /\ UNCHANGED timer

\* Mutant: the poll of the queue is not set again after a pass.
EndPassUnpolled ==
    /\ pass \in {"due", "queue"} /\ listed = {} /\ recording = Nobody
    /\ pass' = "none"
    /\ UNCHANGED <<rowVars, runVars, started, listed, recording, counters>>
    /\ UNCHANGED <<queueTimer, resumed>>
    /\ IF pass = "due" THEN RefreshTimer ELSE UNCHANGED timer

\* The finally of both passes.
EndPass ==
    /\ pass \in {"due", "queue"} /\ listed = {} /\ recording = Nobody
    /\ pass' = "none"
    /\ UNCHANGED <<rowVars, runVars, started, listed, recording, counters>>
    /\ RefreshQueueTimer
    /\ IF pass = "due" THEN RefreshTimer ELSE UNCHANGED timer

-----------------------------------------------------------------------------
(* The coordinator; onSchedulesChanged refreshes the timer.                *)

Changed ==
    /\ pass = "none"
    /\ UNCHANGED <<runVars, started, queueTimer, passVars, counters>>
    /\ RefreshTimer

Create(s, enabled, p) ==
    /\ status[s] = "absent"
    /\ status' = [status EXCEPT ![s] = IF enabled THEN "enabled" ELSE "disabled"]
    /\ nextRunAt' = [nextRunAt EXCEPT ![s] = IF enabled THEN "future" ELSE "null"]
    /\ policy' = [policy EXCEPT ![s] = p]
    /\ UNCHANGED <<pending, resumed>>
    /\ Changed

\* update of enabled, or of the cron expression of an enabled schedule.
SetEnabled(s, enabled) ==
    /\ status[s] \in {"enabled", "disabled"}
    /\ status' = [status EXCEPT ![s] = IF enabled THEN "enabled" ELSE "disabled"]
    /\ nextRunAt' = [nextRunAt EXCEPT ![s] = IF enabled THEN "future" ELSE "null"]
    /\ resumed' = IF enabled /\ status[s] = "disabled" /\ pending[s]
                    THEN resumed \cup {s} ELSE resumed
    /\ UNCHANGED <<policy, pending>>
    /\ Changed

SetPolicy(s, p) ==
    /\ status[s] \in {"enabled", "disabled"}
    /\ policy' = [policy EXCEPT ![s] = p]
    /\ UNCHANGED <<status, nextRunAt, pending, resumed>>
    /\ Changed

Delete(s) ==
    /\ status[s] \in {"enabled", "disabled"} /\ ~Active(s)
    /\ status' = [status EXCEPT ![s] = "deleted"]
    /\ nextRunAt' = [nextRunAt EXCEPT ![s] = "null"]
    /\ UNCHANGED <<policy, pending, resumed>>
    /\ Changed

-----------------------------------------------------------------------------
(* start, stop, and the world around the service.                          *)

\* start, also of a service that is started.
Start ==
    /\ pass = "none"
    /\ started' = TRUE
    /\ UNCHANGED <<rowVars, runVars, passVars, counters>>
    /\ RefreshTimers

\* stop, at sign-out and when the daemon closes.
Stop ==
    /\ pass = "none"
    /\ started' = FALSE
    /\ timer' = FALSE
    /\ queueTimer' = FALSE
    /\ UNCHANGED <<rowVars, runVars, passVars, counters, resumed>>

\* The clock reaches next_run_at, or the grace after it.
Tick(s) ==
    /\ pass = "none"
    /\ \/ /\ nextRunAt[s] = "future"
          /\ nextRunAt' = [nextRunAt EXCEPT ![s] = "due"]
       \/ /\ nextRunAt[s] = "due"
          /\ nextRunAt' = [nextRunAt EXCEPT ![s] = "late"]
    /\ UNCHANGED <<status, policy, pending, runVars, timerVars, passVars,
                   counters, resumed>>

\* A user starts a run in the thread of the schedule, which is archived when
\* the schedule is deleted.
UserRun(s) ==
    /\ pass = "none" /\ status[s] \in {"enabled", "disabled"}
    /\ userRuns < MaxUserRuns
    /\ userRuns' = userRuns + 1
    /\ users' = [users EXCEPT ![s] = @ + 1]
    /\ UNCHANGED <<rowVars, scheduled, timerVars, passVars, counters, resumed>>

RunEnds(s) ==
    /\ pass = "none"
    /\ \/ /\ scheduled[s] > 0
          /\ scheduled' = [scheduled EXCEPT ![s] = @ - 1]
          /\ UNCHANGED users
       \/ /\ users[s] > 0
          /\ users' = [users EXCEPT ![s] = @ - 1]
          /\ UNCHANGED scheduled
    /\ UNCHANGED <<rowVars, userRuns, timerVars, passVars, counters, resumed>>

\* The daemon stops between any two statements and starts again: the run
\* manager ends the runs that were under way, and the service starts if the
\* user is signed in.
Restart ==
    /\ restarts < MaxRestarts
    /\ restarts' = restarts + 1
    /\ scheduled' = [s \in Schedules |-> 0]
    /\ users' = [s \in Schedules |-> 0]
    /\ started' \in BOOLEAN
    /\ pass' = "none"
    /\ listed' = {}
    /\ recording' = Nobody
    /\ UNCHANGED <<rowVars, userRuns, failures>>
    /\ RefreshTimers

-----------------------------------------------------------------------------
(* The specification.                                                      *)

PassStep ==
    \/ \E s \in Schedules :
          \/ SkipMisfire(s) \/ ProcessDue(s) \/ ProcessDueThrows(s)
          \/ ProcessPending(s)
    \/ Record
    \/ EndPass

Next ==
    \/ PassStep
    \/ TimerFires
    \/ QueueTimerFires
    \/ \E s \in Schedules :
          \/ RunNow(s)
          \/ \E enabled \in BOOLEAN :
                \/ SetEnabled(s, enabled)
                \/ \E p \in Policy : Create(s, enabled, p)
          \/ \E p \in Policy : SetPolicy(s, p)
          \/ Delete(s)
          \/ Tick(s)
          \/ UserRun(s)
          \/ RunEnds(s)
    \/ Start
    \/ Stop
    \/ Restart

Spec == Init /\ [][Next]_vars

\* A pass runs to its end, a timer that is set fires, and runs end.
Fairness ==
    /\ WF_vars(PassStep)
    /\ SF_vars(TimerFires)
    /\ SF_vars(QueueTimerFires)
    /\ \A s \in Schedules : SF_vars(RunEnds(s))

FairSpec == Spec /\ Fairness

-----------------------------------------------------------------------------
(* Properties.                                                             *)

\* The types of the state; a schedule never has two runs that have not ended.
TypeOK ==
    /\ status \in [Schedules -> Status]
    /\ policy \in [Schedules -> Policy]
    /\ nextRunAt \in [Schedules -> NextRunAt]
    /\ pending \in [Schedules -> BOOLEAN]
    /\ scheduled \in [Schedules -> 0..1]
    /\ users \in [Schedules -> 0..MaxUserRuns]
    /\ started \in BOOLEAN
    /\ timer \in BOOLEAN
    /\ queueTimer \in BOOLEAN
    /\ pass \in Pass
    /\ listed \subseteq Schedules
    /\ recording \in Schedules \cup {Nobody}
    /\ userRuns \in 0..MaxUserRuns
    /\ restarts \in 0..MaxRestarts
    /\ failures \in 0..MaxFailures
    /\ resumed \subseteq Schedules

\* While the service is started and a schedule is to run, the timer is set:
\* the schedule cannot be forgotten, whichever trigger failed and whatever
\* was edited before.
TimerArmed == started /\ pass # "due" /\ HasNext => timer

\* A trigger that was queued is polled for as long as it is pending.  The code
\* does not poll it when its schedule is enabled again.
PollArmed == started /\ pass # "queue" /\ ListPending # {} => queueTimer

\* The same, but for schedules that were paused and enabled again meanwhile.
PollArmedUnlessResumed ==
    started /\ pass # "queue" /\ ListPending \ resumed # {} => queueTimer

\* A service that is stopped sets no timer, whatever is edited then.
StoppedIsQuiet == ~started => ~timer /\ ~queueTimer

\* A run of a schedule is started only in a thread where no run is under way,
\* so that triggers never pile up behind a slow run.
StartsAlone ==
    [][\A s \in Schedules : scheduled'[s] > scheduled[s] => ~Active(s)]_vars

\* A schedule that is paused or deleted is triggered by no timer, also when a
\* trigger of it was pending.
PausedIsNotTriggered ==
    [][\A s \in Schedules :
          scheduled'[s] > scheduled[s] /\ pass # "none" =>
              status[s] = "enabled"]_vars

\* A schedule is deleted, and its thread archived, with no run under way, and
\* none starts in it later.
DeletedIsQuiet == \A s \in Schedules : status[s] = "deleted" => ~Active(s)

Serving(s) == started /\ status[s] = "enabled"

\* A schedule that is due is handled while the service is started.
DueIsHandled ==
    \A s \in Schedules :
        Serving(s) /\ nextRunAt[s] \in {"due", "late"} ~>
            nextRunAt[s] = "future" \/ ~Serving(s)

\* A queued trigger is run, or given up with an error.
PendingIsServed ==
    \A s \in Schedules :
        Serving(s) /\ pending[s] /\ queueTimer ~> ~pending[s] \/ ~Serving(s)
=============================================================================
