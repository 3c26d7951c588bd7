-------------------------- MODULE SchedulerProofs --------------------------
(***************************************************************************)
(* Proofs about Scheduler, for every set of schedules, every number of     *)
(* user runs, of restarts and of failures.                                 *)
(***************************************************************************)
EXTENDS Scheduler, TLAPS

\* A pass looks only at enabled schedules: nothing edits a schedule while one
\* is under way.
ListedAreEnabled == \A s \in listed : status[s] = "enabled"

\* Only the passes of the timers look at schedules.
ListedInPass == pass \in {"none", "now"} => listed = {}

\* A schedule that does not exist yet has no trigger.
AbsentHasNoTrigger ==
    \A s \in Schedules : status[s] = "absent" => ~pending[s]

\* The runs of users in a thread are among those that users started.
UsersCounted == \A s \in Schedules : users[s] <= userRuns

ServiceInv ==
    /\ ListedAreEnabled
    /\ ListedInPass
    /\ AbsentHasNoTrigger
    /\ UsersCounted
    /\ TimerArmed
    /\ PollArmedUnlessResumed
    /\ StoppedIsQuiet
    /\ DeletedIsQuiet

SchedulerInv == TypeOK /\ ServiceInv

-----------------------------------------------------------------------------
(* Every step keeps the invariant.                                         *)

\* A run is started where none is under way, so that it is the only one.
LEMMA StartRunType ==
    ASSUME TypeOK, NEW s \in Schedules, ~Active(s), StartRun(s)
    PROVE  /\ scheduled' \in [Schedules -> 0..1]
           /\ recording' \in Schedules \cup {Nobody}
<1>1. scheduled[s] = 0
  BY SchedulerAssumption DEF TypeOK, Active
<1>2. QED
  BY <1>1 DEF TypeOK, StartRun

\* Every step keeps the types of the state.
LEMMA StepType ==
    ASSUME TypeOK, ListedAreEnabled, UsersCounted, Next
    PROVE  TypeOK'
<1> USE SchedulerAssumption DEF TypeOK, ListedAreEnabled, UsersCounted, Status,
        Policy, NextRunAt, Pass, rowVars, runVars, timerVars, passVars, counters
<1>1. ASSUME NEW s \in Schedules, SkipMisfire(s)  PROVE TypeOK'
  BY <1>1 DEF SkipMisfire
<1>2. ASSUME NEW s \in Schedules, ProcessDue(s)  PROVE TypeOK'
  <2>1. CASE StartRun(s) /\ ~Active(s)
    BY <1>2, <2>1, StartRunType DEF ProcessDue, RefreshQueueTimer
  <2>2. CASE UNCHANGED <<scheduled, recording>>
    BY <1>2, <2>2 DEF ProcessDue, RefreshQueueTimer
  <2>3. QED  BY <1>2, <2>1, <2>2 DEF ProcessDue
<1>3. ASSUME NEW s \in Schedules, ProcessPending(s)  PROVE TypeOK'
  <2>1. CASE StartRun(s) /\ ~Active(s)
    BY <1>3, <2>1, StartRunType DEF ProcessPending
  <2>2. CASE UNCHANGED <<scheduled, recording>>
    BY <1>3, <2>2 DEF ProcessPending
  <2>3. QED  BY <1>3, <2>1, <2>2 DEF ProcessPending
<1>4. ASSUME Record  PROVE TypeOK'
  BY <1>4 DEF Record, RefreshTimers, RefreshTimer, RefreshQueueTimer, HasNext
<1>5. ASSUME EndPass  PROVE TypeOK'
  BY <1>5 DEF EndPass, RefreshTimer, RefreshQueueTimer, HasNext
<1>6. ASSUME TimerFires  PROVE TypeOK'
  BY <1>6 DEF TimerFires, ListDue
<1>7. ASSUME QueueTimerFires  PROVE TypeOK'
  BY <1>7 DEF QueueTimerFires, ListPending
<1>8. ASSUME NEW s \in Schedules, RunNow(s)  PROVE TypeOK'
  <2>1. CASE StartRun(s) /\ ~Active(s)
    BY <1>8, <2>1, StartRunType
       DEF RunNow, RefreshTimers, RefreshTimer, RefreshQueueTimer, HasNext
  <2>2. CASE UNCHANGED <<scheduled, pass, recording>>
    BY <1>8, <2>2
       DEF RunNow, RefreshTimers, RefreshTimer, RefreshQueueTimer, HasNext
  <2>3. QED  BY <1>8, <2>1, <2>2 DEF RunNow
<1>9. ASSUME NEW s \in Schedules, NEW enabled \in BOOLEAN,
             SetEnabled(s, enabled)
      PROVE  TypeOK'
  BY <1>9 DEF SetEnabled, Changed, RefreshTimer, HasNext
<1>10. ASSUME NEW s \in Schedules, NEW enabled \in BOOLEAN, NEW p \in Policy,
              Create(s, enabled, p)
       PROVE  TypeOK'
  BY <1>10 DEF Create, Changed, RefreshTimer, HasNext
<1>11. ASSUME NEW s \in Schedules, NEW p \in Policy, SetPolicy(s, p)
       PROVE  TypeOK'
  BY <1>11 DEF SetPolicy, Changed, RefreshTimer, HasNext
<1>12. ASSUME NEW s \in Schedules, Delete(s)  PROVE TypeOK'
  BY <1>12 DEF Delete, Changed, RefreshTimer, HasNext
<1>13. ASSUME NEW s \in Schedules, Tick(s)  PROVE TypeOK'
  BY <1>13 DEF Tick
<1>14. ASSUME NEW s \in Schedules, UserRun(s)  PROVE TypeOK'
  BY <1>14 DEF UserRun
<1>15. ASSUME NEW s \in Schedules, RunEnds(s)  PROVE TypeOK'
  BY <1>15 DEF RunEnds
<1>16. ASSUME Start  PROVE TypeOK'
  BY <1>16 DEF Start, RefreshTimers, RefreshTimer, RefreshQueueTimer, HasNext
<1>17. ASSUME Stop  PROVE TypeOK'
  BY <1>17 DEF Stop
<1>18. ASSUME Restart  PROVE TypeOK'
  BY <1>18 DEF Restart, RefreshTimers, RefreshTimer, RefreshQueueTimer, HasNext
<1>19. ASSUME NEW s \in Schedules, ProcessDueThrows(s)  PROVE TypeOK'
  BY <1>19 DEF ProcessDueThrows
<1>20. QED
  BY <1>1, <1>2, <1>3, <1>4, <1>5, <1>6, <1>7, <1>8, <1>9, <1>10, <1>11,
     <1>12, <1>13, <1>14, <1>15, <1>16, <1>17, <1>18, <1>19
     DEF Next, PassStep

\* Every step keeps the rest of the invariant.
LEMMA StepService ==
    ASSUME SchedulerInv, Next
    PROVE  ServiceInv'
<1> USE SchedulerAssumption
    DEF SchedulerInv, ServiceInv, TypeOK, Status, Policy, NextRunAt,
        Pass, rowVars, runVars, timerVars, passVars, counters,
        ListedAreEnabled, ListedInPass, AbsentHasNoTrigger, UsersCounted,
        TimerArmed, PollArmedUnlessResumed, StoppedIsQuiet, DeletedIsQuiet,
        HasNext, ListPending, Active
<1>1. ASSUME NEW s \in Schedules, SkipMisfire(s)
      PROVE ServiceInv'
  BY <1>1 DEF SkipMisfire
<1>2. ASSUME NEW s \in Schedules, ProcessDue(s)
      PROVE ServiceInv'
  BY <1>2 DEF ProcessDue, StartRun, RefreshQueueTimer
<1>3. ASSUME NEW s \in Schedules, ProcessPending(s)
      PROVE ServiceInv'
  BY <1>3 DEF ProcessPending, StartRun
<1>4. ASSUME Record
      PROVE ServiceInv'
  BY <1>4 DEF Record, RefreshTimers, RefreshTimer, RefreshQueueTimer
<1>5. ASSUME EndPass
      PROVE ServiceInv'
  BY <1>5 DEF EndPass, RefreshTimer, RefreshQueueTimer
<1>6. ASSUME TimerFires
      PROVE ServiceInv'
  BY <1>6 DEF TimerFires, ListDue
<1>7. ASSUME QueueTimerFires
      PROVE ServiceInv'
  BY <1>7 DEF QueueTimerFires
<1>8. ASSUME NEW s \in Schedules, RunNow(s)
      PROVE ServiceInv'
  BY <1>8 DEF RunNow, StartRun, RefreshTimers, RefreshTimer, RefreshQueueTimer
<1>9. ASSUME NEW s \in Schedules, NEW enabled \in BOOLEAN,
             SetEnabled(s, enabled)
      PROVE ServiceInv'
  BY <1>9 DEF SetEnabled, Changed, RefreshTimer
<1>10. ASSUME NEW s \in Schedules, NEW enabled \in BOOLEAN, NEW p \in Policy,
              Create(s, enabled, p)
      PROVE ServiceInv'
  BY <1>10 DEF Create, Changed, RefreshTimer
<1>11. ASSUME NEW s \in Schedules, NEW p \in Policy, SetPolicy(s, p)
      PROVE ServiceInv'
  BY <1>11 DEF SetPolicy, Changed, RefreshTimer
<1>12. ASSUME NEW s \in Schedules, Delete(s)
      PROVE ServiceInv'
  BY <1>12 DEF Delete, Changed, RefreshTimer
<1>13. ASSUME NEW s \in Schedules, Tick(s)
      PROVE ServiceInv'
  BY <1>13 DEF Tick
<1>14. ASSUME NEW s \in Schedules, UserRun(s)
      PROVE ServiceInv'
  BY <1>14 DEF UserRun
<1>15. ASSUME NEW s \in Schedules, RunEnds(s)
      PROVE ServiceInv'
  BY <1>15 DEF RunEnds
<1>16. ASSUME Start
      PROVE ServiceInv'
  BY <1>16 DEF Start, RefreshTimers, RefreshTimer, RefreshQueueTimer
<1>17. ASSUME Stop
      PROVE ServiceInv'
  BY <1>17 DEF Stop
<1>18. ASSUME Restart
      PROVE ServiceInv'
  BY <1>18 DEF Restart, RefreshTimers, RefreshTimer, RefreshQueueTimer
<1>19. ASSUME NEW s \in Schedules, ProcessDueThrows(s)
      PROVE ServiceInv'
  BY <1>19 DEF ProcessDueThrows
<1>20. QED
  BY <1>1, <1>2, <1>3, <1>4, <1>5, <1>6, <1>7, <1>8, <1>9, <1>10, <1>11,
     <1>12, <1>13, <1>14, <1>15, <1>16, <1>17, <1>18, <1>19
     DEF Next, PassStep
-----------------------------------------------------------------------------
(* The theorems.                                                           *)

\* The inductive invariant of the scheduler: besides what the properties say,
\* a pass is over enabled schedules only, schedules that do not exist have no
\* trigger, and the runs of users are counted.
THEOREM SchedulerInvariant == Spec => []SchedulerInv
<1>1. Init => SchedulerInv
  <2>1. ASSUME Init  PROVE TypeOK
    <3>1. /\ status \in [Schedules -> Status]
          /\ policy \in [Schedules -> Policy]
          /\ nextRunAt \in [Schedules -> NextRunAt]
          /\ pending \in [Schedules -> BOOLEAN]
      BY <2>1 DEF Init, Status, NextRunAt
    <3>2. /\ scheduled \in [Schedules -> 0..1]
          /\ users \in [Schedules -> 0..MaxUserRuns]
          /\ userRuns \in 0..MaxUserRuns
          /\ restarts \in 0..MaxRestarts
          /\ failures \in 0..MaxFailures
      BY <2>1, SchedulerAssumption DEF Init
    <3>3. QED
      BY <2>1, <3>1, <3>2 DEF Init, TypeOK, Pass
  <2>2. Init => ServiceInv
    BY DEF Init, ServiceInv, ListedAreEnabled, ListedInPass,
           AbsentHasNoTrigger, UsersCounted, TimerArmed,
           PollArmedUnlessResumed, StoppedIsQuiet, DeletedIsQuiet, HasNext,
           ListPending
  <2>3. QED  BY <2>1, <2>2 DEF SchedulerInv
<1>2. SchedulerInv /\ [Next]_vars => SchedulerInv'
  <2>1. ASSUME SchedulerInv, Next  PROVE SchedulerInv'
    <3>1. TypeOK'
      BY <2>1, StepType DEF SchedulerInv, ServiceInv
    <3>2. ServiceInv'
      BY <2>1, StepService
    <3>3. QED  BY <3>1, <3>2 DEF SchedulerInv
  <2>2. ASSUME SchedulerInv, UNCHANGED vars  PROVE SchedulerInv'
    BY <2>2
       DEF vars, rowVars, runVars, timerVars, passVars, counters,
           SchedulerInv, ServiceInv, TypeOK, ListedAreEnabled, ListedInPass,
           AbsentHasNoTrigger, UsersCounted, TimerArmed,
           PollArmedUnlessResumed, StoppedIsQuiet, DeletedIsQuiet, HasNext,
           ListPending, Active
  <2>3. QED  BY <2>1, <2>2
<1>3. QED  BY <1>1, <1>2, PTL DEF Spec

\* The timer of a started service is set while a schedule is to run
\* (refreshTimer), whatever failed in the pass before.
THEOREM TimerIsArmed == Spec => []TimerArmed
<1>1. SchedulerInv => TimerArmed
  BY DEF SchedulerInv, ServiceInv
<1>2. QED  BY <1>1, SchedulerInvariant, PTL

\* A queued trigger is polled (refreshQueueTimer), unless its schedule was
\* paused and enabled again since the queue was last looked at.
THEOREM QueueIsPolled == Spec => []PollArmedUnlessResumed
<1>1. SchedulerInv => PollArmedUnlessResumed
  BY DEF SchedulerInv, ServiceInv
<1>2. QED  BY <1>1, SchedulerInvariant, PTL

\* A stopped service has no timer, and a deleted schedule no run.
THEOREM Quiet == Spec => [](StoppedIsQuiet /\ DeletedIsQuiet)
<1>1. SchedulerInv => StoppedIsQuiet /\ DeletedIsQuiet
  BY DEF SchedulerInv, ServiceInv
<1>2. QED  BY <1>1, SchedulerInvariant, PTL

\* A step that starts a run of a schedule: it is StartRun of that schedule.
LEMMA OnlyStartsOfOne ==
    ASSUME SchedulerInv, [Next]_vars, NEW s \in Schedules,
           scheduled'[s] > scheduled[s]
    PROVE  /\ ~Active(s)
           /\ \/ pass = "none"
              \/ pass \in {"due", "queue"} /\ s \in listed
<1> USE DEF SchedulerInv, TypeOK
<1>1. ~UNCHANGED scheduled
  BY SchedulerAssumption
<1>2. \E t \in Schedules :
         \/ ProcessDue(t) \/ ProcessPending(t) \/ RunNow(t) \/ RunEnds(t)
         \/ Restart
  BY <1>1
     DEF Next, PassStep, SkipMisfire, ProcessDueThrows, Record, EndPass,
         TimerFires, QueueTimerFires, SetEnabled, Create, SetPolicy, Delete, Changed, Tick,
         UserRun, Start, Stop, vars, runVars
<1>3. PICK t \in Schedules :
         \/ ProcessDue(t) \/ ProcessPending(t) \/ RunNow(t) \/ RunEnds(t)
         \/ Restart
  BY <1>2
<1>4. CASE RunEnds(t) \/ Restart
  BY <1>4 DEF RunEnds, Restart
<1>5. CASE ProcessDue(t) \/ ProcessPending(t) \/ RunNow(t)
  <2>1. StartRun(t) /\ ~Active(t)
    BY <1>1, <1>5 DEF ProcessDue, ProcessPending, RunNow
  <2>2. s = t
    BY <2>1 DEF StartRun
  <2>3. QED
    BY <1>5, <2>1, <2>2 DEF ProcessDue, ProcessPending, RunNow
<1>6. QED  BY <1>3, <1>4, <1>5

\* No run of a schedule is started while a run of its thread is under way
\* (hasActiveRunForThread).
THEOREM StartedAlone == Spec => StartsAlone
<1>1. SchedulerInv /\ [Next]_vars =>
         [\A s \in Schedules : scheduled'[s] > scheduled[s] => ~Active(s)]_vars
  BY OnlyStartsOfOne
<1>2. QED  BY <1>1, SchedulerInvariant, PTL DEF Spec, StartsAlone

\* No timer starts a run of a schedule that is paused or deleted.
THEOREM PausedStays == Spec => PausedIsNotTriggered
<1>1. SchedulerInv /\ [Next]_vars =>
         [\A s \in Schedules :
             scheduled'[s] > scheduled[s] /\ pass # "none" =>
                 status[s] = "enabled"]_vars
  BY OnlyStartsOfOne DEF SchedulerInv, ServiceInv, ListedAreEnabled
<1>2. QED  BY <1>1, SchedulerInvariant, PTL DEF Spec, PausedIsNotTriggered
=============================================================================
