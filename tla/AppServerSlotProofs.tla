------------------------ MODULE AppServerSlotProofs ------------------------
(***************************************************************************)
(* Proofs about AppServerSlot, for every number of runs and every set of   *)
(* configurations.                                                         *)
(***************************************************************************)
EXTENDS AppServerSlot, TLAPS

\* The stages in which the chain of a run awaits the end of a host.
Clears == {"clearing", "unspawned", "releasing"}

\* The processes that may be alive are those that something keeps: the slot,
\* or one of the three that close a host and await its end.
Accounted ==
    \A h \in Hosts : process[h] \notin {"none", "closed"} =>
        \/ h = host
        \/ h = current /\ stage \in Clears
        \/ h = idleInvalidation
        \/ h = closed /\ closeStage = "clearing"

\* Of the slot and the three, at most one has a host.
OneKeeper ==
    /\ stage \in Clears => host = NoHost
    /\ stage = "waiting" => idleInvalidation # NoHost
    /\ idleInvalidation # NoHost =>
           host = NoHost /\ stage \in {"free", "waiting"}
    /\ closeStage \in {"clearing", "settling", "closed"} => host = NoHost
    /\ closeStage = "clearing" =>
           idleInvalidation = NoHost /\ stage \notin Clears

\* The host of the last run is created at most once.
Uncreated ==
    stage \in {"waiting", "preparing", "clearing"} =>
        run \in Hosts /\ process[run] = "none"

CloseInv ==
    /\ closing <=> closeStage # "open"
    /\ closeStage = "closed" => idleInvalidation = NoHost /\ ~Busy

\* A kept host that is outdated is going to be looked at again.
OutdatedIsMarked ==
    host # NoHost /\ host \in outdated => staleReason /\ Busy

SlotInv ==
    /\ TypeOK
    /\ Accounted
    /\ OneKeeper
    /\ Uncreated
    /\ CloseInv
    /\ OutdatedIsMarked
    /\ CancelReachesJob

-----------------------------------------------------------------------------
(* The pieces of the actions.                                              *)

\* What the steps of a run leave alone.
Aside == <<run, needed, cancelRequested, hostConfiguration, closeVars, outdated>>

\* Processes that may follow those there are: none begins or revives, and
\* the kept host is not one that was told to end.
Successor(p) ==
    /\ p \in [Hosts -> Process]
    /\ \A h \in Hosts : p[h] = "none" <=> process[h] = "none"
    /\ \A h \in Hosts : process[h] = "closed" => p[h] = "closed"
    /\ host # NoHost => p[host] # "closing"

\* The end of a run keeps the invariant: the host is kept, idle and not
\* marked, or it is closed by the finally and nothing else keeps a process.
LEMMA FinallyKeeps ==
    ASSUME SlotInv, UNCHANGED Aside, UNCHANGED told,
           NEW p, Successor(p), Finally(p),
           stage \in Clears => p[current] = "closed",
           \/ stage # "waiting" /\ UNCHANGED idleInvalidation
           \/ idleInvalidation' = NoHost /\ p[idleInvalidation] = "closed",
           Busy
    PROVE  SlotInv'
<1> DEFINE drop == host # NoHost /\ (p[host] \notin Reusable \/ staleReason)
<1> USE DEF Aside, runVars, closeVars, Hosts, NoHost, Busy
<1>1. CASE drop
  <2>1. /\ stage' = "releasing"
        /\ current' = host
        /\ host' = NoHost
        /\ process' = Closing(p, host)
    BY <1>1 DEF Finally
  <2>2. host \in Hosts /\ host # NoHost
    BY <1>1, AppServerSlotAssumption DEF SlotInv, TypeOK
  <2>3. TypeOK'
    BY <2>1, <2>2 DEF SlotInv, TypeOK, Finally, Closing, Successor, Stage,
                      Process
  <2>4. Accounted'
    BY <2>1, <2>2 DEF SlotInv, TypeOK, Accounted, OneKeeper, Closing,
                      Successor, Clears, Process
  <2>5. OneKeeper' /\ Uncreated' /\ CloseInv'
    BY <2>1, <2>2 DEF SlotInv, TypeOK, OneKeeper, Uncreated, CloseInv, Clears
  <2>6. OutdatedIsMarked' /\ CancelReachesJob'
    BY <2>1 DEF OutdatedIsMarked, CancelReachesJob
  <2>7. QED  BY <2>3, <2>4, <2>5, <2>6 DEF SlotInv
<1>2. CASE ~drop
  <2>1. /\ stage' = "free"
        /\ current' = NoHost
        /\ host' = host
        /\ process' = p
        /\ host # NoHost => ~staleReason
    BY <1>2 DEF Finally
  <2>2. TypeOK'
    BY <2>1, AppServerSlotAssumption DEF SlotInv, TypeOK, Finally, Successor, Stage, Process
  <2>3. Accounted'
    BY <2>1 DEF SlotInv, TypeOK, Accounted, OneKeeper, Successor, Clears
  <2>4. OneKeeper' /\ Uncreated' /\ CloseInv'
    BY <2>1 DEF SlotInv, TypeOK, OneKeeper, Uncreated, CloseInv, Clears
  <2>5. OutdatedIsMarked' /\ CancelReachesJob'
    BY <2>1 DEF SlotInv, OutdatedIsMarked, CancelReachesJob
  <2>6. QED  BY <2>2, <2>3, <2>4, <2>5 DEF SlotInv
<1>3. QED  BY <1>1, <1>2

\* clearHost by the chain of a run keeps the invariant.
LEMMA ClearForKeeps ==
    ASSUME SlotInv, UNCHANGED Aside, UNCHANGED <<told, idleInvalidation>>,
           NEW next \in {"clearing", "unspawned"}, ClearFor(next),
           staleReason' \in BOOLEAN,
           host # NoHost, stage \in {"preparing", "spawning"},
           next = "clearing" => stage = "preparing"
    PROVE  SlotInv'
<1> USE DEF Aside, runVars, closeVars, Hosts, NoHost, Busy, ClearFor
<1>1. host \in Hosts
  BY AppServerSlotAssumption DEF SlotInv, TypeOK
<1>2. TypeOK'
  BY <1>1 DEF SlotInv, TypeOK, Closing, Stage, Process
<1>3. Accounted'
  BY <1>1 DEF SlotInv, TypeOK, Accounted, OneKeeper, Closing, Clears, Process
<1>4. OneKeeper'
  BY <1>1 DEF SlotInv, TypeOK, OneKeeper, Clears
<1>5. Uncreated' /\ CloseInv'
  BY <1>1 DEF SlotInv, TypeOK, Uncreated, CloseInv, Closing
<1>6. OutdatedIsMarked' /\ CancelReachesJob'
  BY DEF OutdatedIsMarked, CancelReachesJob
<1>7. QED  BY <1>2, <1>3, <1>4, <1>5, <1>6 DEF SlotInv

\* A host that begins to execute the run, or was spawned for it, keeps the
\* invariant.
LEMMA AssignKeeps ==
    ASSUME SlotInv, UNCHANGED <<run, needed, cancelRequested, closeVars,
                                staleReason, idleInvalidation, outdated>>,
           hostConfiguration' \in Configurations,
           Prepared, ~closing,
           NEW h \in Hosts, h \in 1..run,
           host # NoHost => h = host,
           h \notin outdated,
           NEW s \in {"turn", "spawning"},
           stage' = s, current' = h, host' = h,
           process' = [process EXCEPT ![h] = s],
           told' \in BOOLEAN, s = "turn" => told' = cancelRequested
    PROVE  SlotInv'
<1> USE DEF runVars, closeVars, Hosts, NoHost, Busy, Prepared
<1>1. TypeOK'
  BY DEF SlotInv, TypeOK, Stage, Process
<1>2. Accounted'
  BY DEF SlotInv, TypeOK, Accounted, OneKeeper, CloseInv, Clears, Process
<1>3. OneKeeper'
  BY DEF SlotInv, TypeOK, OneKeeper, CloseInv, Clears
<1>4. Uncreated' /\ CloseInv'
  BY DEF SlotInv, TypeOK, Uncreated, CloseInv
<1>5. OutdatedIsMarked' /\ CancelReachesJob'
  BY DEF OutdatedIsMarked, CancelReachesJob
<1>6. QED  BY <1>1, <1>2, <1>3, <1>4, <1>5 DEF SlotInv

-----------------------------------------------------------------------------
(* The invariant.                                                          *)

\* The slot starts with no host and no run.
LEMMA SlotInit == Init => SlotInv
<1> SUFFICES ASSUME Init PROVE SlotInv
  OBVIOUS
<1> USE DEF Init, Hosts, NoHost, Busy, Clears
<1>1. TypeOK
  <2>1. process \in [Hosts -> Process]
    BY DEF Process
  <2>2. \A h \in Hosts : process[h] = "none"
    OBVIOUS
  <2>3. stage \in Stage /\ closeStage \in CloseStage
    BY DEF Stage, CloseStage
  <2>4. hostConfiguration \in Configurations
    OBVIOUS
  <2>5. run = 0 /\ run \in 0..MaxRuns
    BY AppServerSlotAssumption
  <2>6. /\ current \in 0..run /\ host \in 0..run /\ closed \in 0..run
        /\ idleInvalidation \in 0..run
    BY <2>5
  <2>7. /\ cancelRequested \in BOOLEAN /\ told \in BOOLEAN
        /\ staleReason \in BOOLEAN /\ closing \in BOOLEAN
    OBVIOUS
  <2>8. host = NoHost /\ outdated = {} /\ needed \in Configurations
    OBVIOUS
  <2> HIDE DEF Init, Hosts
  <2>9. QED  BY <2>1, <2>2, <2>3, <2>4, <2>5, <2>6, <2>7, <2>8 DEF TypeOK
<1>2. Accounted /\ OneKeeper
  BY DEF Accounted, OneKeeper
<1>3. Uncreated /\ CloseInv /\ OutdatedIsMarked /\ CancelReachesJob
  BY DEF Uncreated, CloseInv, OutdatedIsMarked, CancelReachesJob
<1>4. QED  BY <1>1, <1>2, <1>3 DEF SlotInv

\* Every action of the executor and of its hosts keeps the invariant.
LEMMA SlotStep == SlotInv /\ [Next]_vars => SlotInv'
<1> SUFFICES ASSUME SlotInv, [Next]_vars
             PROVE  SlotInv'
  OBVIOUS
<1> USE AppServerSlotAssumption DEF Hosts, NoHost, Busy, runVars, closeVars
<1>1. ASSUME NEW configuration \in Configurations, Start(configuration)
      PROVE  SlotInv'
  <2>1. TypeOK'
    <3>1. /\ run \in 0..MaxRuns /\ run' = run + 1 /\ run' \in 0..MaxRuns
          /\ 0..run \subseteq 0..run'
      BY <1>1 DEF Start, SlotInv, TypeOK
    <3>2. stage' \in Stage
      BY <1>1 DEF Start, Stage
    <3>3. \A h \in Hosts : h > run' => process[h] = "none"
      BY <3>1 DEF SlotInv, TypeOK
    <3>4. QED
      BY <1>1, <3>1, <3>2, <3>3 DEF Start, SlotInv, TypeOK
  <2>2. Accounted' /\ OneKeeper' /\ CloseInv'
    BY <1>1 DEF Start, SlotInv, TypeOK, Accounted, OneKeeper, CloseInv, Clears
  <2>3. Uncreated'
    BY <1>1 DEF Start, SlotInv, TypeOK, Uncreated
  <2>4. OutdatedIsMarked' /\ CancelReachesJob'
    BY <1>1 DEF Start, SlotInv, OutdatedIsMarked, CancelReachesJob
  <2>5. QED  BY <2>1, <2>2, <2>3, <2>4 DEF SlotInv
<1>2. CASE InvalidationEnds
  <2>1. CASE stage = "waiting" /\ closing
    <3>1. Successor(process)
      BY DEF Successor, SlotInv, TypeOK
    <3>2. Finally(process)
      BY <1>2, <2>1 DEF InvalidationEnds, Resume
    <3>3. QED
      BY <1>2, <2>1, <3>1, <3>2, FinallyKeeps
         DEF InvalidationEnds, Aside, Clears
  <2>2. CASE ~(stage = "waiting" /\ closing)
    <3>1. /\ idleInvalidation' = NoHost
          /\ process[idleInvalidation] = "closed"
          /\ stage' = IF stage = "waiting" THEN "preparing" ELSE stage
          /\ UNCHANGED <<runVars, current, host, hostConfiguration, process,
                         staleReason, closeVars, outdated>>
      BY <1>2, <2>2 DEF InvalidationEnds, Resume
    <3>2. TypeOK'
      BY <3>1 DEF SlotInv, TypeOK, Stage
    <3>3. Accounted' /\ OneKeeper' /\ CloseInv' /\ Uncreated'
      BY <3>1 DEF SlotInv, TypeOK, Accounted, OneKeeper, CloseInv, Uncreated,
                  Clears
    <3>4. OutdatedIsMarked' /\ CancelReachesJob'
      BY <3>1 DEF SlotInv, OutdatedIsMarked, CancelReachesJob
    <3>5. QED  BY <3>2, <3>3, <3>4 DEF SlotInv
  <2>3. QED  BY <2>1, <2>2
<1>3. CASE PrepareFails
  <2>1. Successor(process)
    BY DEF Successor, SlotInv, TypeOK
  <2>2. QED
    BY <1>3, <2>1, FinallyKeeps
       DEF PrepareFails, Prepared, Aside, Clears
<1>4. CASE ClearStaleHost
  BY <1>4, ClearForKeeps DEF ClearStaleHost, Aside
<1>5. CASE ClearOtherHost
  BY <1>5, ClearForKeeps DEF ClearOtherHost, Aside, SlotInv, TypeOK
<1>6. CASE ReuseHost
  <2>1. host \in Hosts /\ host \in 1..run /\ host \notin outdated
    BY <1>6 DEF ReuseHost, SlotInv, TypeOK, OutdatedIsMarked
  <2>2. hostConfiguration' \in Configurations /\ told' \in BOOLEAN
    BY <1>6 DEF ReuseHost, Assign, SlotInv, TypeOK
  <2>3. QED
    BY <1>6, <2>1, <2>2, AssignKeeps DEF ReuseHost, Prepared, Assign
<1>7. CASE CreateHost
  <2>1. run \in Hosts /\ run \in 1..run /\ run \notin outdated
    BY <1>7 DEF CreateHost, Prepared, SlotInv, TypeOK, Uncreated
  <2>2. hostConfiguration' \in Configurations /\ told' \in BOOLEAN
    BY <1>7 DEF CreateHost, Assign, SlotInv, TypeOK
  <2>3. CASE Assign(run)
    BY <1>7, <2>1, <2>2, <2>3, AssignKeeps DEF CreateHost, Assign
  <2>4. CASE ~Assign(run)
    BY <1>7, <2>1, <2>2, <2>4, AssignKeeps DEF CreateHost
  <2>5. QED  BY <2>3, <2>4
<1>8. CASE SpawnFails
  <2>1. CASE host # NoHost
    BY <1>8, <2>1, ClearForKeeps DEF SpawnFails, Aside, SlotInv, TypeOK
  <2>2. CASE host = NoHost
    <3>1. Successor(process)
      BY DEF Successor, SlotInv, TypeOK
    <3>2. QED
      BY <1>8, <2>2, <3>1, FinallyKeeps DEF SpawnFails, Aside, Clears
  <2>3. QED  BY <2>1, <2>2
<1>9. CASE ClearedAfterRun
  <2>1. Successor(process)
    BY DEF Successor, SlotInv, TypeOK
  <2>2. QED
    BY <1>9, <2>1, FinallyKeeps DEF ClearedAfterRun, Aside, Clears
<1>10. CASE TurnEnds
  <2> DEFINE p == [process EXCEPT ![current] =
                       IF @ = "turn" THEN "ready" ELSE @]
  <2>1. Successor(p)
    <3>1. /\ p \in [Hosts -> Process]
          /\ \A h \in Hosts : p[h] # process[h] =>
                 process[h] = "turn" /\ p[h] = "ready"
      BY DEF SlotInv, TypeOK, Process
    <3>2. host # NoHost => host \in Hosts /\ process[host] # "closing"
      BY DEF SlotInv, TypeOK
    <3>3. QED  BY <3>1, <3>2 DEF Successor
  <2>2. QED
    BY <1>10, <2>1, FinallyKeeps DEF TurnEnds, Aside, Clears
<1>11. ASSUME NEW h \in Hosts, NEW s \in {"failed", "closed"},
              process[h] \notin {"none", "closed"},
              Becomes(h, [process EXCEPT ![h] = s])
       PROVE  SlotInv'
  <2> DEFINE p == [process EXCEPT ![h] = s]
  <2>1. Successor(p)
    BY <1>11 DEF Successor, SlotInv, TypeOK, Process
  <2>2. CASE stage = "turn" /\ current = h
    BY <1>11, <2>1, <2>2, FinallyKeeps DEF Becomes, Aside, Clears
  <2>3. CASE ~(stage = "turn" /\ current = h)
    <3>1. /\ process' = p
          /\ UNCHANGED <<runVars, stage, current, host, hostConfiguration,
                         staleReason, idleInvalidation, closeVars, outdated>>
      BY <1>11, <2>3 DEF Becomes
    <3>2. TypeOK'
      BY <1>11, <3>1 DEF SlotInv, TypeOK, Process
    <3>3. Accounted' /\ Uncreated'
      BY <1>11, <3>1 DEF SlotInv, TypeOK, Accounted, Uncreated, Clears
    <3>4. OneKeeper' /\ CloseInv' /\ OutdatedIsMarked' /\ CancelReachesJob'
      BY <3>1 DEF SlotInv, OneKeeper, CloseInv, OutdatedIsMarked,
                  CancelReachesJob, Clears
    <3>5. QED  BY <3>2, <3>3, <3>4 DEF SlotInv
  <2>4. QED  BY <2>2, <2>3
<1>12. ASSUME NEW h \in Hosts, HostFails(h)
       PROVE  SlotInv'
  BY <1>11, <1>12 DEF HostFails
<1>13. ASSUME NEW h \in Hosts, ProcessExits(h)
       PROVE  SlotInv'
  BY <1>11, <1>13 DEF ProcessExits, Doomed
<1>14. CASE Cancel
  BY <1>14 DEF Cancel, CancelRun, SlotInv, TypeOK, Accounted, OneKeeper,
               Uncreated, CloseInv, OutdatedIsMarked, CancelReachesJob, Clears
<1>15. CASE Invalidate
  <2>1. TypeOK'
    <3>1. /\ process' \in [Hosts -> Process]
          /\ \A h \in Hosts : process'[h] = "none" <=> process[h] = "none"
          /\ host' # NoHost => host' = host /\ process' = process
      BY <1>15 DEF Invalidate, Closing, SlotInv, TypeOK, Process
    <3>2. /\ outdated' \subseteq {h \in Hosts : process'[h] # "none"}
      BY <1>15, <3>1 DEF Invalidate, SlotInv, TypeOK
    <3>3. /\ idleInvalidation' \in 0..run
          /\ host' \in 0..run
          /\ staleReason' \in BOOLEAN
      BY <1>15 DEF Invalidate, SlotInv, TypeOK
    <3>4. QED
      BY <1>15, <3>1, <3>2, <3>3 DEF Invalidate, SlotInv, TypeOK
  <2>2. Accounted' /\ OneKeeper'
    BY <1>15 DEF Invalidate, Closing, SlotInv, TypeOK, Accounted, OneKeeper,
                 CloseInv, Clears, Process
  <2>3. Uncreated' /\ CloseInv'
    BY <1>15 DEF Invalidate, SlotInv, Uncreated, CloseInv
  <2>4. OutdatedIsMarked' /\ CancelReachesJob'
    BY <1>15 DEF Invalidate, SlotInv, OneKeeper, OutdatedIsMarked,
                 CancelReachesJob
  <2>5. QED  BY <2>1, <2>2, <2>3, <2>4 DEF SlotInv
<1>16. ASSUME ClearForClose,
              UNCHANGED <<run, needed, stage, current, hostConfiguration,
                          staleReason, idleInvalidation, outdated>>,
              closing' = TRUE, closeStage \in {"open", "interrupting"},
              cancelRequested' \in BOOLEAN, told' \in BOOLEAN,
              UNCHANGED <<cancelRequested, told>>
       PROVE  SlotInv'
  <2>1. TypeOK'
    BY <1>16 DEF ClearForClose, Closing, SlotInv, TypeOK, Process, CloseStage
  <2>2. Accounted' /\ OneKeeper'
    BY <1>16 DEF ClearForClose, Closing, SlotInv, TypeOK, Accounted,
                 OneKeeper, Clears, Process
  <2>3. Uncreated' /\ CloseInv'
    BY <1>16 DEF ClearForClose, Closing, SlotInv, TypeOK, Uncreated, CloseInv
  <2>4. OutdatedIsMarked' /\ CancelReachesJob'
    BY <1>16 DEF ClearForClose, SlotInv, OutdatedIsMarked, CancelReachesJob
  <2>5. QED  BY <2>1, <2>2, <2>3, <2>4 DEF SlotInv
<1>17. CASE Close
  <2>1. CASE Busy
    BY <1>17, <2>1
       DEF Close, CancelRun, SlotInv, TypeOK, Accounted, OneKeeper, Uncreated,
           CloseInv, OutdatedIsMarked, CancelReachesJob, Clears, CloseStage
  <2>2. CASE ~Busy
    BY <1>16, <1>17, <2>2 DEF Close, SlotInv, TypeOK, CloseInv, CloseStage
  <2>3. QED  BY <2>1, <2>2
<1>18. CASE InterruptEnds
  BY <1>16, <1>18 DEF InterruptEnds, SlotInv, TypeOK, CloseInv
<1>19. CASE ClearEnds
  BY <1>19 DEF ClearEnds, SlotInv, TypeOK, Accounted, OneKeeper, Uncreated,
               CloseInv, OutdatedIsMarked, CancelReachesJob, Clears,
               CloseStage
<1>20. CASE CloseReturns
  BY <1>20 DEF CloseReturns, SlotInv, TypeOK, Accounted, OneKeeper, Uncreated,
               CloseInv, OutdatedIsMarked, CancelReachesJob, Clears,
               CloseStage
<1>21. CASE UNCHANGED vars
  BY <1>21 DEF vars, SlotInv, TypeOK, Accounted, OneKeeper, Uncreated,
               CloseInv, OutdatedIsMarked, CancelReachesJob, Clears
<1>22. QED
  BY <1>1, <1>2, <1>3, <1>4, <1>5, <1>6, <1>7, <1>8, <1>9, <1>10, <1>12,
     <1>13, <1>14, <1>15, <1>17, <1>18, <1>19, <1>20, <1>21
     DEF Next, ChainStep, CloseStep

\* The invariant holds in every behaviour of the executor.
THEOREM SlotInvariant == Spec => []SlotInv
<1>1. QED  BY SlotInit, SlotStep, PTL DEF Spec

-----------------------------------------------------------------------------
(* What the executor promises.                                             *)

\* At most one Codex process of the slot is alive: only one of the slot, the
\* chain of the run, invalidate and close has a host.
THEOREM SlotHasOneProcess == Spec => []OneProcess
<1>1. SlotInv => OneProcess
  BY DEF SlotInv, TypeOK, Accounted, OneKeeper, OneProcess, Alive, NoHost,
         Clears, Hosts
<1>2. QED  BY <1>1, SlotInvariant, PTL

\* close returns when no process and no run is left.
THEOREM SlotClosed == Spec => []ClosedMeansNoProcess
<1>1. SlotInv => ClosedMeansNoProcess
  BY DEF SlotInv, Accounted, OneKeeper, CloseInv, ClosedMeansNoProcess, Alive,
         NoHost, Clears, Hosts, Busy
<1>2. QED  BY <1>1, SlotInvariant, PTL

\* A cancel reaches the job, however early it comes.
THEOREM SlotCancels == Spec => []CancelReachesJob
<1>1. SlotInv => CancelReachesJob
  BY DEF SlotInv
<1>2. QED  BY <1>1, SlotInvariant, PTL

\* No turn starts in a process older than the last invalidate.
THEOREM SlotUpToDate == Spec => NoRunOnOutdatedHost
<1> DEFINE A == stage # "turn" /\ stage' = "turn" => current' \notin outdated
<1>1. SlotInv /\ [Next]_vars => [A]_vars
  <2> SUFFICES ASSUME SlotInv, Next, stage # "turn", stage' = "turn"
               PROVE  current' \notin outdated
    OBVIOUS
  <2>1. CASE ReuseHost
    BY <2>1 DEF ReuseHost, Assign, SlotInv, OutdatedIsMarked
  <2>2. CASE CreateHost
    BY <2>2 DEF CreateHost, Assign, Prepared, SlotInv, TypeOK, Uncreated
  <2>3. QED
    BY <2>1, <2>2
       DEF Next, ChainStep, CloseStep, Start, InvalidationEnds, Resume,
           PrepareFails, ClearStaleHost, ClearOtherHost, ClearFor, SpawnFails,
           ClearedAfterRun, TurnEnds, HostFails, ProcessExits, Becomes,
           Finally, Cancel, Invalidate, Close, InterruptEnds, ClearEnds,
           CloseReturns
<1>2. QED  BY <1>1, SlotInvariant, PTL DEF Spec, NoRunOnOutdatedHost
=============================================================================
