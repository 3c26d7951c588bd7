-------------------------- MODULE ApprovalsProofs --------------------------
(***************************************************************************)
(* Proofs about Approvals, for every set of requests and every number of   *)
(* runs and restarts.                                                      *)
(***************************************************************************)
EXTENDS Approvals, TLAPS

\* A request that Codex has not made has no row, and one that has a row was
\* made in the turn of its run.
AskedInTurn ==
    \A a \in Approvals :
        /\ task[a] = "none" => status[a] = "none"
        /\ status[a] # "none" =>
              /\ owner[a] # 0
              /\ phase[owner[a]] # "none"

\* A promise is resolved with what its row says.
DecisionMatchesRow ==
    \A a \in Approvals :
        /\ decision[a] # "none" => status[a] = decision[a]
        /\ task[a] = "reporting" => decision[a] # "none"

\* Who was told something is not told again.
ToldIsAnswered ==
    \A a \in Approvals : answer[a] # "none" => task[a] = "answered"

\* The failure of a job cancels what its run left pending.
FailedInv ==
    \A a \in Approvals :
        status[a] = "pending" =>
            ~ /\ phase[owner[a]] \in {"finalizing", "ended"}
              /\ ending[owner[a]] = "error"

ApprovalsInv ==
    /\ TypeOK
    /\ PendingIsArmed
    /\ AskedInTurn
    /\ DecisionMatchesRow
    /\ ToldIsAnswered
    /\ AnswerMatchesRow
    /\ FailedInv

-----------------------------------------------------------------------------
(* The steps that decide requests.                                         *)

\* A transition keeps what concerns rows, promises and answers, whatever the
\* rest of its step does to the runs.
LEMMA TransitionKeeps ==
    ASSUME ApprovalsInv, NEW A \in SUBSET Approvals, NEW s \in Final,
           Transition(A, s), UNCHANGED <<owner, task, answer>>
    PROVE  /\ status' \in [Approvals -> Status]
           /\ active' \subseteq Approvals
           /\ decision' \in [Approvals -> {"none"} \cup Final]
           /\ PendingIsArmed'
           /\ DecisionMatchesRow'
           /\ ToldIsAnswered'
           /\ AnswerMatchesRow'
           /\ \A a \in Approvals :
                 /\ status'[a] = "none" <=> status[a] = "none"
                 /\ status[a] \in Final => status'[a] = status[a]
                 /\ status'[a] = "pending" => status[a] = "pending" /\ a \notin A
<1> USE DEF ApprovalsInv, TypeOK, RunType, RequestType, Transition, Status,
            Final
<1>1. /\ status' \in [Approvals -> Status]
      /\ active' \subseteq Approvals
      /\ decision' \in [Approvals -> {"none"} \cup Final]
  OBVIOUS
<1>2. PendingIsArmed'
  BY DEF PendingIsArmed
<1>3. DecisionMatchesRow'
  BY DEF DecisionMatchesRow, PendingIsArmed
<1>4. ToldIsAnswered'
  BY DEF ToldIsAnswered
<1>5. AnswerMatchesRow'
  BY DEF AnswerMatchesRow
<1>6. \A a \in Approvals :
         /\ status'[a] = "none" <=> status[a] = "none"
         /\ status[a] \in Final => status'[a] = status[a]
         /\ status'[a] = "pending" => status[a] = "pending" /\ a \notin A
  OBVIOUS
<1>7. QED  BY <1>1, <1>2, <1>3, <1>4, <1>5, <1>6

\* A transition of a user or a timer, which leaves the runs alone.
LEMMA DecisionKeepsInv ==
    ASSUME ApprovalsInv, NEW A \in SUBSET Approvals, NEW s \in Final,
           Transition(A, s), UNCHANGED <<runVars, owner, taskVars, restarts>>
    PROVE  ApprovalsInv'
<1> USE DEF runVars, taskVars
<1>1. TypeOK'
  BY TransitionKeeps DEF ApprovalsInv, TypeOK, RunType, RequestType,
                         JobIsActive
<1>2. AskedInTurn'
  BY TransitionKeeps DEF ApprovalsInv, AskedInTurn
<1>3. FailedInv'
  BY TransitionKeeps DEF ApprovalsInv, FailedInv
<1>4. QED
  BY <1>1, <1>2, <1>3, TransitionKeeps DEF ApprovalsInv

-----------------------------------------------------------------------------
(* The steps of the runs.                                                  *)

\* What the steps of a run do to it.
LEMMA RunMoves ==
    ASSUME RunType, NEW r \in 1..run,
           \/ TurnEnds(r) \/ JobFails(r)
           \/ HandleResult(r) \/ HandleError(r) \/ FinishRun(r) \/ CancelRun(r)
    PROVE  /\ RunType'
           /\ r \in 1..MaxRuns /\ run' = run
           /\ \A q \in 1..MaxRuns \ {r} :
                 phase'[q] = phase[q] /\ ending'[q] = ending[q]
           /\ phase'[r] # "none"
           /\ phase'[r] \in {"finalizing", "ended"} =>
                 /\ ending'[r] = ending[r]
                 /\ \/ phase[r] \in {"finalizing", "ended"}
                    \/ ending[r] # "error"
                    \/ HandleError(r)
<1> USE ApprovalsAssumption
    DEF RunType, Settle, Moves, JobIsActive, Phase, Ending
<1>1. CASE TurnEnds(r)      BY <1>1 DEF TurnEnds
<1>2. CASE JobFails(r)      BY <1>2 DEF JobFails
<1>3. CASE HandleResult(r)  BY <1>3 DEF HandleResult
<1>4. CASE HandleError(r)   BY <1>4 DEF HandleError
<1>5. CASE FinishRun(r)     BY <1>5 DEF FinishRun
<1>6. CASE CancelRun(r)     BY <1>6 DEF CancelRun
<1>7. QED  BY <1>1, <1>2, <1>3, <1>4, <1>5, <1>6

\* The owner of a request is a run.
LEMMA OwnersRan ==
    ASSUME ApprovalsInv, NEW a \in Approvals, status[a] # "none"
    PROVE  owner[a] \in 1..MaxRuns
<1>1. owner[a] \in 0..run /\ owner[a] # 0 /\ run \in 0..MaxRuns
  BY DEF ApprovalsInv, TypeOK, RunType, RequestType, AskedInTurn
<1>2. QED  BY <1>1, ApprovalsAssumption

\* A run that goes on and takes no request along.
LEMMA RunGoesOn ==
    ASSUME ApprovalsInv, NEW r \in 1..run,
           \/ TurnEnds(r) \/ JobFails(r)
           \/ HandleResult(r) \/ FinishRun(r)
    PROVE  ApprovalsInv'
<1>1. UNCHANGED <<owner, status, active, decision, task, answer>>
  BY DEF TurnEnds, JobFails, HandleResult, FinishRun, Settle,
         rowVars, taskVars
<1>2. RunType /\ RequestType
  BY DEF ApprovalsInv, TypeOK
<1>3. TypeOK'
  BY <1>1, <1>2, RunMoves DEF TypeOK, RequestType
<1>4. AskedInTurn'
  BY <1>1, <1>2, RunMoves, OwnersRan DEF ApprovalsInv, AskedInTurn
<1>5. ~HandleError(r)
  BY DEF TurnEnds, JobFails, JobIsActive, HandleResult,
         HandleError, FinishRun, Moves
<1>6. FailedInv'
  BY <1>1, <1>2, <1>5, RunMoves, OwnersRan DEF ApprovalsInv, FailedInv
<1>7. QED
  BY <1>1, <1>3, <1>4, <1>6
     DEF ApprovalsInv, PendingIsArmed, DecisionMatchesRow, ToldIsAnswered,
         AnswerMatchesRow

\* The two steps of a run that cancel its requests.
LEMMA RunCancels ==
    ASSUME ApprovalsInv, NEW r \in 1..run, HandleError(r) \/ CancelRun(r)
    PROVE  ApprovalsInv'
<1> DEFINE A == OwnedBy(r)
<1>1. /\ A \in SUBSET Approvals /\ "canceled" \in Final
      /\ Transition(A, "canceled")
      /\ UNCHANGED <<owner, task, answer>>
  BY DEF OwnedBy, Final, HandleError, CancelRun, taskVars
<1>2. \A a \in Approvals : owner[a] = r => a \in A
  BY DEF OwnedBy
<1> HIDE DEF A
<1>3. RunType /\ RequestType
  BY DEF ApprovalsInv, TypeOK
<1>4. TypeOK'
  BY <1>1, <1>3, RunMoves, TransitionKeeps DEF TypeOK, RequestType
<1>5. AskedInTurn'
  BY <1>1, <1>3, RunMoves, OwnersRan, TransitionKeeps
     DEF ApprovalsInv, AskedInTurn
<1>6. FailedInv'
  <2>1. \A a \in Approvals :
          status'[a] = "pending" => status[a] = "pending" /\ owner[a] # r
    BY <1>1, <1>2, TransitionKeeps
  <2>2. \A q \in 1..MaxRuns \ {r} :
          phase'[q] = phase[q] /\ ending'[q] = ending[q]
    BY <1>3, RunMoves
  <2>3. QED
    BY <1>1, <2>1, <2>2, OwnersRan DEF ApprovalsInv, FailedInv
<1>7. QED
  BY <1>1, <1>4, <1>5, <1>6, TransitionKeeps DEF ApprovalsInv

-----------------------------------------------------------------------------
(* The steps of a request, and restarts.                                   *)

\* Codex asks, once, in a turn.
LEMMA AskKeepsInv ==
    ASSUME ApprovalsInv, NEW a \in Approvals, Ask(a)
    PROVE  ApprovalsInv'
<1> USE DEF runVars
<1>1. TypeOK'
  <2>1. RunType'
    BY DEF ApprovalsInv, TypeOK, RunType, Ask, JobIsActive
  <2>2. run \in 0..run
    BY ApprovalsAssumption DEF ApprovalsInv, TypeOK, RunType
  <2>3. RequestType'
    BY <2>2 DEF ApprovalsInv, TypeOK, RequestType, Ask, Status, Task, Answer
  <2>4. QED  BY <2>1, <2>3 DEF TypeOK
<1>2. status[a] = "none" /\ decision[a] = "none" /\ answer[a] = "none"
  BY DEF ApprovalsInv, TypeOK, RunType, RequestType, AskedInTurn,
         DecisionMatchesRow, ToldIsAnswered, Ask, Answer
<1>3. PendingIsArmed'
  BY <1>2 DEF ApprovalsInv, TypeOK, RunType, RequestType, PendingIsArmed, Ask
<1>4. AskedInTurn'
  BY <1>2 DEF ApprovalsInv, TypeOK, RunType, RequestType, AskedInTurn, Ask,
              JobIsActive
<1>5. DecisionMatchesRow'
  BY <1>2 DEF ApprovalsInv, TypeOK, RunType, RequestType, DecisionMatchesRow,
              Ask
<1>6. ToldIsAnswered'
  BY <1>2 DEF ApprovalsInv, TypeOK, RunType, RequestType, ToldIsAnswered, Ask
<1>7. AnswerMatchesRow'
  BY <1>2 DEF ApprovalsInv, TypeOK, RunType, RequestType, AnswerMatchesRow, Ask
<1>8. FailedInv'
  BY DEF ApprovalsInv, TypeOK, RunType, RequestType, FailedInv, Ask,
         JobIsActive
<1>9. QED
  BY <1>1, <1>3, <1>4, <1>5, <1>6, <1>7, <1>8 DEF ApprovalsInv

\* The request is announced, decided, reported and answered.
LEMMA TaskStepKeepsInv ==
    ASSUME ApprovalsInv, NEW a \in Approvals, TaskStep(a)
    PROVE  ApprovalsInv'
<1> USE DEF runVars, rowVars, TaskStep, PublishFails, Announce, Report, Respond
<1>1. TypeOK'
  <2>1. RunType'
    BY DEF ApprovalsInv, TypeOK, RunType, JobIsActive
  <2>2. RequestType'
    BY DEF ApprovalsInv, TypeOK, RequestType, Task, Answer, Response
  <2>3. QED  BY <2>1, <2>2 DEF TypeOK
<1>2. AskedInTurn'
  BY DEF ApprovalsInv, TypeOK, RunType, RequestType, AskedInTurn
<1>3. DecisionMatchesRow'
  BY DEF ApprovalsInv, TypeOK, RunType, RequestType, DecisionMatchesRow
<1>4. ToldIsAnswered'
  BY DEF ApprovalsInv, TypeOK, RunType, RequestType, ToldIsAnswered
<1>5. AnswerMatchesRow'
  BY DEF ApprovalsInv, TypeOK, RequestType, AnswerMatchesRow,
         DecisionMatchesRow
<1>6. PendingIsArmed' /\ FailedInv'
  BY DEF ApprovalsInv, PendingIsArmed, FailedInv
<1>7. QED
  BY <1>1, <1>2, <1>3, <1>4, <1>5, <1>6 DEF ApprovalsInv

\* A restart.
LEMMA RestartKeepsInv ==
    ASSUME ApprovalsInv, Restart
    PROVE  ApprovalsInv'
<1> USE DEF Restart
<1>1. TypeOK'
  <2>1. RunType'
    BY ApprovalsAssumption
       DEF ApprovalsInv, TypeOK, RunType, Phase, Ending, JobIsActive
  <2>2. RequestType'
    BY DEF ApprovalsInv, TypeOK, RequestType, Status, Final, Task, Answer
  <2>3. QED  BY <2>1, <2>2 DEF TypeOK
<1>2. PendingIsArmed' /\ FailedInv'
  BY DEF PendingIsArmed, FailedInv
<1>3. AskedInTurn'
  BY OwnersRan DEF ApprovalsInv, TypeOK, RequestType, AskedInTurn
<1>4. DecisionMatchesRow'
  BY DEF ApprovalsInv, TypeOK, RunType, RequestType, DecisionMatchesRow, Final
<1>5. ToldIsAnswered' /\ AnswerMatchesRow'
  BY DEF ApprovalsInv, TypeOK, RunType, RequestType, ToldIsAnswered,
         AnswerMatchesRow, Task, Final
<1>6. QED
  BY <1>1, <1>2, <1>3, <1>4, <1>5 DEF ApprovalsInv

-----------------------------------------------------------------------------
(* The invariant.                                                          *)

\* Every step keeps the invariant.
LEMMA NextKeepsInv ==
    ASSUME ApprovalsInv, [Next]_vars
    PROVE  ApprovalsInv'
<1>1. CASE StartRun
  <2>1. TypeOK'
    BY <1>1, ApprovalsAssumption
       DEF ApprovalsInv, TypeOK, RunType, RequestType, StartRun, JobIsActive,
           Phase, rowVars, taskVars
  <2>2. AskedInTurn' /\ FailedInv'
    BY <1>1, ApprovalsAssumption
       DEF ApprovalsInv, TypeOK, RunType, RequestType, AskedInTurn, FailedInv,
           StartRun, rowVars, taskVars
  <2>3. QED
    BY <1>1, <2>1, <2>2
       DEF ApprovalsInv, PendingIsArmed, DecisionMatchesRow, ToldIsAnswered,
           AnswerMatchesRow, StartRun, rowVars, taskVars
<1>2. ASSUME NEW r \in 1..run,
             \/ TurnEnds(r) \/ JobFails(r)
             \/ RunStep(r) \/ CancelRun(r)
      PROVE  ApprovalsInv'
  BY <1>2, RunGoesOn, RunCancels DEF RunStep
<1>3. ASSUME NEW a \in Approvals, Ask(a) \/ TaskStep(a)
      PROVE  ApprovalsInv'
  BY <1>3, AskKeepsInv, TaskStepKeepsInv
<1>4. ASSUME NEW a \in Approvals, NEW s \in {"approved", "rejected"},
             Decide(a, s)
      PROVE  ApprovalsInv'
  BY <1>4, DecisionKeepsInv DEF Decide, Final
<1>5. ASSUME NEW a \in Approvals, Expire(a)
      PROVE  ApprovalsInv'
  BY <1>5, DecisionKeepsInv DEF Expire, Final
<1>6. CASE Restart
  BY <1>6, RestartKeepsInv
<1>7. CASE UNCHANGED vars
  BY <1>7
     DEF ApprovalsInv, TypeOK, RunType, RequestType, PendingIsArmed,
         AskedInTurn, DecisionMatchesRow, ToldIsAnswered, AnswerMatchesRow,
         FailedInv, JobIsActive, vars, runVars, rowVars, taskVars
<1>8. QED  BY <1>1, <1>2, <1>3, <1>4, <1>5, <1>6, <1>7 DEF Next

\* Rows, timers, promises and answers stay in step with each other.
THEOREM ApprovalsInvariant == Spec => []ApprovalsInv
<1>1. Init => ApprovalsInv
  BY ApprovalsAssumption
     DEF Init, ApprovalsInv, TypeOK, RunType, RequestType, PendingIsArmed,
         AskedInTurn, DecisionMatchesRow, ToldIsAnswered, AnswerMatchesRow,
         FailedInv, JobIsActive, Phase, Ending, Status, Task, Answer
<1>2. ApprovalsInv /\ [Next]_vars => ApprovalsInv'
  BY NextKeepsInv
<1>3. QED  BY <1>1, <1>2, PTL DEF Spec

\* An approval is pending exactly as long as its timer and its promise are
\* held.
THEOREM PendingArmed == Spec => []PendingIsArmed
<1>1. ApprovalsInv => PendingIsArmed
  BY DEF ApprovalsInv
<1>2. QED  BY <1>1, ApprovalsInvariant, PTL

\* Codex is told what the row says.
THEOREM AnswersMatch == Spec => []AnswerMatchesRow
<1>1. ApprovalsInv => AnswerMatchesRow
  BY DEF ApprovalsInv
<1>2. QED  BY <1>1, ApprovalsInvariant, PTL

\* A run that failed leaves no pending approval.
THEOREM FailedIsClean == Spec => []FailedLeavesNone
<1>1. ApprovalsInv => FailedLeavesNone
  BY DEF ApprovalsInv, FailedInv, FailedLeavesNone
<1>2. QED  BY <1>1, ApprovalsInvariant, PTL

-----------------------------------------------------------------------------
(* What a step may never do.                                               *)

\* A decision that is made stays.
THEOREM Decided == Spec => DecidedOnce
<1> DEFINE Kept == \A a \in Approvals :
                      status[a] \in Final => status'[a] = status[a]
<1>1. ASSUME ApprovalsInv, NEW A \in SUBSET Approvals, NEW s \in Final,
             Transition(A, s), UNCHANGED <<owner, task, answer>>
      PROVE  Kept
  BY <1>1, TransitionKeeps
<1>2. ASSUME ApprovalsInv, [Next]_vars  PROVE Kept
  <2>1. ASSUME NEW r \in 1..run, HandleError(r) \/ CancelRun(r)  PROVE Kept
    BY <1>2, <2>1, <1>1 DEF HandleError, CancelRun, OwnedBy, Final, taskVars
  <2>2. ASSUME NEW a \in Approvals, NEW s \in {"approved", "rejected"},
               Decide(a, s)
        PROVE  Kept
    BY <1>2, <2>2, <1>1 DEF Decide, Final, taskVars
  <2>3. ASSUME NEW a \in Approvals, Expire(a)  PROVE Kept
    BY <1>2, <2>3, <1>1 DEF Expire, Final, taskVars
  <2>4. ASSUME NEW a \in Approvals, Ask(a)  PROVE Kept
    BY <1>2, <2>4 DEF ApprovalsInv, TypeOK, RunType, RequestType, AskedInTurn,
                      Ask, Final
  <2>5. CASE Restart
    BY <1>2, <2>5 DEF ApprovalsInv, TypeOK, RunType, RequestType, Restart,
                      Final
  <2>6. CASE UNCHANGED status
    BY <2>6
  <2>7. QED
    BY <1>2, <2>1, <2>2, <2>3, <2>4, <2>5, <2>6
       DEF Next, RunStep, TaskStep, StartRun, TurnEnds, JobFails,
           Settle, HandleResult, FinishRun, PublishFails, Announce, Report,
           Respond, rowVars, vars
<1>3. ApprovalsInv /\ [Next]_vars => [Kept]_vars
  BY <1>2
<1>4. QED  BY <1>3, ApprovalsInvariant, PTL DEF Spec, DecidedOnce

\* Codex is told of a decision in the turn that asked.
THEOREM Told == Spec => ToldInItsTurn
<1> DEFINE InTurn == \A a \in Approvals :
                        answer'[a] # answer[a] /\ answer'[a] # "refused" =>
                            phase[owner[a]] = "turn"
<1>1. ASSUME ApprovalsInv, [Next]_vars  PROVE InTurn
  <2>1. ASSUME NEW a \in Approvals, TaskStep(a)  PROVE InTurn
    BY <1>1, <2>1
       DEF ApprovalsInv, TypeOK, RequestType, TaskStep, PublishFails, Announce,
           Report, Respond, JobIsActive
  <2>2. ASSUME NEW a \in Approvals, Ask(a)  PROVE InTurn
    BY <1>1, <2>2 DEF ApprovalsInv, TypeOK, RunType, RequestType, Ask
  <2>3. CASE Restart
    BY <1>1, <2>3 DEF ApprovalsInv, TypeOK, RunType, RequestType, Restart
  <2>4. CASE UNCHANGED answer
    BY <2>4
  <2>5. QED
    BY <1>1, <2>1, <2>2, <2>3, <2>4
       DEF Next, RunStep, StartRun, TurnEnds, JobFails, Settle,
           HandleResult, HandleError, FinishRun, CancelRun, Decide, Expire,
           taskVars, vars
<1>2. ApprovalsInv /\ [Next]_vars => [InTurn]_vars
  BY <1>1
<1>3. QED  BY <1>2, ApprovalsInvariant, PTL DEF Spec, ToldInItsTurn
=============================================================================
