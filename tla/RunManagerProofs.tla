-------------------------- MODULE RunManagerProofs --------------------------
(***************************************************************************)
(* Theorems about RunManager, for every set of threads, every capacity and *)
(* every bound.                                                            *)
(***************************************************************************)
EXTENDS RunManager, SequenceTheorems, FiniteSetTheorems, TLAPS

-----------------------------------------------------------------------------
(* Sequences: the operations on queues keep their elements in a set.       *)

\* A run taken out of a queue leaves the others.
LEMMA RemoveAtType ==
    ASSUME NEW S, NEW s \in Seq(S), NEW i \in DOMAIN s
    PROVE  RemoveAt(s, i) \in Seq(S)
<1>1. /\ SubSeq(s, 1, i - 1) \in Seq(S)
      /\ SubSeq(s, i + 1, Len(s)) \in Seq(S)
  BY LenProperties, SubSeqProperties
<1>2. QED  BY <1>1 DEF RemoveAt

\* A run put into a queue joins the others.
LEMMA InsertAtType ==
    ASSUME NEW S, NEW s \in Seq(S), NEW i \in 1..(Len(s) + 1), NEW e \in S
    PROVE  InsertAt(s, i, e) \in Seq(S)
<1>1. /\ SubSeq(s, 1, i - 1) \in Seq(S)
      /\ SubSeq(s, i, Len(s)) \in Seq(S)
      /\ <<e>> \in Seq(S)
  BY LenProperties, SubSeqProperties
<1>2. QED  BY <1>1 DEF InsertAt

\* A run moved to the front of its queue.
LEMMA MoveToFrontType ==
    ASSUME NEW S, NEW s \in Seq(S), NEW i \in DOMAIN s
    PROVE  <<s[i]>> \o RemoveAt(s, i) \in Seq(S)
<1>1. s[i] \in S
  OBVIOUS
<1>2. QED  BY <1>1, RemoveAtType

-----------------------------------------------------------------------------
(* The operators of the model return values of their types.                *)

\* publish appends events of the stream.
LEMMA PublishedType ==
    ASSUME NEW events \in Seq(Event), NEW e \in Event
    PROVE  Published(events, e) \in Seq(Event)
BY DEF Published

\* Canceling writes rows and events of their types.
LEMMA CancelingRowsType ==
    ASSUME NEW rows \in [Runs -> Row], NEW canceled
    PROVE  CancelingRows(rows, canceled) \in [Runs -> Row]
BY DEF CancelingRows, Row, PublicStatus, InternalStatus

\* The events of a cancel.
LEMMA CancelingLogsType ==
    ASSUME log \in [Runs -> Seq(Event)], NEW canceled
    PROVE  CancelingLogs(canceled) \in [Runs -> Seq(Event)]
<1>1. \A r \in Runs : Published(log[r], "canceling") \in Seq(Event)
  BY PublishedType DEF Event
<1>2. QED  BY <1>1 DEF CancelingLogs

\* A row written by the manager.
LEMMA RowOfType ==
    ASSUME NEW public \in PublicStatus, NEW internal \in InternalStatus,
           NEW queue \in QueueState
    PROVE  RowOf(public, internal, queue) \in Row
BY DEF RowOf, Row

\* The operators on the pool return slots and pools.
LEMMA SelectSlotType ==
    ASSUME NEW p \in Pools(Runs), NEW t \in Threads
    PROVE  SelectSlot(p, t) \in Slots \cup {NoSlot}
BY DEF SelectSlot, Owners, Free, Created

\* start.
LEMMA OccupyType ==
    ASSUME NEW p \in Pools(Runs), NEW s \in Slots, NEW t \in Threads, NEW r \in Runs
    PROVE  Occupy(p, s, t, r) \in Pools(Runs)
BY DEF Occupy, Pools

\* The release of a slot.
LEMMA VacateType ==
    ASSUME NEW p \in Pools(Runs), NEW r
    PROVE  Vacate(p, r) \in Pools(Runs)
BY DEF Vacate, Pools

\* The calls the actions make.
LEMMA CallTypes ==
    /\ \A r \in Submitted : /\ CallRun("startExistingRun", r) \in Call
                             /\ CallRun("publishQueuedCancel", r) \in Call
                             /\ CallRun("recoverEvents", r) \in Call
    /\ \A t \in Threads : CallThread(t) \in Call
    /\ CallAlone("startNextPersistentRuns") \in Call
    /\ CallAlone("cancelAll") \in Call
    /\ CallAlone("recover") \in Call
BY DEF CallRun, CallThread, CallAlone, Call

\* Only StartRun submits runs.
LEMMA SubmittedStable ==
    ASSUME UNCHANGED input
    PROVE  /\ Submitted' = Submitted /\ Call' = Call
           /\ \A r : ThreadOf(r)' = ThreadOf(r)
           /\ \A r : IsPersistent(r)' = IsPersistent(r)
BY DEF Submitted, Call, ThreadOf, IsPersistent

\* The call on top of the stack is a call, and so is what lies below it.
LEMMA TopCall ==
    ASSUME TypeOK, NEW call, OnTop(call)
    PROVE  call \in Call /\ Tail(calls) \in Seq(Call)
BY DEF TypeOK, OnTop

\* A call for a run is made for a submitted run.
LEMMA RunOfCall ==
    ASSUME NEW r, NEW f \in {"startExistingRun", "publishQueuedCancel",
                             "recoverEvents"},
           CallRun(f, r) \in Call
    PROVE  r \in Submitted
<1>1. /\ CallRun(f, r).op = f /\ CallRun(f, r).run = r
  BY DEF CallRun
<1>2. CallRun(f, r) \in [op : {"startExistingRun", "publishQueuedCancel",
                               "recoverEvents"}, run : Submitted]
  BY <1>1 DEF Call
<1>3. QED  BY <1>1, <1>2

\* What is submitted is a run, with a thread of the daemon.
LEMMA SubmittedType ==
    ASSUME TypeOK
    PROVE  /\ Submitted \subseteq Runs
           /\ \A r \in Submitted : /\ input[r] \in Input
                                   /\ ThreadOf(r) \in Threads
<1>1. /\ input \in Seq(Input)
      /\ Len(input) \in Nat
      /\ Len(input) <= MaxRuns
      /\ DOMAIN input = 1..Len(input)
  BY LenProperties DEF TypeOK
<1>2. 1..Len(input) \subseteq 1..MaxRuns
  BY <1>1, RunManagerAssumption
<1>3. \A r \in 1..Len(input) : input[r] \in Input
  BY <1>1, ElementOfSeq
<1>4. QED  BY <1>1, <1>2, <1>3 DEF Submitted, ThreadOf, Runs, Input

-----------------------------------------------------------------------------
(* Types.                                                                  *)

\* A daemon that starts on an empty database has the types.
LEMMA TypeInit == Init => TypeOK
<1> SUFFICES ASSUME Init  PROVE TypeOK
  OBVIOUS
<1>1. input \in Seq(Input) /\ Len(input) <= MaxRuns
  BY RunManagerAssumption, EmptySeq DEF Init
<1>2. row \in [Runs -> Row]
  BY RowOfType DEF Init, PublicStatus, InternalStatus, QueueState
<1>3. /\ log \in [Runs -> Seq(Event)]
      /\ queues \in [QueueKeys -> Seq(Submitted)]
      /\ calls \in Seq(Call)
  BY EmptySeq DEF Init
<1>4. /\ phase \in [Runs -> Phase] /\ outcome \in [Runs -> Outcome]
      /\ \A r \in Runs \ Submitted : phase[r] = "idle"
  BY DEF Init, Phase, Outcome
<1>5. pool \in Pools(Runs)
  BY DEF Init, EmptyPool, Pools
<1>6. restarts \in 0..MaxRestarts
  BY RunManagerAssumption DEF Init
<1>7. runningThreadRun \in [Threads -> Runs \cup {NoRun}]
  BY DEF Init
<1>8. /\ rotated \subseteq Runs /\ canceledProcesses \subseteq Runs
      /\ runningPersistentRunIds \subseteq Runs
      /\ closing \in BOOLEAN
  BY DEF Init
<1>9. QED
  BY <1>1, <1>2, <1>3, <1>4, <1>5, <1>6, <1>7, <1>8 DEF TypeOK

\* What the actions that share a part do to the types of that part.

\* completeThreadRun writes runs and threads.
LEMMA ReleaseThreadType ==
    ASSUME TypeOK, NEW r \in Runs, ReleaseThread(r)
    PROVE  /\ runningPersistentRunIds' \subseteq Runs
           /\ runningThreadRun' \in [Threads -> Runs \cup {NoRun}]
BY DEF TypeOK, ReleaseThread

\* The calls of completeThreadRun.
LEMMA CompletionCallsType ==
    ASSUME NEW r \in Runs, ThreadOf(r) \in Threads
    PROVE  CompletionCalls(r) \in Seq(Call)
BY CallTypes DEF CompletionCalls

\* The cancel of active runs.
LEMMA CancelActiveType ==
    ASSUME TypeOK, NEW canceled \in SUBSET Runs, CancelActive(canceled)
    PROVE  /\ row' \in [Runs -> Row]
           /\ log' \in [Runs -> Seq(Event)]
           /\ canceledProcesses' \subseteq Runs
BY CancelingRowsType, CancelingLogsType
DEF TypeOK, CancelActive, CancelProcesses

\* A run that leaves a queue to be started.
LEMMA DequeueType ==
    ASSUME TypeOK, NEW key \in QueueKeys, NEW i \in DOMAIN queues[key],
           NEW rest \in Seq(Call), Dequeue(key, i, rest)
    PROVE  /\ row' \in [Runs -> Row] /\ log' \in [Runs -> Seq(Event)]
           /\ phase' \in [Runs -> Phase]
           /\ \A r \in Runs \ Submitted : phase'[r] = "idle"
           /\ queues' \in [QueueKeys -> Seq(Submitted)]
           /\ calls' \in Seq(Call)
<1>1. queues[key] \in Seq(Submitted) /\ queues[key][i] \in Submitted
  BY DEF TypeOK
<1>2. RemoveAt(queues[key], i) \in Seq(Submitted)
  BY <1>1, RemoveAtType
<1>3. <<CallRun("startExistingRun", queues[key][i])>> \o rest \in Seq(Call)
  BY <1>1, CallTypes
<1>4. QED  BY <1>1, <1>2, <1>3 DEF TypeOK, Dequeue, Phase

\* A run that leaves a queue because it is canceled.
LEMMA RemoveQueuedRunType ==
    ASSUME TypeOK, NEW key \in QueueKeys, NEW i \in DOMAIN queues[key],
           NEW rest \in Seq(Call), RemoveQueuedRun(key, i, rest)
    PROVE  /\ row' \in [Runs -> Row] /\ log' \in [Runs -> Seq(Event)]
           /\ canceledProcesses' \subseteq Runs
           /\ phase' \in [Runs -> Phase]
           /\ \A r \in Runs \ Submitted : phase'[r] = "idle"
           /\ queues' \in [QueueKeys -> Seq(Submitted)]
           /\ calls' \in Seq(Call)
<1>1. queues[key] \in Seq(Submitted) /\ queues[key][i] \in Submitted
  BY DEF TypeOK
<1>2. RemoveAt(queues[key], i) \in Seq(Submitted)
  BY <1>1, RemoveAtType
<1>3. <<CallAlone("startNextPersistentRuns"),
        CallRun("publishQueuedCancel", queues[key][i])>> \o rest \in Seq(Call)
  BY <1>1, CallTypes
<1>4. RowOf("canceled", "canceled", "none") \in Row
  BY RowOfType
  DEF PublicStatus, InternalStatus, QueueState, TerminalStatus
<1>5. QED  BY <1>1, <1>2, <1>3, <1>4 DEF TypeOK, RemoveQueuedRun, Phase

\* An attempt that starts or fails.
LEMMA AttemptType ==
    ASSUME TypeOK, NEW r \in Submitted,
           \/ \E tell \in BOOLEAN : BeginTurn(r, tell)
           \/ \E how \in Outcome : FailAttempt(r, how)
    PROVE  /\ phase' \in [Runs -> Phase] /\ outcome' \in [Runs -> Outcome]
           /\ \A q \in Runs \ Submitted : phase'[q] = "idle"
           /\ canceledProcesses' \subseteq Runs
<1>1. r \in Runs
  BY SubmittedType
<1>2. CASE \E tell \in BOOLEAN : BeginTurn(r, tell)
  BY <1>1, <1>2 DEF BeginTurn, TypeOK, Phase, Executing, Outcome
<1>3. CASE \E how \in Outcome : FailAttempt(r, how)
  BY <1>1, <1>3 DEF FailAttempt, TypeOK, Phase, Executing
<1>4. QED  BY <1>2, <1>3

\* Every step of the daemon keeps the types, action by action.
LEMMA TypeStep == TypeOK /\ [Next]_vars => TypeOK'
<1> SUFFICES ASSUME TypeOK, [Next]_vars  PROVE TypeOK'
  OBVIOUS
<1>1. ASSUME NEW r \in Runs, Launch(r)  PROVE TypeOK'
  <2>1. row' \in [Runs -> Row]
    BY <1>1, RowOfType
    DEF Launch, TypeOK, PublicStatus, InternalStatus, QueueState
  <2>2. calls' \in Seq(Call) /\ r \in Submitted
    BY <1>1, TopCall, RunOfCall DEF Launch
  <2>3. QED
    BY <1>1, <2>1, <2>2, SubmittedStable
    DEF Launch, TypeOK, Phase, Executing, Outcome
<1>2. ASSUME NEW r \in Runs, FailBeforeSpawn(r)  PROVE TypeOK'
  <2>1. r \in Submitted /\ Tail(calls) \in Seq(Call)
    BY <1>2, TopCall, RunOfCall DEF FailBeforeSpawn
  <2>2. /\ row' \in [Runs -> Row]
        /\ log' \in [Runs -> Seq(Event)]
    BY <1>2, RowOfType, PublishedType
    DEF FailBeforeSpawn, TypeOK, PublicStatus, InternalStatus, QueueState,
        TerminalStatus, Event
  <2>3. calls' \in Seq(Call)
    BY <1>2, <2>1, CompletionCallsType, SubmittedType
    DEF FailBeforeSpawn
  <2>4. QED
    BY <1>2, <2>2, <2>3, ReleaseThreadType, SubmittedStable
    DEF FailBeforeSpawn, TypeOK, Phase
<1>3. ASSUME StartNextPersistentRuns  PROVE TypeOK'
  <2>1. Tail(calls) \in Seq(Call)
    BY <1>3, TopCall DEF StartNextPersistentRuns
  <2>2. PersistentQueue \in QueueKeys /\ calls \in Seq(Call)
    BY DEF QueueKeys, TypeOK
  <2>3. /\ row' \in [Runs -> Row] /\ log' \in [Runs -> Seq(Event)]
        /\ phase' \in [Runs -> Phase]
        /\ \A r \in Runs \ Submitted : phase'[r] = "idle"
        /\ queues' \in [QueueKeys -> Seq(Submitted)]
        /\ calls' \in Seq(Call)
    <3>1. CASE \E i \in DOMAIN queues[PersistentQueue] :
                 Dequeue(PersistentQueue, i, calls)
      BY <3>1, <2>2, DequeueType
    <3>2. CASE calls' = Tail(calls) /\ UNCHANGED <<row, log, phase, queues>>
      BY <3>2, <2>1 DEF TypeOK
    <3>3. QED  BY <1>3, <3>1, <3>2 DEF StartNextPersistentRuns
  <2>4. QED
    BY <1>3, <2>3, SubmittedStable DEF StartNextPersistentRuns, TypeOK
<1>4. ASSUME NEW t \in Threads, StartNextQueuedThreadRun(t)  PROVE TypeOK'
  <2>1. Tail(calls) \in Seq(Call) /\ t \in QueueKeys
    BY <1>4, TopCall DEF StartNextQueuedThreadRun, QueueKeys
  <2>2. /\ row' \in [Runs -> Row] /\ log' \in [Runs -> Seq(Event)]
        /\ phase' \in [Runs -> Phase]
        /\ \A r \in Runs \ Submitted : phase'[r] = "idle"
        /\ queues' \in [QueueKeys -> Seq(Submitted)]
        /\ calls' \in Seq(Call)
    <3>1. CASE closing \/ runningThreadRun[t] # NoRun \/ queues[t] = <<>>
      BY <3>1, <1>4, <2>1 DEF StartNextQueuedThreadRun, TypeOK
    <3>2. CASE ~(closing \/ runningThreadRun[t] # NoRun \/ queues[t] = <<>>)
      <4>1. 1 \in DOMAIN queues[t]
        BY <3>2, <2>1 DEF TypeOK
      <4>2. Dequeue(t, 1, Tail(calls))
        BY <3>2, <1>4 DEF StartNextQueuedThreadRun
      <4>3. QED  BY <4>1, <4>2, <2>1, DequeueType
    <3>3. QED  BY <3>1, <3>2
  <2>3. QED
    BY <1>4, <2>2, SubmittedStable DEF StartNextQueuedThreadRun, TypeOK
<1>5. ASSUME NEW r \in Runs, PublishQueuedCancel(r)  PROVE TypeOK'
  <2>1. Tail(calls) \in Seq(Call)
    BY <1>5, TopCall DEF PublishQueuedCancel
  <2>2. log' \in [Runs -> Seq(Event)]
    <3>1. Published(log[r], "canceling") \in Seq(Event)
      BY PublishedType DEF TypeOK, Event
    <3>2. Published(Published(log[r], "canceling"), "canceled") \in Seq(Event)
      BY <3>1, PublishedType DEF Event, TerminalStatus
    <3>3. QED  BY <1>5, <3>2 DEF PublishQueuedCancel, TypeOK
  <2>3. QED
    BY <1>5, <2>1, <2>2, SubmittedStable DEF PublishQueuedCancel, TypeOK
<1>6. ASSUME NEW r \in Runs, RecoverEvents(r)  PROVE TypeOK'
  <2>1. Tail(calls) \in Seq(Call)
    BY <1>6, TopCall DEF RecoverEvents
  <2>2. log' \in [Runs -> Seq(Event)]
    BY <1>6, PublishedType DEF RecoverEvents, TypeOK, Event, TerminalStatus
  <2>3. QED
    BY <1>6, <2>1, <2>2, SubmittedStable DEF RecoverEvents, TypeOK
<1>7. ASSUME CancelAll  PROVE TypeOK'
  <2> DEFINE Typed ==
               /\ row' \in [Runs -> Row] /\ log' \in [Runs -> Seq(Event)]
               /\ canceledProcesses' \subseteq Runs
               /\ phase' \in [Runs -> Phase]
               /\ \A r \in Runs \ Submitted : phase'[r] = "idle"
               /\ queues' \in [QueueKeys -> Seq(Submitted)]
               /\ calls' \in Seq(Call)
  <2>1. calls \in Seq(Call) /\ Tail(calls) \in Seq(Call)
    BY <1>7, TopCall DEF CancelAll, TypeOK
  <2>2. ASSUME NEW k \in QueueKeys, queues[k] # <<>>,
               RemoveQueuedRun(k, 1, calls)
        PROVE  Typed
    <3>1. 1 \in DOMAIN queues[k]
      BY <2>2 DEF TypeOK
    <3>2. QED  BY <3>1, <2>1, <2>2, RemoveQueuedRunType
  <2>3. ASSUME CancelActive(ActiveRuns), calls' = Tail(calls),
               UNCHANGED <<phase, queues>>
        PROVE  Typed
    BY <2>1, <2>3, CancelActiveType DEF ActiveRuns, TypeOK
  <2>4. Typed
    BY <1>7, <2>2, <2>3 DEF CancelAll
  <2>5. QED
    BY <1>7, <2>4, SubmittedStable DEF CancelAll, TypeOK
<1>8. ASSUME RecoverOrphan  PROVE TypeOK'
  <2>1. calls \in Seq(Call) /\ Tail(calls) \in Seq(Call)
    BY <1>8, TopCall DEF RecoverOrphan, TypeOK
  <2>2. row' \in [Runs -> Row] /\ calls' \in Seq(Call)
    <3>1. ASSUME NEW r \in Submitted,
                 row' = [row EXCEPT ![r] = RowOf("failed", "orphaned", @.queue)],
                 calls' = <<CallRun("recoverEvents", r)>> \o calls
          PROVE  row' \in [Runs -> Row] /\ calls' \in Seq(Call)
      <4>1. r \in Runs /\ row[r].queue \in QueueState
        BY SubmittedType DEF TypeOK, Row
      <4>2. RowOf("failed", "orphaned", row[r].queue) \in Row
        BY <4>1, RowOfType
        DEF PublicStatus, InternalStatus, TerminalStatus
      <4>3. QED  BY <3>1, <4>1, <4>2, <2>1, CallTypes DEF TypeOK
    <3>2. CASE calls' = Tail(calls) /\ UNCHANGED row
      BY <3>2, <2>1 DEF TypeOK
    <3>3. QED  BY <1>8, <3>1, <3>2 DEF RecoverOrphan
  <2>3. QED
    BY <1>8, <2>2, SubmittedStable DEF RecoverOrphan, TypeOK
<1>9. ASSUME NEW r \in Runs, StartPersistentAttempt(r)  PROVE TypeOK'
  <2>1. r \in Submitted
    BY <1>9 DEF StartPersistentAttempt, TypeOK
  <2>2. ThreadOf(r) \in Threads /\ pool \in Pools(Runs)
    BY <2>1, SubmittedType DEF TypeOK
  <2>3. pool' \in Pools(Runs)
    BY <1>9, <2>2, SelectSlotType, OccupyType DEF StartPersistentAttempt
  <2>4. /\ phase' \in [Runs -> Phase] /\ outcome' \in [Runs -> Outcome]
        /\ \A q \in Runs \ Submitted : phase'[q] = "idle"
        /\ canceledProcesses' \subseteq Runs
    BY <1>9, <2>1, AttemptType DEF StartPersistentAttempt, Outcome
  <2>5. QED
    BY <1>9, <2>3, <2>4, SubmittedStable DEF StartPersistentAttempt, TypeOK
<1>10. ASSUME NEW r \in Runs, StartDirectAttempt(r)  PROVE TypeOK'
  <2>1. r \in Submitted
    BY <1>10 DEF StartDirectAttempt, TypeOK
  <2>2. /\ phase' \in [Runs -> Phase] /\ outcome' \in [Runs -> Outcome]
        /\ \A q \in Runs \ Submitted : phase'[q] = "idle"
        /\ canceledProcesses' \subseteq Runs
    BY <1>10, <2>1, AttemptType DEF StartDirectAttempt, Outcome
  <2>3. QED
    BY <1>10, <2>2, SubmittedStable DEF StartDirectAttempt, TypeOK
<1>11. ASSUME NEW r \in Runs, EndTurn(r)  PROVE TypeOK'
  <2>1. outcome' \in [Runs -> Outcome]
    BY <1>11 DEF EndTurn, PossibleOutcomes, TypeOK, Outcome
  <2>2. r \in Submitted
    BY <1>11 DEF EndTurn, TypeOK
  <2>3. QED
    BY <1>11, <2>1, <2>2, SubmittedStable DEF EndTurn, TypeOK, Phase, Executing
<1>12. ASSUME NEW r \in Runs, HandleResult(r)  PROVE TypeOK'
  <2>1. r \in Submitted /\ pool' \in Pools(Runs)
    BY <1>12, VacateType DEF HandleResult, TypeOK
  <2>2. QED
    BY <1>12, <2>1, SubmittedStable DEF HandleResult, TypeOK, Phase, Executing
<1>13. ASSUME NEW r \in Runs, Rotate(r)  PROVE TypeOK'
  <2> DEFINE vacated == Vacate(pool, r)
             s == SelectSlot(vacated, ThreadOf(r))
  <2>1. r \in Submitted
    BY <1>13 DEF Rotate, TypeOK
  <2>2. ThreadOf(r) \in Threads /\ vacated \in Pools(Runs)
    BY <2>1, SubmittedType, VacateType DEF TypeOK
  <2>3. s \in Slots \cup {NoSlot}
    BY <2>2, SelectSlotType
  <2>4. \/ BeginTurn(r, FALSE) /\ UNCHANGED pool
        \/ /\ phase' = [phase EXCEPT ![r] = "stuck"]
           /\ pool' = vacated
           /\ UNCHANGED <<outcome, canceledProcesses>>
        \/ /\ BeginTurn(r, FALSE)
           /\ s # NoSlot /\ pool' = Occupy(vacated, s, ThreadOf(r), r)
    <3>1. CASE ~IsPersistent(r)
      BY <1>13, <3>1 DEF Rotate
    <3>2. CASE IsPersistent(r) /\ (closing \/ s = NoSlot)
      BY <1>13, <3>2 DEF Rotate
    <3>3. CASE IsPersistent(r) /\ ~(closing \/ s = NoSlot)
      BY <1>13, <3>3 DEF Rotate
    <3>4. QED  BY <3>1, <3>2, <3>3
  <2>5. pool' \in Pools(Runs)
    <3>1. CASE s # NoSlot /\ pool' = Occupy(vacated, s, ThreadOf(r), r)
      <4>1. s \in Slots
        BY <3>1, <2>3
      <4>2. Occupy(vacated, s, ThreadOf(r), r) \in Pools(Runs)
        BY <4>1, <2>2, OccupyType
      <4>3. QED  BY <3>1, <4>2
    <3>2. CASE pool' = pool \/ pool' = vacated
      BY <3>2, <2>2 DEF TypeOK
    <3>3. QED  BY <2>4, <3>1, <3>2
  <2>6. /\ phase' \in [Runs -> Phase] /\ outcome' \in [Runs -> Outcome]
        /\ \A q \in Runs \ Submitted : phase'[q] = "idle"
        /\ canceledProcesses' \subseteq Runs
    <3>1. CASE BeginTurn(r, FALSE)
      BY <3>1, <2>1, AttemptType
    <3>2. CASE /\ phase' = [phase EXCEPT ![r] = "stuck"]
               /\ UNCHANGED <<outcome, canceledProcesses>>
      BY <3>2, <2>1 DEF TypeOK, Phase, Executing
    <3>3. QED  BY <2>4, <3>1, <3>2
  <2>7. rotated' \subseteq Runs
    BY <1>13 DEF Rotate, TypeOK
  <2>8. QED
    BY <1>13, <2>5, <2>6, <2>7, SubmittedStable DEF Rotate, TypeOK
<1>14. ASSUME NEW r \in Runs, PublishDone(r)  PROVE TypeOK'
  <2>1. StatusOf(outcome[r]) \in Event
    BY DEF StatusOf, Event, TerminalStatus
  <2>2. log' \in [Runs -> Seq(Event)]
    BY <1>14, <2>1, PublishedType DEF PublishDone, TypeOK
  <2>3. r \in Submitted
    BY <1>14 DEF PublishDone, TypeOK
  <2>4. QED
    BY <1>14, <2>2, <2>3, SubmittedStable
    DEF PublishDone, TypeOK, Phase, Executing
<1>15. ASSUME NEW r \in Runs, FinishRun(r)  PROVE TypeOK'
  <2>1. r \in Submitted
    BY <1>15 DEF FinishRun, TypeOK
  <2>2. calls' \in Seq(Call)
    BY <1>15, <2>1, SubmittedType, CompletionCallsType DEF FinishRun
  <2>3. row' \in [Runs -> Row]
    <3>1. StatusOf(outcome[r]) \in PublicStatus \cap InternalStatus
      BY DEF StatusOf, PublicStatus, InternalStatus, TerminalStatus
    <3>2. RowOf(StatusOf(outcome[r]), StatusOf(outcome[r]), "none") \in Row
      BY <3>1, RowOfType DEF QueueState
    <3>3. QED  BY <1>15, <3>2 DEF FinishRun, TypeOK
  <2>4. QED
    BY <1>15, <2>2, <2>3, ReleaseThreadType, SubmittedStable
    DEF FinishRun, TypeOK, Phase, Outcome
<1>16. ASSUME NEW r \in Submitted, CancelActiveRun(r)  PROVE TypeOK'
  <2>1. /\ row' \in [Runs -> Row] /\ log' \in [Runs -> Seq(Event)]
        /\ canceledProcesses' \subseteq Runs
    BY <1>16, CancelActiveType, SubmittedType DEF CancelActiveRun
  <2>2. QED
    BY <1>16, <2>1, SubmittedStable DEF CancelActiveRun, TypeOK
<1>17. ASSUME NEW r \in Submitted, CancelQueuedRun(r)  PROVE TypeOK'
  <2>1. PICK key \in QueueKeys : \E i \in DOMAIN queues[key] :
                RemoveQueuedRun(key, i, <<>>)
    BY <1>17 DEF CancelQueuedRun
  <2>2. <<>> \in Seq(Call)
    OBVIOUS
  <2>3. /\ row' \in [Runs -> Row] /\ log' \in [Runs -> Seq(Event)]
        /\ canceledProcesses' \subseteq Runs
        /\ phase' \in [Runs -> Phase]
        /\ \A q \in Runs \ Submitted : phase'[q] = "idle"
        /\ queues' \in [QueueKeys -> Seq(Submitted)]
        /\ calls' \in Seq(Call)
    BY <2>1, <2>2, RemoveQueuedRunType
  <2>4. QED
    BY <1>17, <2>3, SubmittedStable DEF CancelQueuedRun, TypeOK
<1>18. ASSUME NEW r \in Submitted, SteerRun(r)  PROVE TypeOK'
  <2>1. PICK key \in QueueKeys : \E i \in DOMAIN queues[key] :
                /\ queues[key][i] = r
                /\ queues' = [queues EXCEPT ![key] = <<r>> \o RemoveAt(@, i)]
                /\ calls' = IF key = PersistentQueue
                              THEN <<CallAlone("startNextPersistentRuns")>>
                              ELSE <<>>
    BY <1>18 DEF SteerRun
  <2>2. queues[key] \in Seq(Submitted)
    BY DEF TypeOK
  <2>3. queues' \in [QueueKeys -> Seq(Submitted)]
    BY <2>1, <2>2, MoveToFrontType DEF TypeOK
  <2>4. calls' \in Seq(Call)
    BY <2>1, CallTypes
  <2>5. Interrupted(ThreadOf(r)) \subseteq Runs
    BY DEF Interrupted, ActiveRuns
  <2>6. /\ row' \in [Runs -> Row] /\ log' \in [Runs -> Seq(Event)]
        /\ canceledProcesses' \subseteq Runs
    BY <1>18, <2>5, CancelActiveType DEF SteerRun
  <2>7. QED
    BY <1>18, <2>3, <2>4, <2>6, SubmittedStable DEF SteerRun, TypeOK
<1>19. ASSUME SignOut \/ Close  PROVE TypeOK'
  <2>1. calls' \in Seq(Call)
    <3>1. calls' = <<CallAlone("cancelAll")>>
      BY <1>19 DEF SignOut, Close
    <3>2. QED  BY <3>1, CallTypes
  <2>2. closing' \in BOOLEAN
    BY <1>19 DEF SignOut, Close, TypeOK
  <2>3. QED
    BY <1>19, <2>1, <2>2, SubmittedStable
    DEF SignOut, Close, persisted, TypeOK
<1>20. ASSUME Restart  PROVE TypeOK'
  <2>1. /\ calls' \in Seq(Call)
        /\ queues' \in [QueueKeys -> Seq(Submitted)]
    BY <1>20, CallTypes DEF Restart
  <2>2. restarts' \in 0..MaxRestarts
    BY <1>20, RunManagerAssumption DEF Restart, TypeOK
  <2>3. pool' \in Pools(Runs)
    BY <1>20 DEF Restart, EmptyPool, Pools
  <2>4. /\ phase' \in [Runs -> Phase] /\ outcome' \in [Runs -> Outcome]
        /\ \A r \in Runs \ Submitted : phase'[r] = "idle"
        /\ runningThreadRun' \in [Threads -> Runs \cup {NoRun}]
    BY <1>20 DEF Restart, Phase, Outcome
  <2>5. QED
    BY <1>20, <2>1, <2>2, <2>3, <2>4, SubmittedStable DEF Restart, TypeOK
<1>21. ASSUME NEW t \in Threads, NEW origin \in Origins, NEW mode \in Modes,
              StartRun(t, origin, mode)
       PROVE  TypeOK'
  <2> DEFINE r == Len(input) + 1
             request == [thread |-> t, origin |-> origin, mode |-> mode]
             persistent == AppServer /\ origin = "api"
  <2>1. /\ r \in Runs /\ input' = Append(input, request)
        /\ QueueRun(r, request, persistent) \/ AdmitRun(r)
        /\ UNCHANGED <<restarts, outcome, rotated, runningThreadRun,
                       runningPersistentRunIds, pool, closing>>
        /\ calls = <<>>
    BY <1>21 DEF StartRun, Idle
  <2>2. request \in Input
    BY DEF Input
  <2>3. /\ input' \in Seq(Input) /\ Len(input') = r /\ r <= MaxRuns
        /\ Submitted' = Submitted \cup {r}
    BY <2>1, <2>2, RunManagerAssumption, LenProperties
    DEF TypeOK, Runs, Submitted
  <2>4. \A k \in QueueKeys : queues[k] \in Seq(Submitted')
    BY <2>3, SeqMonotonic DEF TypeOK
  <2>5. CASE QueueRun(r, request, persistent)
    <3> DEFINE key == IF persistent THEN PersistentQueue ELSE t
               canceled == IF mode = "interrupt_and_enqueue"
                             THEN Interrupted(t) ELSE {}
    <3>1. canceled \subseteq Runs
      BY DEF Interrupted, ActiveRuns
    <3>2. /\ row' = [CancelingRows(row, canceled) EXCEPT
                       ![r] = RowOf("queued", "queued", "queued")]
          /\ log' = CancelingLogs(canceled)
          /\ CancelProcesses(canceled)
          /\ phase' = [phase EXCEPT ![r] = "queued"]
          /\ \E i \in 1..(Len(queues[key]) + 1) :
                queues' = [queues EXCEPT ![key] = InsertAt(@, i, r)]
          /\ calls' = calls
      BY <2>5 DEF QueueRun
    <3>3. row' \in [Runs -> Row]
      BY <3>2, CancelingRowsType, RowOfType
      DEF TypeOK, PublicStatus, InternalStatus, QueueState
    <3>4. log' \in [Runs -> Seq(Event)]
      BY <3>2, CancelingLogsType DEF TypeOK
    <3>5. canceledProcesses' \subseteq Runs
      BY <3>1, <3>2 DEF CancelProcesses, TypeOK
    <3>6. /\ phase' \in [Runs -> Phase]
          /\ \A q \in Runs \ Submitted' : phase'[q] = "idle"
      BY <2>1, <2>3, <3>2 DEF TypeOK, Phase
    <3>7. queues' \in [QueueKeys -> Seq(Submitted')]
      <4>1. key \in QueueKeys
        BY DEF QueueKeys
      <4>2. PICK i \in 1..(Len(queues[key]) + 1) :
                   queues' = [queues EXCEPT ![key] = InsertAt(@, i, r)]
        BY <3>2
      <4>3. InsertAt(queues[key], i, r) \in Seq(Submitted')
        BY <4>1, <2>3, <2>4, InsertAtType
      <4>4. QED  BY <4>1, <4>2, <4>3, <2>4 DEF TypeOK
    <3>8. calls' \in Seq(Call')
      BY <2>1, <3>2, EmptySeq
    <3>9. QED
      BY <2>1, <2>3, <3>3, <3>4, <3>5, <3>6, <3>7, <3>8 DEF TypeOK
  <2>6. CASE AdmitRun(r)
    <3>1. row' \in [Runs -> Row]
      BY <2>6, RowOfType
      DEF AdmitRun, TypeOK, PublicStatus, InternalStatus, QueueState
    <3>2. /\ phase' \in [Runs -> Phase]
          /\ \A q \in Runs \ Submitted' : phase'[q] = "idle"
      BY <2>1, <2>3, <2>6 DEF AdmitRun, TypeOK, Phase
    <3>3. queues' \in [QueueKeys -> Seq(Submitted')]
      BY <2>4, <2>6 DEF AdmitRun, TypeOK
    <3>4. calls' \in Seq(Call')
      BY <2>3, <2>6 DEF AdmitRun, CallRun, Call
    <3>5. QED
      BY <2>1, <2>3, <2>6, <3>1, <3>2, <3>3, <3>4 DEF AdmitRun, TypeOK
  <2>7. QED  BY <2>1, <2>5, <2>6
<1>22. CASE UNCHANGED vars
  BY <1>22, SubmittedStable DEF vars, TypeOK
<1>23. QED
  BY <1>1, <1>2, <1>3, <1>4, <1>5, <1>6, <1>7, <1>8, <1>9, <1>10, <1>11,
     <1>12, <1>13, <1>14, <1>15, <1>16, <1>17, <1>18, <1>19, <1>20, <1>21,
     <1>22
  DEF Next, CallStep, TaskStep, Request

\* The manager's state always has the types of the code, and nothing but
\* submitted runs is ever in its queues, its tasks and its calls.
THEOREM Typed == Spec => []TypeOK
BY TypeInit, TypeStep, PTL DEF Spec

-----------------------------------------------------------------------------
(* The call stack: a start is only ever the call on top.                   *)

NoStart(s) == \A i \in DOMAIN s : s[i].op # "startExistingRun"

StartOnlyOnTop ==
    \A i \in DOMAIN calls : calls[i].op = "startExistingRun" => i = 1

\* What lies below the top call starts nothing by itself.
LEMMA NoStartBelow ==
    ASSUME TypeOK, StartOnlyOnTop, calls # <<>>
    PROVE  Tail(calls) \in Seq(Call) /\ NoStart(Tail(calls))
<1>1. /\ Tail(calls) \in Seq(Call)
      /\ Len(calls) \in Nat \ {0} /\ Len(Tail(calls)) = Len(calls) - 1
      /\ \A i \in 1..Len(Tail(calls)) : Tail(calls)[i] = calls[i + 1]
      /\ DOMAIN calls = 1..Len(calls)
      /\ DOMAIN Tail(calls) = 1..Len(Tail(calls))
  BY HeadTailProperties, LenProperties, EmptySeq DEF TypeOK
<1>2. QED  BY <1>1 DEF NoStart, StartOnlyOnTop

\* While another call is on top, no start is pending.
LEMMA NoStartAtAll ==
    ASSUME TypeOK, StartOnlyOnTop, NEW call, OnTop(call),
           call.op # "startExistingRun"
    PROVE  calls \in Seq(Call) /\ NoStart(calls)
BY DEF TypeOK, StartOnlyOnTop, OnTop, NoStart

\* Pushing calls that start nothing on calls that start nothing.
LEMMA NoStartConcat ==
    ASSUME NEW s \in Seq(Call), NEW t \in Seq(Call), NoStart(s), NoStart(t)
    PROVE  NoStart(s \o t)
<1>1. /\ s \o t \in Seq(Call)
      /\ Len(s) \in Nat /\ Len(t) \in Nat
      /\ Len(s \o t) = Len(s) + Len(t)
      /\ DOMAIN s = 1..Len(s) /\ DOMAIN t = 1..Len(t)
      /\ DOMAIN (s \o t) = 1..(Len(s) + Len(t))
      /\ \A i \in 1..(Len(s) + Len(t)) :
            (s \o t)[i] = IF i <= Len(s) THEN s[i] ELSE t[i - Len(s)]
  BY ConcatProperties, LenProperties
<1>2. SUFFICES ASSUME NEW i \in 1..(Len(s) + Len(t))
               PROVE  (s \o t)[i].op # "startExistingRun"
  BY <1>1 DEF NoStart
<1>3. CASE i <= Len(s)
  BY <1>1, <1>3 DEF NoStart
<1>4. CASE ~(i <= Len(s))
  <2>1. i - Len(s) \in 1..Len(t)
    BY <1>1, <1>4
  <2>2. QED  BY <1>1, <1>4, <2>1 DEF NoStart
<1>5. QED  BY <1>3, <1>4

-----------------------------------------------------------------------------
(* Threads and places: the inductive invariant.                            *)

\* An active run holds its thread.
ThreadsHeld ==
    \A r \in Runs :
       phase[r] \in Executing => runningThreadRun[ThreadOf(r)] = r

\* An active persistent run holds one of the places, of which there are
\* MaxConcurrency.
PlacesHeld ==
    /\ \A r \in Runs :
          phase[r] \in Executing /\ IsPersistent(r)
          => r \in runningPersistentRunIds
    /\ Cardinality(runningPersistentRunIds) <= MaxConcurrency

\* Queues hold the runs they are for.
QueueSet(key) ==
    {r \in Submitted : IF key = PersistentQueue
                         THEN IsPersistent(r)
                         ELSE ThreadOf(r) = key /\ ~IsPersistent(r)}

QueuesSorted == \A key \in QueueKeys : queues[key] \in Seq(QueueSet(key))

\* A run is about to be started only when its thread, and a place for it, are
\* free.
StartsAreFree ==
    \A r \in Submitted :
       OnTop(CallRun("startExistingRun", r))
       => /\ runningThreadRun[ThreadOf(r)] = NoRun
          /\ IsPersistent(r) => ~AtCapacity

PlacementInv ==
    /\ TypeOK
    /\ StartOnlyOnTop
    /\ ThreadsHeld
    /\ PlacesHeld
    /\ QueuesSorted
    /\ StartsAreFree

\* What steps that share a form do to the parts of the invariant.

\* A step after which no start is pending.
LEMMA NoStartNow ==
    ASSUME calls' \in Seq(Call), NoStart(calls')
    PROVE  StartOnlyOnTop' /\ StartsAreFree'
<1>1. calls' # <<>> => 1 \in DOMAIN calls' /\ Head(calls') = calls'[1]
  OBVIOUS
<1>2. \A r : CallRun("startExistingRun", r).op = "startExistingRun"
  BY DEF CallRun
<1>3. \A r : ~OnTop(CallRun("startExistingRun", r))'
  BY <1>1, <1>2 DEF OnTop, NoStart
<1>4. StartOnlyOnTop'
  BY DEF StartOnlyOnTop, NoStart
<1>5. QED  BY <1>3, <1>4 DEF StartsAreFree

\* A step that calls startExistingRun for r.
LEMMA StartNow ==
    ASSUME NEW r, NEW rest \in Seq(Call), NoStart(rest),
           calls' = <<CallRun("startExistingRun", r)>> \o rest
    PROVE  /\ StartOnlyOnTop'
           /\ \A q : OnTop(CallRun("startExistingRun", q))' => q = r
<1> DEFINE start == CallRun("startExistingRun", r)
<1>1. /\ <<start>> \in Seq({start} \cup Call) /\ rest \in Seq({start} \cup Call)
      /\ Len(<<start>>) = 1
  BY SeqMonotonic
<1>2. /\ calls' \in Seq({start} \cup Call)
      /\ Len(rest) \in Nat /\ DOMAIN rest = 1..Len(rest)
      /\ DOMAIN calls' = 1..(1 + Len(rest))
      /\ \A i \in 1..(1 + Len(rest)) :
            calls'[i] = IF i <= 1 THEN <<start>>[i] ELSE rest[i - 1]
  BY <1>1, ConcatProperties, LenProperties
<1>3. StartOnlyOnTop'
  <2>1. SUFFICES ASSUME NEW i \in 1..(1 + Len(rest)), i # 1
                 PROVE  calls'[i].op # "startExistingRun"
    BY <1>2 DEF StartOnlyOnTop
  <2>2. i - 1 \in DOMAIN rest /\ calls'[i] = rest[i - 1]
    BY <1>2, <2>1
  <2>3. QED  BY <2>2 DEF NoStart
<1>4. Head(calls') = start
  BY <1>1, <1>2
<1>5. ASSUME NEW q, OnTop(CallRun("startExistingRun", q))'
      PROVE  q = r
  <2>1. CallRun("startExistingRun", q).run = start.run
    BY <1>4, <1>5 DEF OnTop
  <2>2. QED  BY <2>1 DEF CallRun
<1>6. QED  BY <1>3, <1>5

\* A step that activates no run and gives no thread and no place.
LEMMA Calm ==
    ASSUME PlacementInv,
           UNCHANGED <<input, runningThreadRun, runningPersistentRunIds>>,
           \A r \in Runs : phase'[r] \in Executing => phase[r] \in Executing
    PROVE  ThreadsHeld' /\ PlacesHeld'
BY SubmittedStable DEF PlacementInv, ThreadsHeld, PlacesHeld

\* A step that leaves the queues alone.
LEMMA QueuesCalm ==
    ASSUME PlacementInv, UNCHANGED <<input, queues>>
    PROVE  QueuesSorted'
<1>1. \A key : QueueSet(key)' = QueueSet(key)
  BY SubmittedStable DEF QueueSet
<1>2. QED  BY <1>1 DEF PlacementInv, QueuesSorted

\* A step that changes one queue, for another one of the right runs.
LEMMA QueueChanged ==
    ASSUME PlacementInv, UNCHANGED input, NEW key \in QueueKeys,
           NEW queue \in Seq(QueueSet(key)),
           queues' = [queues EXCEPT ![key] = queue]
    PROVE  QueuesSorted'
<1>1. \A k : QueueSet(k)' = QueueSet(k)
  BY SubmittedStable DEF QueueSet
<1>2. QED  BY <1>1 DEF PlacementInv, TypeOK, QueuesSorted

\* The places taken can be counted.
LEMMA FiniteIds ==
    ASSUME TypeOK
    PROVE  /\ IsFiniteSet(runningPersistentRunIds)
           /\ Cardinality(runningPersistentRunIds) \in Nat
<1>1. IsFiniteSet(Runs)
  BY FS_Interval, RunManagerAssumption DEF Runs
<1>2. runningPersistentRunIds \in SUBSET Runs
  BY DEF TypeOK
<1>3. IsFiniteSet(runningPersistentRunIds)
  BY <1>1, <1>2, FS_Subset
<1>4. QED  BY <1>3, FS_CardinalityType

\* completeThreadRun takes the thread and the place of an ended run only.
LEMMA Released ==
    ASSUME PlacementInv, NEW r \in Submitted, UNCHANGED input,
           ReleaseThread(r), phase' = [phase EXCEPT ![r] = "idle"]
    PROVE  ThreadsHeld' /\ PlacesHeld'
<1>1. r \in Runs /\ ThreadOf(r) \in Threads /\ TypeOK
  BY SubmittedType DEF PlacementInv
<1>2. ASSUME NEW s \in Runs, phase'[s] \in Executing
      PROVE  /\ s # r /\ phase[s] \in Executing /\ ThreadOf(s) \in Threads
             /\ runningThreadRun[ThreadOf(s)] = s
  <2>1. s # r /\ phase[s] \in Executing
    BY <1>1, <1>2 DEF TypeOK, Executing
  <2>2. s \in Submitted
    BY <1>1, <2>1 DEF TypeOK, Executing
  <2>3. QED  BY <1>1, <2>1, <2>2, SubmittedType DEF PlacementInv, ThreadsHeld
<1>3. ThreadsHeld'
  BY <1>1, <1>2, SubmittedStable DEF ThreadsHeld, ReleaseThread, TypeOK
<1>4. \A s \in Runs : phase'[s] \in Executing /\ IsPersistent(s)
                      => s \in runningPersistentRunIds'
  BY <1>2 DEF ReleaseThread, PlacementInv, PlacesHeld
<1>5. Cardinality(runningPersistentRunIds') <= MaxConcurrency
  <2>1. /\ IsFiniteSet(runningPersistentRunIds)
        /\ Cardinality(runningPersistentRunIds) \in Nat
        /\ Cardinality(runningPersistentRunIds) <= MaxConcurrency
    BY <1>1, FiniteIds DEF PlacementInv, PlacesHeld
  <2>2. Cardinality(runningPersistentRunIds \ {r})
           <= Cardinality(runningPersistentRunIds)
    BY <2>1, FS_RemoveElement
  <2>3. Cardinality(runningPersistentRunIds \ {r}) \in Nat
    BY <2>1, FS_RemoveElement, FS_CardinalityType
  <2>4. QED
    BY <2>1, <2>2, <2>3, MaxConcurrencyAssumption DEF ReleaseThread
<1>6. QED  BY <1>3, <1>4, <1>5, SubmittedStable DEF PlacesHeld

\* A start of a run whose thread, and place, are free.
LEMMA CalmStart ==
    ASSUME PlacementInv, NEW r \in Submitted, UNCHANGED input,
           UNCHANGED <<runningThreadRun, runningPersistentRunIds>>,
           NEW rest \in Seq(Call), NoStart(rest),
           calls' = <<CallRun("startExistingRun", r)>> \o rest,
           runningThreadRun[ThreadOf(r)] = NoRun,
           IsPersistent(r) => ~AtCapacity
    PROVE  StartOnlyOnTop' /\ StartsAreFree'
<1>1. /\ StartOnlyOnTop'
      /\ \A q : OnTop(CallRun("startExistingRun", q))' => q = r
  BY StartNow
<1>2. AtCapacity' = AtCapacity
  BY DEF AtCapacity
<1>3. StartsAreFree'
  BY <1>1, <1>2, SubmittedStable DEF StartsAreFree
<1>4. QED  BY <1>1, <1>3

\* A run leaves its queue to be started.
LEMMA Dequeued ==
    ASSUME PlacementInv, UNCHANGED input,
           UNCHANGED <<runningThreadRun, runningPersistentRunIds>>,
           NEW key \in QueueKeys, NEW i \in DOMAIN queues[key],
           NEW rest \in Seq(Call), NoStart(rest), Dequeue(key, i, rest),
           runningThreadRun[ThreadOf(queues[key][i])] = NoRun,
           key = PersistentQueue => ~AtCapacity
    PROVE  /\ StartOnlyOnTop' /\ ThreadsHeld' /\ PlacesHeld'
           /\ QueuesSorted' /\ StartsAreFree'
<1> DEFINE r == queues[key][i]
<1>1. queues[key] \in Seq(QueueSet(key)) /\ r \in QueueSet(key)
  BY DEF PlacementInv, QueuesSorted
<1>2. /\ r \in Submitted
      /\ IsPersistent(r) => key = PersistentQueue
  BY <1>1 DEF QueueSet
<1>3. QueuesSorted'
  BY <1>1, RemoveAtType, QueueChanged DEF Dequeue
<1>4. ThreadsHeld' /\ PlacesHeld'
  BY Calm DEF Dequeue, PlacementInv, TypeOK, Executing
<1>5. StartOnlyOnTop' /\ StartsAreFree'
  <2>1. calls' = <<CallRun("startExistingRun", r)>> \o rest
    BY DEF Dequeue
  <2>2. QED  BY <1>2, <2>1, CalmStart
<1>6. QED  BY <1>3, <1>4, <1>5

\* A run leaves its queue because it is canceled.
LEMMA QueuedRunRemoved ==
    ASSUME PlacementInv, UNCHANGED input,
           UNCHANGED <<runningThreadRun, runningPersistentRunIds>>,
           NEW key \in QueueKeys, NEW i \in DOMAIN queues[key],
           NEW rest \in Seq(Call), NoStart(rest),
           RemoveQueuedRun(key, i, rest)
    PROVE  /\ StartOnlyOnTop' /\ ThreadsHeld' /\ PlacesHeld'
           /\ QueuesSorted' /\ StartsAreFree'
<1> DEFINE r == queues[key][i]
           first == <<CallAlone("startNextPersistentRuns"),
                      CallRun("publishQueuedCancel", r)>>
<1>1. queues[key] \in Seq(QueueSet(key)) /\ r \in QueueSet(key)
  BY DEF PlacementInv, QueuesSorted
<1>2. r \in Submitted
  BY <1>1 DEF QueueSet
<1>3. QueuesSorted'
  BY <1>1, RemoveAtType, QueueChanged DEF RemoveQueuedRun
<1>4. ThreadsHeld' /\ PlacesHeld'
  BY Calm DEF RemoveQueuedRun, PlacementInv, TypeOK, Executing
<1>5. StartOnlyOnTop' /\ StartsAreFree'
  <2>1. first \in Seq(Call)
    BY <1>2, CallTypes
  <2>2. NoStart(first)
    <3>1. /\ DOMAIN first = 1..2
          /\ first[1].op = "startNextPersistentRuns"
          /\ first[2].op = "publishQueuedCancel"
      BY DEF CallAlone, CallRun
    <3>2. QED  BY <3>1 DEF NoStart
  <2>3. calls' \in Seq(Call) /\ NoStart(calls')
    <3>1. calls' = first \o rest
      BY DEF RemoveQueuedRun
    <3>2. first \o rest \in Seq(Call)
      BY <2>1
    <3>3. NoStart(first \o rest)
      BY <2>1, <2>2, NoStartConcat
    <3>4. QED  BY <3>1, <3>2, <3>3
  <2>4. Call' = Call
    BY SubmittedStable
  <2>5. QED  BY <2>3, <2>4, NoStartNow
<1>6. QED  BY <1>3, <1>4, <1>5

\* A step that ends a stretch.
LEMMA NoCallNow ==
    ASSUME calls' = <<>>
    PROVE  StartOnlyOnTop' /\ StartsAreFree'
<1>1. calls' \in Seq(Call) /\ NoStart(calls')
  BY EmptySeq DEF NoStart
<1>2. QED  BY <1>1, NoStartNow

\* A step that ends the call on top.
LEMMA PoppedNow ==
    ASSUME PlacementInv, calls # <<>>, calls' = Tail(calls)
    PROVE  StartOnlyOnTop' /\ StartsAreFree'
BY NoStartBelow, NoStartNow DEF PlacementInv

\* completeThreadRun starts nothing by itself.
LEMMA CompletionNoStart ==
    ASSUME NEW r \in Submitted, TypeOK
    PROVE  CompletionCalls(r) \in Seq(Call) /\ NoStart(CompletionCalls(r))
<1>1. CompletionCalls(r) \in Seq(Call)
  BY SubmittedType, CompletionCallsType
<1>2. /\ DOMAIN CompletionCalls(r) = 1..2
      /\ CompletionCalls(r)[1].op = "startNextPersistentRuns"
      /\ CompletionCalls(r)[2].op = "startNextQueuedThreadRun"
  BY DEF CompletionCalls, CallAlone, CallThread
<1>3. QED  BY <1>1, <1>2 DEF NoStart

\* A step of a task that leaves its run active.
LEMMA TaskCalm ==
    ASSUME PlacementInv, calls = <<>>,
           UNCHANGED <<input, queues, runningThreadRun,
                       runningPersistentRunIds, calls>>,
           \A r \in Runs : phase'[r] \in Executing => phase[r] \in Executing
    PROVE  /\ StartOnlyOnTop' /\ ThreadsHeld' /\ PlacesHeld'
           /\ QueuesSorted' /\ StartsAreFree'
BY Calm, QueuesCalm, NoCallNow

\* A new daemon holds nothing.
LEMMA PlacementInit == Init => PlacementInv
<1> SUFFICES ASSUME Init  PROVE PlacementInv
  OBVIOUS
<1>1. TypeOK
  BY TypeInit
<1>2. calls = <<>> /\ \A r \in Runs : phase[r] \notin Executing
  BY DEF Init, Executing
<1>3. StartOnlyOnTop /\ StartsAreFree
  BY <1>2 DEF StartOnlyOnTop, StartsAreFree, OnTop
<1>4. ThreadsHeld /\ PlacesHeld
  BY <1>2, FS_EmptySet, MaxConcurrencyAssumption
  DEF Init, ThreadsHeld, PlacesHeld
<1>5. QueuesSorted
  BY EmptySeq DEF Init, QueuesSorted
<1>6. QED  BY <1>1, <1>3, <1>4, <1>5 DEF PlacementInv

\* startExistingRun takes a free thread and, for a persistent run, a place.
LEMMA Placed ==
    ASSUME PlacementInv, NEW r \in Runs, Launch(r)
    PROVE  ThreadsHeld' /\ PlacesHeld'
<1>1. TypeOK /\ r \in Submitted /\ UNCHANGED input
  BY TopCall, RunOfCall DEF Launch, PlacementInv
<1>2. /\ runningThreadRun[ThreadOf(r)] = NoRun
      /\ IsPersistent(r) => ~AtCapacity
  BY <1>1 DEF PlacementInv, StartsAreFree, Launch
<1>3. /\ phase' = [phase EXCEPT ![r] = "preparing"]
      /\ runningThreadRun' = [runningThreadRun EXCEPT ![ThreadOf(r)] = r]
      /\ runningPersistentRunIds' =
            IF IsPersistent(r) THEN runningPersistentRunIds \cup {r}
                               ELSE runningPersistentRunIds
  BY DEF Launch
<1>4. ASSUME NEW s \in Runs, phase'[s] \in Executing, s # r
      PROVE  /\ phase[s] \in Executing /\ ThreadOf(s) \in Threads
             /\ runningThreadRun[ThreadOf(s)] = s /\ s # NoRun
  <2>1. phase[s] \in Executing
    BY <1>1, <1>3, <1>4 DEF TypeOK
  <2>2. s \in Submitted
    BY <1>1, <2>1 DEF TypeOK, Executing
  <2>3. s # NoRun
    BY RunManagerAssumption DEF Runs, NoRun
  <2>4. QED
    BY <1>1, <2>1, <2>2, <2>3, SubmittedType DEF PlacementInv, ThreadsHeld
<1>5. ThreadsHeld'
  <2>1. ASSUME NEW s \in Runs, phase'[s] \in Executing
        PROVE  runningThreadRun'[ThreadOf(s)] = s
    <3>1. CASE s = r
      BY <1>1, <1>3, <3>1, SubmittedType DEF TypeOK
    <3>2. CASE s # r
      BY <1>1, <1>2, <1>3, <1>4, <2>1, <3>2 DEF TypeOK
    <3>3. QED  BY <3>1, <3>2
  <2>2. QED  BY <1>1, <2>1, SubmittedStable DEF ThreadsHeld
<1>6. \A s \in Runs : phase'[s] \in Executing /\ IsPersistent(s)
                      => s \in runningPersistentRunIds'
  BY <1>3, <1>4 DEF PlacementInv, PlacesHeld
<1>7. Cardinality(runningPersistentRunIds') <= MaxConcurrency
  <2>1. /\ IsFiniteSet(runningPersistentRunIds)
        /\ Cardinality(runningPersistentRunIds) \in Nat
        /\ Cardinality(runningPersistentRunIds) <= MaxConcurrency
    BY <1>1, FiniteIds DEF PlacementInv, PlacesHeld
  <2>2. CASE ~IsPersistent(r)
    BY <1>3, <2>1, <2>2
  <2>3. CASE IsPersistent(r)
    <3>1. Cardinality(runningPersistentRunIds) < MaxConcurrency
      BY <1>2, <2>1, <2>3, MaxConcurrencyAssumption DEF AtCapacity
    <3>2. Cardinality(runningPersistentRunIds \cup {r})
             <= Cardinality(runningPersistentRunIds) + 1
      <4>1. Cardinality(runningPersistentRunIds \cup {r}) =
               IF r \in runningPersistentRunIds
                 THEN Cardinality(runningPersistentRunIds)
                 ELSE Cardinality(runningPersistentRunIds) + 1
        BY <2>1, FS_AddElement
      <4>2. QED  BY <2>1, <4>1
    <3>3. Cardinality(runningPersistentRunIds \cup {r}) \in Nat
      BY <2>1, FS_AddElement, FS_CardinalityType
    <3>4. QED
      BY <1>3, <2>1, <2>3, <3>1, <3>2, <3>3, MaxConcurrencyAssumption
  <2>4. QED  BY <2>2, <2>3
<1>8. QED  BY <1>1, <1>5, <1>6, <1>7, SubmittedStable DEF PlacesHeld

\* Every step keeps the placement, action by action.
LEMMA PlacementStep == PlacementInv /\ [Next]_vars => PlacementInv'
<1> SUFFICES ASSUME PlacementInv, [Next]_vars
             PROVE  /\ StartOnlyOnTop' /\ ThreadsHeld' /\ PlacesHeld'
                    /\ QueuesSorted' /\ StartsAreFree'
  BY TypeStep DEF PlacementInv
<1> DEFINE Kept == /\ StartOnlyOnTop' /\ ThreadsHeld' /\ PlacesHeld'
                   /\ QueuesSorted' /\ StartsAreFree'
<1>a. TypeOK /\ StartOnlyOnTop
  BY DEF PlacementInv
<1>1. ASSUME NEW r \in Runs, Launch(r)  PROVE Kept
  <2>1. StartOnlyOnTop' /\ StartsAreFree'
    BY <1>1, PoppedNow DEF Launch, OnTop
  <2>2. QueuesSorted'
    BY <1>1, QueuesCalm DEF Launch
  <2>3. QED  BY <1>1, <2>1, <2>2, Placed
<1>2. ASSUME NEW r \in Runs, FailBeforeSpawn(r)  PROVE Kept
  <2>1. r \in Submitted /\ calls # <<>>
    BY <1>2, <1>a, TopCall, RunOfCall DEF FailBeforeSpawn, OnTop
  <2>2. ThreadsHeld' /\ PlacesHeld'
    BY <1>2, <2>1, Released DEF FailBeforeSpawn
  <2>3. QueuesSorted'
    BY <1>2, QueuesCalm DEF FailBeforeSpawn
  <2>4. /\ CompletionCalls(r) \o Tail(calls) \in Seq(Call)
        /\ NoStart(CompletionCalls(r) \o Tail(calls))
    <3>1. CompletionCalls(r) \in Seq(Call) /\ NoStart(CompletionCalls(r))
      BY <1>a, <2>1, CompletionNoStart
    <3>2. Tail(calls) \in Seq(Call) /\ NoStart(Tail(calls))
      BY <1>a, <2>1, NoStartBelow
    <3>3. NoStart(CompletionCalls(r) \o Tail(calls))
      BY <3>1, <3>2, NoStartConcat
    <3>4. QED  BY <3>1, <3>2, <3>3
  <2>5. calls' = CompletionCalls(r) \o Tail(calls)
    BY <1>2 DEF FailBeforeSpawn
  <2>6. StartOnlyOnTop' /\ StartsAreFree'
    BY <2>4, <2>5, NoStartNow
  <2>7. QED  BY <2>2, <2>3, <2>6
<1>3. ASSUME StartNextPersistentRuns  PROVE Kept
  <2>1. calls \in Seq(Call) /\ NoStart(calls)
    <3>1. CallAlone("startNextPersistentRuns").op # "startExistingRun"
      BY DEF CallAlone
    <3>2. QED  BY <1>3, <1>a, <3>1, NoStartAtAll DEF StartNextPersistentRuns
  <2>2. /\ PersistentQueue \in QueueKeys /\ UNCHANGED input
        /\ UNCHANGED <<runningThreadRun, runningPersistentRunIds>>
        /\ calls # <<>>
    BY <1>3 DEF StartNextPersistentRuns, QueueKeys, OnTop
  <2>3. CASE \E i \in DOMAIN queues[PersistentQueue] :
               /\ ~AtCapacity /\ Startable(queues[PersistentQueue][i])
               /\ Dequeue(PersistentQueue, i, calls)
    BY <2>1, <2>2, <2>3, Dequeued DEF Startable
  <2>4. CASE calls' = Tail(calls) /\ UNCHANGED <<phase, queues>>
    BY <2>2, <2>4, PoppedNow, QueuesCalm, Calm
  <2>5. QED  BY <1>3, <2>3, <2>4 DEF StartNextPersistentRuns
<1>4. ASSUME NEW t \in Threads, StartNextQueuedThreadRun(t)  PROVE Kept
  <2>1. /\ t \in QueueKeys /\ t # PersistentQueue /\ UNCHANGED input
        /\ UNCHANGED <<runningThreadRun, runningPersistentRunIds>>
        /\ calls # <<>>
    BY <1>4, RunManagerAssumption
    DEF StartNextQueuedThreadRun, QueueKeys, OnTop
  <2>2. CASE calls' = Tail(calls) /\ UNCHANGED <<phase, queues>>
    BY <2>1, <2>2, PoppedNow, QueuesCalm, Calm
  <2>3. CASE /\ runningThreadRun[t] = NoRun /\ queues[t] # <<>>
             /\ Dequeue(t, 1, Tail(calls))
    <3>1. 1 \in DOMAIN queues[t] /\ queues[t][1] \in QueueSet(t)
      BY <2>1, <2>3 DEF PlacementInv, QueuesSorted
    <3>2. ThreadOf(queues[t][1]) = t
      BY <2>1, <3>1 DEF QueueSet
    <3>3. Tail(calls) \in Seq(Call) /\ NoStart(Tail(calls))
      BY <1>a, <2>1, NoStartBelow
    <3>4. QED  BY <2>1, <2>3, <3>1, <3>2, <3>3, Dequeued
  <2>4. QED  BY <1>4, <2>2, <2>3 DEF StartNextQueuedThreadRun
<1>5. ASSUME NEW r \in Runs, PublishQueuedCancel(r) \/ RecoverEvents(r)
      PROVE  Kept
  <2>1. /\ calls # <<>> /\ calls' = Tail(calls)
        /\ UNCHANGED <<input, queues, phase>>
        /\ UNCHANGED <<runningThreadRun, runningPersistentRunIds>>
    BY <1>5 DEF PublishQueuedCancel, RecoverEvents, OnTop
  <2>2. QED  BY <2>1, PoppedNow, QueuesCalm, Calm
<1>6. ASSUME CancelAll  PROVE Kept
  <2>1. calls \in Seq(Call) /\ NoStart(calls)
    <3>1. CallAlone("cancelAll").op # "startExistingRun"
      BY DEF CallAlone
    <3>2. QED  BY <1>6, <1>a, <3>1, NoStartAtAll DEF CancelAll
  <2>2. /\ UNCHANGED input
        /\ UNCHANGED <<runningThreadRun, runningPersistentRunIds>>
        /\ calls # <<>>
    BY <1>6 DEF CancelAll, OnTop
  <2>3. ASSUME NEW k \in QueueKeys, queues[k] # <<>>,
               RemoveQueuedRun(k, 1, calls)
        PROVE  Kept
    <3>1. 1 \in DOMAIN queues[k]
      BY <1>a, <2>3 DEF TypeOK
    <3>2. QED  BY <2>1, <2>2, <2>3, <3>1, QueuedRunRemoved
  <2>4. CASE calls' = Tail(calls) /\ UNCHANGED <<phase, queues>>
    BY <2>2, <2>4, PoppedNow, QueuesCalm, Calm
  <2>5. QED  BY <1>6, <2>3, <2>4 DEF CancelAll
<1>7. ASSUME RecoverOrphan  PROVE Kept
  <2>1. calls \in Seq(Call) /\ NoStart(calls)
    <3>1. CallAlone("recover").op # "startExistingRun"
      BY DEF CallAlone
    <3>2. QED  BY <1>7, <1>a, <3>1, NoStartAtAll DEF RecoverOrphan
  <2>2. ThreadsHeld' /\ PlacesHeld' /\ QueuesSorted'
    BY <1>7, Calm, QueuesCalm DEF RecoverOrphan
  <2>3. ASSUME NEW r \in Submitted,
               calls' = <<CallRun("recoverEvents", r)>> \o calls
        PROVE  StartOnlyOnTop' /\ StartsAreFree'
    <3> DEFINE first == <<CallRun("recoverEvents", r)>>
    <3>1. first \in Seq(Call)
      BY CallTypes
    <3>2. NoStart(first)
      <4>1. DOMAIN first = {1} /\ first[1].op = "recoverEvents"
        BY DEF CallRun
      <4>2. QED  BY <4>1 DEF NoStart
    <3>3. first \o calls \in Seq(Call)
      BY <2>1, <3>1
    <3>4. NoStart(first \o calls)
      BY <2>1, <3>1, <3>2, NoStartConcat
    <3>5. calls' = first \o calls
      BY <2>3
    <3>6. calls' \in Seq(Call) /\ NoStart(calls')
      BY <3>3, <3>4, <3>5
    <3>7. QED  BY <3>6, NoStartNow
  <2>4. ASSUME calls' = Tail(calls)
        PROVE  StartOnlyOnTop' /\ StartsAreFree'
    <3>1. calls # <<>>
      BY <1>7 DEF RecoverOrphan, OnTop
    <3>2. QED  BY <2>4, <3>1, PoppedNow
  <2>5. QED  BY <1>7, <2>2, <2>3, <2>4 DEF RecoverOrphan
<1>8. ASSUME NEW r \in Runs,
             \/ StartPersistentAttempt(r) \/ StartDirectAttempt(r)
             \/ EndTurn(r) \/ HandleResult(r) \/ Rotate(r) \/ PublishDone(r)
      PROVE  Kept
  <2>1. /\ calls = <<>>
        /\ UNCHANGED <<input, queues, runningThreadRun,
                       runningPersistentRunIds, calls>>
    BY <1>8
    DEF StartPersistentAttempt, StartDirectAttempt, EndTurn, HandleResult,
        Rotate, PublishDone, Ready, Idle
  <2>2. phase[r] \in Executing
    BY <1>8
    DEF StartPersistentAttempt, StartDirectAttempt, EndTurn, HandleResult,
        Rotate, PublishDone, Executing
  <2>3. \E new \in Executing : phase' = [phase EXCEPT ![r] = new]
    <3>1. CASE StartPersistentAttempt(r)
      BY <3>1 DEF StartPersistentAttempt, BeginTurn, FailAttempt, Executing
    <3>2. CASE StartDirectAttempt(r)
      BY <3>2 DEF StartDirectAttempt, BeginTurn, FailAttempt, Executing
    <3>3. CASE EndTurn(r) \/ HandleResult(r) \/ PublishDone(r)
      BY <3>3 DEF EndTurn, HandleResult, PublishDone, Executing
    <3>4. CASE Rotate(r)
      BY <3>4 DEF Rotate, BeginTurn, Executing
    <3>5. QED  BY <1>8, <3>1, <3>2, <3>3, <3>4
  <2>4. \A s \in Runs : phase'[s] \in Executing => phase[s] \in Executing
    BY <1>a, <2>2, <2>3 DEF TypeOK
  <2>5. QED  BY <2>1, <2>4, TaskCalm
<1>9. ASSUME NEW r \in Runs, FinishRun(r)  PROVE Kept
  <2>1. r \in Submitted
    BY <1>9, <1>a DEF FinishRun, TypeOK
  <2>2. ThreadsHeld' /\ PlacesHeld'
    BY <1>9, <2>1, Released DEF FinishRun
  <2>3. QueuesSorted'
    BY <1>9, QueuesCalm DEF FinishRun
  <2>4. calls' = CompletionCalls(r)
    BY <1>9 DEF FinishRun
  <2>5. StartOnlyOnTop' /\ StartsAreFree'
    BY <1>a, <2>1, <2>4, CompletionNoStart, NoStartNow
  <2>6. QED  BY <2>2, <2>3, <2>5
<1>10. ASSUME NEW r \in Submitted, CancelActiveRun(r)  PROVE Kept
  BY <1>10, TaskCalm DEF CancelActiveRun, Idle
<1>11. ASSUME NEW r \in Submitted, CancelQueuedRun(r)  PROVE Kept
  <2>1. <<>> \in Seq(Call) /\ NoStart(<<>>)
    BY EmptySeq DEF NoStart
  <2>2. QED  BY <1>11, <2>1, QueuedRunRemoved DEF CancelQueuedRun
<1>12. ASSUME NEW r \in Submitted, SteerRun(r)  PROVE Kept
  <2>1. PICK key \in QueueKeys : \E i \in DOMAIN queues[key] :
                /\ queues[key][i] = r
                /\ queues' = [queues EXCEPT ![key] = <<r>> \o RemoveAt(@, i)]
    BY <1>12 DEF SteerRun
  <2>2. queues[key] \in Seq(QueueSet(key))
    BY DEF PlacementInv, QueuesSorted
  <2>3. QueuesSorted'
    <3>1. PICK i \in DOMAIN queues[key] :
                 /\ queues[key][i] = r
                 /\ queues' = [queues EXCEPT
                                 ![key] = <<r>> \o RemoveAt(@, i)]
      BY <2>1
    <3>2. <<r>> \o RemoveAt(queues[key], i) \in Seq(QueueSet(key))
      BY <2>2, <3>1, MoveToFrontType
    <3>3. QED  BY <1>12, <3>1, <3>2, QueueChanged DEF SteerRun
  <2>4. ThreadsHeld' /\ PlacesHeld'
    BY <1>12, Calm DEF SteerRun
  <2>5. StartOnlyOnTop' /\ StartsAreFree'
    <3> DEFINE next == <<CallAlone("startNextPersistentRuns")>>
    <3>1. next \in Seq(Call) /\ DOMAIN next = {1}
          /\ next[1].op = "startNextPersistentRuns"
      BY CallTypes DEF CallAlone
    <3>2. NoStart(next)
      BY <3>1 DEF NoStart
    <3>3. calls' = <<>> \/ calls' = next
      BY <1>12 DEF SteerRun
    <3>4. QED  BY <3>1, <3>2, <3>3, NoCallNow, NoStartNow
  <2>6. QED  BY <2>3, <2>4, <2>5
<1>13. ASSUME SignOut \/ Close  PROVE Kept
  <2> DEFINE next == <<CallAlone("cancelAll")>>
  <2>1. next \in Seq(Call) /\ DOMAIN next = {1} /\ next[1].op = "cancelAll"
    BY CallTypes DEF CallAlone
  <2>2. NoStart(next)
    BY <2>1 DEF NoStart
  <2>3. calls' = next
    BY <1>13 DEF SignOut, Close
  <2>4. StartOnlyOnTop' /\ StartsAreFree'
    BY <2>1, <2>2, <2>3, NoStartNow
  <2>5. UNCHANGED <<input, queues, phase, runningThreadRun,
                    runningPersistentRunIds>>
    BY <1>13 DEF SignOut, Close, persisted
  <2>6. QED  BY <2>4, <2>5, Calm, QueuesCalm
<1>14. ASSUME Restart  PROVE Kept
  <2> DEFINE next == <<CallAlone("recover")>>
  <2>1. next \in Seq(Call) /\ DOMAIN next = {1} /\ next[1].op = "recover"
    BY CallTypes DEF CallAlone
  <2>2. NoStart(next)
    BY <2>1 DEF NoStart
  <2>3. calls' = next
    BY <1>14 DEF Restart
  <2>4. StartOnlyOnTop' /\ StartsAreFree'
    BY <2>1, <2>2, <2>3, NoStartNow
  <2>5. ThreadsHeld' /\ PlacesHeld'
    BY <1>14, FS_EmptySet, MaxConcurrencyAssumption
    DEF Restart, ThreadsHeld, PlacesHeld, Executing
  <2>6. QueuesSorted'
    BY <1>14, EmptySeq DEF Restart, QueuesSorted
  <2>7. QED  BY <2>4, <2>5, <2>6
<1>15. ASSUME NEW t \in Threads, NEW origin \in Origins, NEW mode \in Modes,
              StartRun(t, origin, mode)
       PROVE  Kept
  <2> DEFINE request == [thread |-> t, origin |-> origin, mode |-> mode]
             persistent == AppServer /\ origin = "api"
  <2>1. PICK r \in Runs :
          /\ r = Len(input) + 1 /\ input' = Append(input, request)
          /\ IF MustQueue(t, persistent)
               THEN QueueRun(r, request, persistent)
               ELSE AdmitRun(r)
          /\ UNCHANGED <<runningThreadRun, runningPersistentRunIds>>
          /\ calls = <<>>
    BY <1>15 DEF StartRun, Idle
  <2>2. /\ Submitted' = Submitted \cup {r} /\ r \notin Submitted
        /\ \A s \in Submitted : /\ ThreadOf(s)' = ThreadOf(s)
                                /\ IsPersistent(s)' = IsPersistent(s)
        /\ ThreadOf(r)' = t /\ IsPersistent(r)' = persistent
    <3>1. /\ input \in Seq(Input) /\ request \in Input
          /\ Len(input) \in Nat /\ DOMAIN input = 1..Len(input)
          /\ r = Len(input) + 1
      BY <1>a, <2>1, LenProperties DEF TypeOK, Input
    <3>2. /\ Len(input') = r /\ DOMAIN input' = 1..r
          /\ input'[r] = request
          /\ \A s \in 1..Len(input) : input'[s] = input[s]
      BY <2>1, <3>1, AppendProperties
    <3>3. Submitted' = Submitted \cup {r} /\ r \notin Submitted
      BY <3>1, <3>2 DEF Submitted
    <3>4. ThreadOf(r)' = t /\ IsPersistent(r)' = persistent
      BY <3>2 DEF ThreadOf, IsPersistent
    <3>5. \A s \in Submitted : /\ ThreadOf(s)' = ThreadOf(s)
                               /\ IsPersistent(s)' = IsPersistent(s)
      BY <3>1, <3>2 DEF Submitted, ThreadOf, IsPersistent
    <3>6. QED  BY <3>3, <3>4, <3>5
  <2>3. \A k : QueueSet(k) \subseteq QueueSet(k)'
    BY <2>2 DEF QueueSet
  <2>4. \A k \in QueueKeys : queues[k] \in Seq(QueueSet(k)')
    BY <2>3, SeqMonotonic DEF PlacementInv, QueuesSorted
  <2>5. \A s \in Runs : phase'[s] \in Executing
           => phase[s] \in Executing /\ s \in Submitted
    <3>1. \E new \in {"queued", "admitted"} :
             phase' = [phase EXCEPT ![r] = new]
      BY <2>1 DEF QueueRun, AdmitRun
    <3>2. QED  BY <1>a, <2>1, <3>1 DEF TypeOK, Executing
  <2>6. ThreadsHeld' /\ PlacesHeld'
    BY <2>1, <2>2, <2>5 DEF PlacementInv, ThreadsHeld, PlacesHeld
  <2>7. CASE MustQueue(t, persistent)
    <3> DEFINE key == IF persistent THEN PersistentQueue ELSE t
    <3>1. StartOnlyOnTop' /\ StartsAreFree'
      BY <2>1, <2>7, NoCallNow DEF QueueRun
    <3>2. key \in QueueKeys
      BY DEF QueueKeys
    <3>3. r \in QueueSet(key)'
      BY <2>2, RunManagerAssumption DEF QueueSet
    <3>4. PICK i \in 1..(Len(queues[key]) + 1) :
                 queues' = [queues EXCEPT ![key] = InsertAt(@, i, r)]
      BY <2>1, <2>7 DEF QueueRun
    <3>5. InsertAt(queues[key], i, r) \in Seq(QueueSet(key)')
      BY <2>4, <3>2, <3>3, InsertAtType
    <3>6. QueuesSorted'
      BY <1>a, <2>4, <3>2, <3>4, <3>5 DEF QueuesSorted, TypeOK
    <3>7. QED  BY <2>6, <3>1, <3>6
  <2>8. CASE ~MustQueue(t, persistent)
    <3>1. calls' = <<CallRun("startExistingRun", r)>> /\ queues' = queues
      BY <2>1, <2>8 DEF AdmitRun
    <3>2. QueuesSorted'
      BY <2>4, <3>1 DEF QueuesSorted
    <3>3. <<>> \in Seq(Call) /\ NoStart(<<>>)
      BY EmptySeq DEF NoStart
    <3>4. calls' = <<CallRun("startExistingRun", r)>> \o <<>>
      BY <3>1
    <3>5. /\ StartOnlyOnTop'
          /\ \A q : OnTop(CallRun("startExistingRun", q))' => q = r
      BY <3>3, <3>4, StartNow
    <3>6. /\ runningThreadRun[t] = NoRun
          /\ persistent => ~AtCapacity
      BY <2>8 DEF MustQueue
    <3>7. AtCapacity' = AtCapacity
      BY <2>1 DEF AtCapacity
    <3>8. StartsAreFree'
      BY <2>1, <2>2, <3>5, <3>6, <3>7 DEF StartsAreFree
    <3>9. QED  BY <2>6, <3>2, <3>5, <3>8
  <2>9. QED  BY <2>7, <2>8
<1>16. CASE UNCHANGED vars
  <2>1. UNCHANGED <<input, phase, queues, runningThreadRun,
                    runningPersistentRunIds, calls>>
    BY <1>16 DEF vars
  <2>2. StartOnlyOnTop' /\ StartsAreFree'
    BY <2>1, SubmittedStable
    DEF PlacementInv, StartOnlyOnTop, StartsAreFree, OnTop, AtCapacity
  <2>3. QED  BY <2>1, <2>2, Calm, QueuesCalm
<1>17. QED
  BY <1>1, <1>2, <1>3, <1>4, <1>5, <1>6, <1>7, <1>8, <1>9, <1>10, <1>11,
     <1>12, <1>13, <1>14, <1>15, <1>16
  DEF Next, CallStep, TaskStep, Request

\* Threads and places are held by the active runs, queues hold the runs they
\* are for, and a run whose start is pending finds its thread and place free:
\* blocked in startRun, startNextPersistentRuns, startNextQueuedThreadRun and
\* completeThreadRun agree on who holds what.
THEOREM Placement == Spec => []PlacementInv
BY PlacementInit, PlacementStep, PTL DEF Spec

\* What holds the threads and the places bounds the active runs.
LEMMA PlacementImplies ==
    ASSUME PlacementInv
    PROVE  ThreadExclusive /\ WithinCapacity
<1>1. ThreadExclusive
  BY DEF PlacementInv, ThreadsHeld, ThreadExclusive, ActiveRuns
<1>2. WithinCapacity
  <2> DEFINE pooled == {r \in ActiveRuns : IsPersistent(r)}
  <2>1. /\ IsFiniteSet(runningPersistentRunIds)
        /\ Cardinality(runningPersistentRunIds) \in Nat
        /\ Cardinality(runningPersistentRunIds) <= MaxConcurrency
    BY FiniteIds DEF PlacementInv, PlacesHeld
  <2>2. pooled \in SUBSET runningPersistentRunIds
    BY DEF PlacementInv, PlacesHeld, ActiveRuns
  <2>3. /\ IsFiniteSet(pooled)
        /\ Cardinality(pooled) <= Cardinality(runningPersistentRunIds)
    BY <2>1, <2>2, FS_Subset
  <2>4. Cardinality(pooled) \in Nat
    BY <2>3, FS_CardinalityType
  <2>5. Cardinality(pooled) <= MaxConcurrency
    BY <2>1, <2>3, <2>4, MaxConcurrencyAssumption
  <2>6. QED  BY <2>5 DEF WithinCapacity
<1>3. QED  BY <1>1, <1>2

\* Two runs of one thread are never active together, for any number of
\* threads, slots, runs and restarts.
THEOREM Exclusive == Spec => []ThreadExclusive
BY Placement, PlacementImplies, PTL

\* The active persistent runs never outnumber the slots of the executor.
THEOREM Capacity == Spec => []WithinCapacity
BY Placement, PlacementImplies, PTL

-----------------------------------------------------------------------------
(* Slots: a thread never gets a second owner.                              *)

\* The slots that own a thread are one slot or none.
UniqueOwners(p) ==
    \A t \in Threads : \A a, b \in Owners(p, t) : a = b

\* selectSlot never passes over the owner of a thread.
LEMMA SelectKeepsOwner ==
    ASSUME NEW p \in Pools(Runs), NEW t \in Threads,
           SelectSlot(p, t) # NoSlot, Owners(p, t) # {}
    PROVE  SelectSlot(p, t) \in Owners(p, t)
BY DEF SelectSlot

\* start gives the slot no thread that another slot owns.
LEMMA OccupyKeepsOwner ==
    ASSUME NEW p \in Pools(Runs), UniqueOwners(p), NEW t \in Threads,
           NEW r, SelectSlot(p, t) # NoSlot
    PROVE  UniqueOwners(Occupy(p, SelectSlot(p, t), t, r))
<1> DEFINE s == SelectSlot(p, t)
           q == Occupy(p, s, t, r)
<1>1. s \in Slots
  BY SelectSlotType
<1>2. Owners(p, t) \subseteq {s}
  BY SelectKeepsOwner DEF UniqueOwners
<1>3. \A u \in Threads : Owners(q, u) = IF u = t THEN Owners(p, u) \cup {s}
                                                ELSE Owners(p, u)
  BY <1>1 DEF Occupy, Owners, Pools
<1>4. QED  BY <1>2, <1>3 DEF UniqueOwners

\* The end of an execution changes no owner.
LEMMA VacateKeepsOwner ==
    ASSUME NEW p \in Pools(Runs), UniqueOwners(p), NEW r
    PROVE  UniqueOwners(Vacate(p, r))
<1>1. \A u \in Threads : Owners(Vacate(p, r), u) = Owners(p, u)
  BY DEF Vacate, Owners, Pools
<1>2. QED  BY <1>1 DEF UniqueOwners

\* The inductive form of OneOwner.
OwnerInv == TypeOK /\ UniqueOwners(pool)

\* A new executor has no slots.
LEMMA OwnerInit == Init => OwnerInv
<1> SUFFICES ASSUME Init  PROVE UniqueOwners(pool)
  BY TypeInit DEF OwnerInv
<1>1. QED  BY DEF Init, EmptyPool, Owners, UniqueOwners

\* Every step keeps the owners unique.
LEMMA OwnerStep == OwnerInv /\ [Next]_vars => OwnerInv'
<1> SUFFICES ASSUME OwnerInv, [Next]_vars  PROVE UniqueOwners(pool')
  BY TypeStep DEF OwnerInv, UniqueOwners, Owners
<1>a. TypeOK /\ pool \in Pools(Runs)
  BY DEF OwnerInv, TypeOK
<1>1. CASE pool' = pool
  BY <1>1 DEF OwnerInv
<1>2. ASSUME NEW r \in Runs, StartPersistentAttempt(r)
      PROVE  UniqueOwners(pool')
  <2>1. ThreadOf(r) \in Threads
    BY <1>2, <1>a, SubmittedType DEF StartPersistentAttempt, TypeOK
  <2>2. \/ pool' = pool
        \/ /\ SelectSlot(pool, ThreadOf(r)) # NoSlot
           /\ pool' = Occupy(pool, SelectSlot(pool, ThreadOf(r)),
                             ThreadOf(r), r)
    BY <1>2 DEF StartPersistentAttempt
  <2>3. QED  BY <1>a, <1>1, <2>1, <2>2, OccupyKeepsOwner DEF OwnerInv
<1>3. ASSUME NEW r \in Runs, HandleResult(r)  PROVE UniqueOwners(pool')
  BY <1>3, <1>a, VacateKeepsOwner DEF HandleResult, OwnerInv
<1>4. ASSUME NEW r \in Runs, Rotate(r)  PROVE UniqueOwners(pool')
  <2> DEFINE vacated == Vacate(pool, r)
             s == SelectSlot(vacated, ThreadOf(r))
  <2>1. vacated \in Pools(Runs) /\ UniqueOwners(vacated)
    BY <1>a, VacateType, VacateKeepsOwner DEF OwnerInv
  <2>2. ThreadOf(r) \in Threads
    BY <1>4, <1>a, SubmittedType DEF Rotate, TypeOK
  <2>3. \/ pool' = pool \/ pool' = vacated
        \/ s # NoSlot /\ pool' = Occupy(vacated, s, ThreadOf(r), r)
    BY <1>4 DEF Rotate
  <2>4. CASE s # NoSlot /\ pool' = Occupy(vacated, s, ThreadOf(r), r)
    BY <2>1, <2>2, <2>4, OccupyKeepsOwner
  <2>5. QED  BY <1>1, <2>1, <2>3, <2>4
<1>5. ASSUME Restart  PROVE UniqueOwners(pool')
  BY <1>5 DEF Restart, EmptyPool, Owners, UniqueOwners
<1>6. QED
  <2>1. \/ pool' = pool \/ Restart
        \/ \E r \in Runs : \/ StartPersistentAttempt(r) \/ HandleResult(r)
                           \/ Rotate(r)
    BY DEF Next, CallStep, TaskStep, Request, vars, Launch, FailBeforeSpawn,
           PublishQueuedCancel, RecoverEvents, StartNextPersistentRuns,
           StartNextQueuedThreadRun, CancelAll, RecoverOrphan,
           StartDirectAttempt, EndTurn, PublishDone, FinishRun, StartRun,
           CancelActiveRun, CancelQueuedRun, SteerRun, SignOut, Close
  <2>2. QED  BY <1>1, <1>2, <1>3, <1>4, <1>5, <2>1

\* A Codex thread never has two app-server processes: the executor's choice
\* of a slot keeps the owner of every thread, whatever the order in which
\* runs start and end.
THEOREM Owned == Spec => []OneOwner
<1>1. OwnerInv => OneOwner
  <2> SUFFICES ASSUME OwnerInv, NEW t \in Threads
               PROVE  Cardinality(Owners(pool, t)) <= 1
    BY DEF OneOwner
  <2>1. CASE Owners(pool, t) = {}
    BY <2>1, FS_EmptySet
  <2>2. CASE Owners(pool, t) # {}
    <3>1. PICK s : s \in Owners(pool, t)
      BY <2>2
    <3>2. Owners(pool, t) = {s}
      BY <3>1 DEF OwnerInv, UniqueOwners
    <3>3. Cardinality({s}) = 1
      BY FS_Singleton
    <3>4. QED  BY <3>2, <3>3
  <2>3. QED  BY <2>1, <2>2
<1>2. QED  BY <1>1, OwnerInit, OwnerStep, PTL DEF Spec

-----------------------------------------------------------------------------
(* Queues: positions and elements.                                         *)

\* The positions after a run taken out move up by one.
LEMMA RemoveAtValues ==
    ASSUME NEW S, NEW s \in Seq(S), NEW i \in DOMAIN s
    PROVE  /\ DOMAIN RemoveAt(s, i) = 1..(Len(s) - 1)
           /\ \A j \in 1..(Len(s) - 1) :
                 RemoveAt(s, i)[j] = IF j < i THEN s[j] ELSE s[j + 1]
<1> DEFINE a == SubSeq(s, 1, i - 1)
           b == SubSeq(s, i + 1, Len(s))
<1>1. Len(s) \in Nat /\ DOMAIN s = 1..Len(s) /\ i \in 1..Len(s)
  BY LenProperties
<1>2. /\ a \in Seq(S) /\ Len(a) = i - 1
      /\ \A j \in 1..(i - 1) : a[j] = s[j]
  BY <1>1, SubSeqProperties
<1>3. /\ b \in Seq(S) /\ Len(b) = Len(s) - i
      /\ \A j \in 1..(Len(s) - i) : b[j] = s[i + j]
  BY <1>1, SubSeqProperties
<1> HIDE DEF a, b
<1>4. /\ a \o b \in Seq(S) /\ Len(a \o b) = Len(s) - 1
      /\ \A j \in 1..(Len(s) - 1) :
            (a \o b)[j] = IF j <= i - 1 THEN a[j] ELSE b[j - (i - 1)]
  <2>1. /\ a \o b \in Seq(S) /\ Len(a \o b) = Len(a) + Len(b)
        /\ \A j \in 1..(Len(a) + Len(b)) :
              (a \o b)[j] = IF j <= Len(a) THEN a[j] ELSE b[j - Len(a)]
    BY <1>2, <1>3, ConcatProperties
  <2>2. Len(a) + Len(b) = Len(s) - 1 /\ Len(a) = i - 1
    BY <1>1, <1>2, <1>3
  <2>3. QED  BY <2>1, <2>2
<1>5. DOMAIN (a \o b) = 1..(Len(s) - 1)
  BY <1>4, LenProperties
<1>6. ASSUME NEW j \in 1..(Len(s) - 1)
      PROVE  (a \o b)[j] = IF j < i THEN s[j] ELSE s[j + 1]
  <2>1. CASE j < i
    BY <1>1, <1>2, <1>4, <2>1
  <2>2. CASE ~(j < i)
    <3>1. j - (i - 1) \in 1..(Len(s) - i) /\ ~(j <= i - 1)
      BY <1>1, <2>2
    <3>2. i + (j - (i - 1)) = j + 1
      BY <1>1
    <3>3. QED  BY <1>3, <1>4, <2>2, <3>1, <3>2
  <2>3. QED  BY <2>1, <2>2
<1>7. QED  BY <1>5, <1>6 DEF RemoveAt, a, b

\* The positions from that of a run put in move down by one.
LEMMA InsertAtValues ==
    ASSUME NEW S, NEW s \in Seq(S), NEW i \in 1..(Len(s) + 1), NEW e \in S
    PROVE  /\ DOMAIN InsertAt(s, i, e) = 1..(Len(s) + 1)
           /\ \A j \in 1..(Len(s) + 1) :
                 InsertAt(s, i, e)[j] = IF j < i THEN s[j]
                                        ELSE IF j = i THEN e ELSE s[j - 1]
<1> DEFINE a == SubSeq(s, 1, i - 1)
           b == SubSeq(s, i, Len(s))
           c == a \o <<e>>
<1>1. Len(s) \in Nat /\ DOMAIN s = 1..Len(s)
  BY LenProperties
<1>2. /\ a \in Seq(S) /\ Len(a) = i - 1
      /\ \A j \in 1..(i - 1) : a[j] = s[j]
  BY <1>1, SubSeqProperties
<1>3. /\ b \in Seq(S) /\ Len(b) = Len(s) - i + 1
      /\ \A j \in 1..(Len(s) - i + 1) : b[j] = s[i + j - 1]
  BY <1>1, SubSeqProperties
<1>4. /\ <<e>> \in Seq(S) /\ Len(<<e>>) = 1 /\ <<e>>[1] = e
  OBVIOUS
<1>5. /\ c \in Seq(S) /\ Len(c) = i
      /\ \A j \in 1..i : c[j] = IF j < i THEN s[j] ELSE e
  <2>1. /\ c \in Seq(S) /\ Len(c) = (i - 1) + 1
        /\ \A j \in 1..((i - 1) + 1) :
              c[j] = IF j <= i - 1 THEN a[j] ELSE <<e>>[j - (i - 1)]
    BY <1>1, <1>2, <1>4, ConcatProperties
  <2>2. QED  BY <1>1, <1>2, <1>4, <2>1
<1> HIDE DEF a, b, c
<1>6. /\ c \o b \in Seq(S) /\ Len(c \o b) = Len(s) + 1
      /\ \A j \in 1..(Len(s) + 1) :
            (c \o b)[j] = IF j <= i THEN c[j] ELSE b[j - i]
  <2>1. Len(c) + Len(b) = Len(s) + 1
    BY <1>1, <1>3, <1>5
  <2>2. QED  BY <1>3, <1>5, <2>1, ConcatProperties
<1>7. DOMAIN (c \o b) = 1..(Len(s) + 1)
  BY <1>6, LenProperties
<1>8. ASSUME NEW j \in 1..(Len(s) + 1)
      PROVE  (c \o b)[j] = IF j < i THEN s[j] ELSE IF j = i THEN e ELSE s[j - 1]
  <2>1. CASE j <= i
    BY <1>1, <1>5, <1>6, <2>1
  <2>2. CASE ~(j <= i)
    <3>1. j - i \in 1..(Len(s) - i + 1) /\ i + (j - i) - 1 = j - 1
      BY <1>1, <2>2
    <3>2. b[j - i] = s[j - 1] /\ ~(j < i) /\ j # i
      BY <1>1, <1>3, <2>2, <3>1
    <3>3. QED  BY <1>6, <2>2, <3>2
  <2>3. QED  BY <2>1, <2>2
<1>9. QED  BY <1>7, <1>8 DEF InsertAt, a, b, c

\* A run taken out of a queue that held it once is no longer there.
LEMMA RemoveAtElements ==
    ASSUME NEW S, NEW s \in Seq(S), NEW i \in DOMAIN s, IsInjective(s)
    PROVE  /\ IsInjective(RemoveAt(s, i))
           /\ ToSet(RemoveAt(s, i)) = ToSet(s) \ {s[i]}
<1> DEFINE t == RemoveAt(s, i)
           at == [j \in 1..(Len(s) - 1) |-> IF j < i THEN j ELSE j + 1]
<1>1. Len(s) \in Nat /\ DOMAIN s = 1..Len(s) /\ i \in 1..Len(s)
  BY LenProperties
<1>2. DOMAIN t = 1..(Len(s) - 1)
  BY RemoveAtValues
<1>3. \A j \in 1..(Len(s) - 1) :
         at[j] \in DOMAIN s /\ at[j] # i /\ t[j] = s[at[j]]
  BY <1>1, RemoveAtValues
<1>4. \A j, k \in 1..(Len(s) - 1) : at[j] = at[k] => j = k
  BY <1>1
<1>5. \A k \in DOMAIN s : k # i => \E j \in 1..(Len(s) - 1) : at[j] = k
  <2>1. SUFFICES ASSUME NEW k \in 1..Len(s), k # i
                 PROVE  \E j \in 1..(Len(s) - 1) : at[j] = k
    BY <1>1
  <2>2. CASE k < i
    BY <1>1, <2>2
  <2>3. CASE ~(k < i)
    <3>1. k - 1 \in 1..(Len(s) - 1) /\ ~(k - 1 < i) /\ (k - 1) + 1 = k
      BY <1>1, <2>1, <2>3
    <3>2. QED  BY <3>1
  <2>4. QED  BY <2>2, <2>3
<1> HIDE DEF t, at
<1>6. IsInjective(t)
  BY <1>2, <1>3, <1>4 DEF IsInjective
<1>7. \A e : e \in ToSet(t) <=> e \in ToSet(s) \ {s[i]}
  <2>1. ASSUME NEW e \in ToSet(t)  PROVE e \in ToSet(s) \ {s[i]}
    <3>1. PICK j \in 1..(Len(s) - 1) : e = t[j]
      BY <1>2, <2>1 DEF ToSet
    <3>2. s[at[j]] # s[i] /\ s[at[j]] \in ToSet(s)
      BY <1>1, <1>3 DEF IsInjective, ToSet
    <3>3. QED  BY <1>3, <3>1, <3>2
  <2>2. ASSUME NEW e \in ToSet(s) \ {s[i]}  PROVE e \in ToSet(t)
    <3>1. PICK k \in DOMAIN s : e = s[k]
      BY <2>2 DEF ToSet
    <3>2. PICK j \in 1..(Len(s) - 1) : at[j] = k
      BY <1>5, <2>2, <3>1
    <3>3. t[j] = e /\ j \in DOMAIN t
      BY <1>2, <1>3, <3>1, <3>2
    <3>4. QED  BY <3>3 DEF ToSet
  <2>3. QED  BY <2>1, <2>2
<1>8. QED  BY <1>6, <1>7 DEF t

\* A run put into a queue joins the others, once.
LEMMA InsertAtElements ==
    ASSUME NEW S, NEW s \in Seq(S), NEW i \in 1..(Len(s) + 1), NEW e \in S,
           IsInjective(s), e \notin ToSet(s)
    PROVE  /\ IsInjective(InsertAt(s, i, e))
           /\ ToSet(InsertAt(s, i, e)) = ToSet(s) \cup {e}
<1> DEFINE t == InsertAt(s, i, e)
<1>1. Len(s) \in Nat /\ DOMAIN s = 1..Len(s)
  BY LenProperties
<1>2. DOMAIN t = 1..(Len(s) + 1)
  BY InsertAtValues
<1>3. \A j \in 1..(Len(s) + 1) :
         /\ j < i => j \in DOMAIN s /\ t[j] = s[j]
         /\ j = i => t[j] = e
         /\ j > i => j - 1 \in DOMAIN s /\ t[j] = s[j - 1]
  BY <1>1, InsertAtValues
<1>4. \A k \in DOMAIN s : k \in DOMAIN t /\ k + 1 \in DOMAIN t
  BY <1>1, <1>2
<1> HIDE DEF t
<1>5. \A k \in DOMAIN s : s[k] # e
  BY DEF ToSet
<1>6. IsInjective(t)
  <2>1. SUFFICES ASSUME NEW a \in 1..(Len(s) + 1), NEW b \in 1..(Len(s) + 1),
                        t[a] = t[b]
                 PROVE  a = b
    BY <1>2 DEF IsInjective
  <2>2. CASE a < i
    BY <1>1, <1>3, <1>5, <2>1, <2>2 DEF IsInjective
  <2>3. CASE a = i
    BY <1>1, <1>3, <1>5, <2>1, <2>3
  <2>4. CASE a > i
    BY <1>1, <1>3, <1>5, <2>1, <2>4 DEF IsInjective
  <2>5. QED  BY <1>1, <2>2, <2>3, <2>4
<1>7. \A x : x \in ToSet(t) <=> x \in ToSet(s) \cup {e}
  <2>1. ASSUME NEW x \in ToSet(t)  PROVE x \in ToSet(s) \cup {e}
    BY <1>1, <1>2, <1>3, <2>1 DEF ToSet
  <2>2. ASSUME NEW x \in ToSet(s)  PROVE x \in ToSet(t)
    <3>1. PICK k \in DOMAIN s : x = s[k]
      BY <2>2 DEF ToSet
    <3>2. CASE k < i
      BY <1>2, <1>3, <1>4, <3>1, <3>2 DEF ToSet
    <3>3. CASE ~(k < i)
      <4>1. k + 1 > i /\ (k + 1) - 1 = k
        BY <1>1, <3>3
      <4>2. t[k + 1] = x
        BY <1>2, <1>3, <1>4, <3>1, <4>1
      <4>3. QED  BY <1>4, <4>2 DEF ToSet
    <3>4. QED  BY <3>2, <3>3
  <2>3. e \in ToSet(t)
    <3>1. t[i] = e
      BY <1>1, <1>3
    <3>2. QED  BY <1>2, <3>1 DEF ToSet
  <2>4. QED  BY <2>1, <2>2, <2>3
<1>8. QED  BY <1>6, <1>7 DEF t

\* A run moved to the front of its queue.
LEMMA MoveToFrontElements ==
    ASSUME NEW S, NEW s \in Seq(S), NEW i \in DOMAIN s, IsInjective(s)
    PROVE  /\ IsInjective(<<s[i]>> \o RemoveAt(s, i))
           /\ ToSet(<<s[i]>> \o RemoveAt(s, i)) = ToSet(s)
<1> DEFINE t == RemoveAt(s, i)
<1>1. /\ t \in Seq(S) /\ s[i] \in S /\ IsInjective(t)
      /\ ToSet(t) = ToSet(s) \ {s[i]} /\ s[i] \in ToSet(s)
  <2>1. t \in Seq(S) /\ s[i] \in S
    BY RemoveAtType
  <2>2. IsInjective(t) /\ ToSet(t) = ToSet(s) \ {s[i]}
    BY RemoveAtElements
  <2>3. s[i] \in ToSet(s)
    BY DEF ToSet
  <2>4. QED  BY <2>1, <2>2, <2>3
<1>2. Len(t) \in Nat
  BY <1>1, LenProperties
<1> HIDE DEF t
<1>3. InsertAt(t, 1, s[i]) = <<s[i]>> \o t
  <2>1. SubSeq(t, 1, 0) = <<>> /\ SubSeq(t, 1, Len(t)) = t
    BY <1>1, <1>2, SubSeqEmpty, SubSeqFull
  <2>2. SubSeq(t, 1, 1 - 1) = <<>>
    BY <2>1
  <2>3. <<>> \o <<s[i]>> = <<s[i]>>
    BY <1>1, ConcatEmptySeq
  <2>4. QED  BY <2>1, <2>2, <2>3 DEF InsertAt
<1>4. 1 \in 1..(Len(t) + 1) /\ s[i] \notin ToSet(t)
  BY <1>1, <1>2
<1>5. /\ IsInjective(InsertAt(t, 1, s[i]))
      /\ ToSet(InsertAt(t, 1, s[i])) = ToSet(t) \cup {s[i]}
  BY <1>1, <1>4, InsertAtElements
<1>6. QED  BY <1>1, <1>3, <1>5 DEF t

-----------------------------------------------------------------------------
(* Memory and rows: the inductive invariant.                               *)

\* The daemon is recovering the orphaned runs of its last session.
Recovering ==
    \/ calls = <<CallAlone("recover")>>
    \/ \E r \in Submitted :
          calls = <<CallRun("recoverEvents", r), CallAlone("recover")>>

\* Nothing else is called then, and nothing is recovered later.
RecoveryAlone ==
    \/ Recovering
    \/ \A c \in ToSet(calls) : c.op \notin {"recover", "recoverEvents"}

\* No run has a task before the recovery is over.
RecoveryFirst == Recovering => \A r \in Runs : phase[r] = "idle"

\* The run that has left its queue, or never entered one, is the run of the
\* startExistingRun under way.
AdmittedOnTop ==
    \A r \in Submitted :
       phase[r] = "admitted" <=> OnTop(CallRun("startExistingRun", r))

\* A queue holds the runs that wait for it, each once.
QueuesHoldQueued ==
    \A key \in QueueKeys :
       /\ IsInjective(queues[key])
       /\ ToSet(queues[key]) = {r \in QueueSet(key) : phase[r] = "queued"}

\* The public statuses that go with a place in the manager's code.
StatusIn(where) ==
    IF where \in {"queued", "admitted"} THEN {"queued"}
    ELSE IF where \in Executing THEN {"running"}
    ELSE TerminalStatus

\* The row of a run says where it is, but for the rows of the orphans.
RowsMatch ==
    /\ \A r \in Submitted :
          \/ row[r].public \in StatusIn(phase[r])
          \/ Recovering /\ row[r].public \in {"queued", "running"}
    /\ \A r \in Runs \ Submitted : row[r].public = "none"

RecordInv ==
    /\ PlacementInv
    /\ RecoveryAlone
    /\ RecoveryFirst
    /\ AdmittedOnTop
    /\ QueuesHoldQueued
    /\ RowsMatch

\* Calls that neither start a run nor recover one.
Plain(s) ==
    \A c \in ToSet(s) :
       c.op \notin {"startExistingRun", "recover", "recoverEvents"}

\* The elements of a stack after a push.
LEMMA ConcatElements ==
    ASSUME NEW S, NEW s \in Seq(S), NEW t \in Seq(S)
    PROVE  ToSet(s \o t) \subseteq ToSet(s) \cup ToSet(t)
<1>1. /\ s \o t \in Seq(S)
      /\ Len(s) \in Nat /\ Len(t) \in Nat
      /\ DOMAIN s = 1..Len(s) /\ DOMAIN t = 1..Len(t)
      /\ DOMAIN (s \o t) = 1..(Len(s) + Len(t))
      /\ \A i \in 1..(Len(s) + Len(t)) :
            (s \o t)[i] = IF i <= Len(s) THEN s[i] ELSE t[i - Len(s)]
  BY ConcatProperties, LenProperties
<1>2. SUFFICES ASSUME NEW i \in 1..(Len(s) + Len(t))
               PROVE  (s \o t)[i] \in ToSet(s) \cup ToSet(t)
  BY <1>1 DEF ToSet
<1>3. CASE i <= Len(s)
  <2>1. i \in DOMAIN s /\ (s \o t)[i] = s[i]
    BY <1>1, <1>3
  <2>2. QED  BY <2>1 DEF ToSet
<1>4. CASE ~(i <= Len(s))
  <2>1. i - Len(s) \in DOMAIN t /\ (s \o t)[i] = t[i - Len(s)]
    BY <1>1, <1>4
  <2>2. QED  BY <2>1 DEF ToSet
<1>5. QED  BY <1>3, <1>4

\* The elements of a stack after a pop.
LEMMA TailElements ==
    ASSUME NEW S, NEW s \in Seq(S), s # <<>>
    PROVE  /\ ToSet(Tail(s)) \subseteq ToSet(s)
           /\ Head(s) \in ToSet(s)
<1>1. /\ Tail(s) \in Seq(S) /\ Len(s) \in Nat \ {0}
      /\ Len(Tail(s)) = Len(s) - 1
      /\ \A i \in 1..Len(Tail(s)) : Tail(s)[i] = s[i + 1]
      /\ DOMAIN s = 1..Len(s) /\ DOMAIN Tail(s) = 1..Len(Tail(s))
  BY HeadTailProperties, LenProperties, EmptySeq
<1>2. 1 \in DOMAIN s /\ Head(s) = s[1]
  BY <1>1
<1>3. \A i \in DOMAIN Tail(s) : i + 1 \in DOMAIN s /\ Tail(s)[i] = s[i + 1]
  BY <1>1
<1>4. QED  BY <1>2, <1>3 DEF ToSet

\* Plain calls pushed on plain calls.
LEMMA PlainConcat ==
    ASSUME NEW s \in Seq(Call), NEW t \in Seq(Call), Plain(s), Plain(t)
    PROVE  s \o t \in Seq(Call) /\ Plain(s \o t)
<1>1. ToSet(s \o t) \subseteq ToSet(s) \cup ToSet(t)
  BY ConcatElements
<1>2. s \o t \in Seq(Call)
  BY ConcatProperties
<1>3. QED  BY <1>1, <1>2 DEF Plain

\* A stack of one call.
LEMMA PlainSingle ==
    ASSUME NEW c \in Call,
           c.op \notin {"startExistingRun", "recover", "recoverEvents"}
    PROVE  <<c>> \in Seq(Call) /\ Plain(<<c>>)
<1>1. ToSet(<<c>>) = {c}
  BY DEF ToSet
<1>2. QED  BY <1>1 DEF Plain

\* No call at all.
LEMMA PlainEmpty == <<>> \in Seq(Call) /\ Plain(<<>>)
BY EmptySeq DEF Plain, ToSet

\* Under the top call of a daemon that is not recovering all is plain.
LEMMA PlainBelow ==
    ASSUME RecordInv, ~Recovering, calls # <<>>
    PROVE  Tail(calls) \in Seq(Call) /\ Plain(Tail(calls))
<1>1. calls \in Seq(Call) /\ TypeOK /\ StartOnlyOnTop
  BY DEF RecordInv, PlacementInv, TypeOK
<1>2. ToSet(Tail(calls)) \subseteq ToSet(calls)
  BY <1>1, TailElements
<1>3. Tail(calls) \in Seq(Call) /\ NoStart(Tail(calls))
  BY <1>1, NoStartBelow
<1>4. \A c \in ToSet(Tail(calls)) : c.op # "startExistingRun"
  BY <1>3 DEF NoStart, ToSet
<1>5. QED  BY <1>2, <1>3, <1>4 DEF Plain, RecordInv, RecoveryAlone

\* The call on top while the daemon recovers.
LEMMA RecoveryTop ==
    ASSUME Recovering
    PROVE  /\ calls # <<>>
           /\ Head(calls).op \in {"recover", "recoverEvents"}
BY DEF Recovering, CallAlone, CallRun

\* The call on top tells whether the daemon is recovering.
LEMMA TopTells ==
    ASSUME RecordInv, NEW call, OnTop(call)
    PROVE  /\ calls # <<>> /\ calls \in Seq(Call)
           /\ Recovering <=> call.op \in {"recover", "recoverEvents"}
<1>1. calls # <<>> /\ calls \in Seq(Call) /\ Head(calls) = call
  BY DEF RecordInv, PlacementInv, TypeOK, OnTop
<1>2. call \in ToSet(calls)
  BY <1>1, TailElements
<1>3. QED  BY <1>1, <1>2, RecoveryTop DEF RecordInv, RecoveryAlone

\* With a plain call on top, the whole stack is plain.
LEMMA PlainAll ==
    ASSUME RecordInv, NEW call, OnTop(call),
           call.op \notin {"startExistingRun", "recover", "recoverEvents"}
    PROVE  /\ calls \in Seq(Call) /\ Plain(calls) /\ calls # <<>>
           /\ Tail(calls) \in Seq(Call) /\ Plain(Tail(calls))
           /\ ~Recovering
<1>1. ~Recovering /\ calls # <<>> /\ calls \in Seq(Call)
  BY TopTells
<1>2. TypeOK /\ StartOnlyOnTop
  BY DEF RecordInv, PlacementInv
<1>3. NoStart(calls)
  BY <1>2, NoStartAtAll
<1>4. \A c \in ToSet(calls) : c.op # "startExistingRun"
  BY <1>3 DEF NoStart, ToSet
<1>5. Plain(calls)
  BY <1>1, <1>4 DEF Plain, RecordInv, RecoveryAlone
<1>6. QED  BY <1>1, <1>5, PlainBelow

\* The same after a step.
LEMMA RecoveryTopNow ==
    ASSUME Recovering'
    PROVE  /\ calls' # <<>>
           /\ Head(calls').op \in {"recover", "recoverEvents"}
BY DEF Recovering, CallAlone, CallRun

\* A step after which the stack is plain.
LEMMA PlainNow ==
    ASSUME calls' \in Seq(Call), Plain(calls'),
           \A q \in Runs : phase'[q] # "admitted", Submitted' \subseteq Runs
    PROVE  ~Recovering' /\ RecoveryAlone' /\ RecoveryFirst' /\ AdmittedOnTop'
<1>1. calls' # <<>> => Head(calls') \in ToSet(calls')
  BY TailElements
<1>2. \A q : CallRun("startExistingRun", q).op = "startExistingRun"
  BY DEF CallRun
<1>3. \A q : ~OnTop(CallRun("startExistingRun", q))'
  BY <1>1, <1>2 DEF OnTop, Plain
<1>4. ~Recovering'
  BY <1>1, RecoveryTopNow DEF Plain
<1>5. RecoveryAlone' /\ RecoveryFirst'
  BY <1>4 DEF RecoveryAlone, RecoveryFirst, Plain
<1>6. AdmittedOnTop'
  BY <1>3 DEF AdmittedOnTop
<1>7. QED  BY <1>4, <1>5, <1>6

\* A step that calls startExistingRun for r.
LEMMA AdmittedNow ==
    ASSUME NEW r \in Submitted', NEW rest \in Seq(Call), Plain(rest),
           calls' = <<CallRun("startExistingRun", r)>> \o rest,
           phase'[r] = "admitted",
           \A q \in Submitted' : q # r => phase'[q] # "admitted"
    PROVE  ~Recovering' /\ RecoveryAlone' /\ RecoveryFirst' /\ AdmittedOnTop'
<1> DEFINE start == CallRun("startExistingRun", r)
<1>1. /\ <<start>> \in Seq({start} \cup Call) /\ rest \in Seq({start} \cup Call)
      /\ Len(<<start>>) = 1
  BY SeqMonotonic
<1>2. /\ ToSet(calls') \subseteq ToSet(<<start>>) \cup ToSet(rest)
      /\ calls' # <<>> /\ Head(calls') = start
  <2> DEFINE first == <<start>>
             S == {start} \cup Call
  <2>1. first \in Seq(S) /\ rest \in Seq(S)
    BY <1>1
  <2>2. calls' = first \o rest
    OBVIOUS
  <2>3. calls' # <<>> /\ Head(calls') = start
    BY <1>1
  <2> HIDE DEF first, S
  <2>4. ToSet(first \o rest) \subseteq ToSet(first) \cup ToSet(rest)
    BY <2>1, ConcatElements
  <2>5. QED  BY <2>2, <2>3, <2>4 DEF first
<1>3. ToSet(<<start>>) = {start} /\ start.op = "startExistingRun"
  BY DEF ToSet, CallRun
<1>4. \A c \in ToSet(calls') : c.op \notin {"recover", "recoverEvents"}
  BY <1>2, <1>3 DEF Plain
<1>5. ~Recovering'
  BY <1>2, <1>3, RecoveryTopNow
<1>6. RecoveryAlone' /\ RecoveryFirst'
  BY <1>4, <1>5 DEF RecoveryAlone, RecoveryFirst
<1>7. \A q : OnTop(CallRun("startExistingRun", q))' <=> q = r
  <2>1. ASSUME NEW q, OnTop(CallRun("startExistingRun", q))'
        PROVE  q = r
    <3>1. CallRun("startExistingRun", q).run = start.run
      BY <1>2, <2>1 DEF OnTop
    <3>2. QED  BY <3>1 DEF CallRun
  <2>2. OnTop(CallRun("startExistingRun", r))'
    BY <1>2 DEF OnTop
  <2>3. QED  BY <2>1, <2>2
<1>8. AdmittedOnTop'
  BY <1>7 DEF AdmittedOnTop
<1>9. QED  BY <1>5, <1>6, <1>8

\* A step that leaves the queues, and who waits in them, alone.
LEMMA QueuesKept ==
    ASSUME QueuesHoldQueued, UNCHANGED <<input, queues>>,
           \A q \in Submitted : phase'[q] = "queued" <=> phase[q] = "queued"
    PROVE  QueuesHoldQueued'
<1>1. \A key : QueueSet(key)' = QueueSet(key)
  BY SubmittedStable DEF QueueSet
<1>2. \A key : QueueSet(key) \subseteq Submitted
  BY DEF QueueSet
<1>3. QED  BY <1>1, <1>2 DEF QueuesHoldQueued

\* A run that waits is in the queue it is for, and in no other.
LEMMA WaitsInItsQueue ==
    ASSUME RecordInv, NEW key \in QueueKeys, NEW i \in DOMAIN queues[key]
    PROVE  /\ queues[key][i] \in QueueSet(key)
           /\ queues[key][i] \in Submitted /\ queues[key][i] \in Runs
           /\ phase[queues[key][i]] = "queued"
           /\ queues[key] \in Seq(Submitted)
           /\ \A k \in QueueKeys : queues[key][i] \in QueueSet(k) => k = key
<1> DEFINE r == queues[key][i]
<1>1. queues[key] \in Seq(Submitted) /\ TypeOK
  BY DEF RecordInv, PlacementInv, TypeOK
<1>2. r \in ToSet(queues[key])
  BY DEF ToSet
<1>3. r \in QueueSet(key) /\ phase[r] = "queued"
  BY <1>2 DEF RecordInv, QueuesHoldQueued
<1>4. r \in Submitted /\ r \in Runs
  BY <1>1, <1>3, SubmittedType DEF QueueSet
<1>5. \A k \in QueueKeys : r \in QueueSet(k) => k = key
  BY <1>3 DEF QueueSet
<1>6. QED  BY <1>1, <1>3, <1>4, <1>5

\* A run leaves its queue.
LEMMA QueueLoses ==
    ASSUME RecordInv, UNCHANGED input, NEW key \in QueueKeys,
           NEW i \in DOMAIN queues[key], NEW where, where # "queued",
           queues' = [queues EXCEPT ![key] = RemoveAt(@, i)],
           phase' = [phase EXCEPT ![queues[key][i]] = where]
    PROVE  QueuesHoldQueued'
<1> DEFINE r == queues[key][i]
<1>1. /\ r \in QueueSet(key) /\ r \in Runs /\ queues[key] \in Seq(Submitted)
      /\ \A k \in QueueKeys : r \in QueueSet(k) => k = key
  BY WaitsInItsQueue
<1>2. /\ IsInjective(RemoveAt(queues[key], i))
      /\ ToSet(RemoveAt(queues[key], i)) = ToSet(queues[key]) \ {r}
  BY <1>1, RemoveAtElements DEF RecordInv, QueuesHoldQueued
<1>3. \A k : QueueSet(k)' = QueueSet(k) /\ QueueSet(k) \subseteq Submitted
  BY SubmittedStable DEF QueueSet
<1>4. /\ TypeOK
      /\ Submitted \subseteq Runs
  BY SubmittedType DEF RecordInv, PlacementInv
<1>5. \A s \in Submitted : phase'[s] = IF s = r THEN where ELSE phase[s]
  BY <1>1, <1>4 DEF TypeOK
<1>6. ASSUME NEW k \in QueueKeys
      PROVE  /\ IsInjective(queues'[k])
             /\ ToSet(queues'[k]) = {s \in QueueSet(k) : phase'[s] = "queued"}
  <2>1. /\ IsInjective(queues[k])
        /\ ToSet(queues[k]) = {s \in QueueSet(k) : phase[s] = "queued"}
    BY DEF RecordInv, QueuesHoldQueued
  <2>2. CASE k = key
    <3>1. queues'[k] = RemoveAt(queues[key], i)
      BY <1>4, <2>2 DEF TypeOK
    <3>2. QED  BY <1>2, <1>3, <1>5, <2>1, <2>2, <3>1
  <2>3. CASE k # key
    <3>1. queues'[k] = queues[k] /\ r \notin QueueSet(k)
      BY <1>1, <1>4, <2>3 DEF TypeOK
    <3>2. QED  BY <1>3, <1>5, <2>1, <3>1
  <2>4. QED  BY <2>2, <2>3
<1>7. QED  BY <1>3, <1>6 DEF QueuesHoldQueued

\* The rows after a step of a daemon that is not recovering: each run keeps
\* its status and its place, or has a status that goes with its new place.
LEMMA RowsNow ==
    ASSUME RecordInv, UNCHANGED input, ~Recovering,
           \A s \in Submitted :
              \/ row'[s].public \in StatusIn(phase'[s])
              \/ /\ row'[s].public = row[s].public
                 /\ StatusIn(phase'[s]) = StatusIn(phase[s]),
           \A s \in Runs \ Submitted : row'[s].public = row[s].public
    PROVE  RowsMatch'
BY SubmittedStable DEF RecordInv, RowsMatch

\* A cancel of active runs writes no other public status.
LEMMA CancelingIsRunning ==
    ASSUME RecordInv, ~Recovering, NEW canceled \in SUBSET ActiveRuns
    PROVE  \A s \in Runs :
              CancelingRows(row, canceled)[s].public = row[s].public
<1>1. ASSUME NEW s \in canceled  PROVE row[s].public = "running"
  <2>1. s \in Runs /\ phase[s] \in Executing /\ TypeOK
    BY <1>1 DEF ActiveRuns, RecordInv, PlacementInv
  <2>2. s \in Submitted
    BY <2>1 DEF TypeOK, Executing
  <2>3. QED  BY <2>1, <2>2 DEF RecordInv, RowsMatch, StatusIn, Executing
<1>2. row \in [Runs -> Row]
  BY DEF RecordInv, PlacementInv, TypeOK
<1>3. QED  BY <1>1, <1>2 DEF CancelingRows, Row

\* Between stretches nothing is recovering and no run is admitted.
LEMMA NothingUnderWay ==
    ASSUME RecordInv, calls = <<>>
    PROVE  ~Recovering /\ \A q \in Runs : phase[q] # "admitted"
<1>1. ~Recovering
  BY RecoveryTop
<1>2. TypeOK /\ AdmittedOnTop
  BY DEF RecordInv, PlacementInv
<1>3. \A q : ~OnTop(CallRun("startExistingRun", q))
  BY DEF OnTop
<1>4. QED  BY <1>1, <1>2, <1>3 DEF TypeOK, AdmittedOnTop

\* While another call is on top no run is admitted.
LEMMA NoneAdmitted ==
    ASSUME RecordInv, NEW call, OnTop(call), call.op # "startExistingRun"
    PROVE  \A q \in Runs : phase[q] # "admitted"
<1>1. TypeOK /\ AdmittedOnTop
  BY DEF RecordInv, PlacementInv
<1>2. \A q : CallRun("startExistingRun", q).op = "startExistingRun"
  BY DEF CallRun
<1>3. \A q : ~OnTop(CallRun("startExistingRun", q))
  BY <1>2 DEF OnTop
<1>4. QED  BY <1>1, <1>3 DEF TypeOK, AdmittedOnTop

\* The run of startExistingRun is the admitted one.
LEMMA OneAdmitted ==
    ASSUME RecordInv, NEW r, OnTop(CallRun("startExistingRun", r))
    PROVE  /\ r \in Submitted /\ r \in Runs /\ phase[r] = "admitted"
           /\ \A q \in Runs : phase[q] = "admitted" => q = r
           /\ ~Recovering /\ calls # <<>>
           /\ Tail(calls) \in Seq(Call) /\ Plain(Tail(calls))
<1>1. TypeOK /\ AdmittedOnTop
  BY DEF RecordInv, PlacementInv
<1>2. r \in Submitted /\ r \in Runs
  BY <1>1, TopCall, RunOfCall, SubmittedType
<1>3. CallRun("startExistingRun", r).op = "startExistingRun"
  BY DEF CallRun
<1>4. ~Recovering /\ calls # <<>>
  BY <1>3, TopTells
<1>5. ASSUME NEW q \in Runs, phase[q] = "admitted"  PROVE q = r
  <2>1. OnTop(CallRun("startExistingRun", q))
    BY <1>1, <1>5 DEF TypeOK, AdmittedOnTop
  <2>2. CallRun("startExistingRun", q).run = CallRun("startExistingRun", r).run
    BY <2>1 DEF OnTop
  <2>3. QED  BY <2>2 DEF CallRun
<1>6. QED  BY <1>1, <1>2, <1>4, <1>5, PlainBelow DEF AdmittedOnTop

\* A step between stretches after which the same runs are active and wait.
LEMMA TaskRecords ==
    ASSUME RecordInv, calls = <<>>, UNCHANGED <<input, queues, calls>>,
           \A s \in Runs : row'[s].public = row[s].public,
           \A s \in Runs : \/ phase'[s] = phase[s]
                           \/ phase[s] \in Executing /\ phase'[s] \in Executing
    PROVE  /\ RecoveryAlone' /\ RecoveryFirst' /\ AdmittedOnTop'
           /\ QueuesHoldQueued' /\ RowsMatch'
<1>1. ~Recovering /\ \A q \in Runs : phase[q] # "admitted"
  BY NothingUnderWay
<1>2. Submitted \subseteq Runs /\ Submitted' = Submitted
  BY SubmittedType, SubmittedStable DEF RecordInv, PlacementInv
<1>3. \A q \in Runs : /\ phase'[q] # "admitted"
                      /\ phase'[q] = "queued" <=> phase[q] = "queued"
                      /\ StatusIn(phase'[q]) = StatusIn(phase[q])
  BY <1>1 DEF Executing, StatusIn
<1>4. RecoveryAlone' /\ RecoveryFirst' /\ AdmittedOnTop'
  BY <1>2, <1>3, PlainEmpty, PlainNow
<1>5. QueuesHoldQueued'
  BY <1>2, <1>3, QueuesKept DEF RecordInv
<1>6. RowsMatch'
  BY <1>1, <1>2, <1>3, RowsNow
<1>7. QED  BY <1>4, <1>5, <1>6

\* A run leaves its queue to be started: the records.
LEMMA DequeuedRecords ==
    ASSUME RecordInv, UNCHANGED input, ~Recovering, NEW key \in QueueKeys,
           NEW i \in DOMAIN queues[key], NEW rest \in Seq(Call), Plain(rest),
           \A q \in Runs : phase[q] # "admitted", Dequeue(key, i, rest)
    PROVE  /\ RecoveryAlone' /\ RecoveryFirst' /\ AdmittedOnTop'
           /\ QueuesHoldQueued' /\ RowsMatch'
<1> DEFINE r == queues[key][i]
<1>1. /\ r \in Submitted /\ r \in Runs /\ phase[r] = "queued"
      /\ phase \in [Runs -> Phase] /\ Submitted \subseteq Runs
      /\ Submitted' = Submitted
  BY WaitsInItsQueue, SubmittedType, SubmittedStable
  DEF RecordInv, PlacementInv, TypeOK
<1>2. /\ queues' = [queues EXCEPT ![key] = RemoveAt(@, i)]
      /\ phase' = [phase EXCEPT ![r] = "admitted"]
      /\ calls' = <<CallRun("startExistingRun", r)>> \o rest
      /\ row' = row
  BY DEF Dequeue
<1>3. \A s \in Runs : phase'[s] = IF s = r THEN "admitted" ELSE phase[s]
  BY <1>1, <1>2
<1>4. RecoveryAlone' /\ RecoveryFirst' /\ AdmittedOnTop'
  BY <1>1, <1>2, <1>3, AdmittedNow
<1>5. QueuesHoldQueued'
  BY <1>2, QueueLoses
<1>6. \A s \in Submitted : StatusIn(phase'[s]) = StatusIn(phase[s])
  BY <1>1, <1>3 DEF StatusIn
<1>7. RowsMatch'
  BY <1>2, <1>6, RowsNow
<1>8. QED  BY <1>4, <1>5, <1>7

\* A run leaves its queue because it is canceled: the records.
LEMMA RemovedRecords ==
    ASSUME RecordInv, UNCHANGED input, ~Recovering, NEW key \in QueueKeys,
           NEW i \in DOMAIN queues[key], NEW rest \in Seq(Call), Plain(rest),
           \A q \in Runs : phase[q] # "admitted",
           RemoveQueuedRun(key, i, rest)
    PROVE  /\ RecoveryAlone' /\ RecoveryFirst' /\ AdmittedOnTop'
           /\ QueuesHoldQueued' /\ RowsMatch'
<1> DEFINE r == queues[key][i]
           next == CallAlone("startNextPersistentRuns")
           publish == CallRun("publishQueuedCancel", r)
<1>1. /\ r \in Submitted /\ r \in Runs /\ phase[r] = "queued"
      /\ phase \in [Runs -> Phase] /\ row \in [Runs -> Row]
      /\ Submitted \subseteq Runs /\ Submitted' = Submitted
  BY WaitsInItsQueue, SubmittedType, SubmittedStable
  DEF RecordInv, PlacementInv, TypeOK
<1>2. /\ queues' = [queues EXCEPT ![key] = RemoveAt(@, i)]
      /\ phase' = [phase EXCEPT ![r] = "idle"]
      /\ calls' = <<next, publish>> \o rest
      /\ row' = [row EXCEPT ![r] = RowOf("canceled", "canceled", "none")]
  BY DEF RemoveQueuedRun
<1>3. \A s \in Runs : phase'[s] = IF s = r THEN "idle" ELSE phase[s]
  BY <1>1, <1>2
<1>4. calls' \in Seq(Call) /\ Plain(calls')
  <2>1. <<next, publish>> \in Seq(Call)
    BY <1>1, CallTypes
  <2>2. next.op = "startNextPersistentRuns" /\ publish.op = "publishQueuedCancel"
    BY DEF CallAlone, CallRun
  <2>3. Plain(<<next, publish>>)
    <3>1. ToSet(<<next, publish>>) = {next, publish}
      BY DEF ToSet
    <3>2. QED  BY <2>2, <3>1 DEF Plain
  <2> DEFINE first == <<next, publish>>
  <2>4. first \in Seq(Call) /\ Plain(first) /\ calls' = first \o rest
    BY <1>2, <2>1, <2>3
  <2> HIDE DEF first
  <2>5. QED  BY <2>4, PlainConcat
<1>5. RecoveryAlone' /\ RecoveryFirst' /\ AdmittedOnTop'
  <2>1. Call' = Call
    BY SubmittedStable
  <2>2. QED  BY <1>1, <1>3, <1>4, <2>1, PlainNow
<1>6. QueuesHoldQueued'
  BY <1>2, QueueLoses
<1>7. \A s \in Submitted :
         \/ row'[s].public \in StatusIn(phase'[s])
         \/ /\ row'[s].public = row[s].public
            /\ StatusIn(phase'[s]) = StatusIn(phase[s])
  BY <1>1, <1>2, <1>3 DEF StatusIn, RowOf, TerminalStatus, Executing
<1>8. RowsMatch'
  <2>1. \A s \in Runs \ Submitted : row'[s].public = row[s].public
    BY <1>1, <1>2
  <2>2. QED  BY <1>7, <2>1, RowsNow
<1>9. QED  BY <1>5, <1>6, <1>8

\* A new database has no runs.
LEMMA RecordInit == Init => RecordInv
<1> SUFFICES ASSUME Init  PROVE RecordInv
  OBVIOUS
<1>1. PlacementInv
  BY PlacementInit
<1>2. calls = <<>> /\ phase = [r \in Runs |-> "idle"] /\ input = <<>>
  BY DEF Init
<1>3. ~Recovering
  BY <1>2, RecoveryTop
<1>4. RecoveryAlone /\ RecoveryFirst
  BY <1>2, <1>3 DEF RecoveryAlone, RecoveryFirst, ToSet
<1>5. Submitted = {}
  BY <1>2 DEF Submitted
<1>6. AdmittedOnTop
  BY <1>5 DEF AdmittedOnTop
<1>7. QueuesHoldQueued
  BY <1>5 DEF Init, QueuesHoldQueued, QueueSet, ToSet, IsInjective
<1>8. RowsMatch
  BY <1>5 DEF Init, RowsMatch, RowOf
<1>9. QED  BY <1>1, <1>4, <1>6, <1>7, <1>8 DEF RecordInv

\* The end or the launch of a run: startExistingRun leaves the stack.
LEMMA AdmittedLeaves ==
    ASSUME RecordInv, UNCHANGED <<input, queues>>, NEW r,
           OnTop(CallRun("startExistingRun", r)),
           calls' \in Seq(Call), Plain(calls'),
           NEW where \in Executing \cup {"idle"}, NEW new,
           phase' = [phase EXCEPT ![r] = where],
           row' = [row EXCEPT ![r] = new],
           new.public \in StatusIn(where)
    PROVE  /\ RecoveryAlone' /\ RecoveryFirst' /\ AdmittedOnTop'
           /\ QueuesHoldQueued' /\ RowsMatch'
<1>1. /\ r \in Submitted /\ r \in Runs /\ phase[r] = "admitted"
      /\ \A q \in Runs : phase[q] = "admitted" => q = r
      /\ ~Recovering
  BY OneAdmitted
<1>2. /\ phase \in [Runs -> Phase] /\ row \in [Runs -> Row]
      /\ Submitted \subseteq Runs /\ Submitted' = Submitted
  BY SubmittedType, SubmittedStable DEF RecordInv, PlacementInv, TypeOK
<1>3. \A s \in Runs : /\ phase'[s] = IF s = r THEN where ELSE phase[s]
                      /\ row'[s] = IF s = r THEN new ELSE row[s]
  BY <1>1, <1>2
<1>4. where # "queued" /\ where # "admitted"
  BY DEF Executing
<1>5. RecoveryAlone' /\ RecoveryFirst' /\ AdmittedOnTop'
  BY <1>1, <1>2, <1>3, <1>4, PlainNow, SubmittedStable
<1>6. QueuesHoldQueued'
  BY <1>1, <1>2, <1>3, <1>4, QueuesKept DEF RecordInv
<1>7. RowsMatch'
  BY <1>1, <1>2, <1>3, RowsNow
<1>8. QED  BY <1>5, <1>6, <1>7

\* completeThreadRun calls nothing but the two functions that start runs.
LEMMA CompletionPlain ==
    ASSUME TypeOK, NEW r \in Submitted
    PROVE  CompletionCalls(r) \in Seq(Call) /\ Plain(CompletionCalls(r))
<1> DEFINE persistent == CallAlone("startNextPersistentRuns")
           thread == CallThread(ThreadOf(r))
<1>1. CompletionCalls(r) \in Seq(Call)
  BY SubmittedType, CompletionCallsType
<1>2. /\ persistent.op = "startNextPersistentRuns"
      /\ thread.op = "startNextQueuedThreadRun"
  BY DEF CallAlone, CallThread
<1>3. ToSet(CompletionCalls(r)) = {persistent, thread}
  BY DEF CompletionCalls, ToSet
<1>4. QED  BY <1>1, <1>2, <1>3 DEF Plain

\* A step that writes no row and no place and ends the plain call on top, or
\* makes others.
LEMMA PlainStep ==
    ASSUME RecordInv, UNCHANGED <<input, queues, phase>>, ~Recovering,
           \A q \in Runs : phase[q] # "admitted",
           calls' \in Seq(Call), Plain(calls'),
           \A s \in Runs : row'[s].public = row[s].public
    PROVE  /\ RecoveryAlone' /\ RecoveryFirst' /\ AdmittedOnTop'
           /\ QueuesHoldQueued' /\ RowsMatch'
<1>1. Submitted \subseteq Runs /\ Submitted' = Submitted
  BY SubmittedType, SubmittedStable DEF RecordInv, PlacementInv
<1>2. RecoveryAlone' /\ RecoveryFirst' /\ AdmittedOnTop'
  BY <1>1, PlainNow, SubmittedStable
<1>3. QueuesHoldQueued'
  BY QueuesKept DEF RecordInv
<1>4. RowsMatch'
  BY <1>1, RowsNow
<1>5. QED  BY <1>2, <1>3, <1>4

\* Stacks of one and of two calls.
LEMMA ShortStacks ==
    ASSUME NEW a, NEW b
    PROVE  /\ Tail(<<a, b>>) = <<b>> /\ Tail(<<b>>) = <<>>
           /\ <<a>> \o <<b>> = <<a, b>>
<1>1. /\ <<a>> \in Seq({a, b}) /\ <<b>> \in Seq({a, b})
      /\ <<a, b>> \in Seq({a, b})
  OBVIOUS
<1>2. <<a>> \o <<b>> = <<a, b>>
  <2> DEFINE s == <<a>>
             t == <<b>>
             u == <<a, b>>
             v == s \o t
  <2>1. /\ s \in Seq({a, b}) /\ Len(s) = 1 /\ s[1] = a
        /\ t \in Seq({a, b}) /\ Len(t) = 1 /\ t[1] = b
        /\ u \in Seq({a, b}) /\ Len(u) = 2 /\ u[1] = a /\ u[2] = b
    BY <1>1
  <2> HIDE DEF s, t, u
  <2>2. /\ v \in Seq({a, b}) /\ Len(v) = Len(s) + Len(t)
        /\ \A i \in 1..(Len(s) + Len(t)) :
              v[i] = IF i <= Len(s) THEN s[i] ELSE t[i - Len(s)]
    BY <2>1, ConcatProperties
  <2> HIDE DEF v
  <2>3. Len(v) = Len(u) /\ \A i \in 1..Len(v) : v[i] = u[i]
    <3>1. Len(v) = 2 /\ v[1] = a /\ v[2] = b
      BY <2>1, <2>2
    <3>2. QED  BY <2>1, <3>1
  <2>4. v = u
    BY <2>1, <2>2, <2>3, SeqEqual
  <2>5. QED  BY <2>4 DEF s, t, u, v
<1>3. Tail(<<b>>) = <<>>
  BY <1>1
<1>4. Tail(<<a, b>>) = <<b>>
  <2> DEFINE s == <<a, b>>
             t == <<b>>
  <2>1. /\ s \in Seq({a, b}) /\ s # <<>> /\ Len(s) = 2 /\ s[2] = b
        /\ t \in Seq({a, b}) /\ Len(t) = 1 /\ t[1] = b
    BY <1>1
  <2> HIDE DEF s, t
  <2> DEFINE u == Tail(s)
  <2>2. /\ u \in Seq({a, b}) /\ Len(u) = Len(s) - 1
        /\ \A i \in 1..Len(u) : u[i] = s[i + 1]
    BY <2>1, HeadTailProperties
  <2> HIDE DEF u
  <2>3. Len(u) = Len(t) /\ \A i \in 1..Len(u) : u[i] = t[i]
    <3>1. Len(u) = 1 /\ u[1] = b
      BY <2>1, <2>2
    <3>2. QED  BY <2>1, <3>1
  <2>4. u = t
    BY <2>1, <2>2, <2>3, SeqEqual
  <2>5. QED  BY <2>4 DEF s, t, u
<1>5. QED  BY <1>2, <1>3, <1>4

\* The events of an orphan go back to the loop over the orphans.
LEMMA RecoveryGoesBack ==
    ASSUME RecordInv, NEW r \in Runs, RecoverEvents(r)
    PROVE  /\ Recovering /\ calls' = <<CallAlone("recover")>>
           /\ r \in Submitted
<1>1. /\ CallAlone("recover").op = "recover"
      /\ CallRun("recoverEvents", r).op = "recoverEvents"
  BY DEF CallAlone, CallRun
<1>2. /\ OnTop(CallRun("recoverEvents", r)) /\ TypeOK
      /\ calls # <<>> /\ Head(calls).op = "recoverEvents"
      /\ calls' = Tail(calls)
  BY <1>1 DEF RecoverEvents, OnTop, RecordInv, PlacementInv
<1>3. Recovering
  BY <1>1, <1>2, TopTells
<1>4. calls # <<CallAlone("recover")>>
  BY <1>1, <1>2
<1>5. calls' = <<CallAlone("recover")>>
  BY <1>2, <1>3, <1>4, ShortStacks DEF Recovering
<1>6. r \in Submitted
  BY <1>2, TopCall, RunOfCall
<1>7. QED  BY <1>3, <1>5, <1>6

\* The loop over the orphans takes one of them, or ends.
LEMMA RecoveryGoesOn ==
    ASSUME RecordInv, RecoverOrphan
    PROVE  /\ Recovering
           /\ \/ \E r \in Submitted :
                    /\ ~Terminal(r)
                    /\ row' = [row EXCEPT ![r] =
                                  RowOf("failed", "orphaned", @.queue)]
                    /\ calls' = <<CallRun("recoverEvents", r),
                                  CallAlone("recover")>>
              \/ /\ \A r \in Submitted : Terminal(r)
                 /\ calls' = <<>> /\ UNCHANGED row
<1>1. /\ CallAlone("recover").op = "recover"
      /\ \A r : CallRun("recoverEvents", r).op = "recoverEvents"
  BY DEF CallAlone, CallRun
<1>2. /\ Recovering /\ calls # <<>> /\ Head(calls) = CallAlone("recover")
  BY <1>1, TopTells DEF RecoverOrphan, OnTop
<1>3. \A r : calls # <<CallRun("recoverEvents", r), CallAlone("recover")>>
  BY <1>1, <1>2
<1>4. calls = <<CallAlone("recover")>>
  BY <1>2, <1>3 DEF Recovering
<1>5. \A r : <<CallRun("recoverEvents", r)>> \o calls
                = <<CallRun("recoverEvents", r), CallAlone("recover")>>
  BY <1>4, ShortStacks
<1>6. Tail(calls) = <<>>
  BY <1>4, ShortStacks
<1>7. QED  BY <1>2, <1>5, <1>6 DEF RecoverOrphan

\* What the daemon does while it recovers the orphans of its last session.
LEMMA RecoveryRecords ==
    ASSUME RecordInv, RecoverOrphan \/ \E r \in Runs : RecoverEvents(r)
    PROVE  /\ RecoveryAlone' /\ RecoveryFirst' /\ AdmittedOnTop'
           /\ QueuesHoldQueued' /\ RowsMatch'
<1>0. /\ CallAlone("recover").op = "recover"
      /\ \A r : CallRun("recoverEvents", r).op = "recoverEvents"
      /\ \A r : CallRun("startExistingRun", r).op = "startExistingRun"
  BY DEF CallAlone, CallRun
<1>1. /\ Recovering /\ UNCHANGED <<input, queues, phase>>
  BY <1>0, TopTells DEF RecoverOrphan, RecoverEvents
<1>2. /\ \A q \in Runs : phase[q] = "idle"
      /\ Submitted \subseteq Runs /\ Submitted' = Submitted
      /\ row \in [Runs -> Row]
  BY <1>1, SubmittedType, SubmittedStable
  DEF RecordInv, RecoveryFirst, PlacementInv, TypeOK
<1>3. QueuesHoldQueued'
  BY <1>1, QueuesKept DEF RecordInv
<1>4. ASSUME Recovering', RowsMatch'
      PROVE  /\ RecoveryAlone' /\ RecoveryFirst' /\ AdmittedOnTop'
             /\ RowsMatch'
  <2>1. RecoveryAlone' /\ RecoveryFirst'
    BY <1>1, <1>2, <1>4 DEF RecoveryAlone, RecoveryFirst
  <2>2. \A q : ~OnTop(CallRun("startExistingRun", q))'
    BY <1>0, <1>4, RecoveryTopNow DEF OnTop
  <2>3. AdmittedOnTop'
    BY <1>1, <1>2, <2>2 DEF AdmittedOnTop
  <2>4. QED  BY <1>4, <2>1, <2>3
<1>5. ASSUME NEW r \in Runs, RecoverEvents(r)
      PROVE  Recovering' /\ RowsMatch'
  <2>1. calls' = <<CallAlone("recover")>>
    BY <1>5, RecoveryGoesBack
  <2>4. Recovering'
    BY <2>1 DEF Recovering, CallAlone
  <2>5. QED
    BY <1>1, <1>2, <1>5, <2>4 DEF RecoverEvents, RecordInv, RowsMatch
<1>6. ASSUME RecoverOrphan
      PROVE  /\ RecoveryAlone' /\ RecoveryFirst' /\ AdmittedOnTop'
             /\ RowsMatch'
  <2>2. ASSUME NEW r \in Submitted,
               row' = [row EXCEPT ![r] = RowOf("failed", "orphaned", @.queue)],
               calls' = <<CallRun("recoverEvents", r), CallAlone("recover")>>
        PROVE  Recovering' /\ RowsMatch'
    <3>2. Recovering'
      BY <1>2, <2>2 DEF Recovering, CallAlone, CallRun
    <3>3. \A s \in Runs : row'[s].public = IF s = r THEN "failed"
                                           ELSE row[s].public
      BY <1>2, <2>2 DEF RowOf
    <3>4. \A s \in Runs : phase'[s] = "idle"
      BY <1>1, <1>2
    <3>5. RowsMatch'
      BY <1>1, <1>2, <3>2, <3>3, <3>4
      DEF RecordInv, RowsMatch, StatusIn, TerminalStatus, Executing
    <3>6. QED  BY <3>2, <3>5
  <2>3. ASSUME \A r \in Submitted : Terminal(r), calls' = <<>>,
               UNCHANGED row
        PROVE  /\ RecoveryAlone' /\ RecoveryFirst' /\ AdmittedOnTop'
               /\ RowsMatch'
    <3>2. RecoveryAlone' /\ RecoveryFirst' /\ AdmittedOnTop'
      <4>1. \A q \in Runs : phase'[q] # "admitted"
        BY <1>1, <1>2
      <4>2. calls' \in Seq(Call) /\ Plain(calls') /\ Call' = Call
        BY <2>3, <1>1, PlainEmpty, SubmittedStable
      <4>3. QED  BY <1>2, <4>1, <4>2, PlainNow
    <3>3. \A s \in Submitted : row'[s].public \in StatusIn(phase'[s])
      BY <1>1, <1>2, <2>3 DEF StatusIn, Terminal, Executing
    <3>4. RowsMatch'
      BY <1>2, <2>3, <3>3 DEF RecordInv, RowsMatch
    <3>5. QED  BY <3>2, <3>4
  <2>4. CASE \E r \in Submitted :
               /\ row' = [row EXCEPT ![r] =
                             RowOf("failed", "orphaned", @.queue)]
               /\ calls' = <<CallRun("recoverEvents", r),
                             CallAlone("recover")>>
    BY <2>4, <2>2, <1>4
  <2>5. CASE /\ \A r \in Submitted : Terminal(r)
             /\ calls' = <<>> /\ UNCHANGED row
    BY <2>5, <2>3
  <2>6. QED  BY <1>6, <2>4, <2>5, RecoveryGoesOn
<1>7. QED  BY <1>3, <1>4, <1>5, <1>6

\* A submitted run is in the queue it is for, or it is admitted.
LEMMA StartRunRecords ==
    ASSUME RecordInv, NEW t \in Threads, NEW origin \in Origins,
           NEW mode \in Modes, StartRun(t, origin, mode)
    PROVE  /\ RecoveryAlone' /\ RecoveryFirst' /\ AdmittedOnTop'
           /\ QueuesHoldQueued' /\ RowsMatch'
<1> DEFINE request == [thread |-> t, origin |-> origin, mode |-> mode]
           persistent == AppServer /\ origin = "api"
           key == IF persistent THEN PersistentQueue ELSE t
<1>1. /\ TypeOK /\ calls = <<>> /\ ~Recovering
      /\ \A q \in Runs : phase[q] # "admitted"
      /\ phase \in [Runs -> Phase] /\ row \in [Runs -> Row]
      /\ Submitted \subseteq Runs
  BY NothingUnderWay, SubmittedType
  DEF StartRun, Idle, RecordInv, PlacementInv, TypeOK
<1>2. PICK r \in Runs :
        /\ r = Len(input) + 1 /\ input' = Append(input, request)
        /\ IF MustQueue(t, persistent)
             THEN QueueRun(r, request, persistent)
             ELSE AdmitRun(r)
  BY DEF StartRun
<1>3. /\ Submitted' = Submitted \cup {r} /\ r \notin Submitted
      /\ \A s \in Submitted : /\ ThreadOf(s)' = ThreadOf(s)
                              /\ IsPersistent(s)' = IsPersistent(s)
      /\ ThreadOf(r)' = t /\ IsPersistent(r)' = persistent
  <2>1. /\ input \in Seq(Input) /\ request \in Input
        /\ Len(input) \in Nat /\ DOMAIN input = 1..Len(input)
    BY <1>1, LenProperties DEF TypeOK, Input
  <2>2. /\ Len(input') = r /\ DOMAIN input' = 1..r
        /\ input'[r] = request
        /\ \A s \in 1..Len(input) : input'[s] = input[s]
    BY <1>2, <2>1, AppendProperties
  <2>3. Submitted' = Submitted \cup {r} /\ r \notin Submitted
    BY <1>2, <2>1, <2>2 DEF Submitted
  <2>4. ThreadOf(r)' = t /\ IsPersistent(r)' = persistent
    BY <2>2 DEF ThreadOf, IsPersistent
  <2>5. \A s \in Submitted : /\ ThreadOf(s)' = ThreadOf(s)
                             /\ IsPersistent(s)' = IsPersistent(s)
    BY <2>1, <2>2 DEF Submitted, ThreadOf, IsPersistent
  <2>6. QED  BY <2>3, <2>4, <2>5
<1>4. /\ key \in QueueKeys
      /\ \A k \in QueueKeys :
            QueueSet(k)' = IF k = key THEN QueueSet(k) \cup {r} ELSE QueueSet(k)
  BY <1>3, RunManagerAssumption DEF QueueSet, QueueKeys
<1>5. /\ phase[r] = "idle"
      /\ \A k \in QueueKeys : QueueSet(k) \subseteq Submitted
      /\ \A k \in QueueKeys : queues[k] \in Seq(Runs)
      /\ \A k \in QueueKeys : r \notin ToSet(queues[k])
  <2>1. \A k \in QueueKeys : queues[k] \in Seq(Runs)
    BY <1>1, SeqMonotonic DEF TypeOK
  <2>2. QED
    BY <1>1, <1>3, <2>1
    DEF TypeOK, QueueSet, RecordInv, QueuesHoldQueued
<1>6. CASE MustQueue(t, persistent)
  <2> DEFINE canceled == IF mode = "interrupt_and_enqueue"
                           THEN Interrupted(t) ELSE {}
  <2>1. /\ row' = [CancelingRows(row, canceled) EXCEPT
                     ![r] = RowOf("queued", "queued", "queued")]
        /\ phase' = [phase EXCEPT ![r] = "queued"]
        /\ calls' = calls
    BY <1>2, <1>6 DEF QueueRun
  <2>2. PICK i \in 1..(Len(queues[key]) + 1) :
               queues' = [queues EXCEPT ![key] = InsertAt(@, i, r)]
    BY <1>2, <1>6 DEF QueueRun
  <2>3. \A s \in Runs : phase'[s] = IF s = r THEN "queued" ELSE phase[s]
    BY <1>1, <2>1
  <2>4. RecoveryAlone' /\ RecoveryFirst' /\ AdmittedOnTop'
    <3>1. calls' \in Seq(Call') /\ Plain(calls')
      BY <1>1, <2>1, EmptySeq, PlainEmpty
    <3>2. \A q \in Runs : phase'[q] # "admitted"
      BY <1>1, <2>3
    <3>3. /\ calls' = <<>> /\ calls' \in Seq(Call) /\ Submitted' \subseteq Runs
      BY <1>1, <1>3, <2>1, EmptySeq
    <3>4. QED  BY <3>1, <3>2, <3>3, PlainNow
  <2>5. QueuesHoldQueued'
    <3>1. /\ IsInjective(InsertAt(queues[key], i, r))
          /\ ToSet(InsertAt(queues[key], i, r)) = ToSet(queues[key]) \cup {r}
      BY <1>4, <1>5, InsertAtElements DEF RecordInv, QueuesHoldQueued
    <3>2. ASSUME NEW k \in QueueKeys
          PROVE  /\ IsInjective(queues'[k])
                 /\ ToSet(queues'[k])
                       = {s \in QueueSet(k)' : phase'[s] = "queued"}
      <4>1. /\ IsInjective(queues[k])
            /\ ToSet(queues[k]) = {s \in QueueSet(k) : phase[s] = "queued"}
        BY DEF RecordInv, QueuesHoldQueued
      <4>2. queues'[k] = IF k = key THEN InsertAt(queues[key], i, r)
                                    ELSE queues[k]
        BY <1>1, <1>4, <2>2 DEF TypeOK
      <4>3. r \notin QueueSet(k) /\ QueueSet(k) \subseteq Runs
        BY <1>1, <1>3, <1>5
      <4>4. QED  BY <1>4, <2>3, <3>1, <4>1, <4>2, <4>3
    <3>3. QED  BY <3>2 DEF QueuesHoldQueued
  <2>6. RowsMatch'
    <3>1. canceled \subseteq ActiveRuns
      BY DEF Interrupted
    <3>2. \A s \in Runs : CancelingRows(row, canceled)[s].public = row[s].public
      BY <1>1, <3>1, CancelingIsRunning
    <3>3. CancelingRows(row, canceled) \in [Runs -> Row]
      BY <1>1, CancelingRowsType
    <3>4. \A s \in Runs : row'[s].public = IF s = r THEN "queued"
                                           ELSE row[s].public
      BY <2>1, <3>2, <3>3 DEF RowOf
    <3>5. QED
      BY <1>1, <1>3, <2>3, <3>4 DEF RecordInv, RowsMatch, StatusIn
  <2>7. QED  BY <2>4, <2>5, <2>6
<1>7. CASE ~MustQueue(t, persistent)
  <2>1. /\ row' = [row EXCEPT ![r] = RowOf("queued", "created", "none")]
        /\ phase' = [phase EXCEPT ![r] = "admitted"]
        /\ calls' = <<CallRun("startExistingRun", r)>>
        /\ queues' = queues
    BY <1>2, <1>7 DEF AdmitRun
  <2>2. \A s \in Runs : phase'[s] = IF s = r THEN "admitted" ELSE phase[s]
    BY <1>1, <2>1
  <2>3. RecoveryAlone' /\ RecoveryFirst' /\ AdmittedOnTop'
    <3>1. calls' = <<CallRun("startExistingRun", r)>> \o <<>>
      BY <2>1
    <3>2. QED  BY <1>1, <1>3, <2>2, <3>1, PlainEmpty, AdmittedNow
  <2>4. QueuesHoldQueued'
    <3>1. \A k \in QueueKeys :
             {s \in QueueSet(k)' : phase'[s] = "queued"}
                = {s \in QueueSet(k) : phase[s] = "queued"}
      BY <1>1, <1>3, <1>4, <1>5, <2>2
    <3>2. QED  BY <2>1, <3>1 DEF RecordInv, QueuesHoldQueued
  <2>5. RowsMatch'
    <3>1. \A s \in Runs : row'[s].public = IF s = r THEN "queued"
                                           ELSE row[s].public
      BY <1>1, <2>1 DEF RowOf
    <3>2. QED
      BY <1>1, <1>3, <2>2, <3>1 DEF RecordInv, RowsMatch, StatusIn
  <2>6. QED  BY <2>3, <2>4, <2>5
<1>8. QED  BY <1>6, <1>7

\* Every step of the daemon keeps the records, action by action.
LEMMA RecordStep == RecordInv /\ [Next]_vars => RecordInv'
<1> DEFINE Kept == /\ RecoveryAlone' /\ RecoveryFirst' /\ AdmittedOnTop'
                   /\ QueuesHoldQueued' /\ RowsMatch'
<1> SUFFICES ASSUME RecordInv, [Next]_vars  PROVE Kept
  BY PlacementStep DEF RecordInv
<1>a. /\ PlacementInv /\ TypeOK /\ Submitted \subseteq Runs
      /\ phase \in [Runs -> Phase] /\ row \in [Runs -> Row]
  BY SubmittedType DEF RecordInv, PlacementInv, TypeOK
<1>b. /\ \A r : CallRun("publishQueuedCancel", r).op = "publishQueuedCancel"
      /\ \A t : CallThread(t).op = "startNextQueuedThreadRun"
      /\ \A f : CallAlone(f).op = f
  BY DEF CallRun, CallThread, CallAlone
<1>1. ASSUME NEW r \in Runs, Launch(r)  PROVE Kept
  <2> DEFINE new == RowOf("running", "running", "started")
  <2>1. /\ OnTop(CallRun("startExistingRun", r)) /\ calls' = Tail(calls)
        /\ phase' = [phase EXCEPT ![r] = "preparing"]
        /\ row' = [row EXCEPT ![r] = new]
        /\ UNCHANGED <<input, queues>>
    BY <1>1 DEF Launch
  <2>2. calls' \in Seq(Call) /\ Plain(calls')
    BY <2>1, OneAdmitted
  <2>3. "preparing" \in Executing /\ new.public \in StatusIn("preparing")
    BY DEF StatusIn, Executing, RowOf
  <2> HIDE DEF new
  <2>4. QED  BY <2>1, <2>2, <2>3, AdmittedLeaves
<1>2. ASSUME NEW r \in Runs, FailBeforeSpawn(r)  PROVE Kept
  <2> DEFINE new == RowOf("failed", "failed", "none")
  <2>1. /\ OnTop(CallRun("startExistingRun", r))
        /\ calls' = CompletionCalls(r) \o Tail(calls)
        /\ phase' = [phase EXCEPT ![r] = "idle"]
        /\ row' = [row EXCEPT ![r] = new]
        /\ UNCHANGED <<input, queues>>
    BY <1>2 DEF FailBeforeSpawn
  <2>2. calls' \in Seq(Call) /\ Plain(calls')
    <3>1. /\ CompletionCalls(r) \in Seq(Call) /\ Plain(CompletionCalls(r))
          /\ Tail(calls) \in Seq(Call) /\ Plain(Tail(calls))
      BY <1>a, <2>1, OneAdmitted, CompletionPlain
    <3>2. QED  BY <2>1, <3>1, PlainConcat
  <2>3. new.public \in StatusIn("idle")
    BY DEF StatusIn, Executing, RowOf, TerminalStatus
  <2> HIDE DEF new
  <2>4. QED  BY <2>1, <2>2, <2>3, AdmittedLeaves
<1>3. ASSUME StartNextPersistentRuns  PROVE Kept
  <2>1. /\ calls \in Seq(Call) /\ Plain(calls)
        /\ Tail(calls) \in Seq(Call) /\ Plain(Tail(calls))
        /\ ~Recovering /\ \A q \in Runs : phase[q] # "admitted"
        /\ UNCHANGED input /\ PersistentQueue \in QueueKeys
    BY <1>3, <1>b, PlainAll, NoneAdmitted
    DEF StartNextPersistentRuns, QueueKeys
  <2>2. CASE \E i \in DOMAIN queues[PersistentQueue] :
               Dequeue(PersistentQueue, i, calls)
    BY <2>1, <2>2, DequeuedRecords
  <2>3. CASE calls' = Tail(calls) /\ UNCHANGED <<row, phase, queues>>
    BY <2>1, <2>3, PlainStep
  <2>4. QED  BY <1>3, <2>2, <2>3 DEF StartNextPersistentRuns
<1>4. ASSUME NEW t \in Threads, StartNextQueuedThreadRun(t)  PROVE Kept
  <2>1. /\ calls \in Seq(Call) /\ Plain(calls)
        /\ Tail(calls) \in Seq(Call) /\ Plain(Tail(calls))
        /\ ~Recovering /\ \A q \in Runs : phase[q] # "admitted"
        /\ UNCHANGED input /\ t \in QueueKeys
    BY <1>4, <1>b, PlainAll, NoneAdmitted
    DEF StartNextQueuedThreadRun, QueueKeys
  <2>2. CASE queues[t] # <<>> /\ Dequeue(t, 1, Tail(calls))
    <3>1. 1 \in DOMAIN queues[t]
      BY <1>a, <2>1, <2>2 DEF TypeOK
    <3>2. QED  BY <2>1, <2>2, <3>1, DequeuedRecords
  <2>3. CASE calls' = Tail(calls) /\ UNCHANGED <<row, phase, queues>>
    BY <2>1, <2>3, PlainStep
  <2>4. QED  BY <1>4, <2>2, <2>3 DEF StartNextQueuedThreadRun
<1>5. ASSUME NEW r \in Runs, PublishQueuedCancel(r)  PROVE Kept
  <2>1. /\ Tail(calls) \in Seq(Call) /\ Plain(Tail(calls))
        /\ ~Recovering /\ \A q \in Runs : phase[q] # "admitted"
    BY <1>5, <1>b, PlainAll, NoneAdmitted DEF PublishQueuedCancel
  <2>2. /\ calls' = Tail(calls)
        /\ UNCHANGED <<input, row, phase, queues>>
    BY <1>5 DEF PublishQueuedCancel
  <2>3. QED  BY <2>1, <2>2, PlainStep
<1>6. ASSUME CancelAll  PROVE Kept
  <2>1. /\ calls \in Seq(Call) /\ Plain(calls)
        /\ Tail(calls) \in Seq(Call) /\ Plain(Tail(calls))
        /\ ~Recovering /\ \A q \in Runs : phase[q] # "admitted"
        /\ UNCHANGED input
    BY <1>6, <1>b, PlainAll, NoneAdmitted DEF CancelAll
  <2>2. ASSUME NEW k \in QueueKeys, queues[k] # <<>>,
               RemoveQueuedRun(k, 1, calls)
        PROVE  Kept
    <3>1. 1 \in DOMAIN queues[k]
      BY <1>a, <2>2 DEF TypeOK
    <3>2. QED  BY <2>1, <2>2, <3>1, RemovedRecords
  <2>3. CASE /\ CancelActive(ActiveRuns) /\ calls' = Tail(calls)
             /\ UNCHANGED <<phase, queues>>
    <3>1. \A s \in Runs : row'[s].public = row[s].public
      BY <2>1, <2>3, CancelingIsRunning DEF CancelActive
    <3>2. QED  BY <2>1, <2>3, <3>1, PlainStep
  <2>4. QED  BY <1>6, <2>2, <2>3 DEF CancelAll
<1>7. CASE RecoverOrphan \/ \E r \in Runs : RecoverEvents(r)
  BY <1>7, RecoveryRecords
<1>8. ASSUME NEW r \in Runs,
             \/ StartPersistentAttempt(r) \/ StartDirectAttempt(r)
             \/ EndTurn(r) \/ HandleResult(r) \/ Rotate(r) \/ PublishDone(r)
      PROVE  Kept
  <2>1. calls = <<>> /\ UNCHANGED <<input, queues, calls>> /\ row' = row
    BY <1>8
    DEF StartPersistentAttempt, StartDirectAttempt, EndTurn, HandleResult,
        Rotate, PublishDone, Ready, Idle
  <2>2. phase[r] \in Executing
    BY <1>8
    DEF StartPersistentAttempt, StartDirectAttempt, EndTurn, HandleResult,
        Rotate, PublishDone, Executing
  <2>3. \E new \in Executing : phase' = [phase EXCEPT ![r] = new]
    <3>1. CASE StartPersistentAttempt(r)
      BY <3>1 DEF StartPersistentAttempt, BeginTurn, FailAttempt, Executing
    <3>2. CASE StartDirectAttempt(r)
      BY <3>2 DEF StartDirectAttempt, BeginTurn, FailAttempt, Executing
    <3>3. CASE EndTurn(r) \/ HandleResult(r) \/ PublishDone(r)
      BY <3>3 DEF EndTurn, HandleResult, PublishDone, Executing
    <3>4. CASE Rotate(r)
      BY <3>4 DEF Rotate, BeginTurn, Executing
    <3>5. QED  BY <1>8, <3>1, <3>2, <3>3, <3>4
  <2>4. \A s \in Runs : \/ phase'[s] = phase[s]
                        \/ phase[s] \in Executing /\ phase'[s] \in Executing
    BY <1>a, <2>2, <2>3
  <2>5. QED  BY <2>1, <2>4, TaskRecords
<1>9. ASSUME NEW r \in Runs, FinishRun(r)  PROVE Kept
  <2> DEFINE status == StatusOf(outcome[r])
  <2>1. /\ calls = <<>> /\ phase[r] = "finalizing" /\ r \in Submitted
        /\ calls' = CompletionCalls(r) /\ UNCHANGED <<input, queues>>
        /\ phase' = [phase EXCEPT ![r] = "idle"]
        /\ row' = [row EXCEPT ![r] = RowOf(status, status, "none")]
    BY <1>9, <1>a DEF FinishRun, Idle, TypeOK
  <2>2. ~Recovering /\ \A q \in Runs : phase[q] # "admitted"
    BY <2>1, NothingUnderWay
  <2>3. \A s \in Runs : /\ phase'[s] = IF s = r THEN "idle" ELSE phase[s]
                        /\ s # r => row'[s] = row[s]
    BY <1>a, <2>1
  <2>4. row'[r].public \in TerminalStatus
    <3>1. status \in TerminalStatus
      BY DEF StatusOf, TerminalStatus
    <3>2. row'[r].public = status
      BY <1>a, <2>1 DEF RowOf
    <3>3. QED  BY <3>1, <3>2
  <2>5. RecoveryAlone' /\ RecoveryFirst' /\ AdmittedOnTop'
    <3>1. calls' \in Seq(Call') /\ Plain(calls')
      BY <1>a, <2>1, CompletionPlain, SubmittedStable
    <3>2. \A q \in Runs : phase'[q] # "admitted"
      BY <2>2, <2>3
    <3>3. calls' \in Seq(Call) /\ Submitted' \subseteq Runs
      BY <1>a, <2>1, <3>1, SubmittedStable
    <3>4. QED  BY <3>1, <3>2, <3>3, PlainNow
  <2>6. QueuesHoldQueued'
    <3>1. \A q \in Submitted : phase'[q] = "queued" <=> phase[q] = "queued"
      BY <1>a, <2>1, <2>3
    <3>2. QED  BY <2>1, <3>1, QueuesKept DEF RecordInv
  <2>7. RowsMatch'
    <3>1. \A s \in Submitted :
             \/ row'[s].public \in StatusIn(phase'[s])
             \/ /\ row'[s].public = row[s].public
                /\ StatusIn(phase'[s]) = StatusIn(phase[s])
      BY <1>a, <2>3, <2>4 DEF StatusIn, Executing
    <3>2. \A s \in Runs \ Submitted : row'[s].public = row[s].public
      BY <2>1, <2>3
    <3>3. QED  BY <2>1, <2>2, <3>1, <3>2, RowsNow
  <2>8. QED  BY <2>5, <2>6, <2>7
<1>10. ASSUME NEW r \in Submitted, CancelActiveRun(r)  PROVE Kept
  <2>1. /\ calls = <<>> /\ UNCHANGED <<input, queues, calls, phase>>
        /\ {r} \subseteq ActiveRuns /\ row' = CancelingRows(row, {r})
    BY <1>10 DEF CancelActiveRun, CancelActive, Idle
  <2>2. \A s \in Runs : row'[s].public = row[s].public
    BY <2>1, NothingUnderWay, CancelingIsRunning
  <2>3. QED  BY <2>1, <2>2, TaskRecords
<1>11. ASSUME NEW r \in Submitted, CancelQueuedRun(r)  PROVE Kept
  <2>1. ~Recovering /\ \A q \in Runs : phase[q] # "admitted"
    BY <1>11, NothingUnderWay DEF CancelQueuedRun, Idle
  <2>2. QED  BY <1>11, <2>1, PlainEmpty, RemovedRecords DEF CancelQueuedRun
<1>12. ASSUME NEW r \in Submitted, SteerRun(r)  PROVE Kept
  <2>1. /\ ~Recovering /\ \A q \in Runs : phase[q] # "admitted"
        /\ UNCHANGED <<input, phase>>
    BY <1>12, NothingUnderWay DEF SteerRun, Idle
  <2>2. PICK key \in QueueKeys : \E i \in DOMAIN queues[key] :
                /\ queues[key][i] = r
                /\ queues' = [queues EXCEPT ![key] = <<r>> \o RemoveAt(@, i)]
                /\ calls' = IF key = PersistentQueue
                              THEN <<CallAlone("startNextPersistentRuns")>>
                              ELSE <<>>
    BY <1>12 DEF SteerRun
  <2>3. PICK i \in DOMAIN queues[key] :
               /\ queues[key][i] = r
               /\ queues' = [queues EXCEPT ![key] = <<r>> \o RemoveAt(@, i)]
    BY <2>2
  <2>4. /\ IsInjective(<<r>> \o RemoveAt(queues[key], i))
        /\ ToSet(<<r>> \o RemoveAt(queues[key], i)) = ToSet(queues[key])
    <3>1. queues[key] \in Seq(Submitted) /\ IsInjective(queues[key])
      BY <1>a DEF TypeOK, RecordInv, QueuesHoldQueued
    <3>2. QED  BY <2>3, <3>1, MoveToFrontElements
  <2>5. QueuesHoldQueued'
    <3>1. \A k : QueueSet(k)' = QueueSet(k)
      BY <2>1, SubmittedStable DEF QueueSet
    <3>2. \A k \in QueueKeys : /\ IsInjective(queues'[k])
                               /\ ToSet(queues'[k]) = ToSet(queues[k])
      BY <1>a, <2>3, <2>4 DEF TypeOK, RecordInv, QueuesHoldQueued
    <3>3. QED
      BY <2>1, <3>1, <3>2 DEF RecordInv, QueuesHoldQueued
  <2>6. calls' \in Seq(Call) /\ Plain(calls')
    BY <1>b, <2>2, CallTypes, PlainSingle, PlainEmpty
  <2>7. RecoveryAlone' /\ RecoveryFirst' /\ AdmittedOnTop'
    <3>1. Submitted' \subseteq Runs /\ calls' \in Seq(Call')
      BY <1>a, <2>1, <2>6, SubmittedStable
    <3>2. QED  BY <2>1, <2>6, <3>1, PlainNow
  <2>8. RowsMatch'
    <3>1. Interrupted(ThreadOf(r)) \subseteq ActiveRuns
      BY DEF Interrupted
    <3>2. row' = CancelingRows(row, Interrupted(ThreadOf(r)))
      BY <1>12 DEF SteerRun, CancelActive
    <3>3. \A s \in Runs : row'[s].public = row[s].public
      BY <2>1, <3>1, <3>2, CancelingIsRunning
    <3>4. QED  BY <1>a, <2>1, <3>3, RowsNow
  <2>9. QED  BY <2>5, <2>7, <2>8
<1>13. ASSUME SignOut \/ Close  PROVE Kept
  <2>1. ~Recovering /\ \A q \in Runs : phase[q] # "admitted"
    BY <1>13, NothingUnderWay DEF SignOut, Close, Idle
  <2>2. calls' = <<CallAlone("cancelAll")>>
    BY <1>13 DEF SignOut, Close
  <2>3. calls' \in Seq(Call) /\ Plain(calls')
    BY <1>b, <2>2, CallTypes, PlainSingle
  <2>4. UNCHANGED <<input, queues, phase, row>>
    BY <1>13 DEF SignOut, Close, persisted
  <2>5. QED  BY <2>1, <2>3, <2>4, PlainStep
<1>14. ASSUME Restart  PROVE Kept
  <2>1. /\ calls' = <<CallAlone("recover")>> /\ UNCHANGED <<input, row>>
        /\ \A q \in Runs : phase'[q] = "idle"
        /\ \A k \in QueueKeys : queues'[k] = <<>>
    BY <1>14 DEF Restart
  <2>2. Recovering'
    BY <2>1 DEF Recovering, CallAlone
  <2>3. RecoveryAlone' /\ RecoveryFirst'
    BY <2>1, <2>2 DEF RecoveryAlone, RecoveryFirst
  <2>4. AdmittedOnTop'
    <3>1. \A q : CallRun("startExistingRun", q).op = "startExistingRun"
      BY DEF CallRun
    <3>2. \A q : ~OnTop(CallRun("startExistingRun", q))'
      BY <2>2, <3>1, RecoveryTopNow DEF OnTop
    <3>3. QED  BY <1>a, <2>1, <3>2, SubmittedStable DEF AdmittedOnTop
  <2>5. QueuesHoldQueued'
    <3>1. \A k : QueueSet(k)' \subseteq Runs
      BY <1>a, <2>1, SubmittedStable DEF QueueSet
    <3>2. \A k \in QueueKeys :
             IsInjective(queues'[k]) /\ ToSet(queues'[k]) = {}
      BY <2>1 DEF IsInjective, ToSet
    <3>3. QED  BY <2>1, <3>1, <3>2 DEF QueuesHoldQueued
  <2>6. RowsMatch'
    <3>1. Submitted' = Submitted
      BY <2>1, SubmittedStable
    <3>2. \A s \in Submitted :
             row[s].public \in TerminalStatus \cup {"queued", "running"}
      BY <1>a DEF RecordInv, RowsMatch, StatusIn
    <3>3. \A s \in Submitted : StatusIn(phase'[s]) = TerminalStatus
      BY <1>a, <2>1 DEF StatusIn, Executing
    <3>4. QED  BY <2>1, <2>2, <3>1, <3>2, <3>3 DEF RecordInv, RowsMatch
  <2>7. QED  BY <2>3, <2>4, <2>5, <2>6
<1>15. ASSUME NEW t \in Threads, NEW origin \in Origins, NEW mode \in Modes,
              StartRun(t, origin, mode)
       PROVE  Kept
  BY <1>15, StartRunRecords
<1>16. CASE UNCHANGED vars
  <2>1. UNCHANGED <<input, row, phase, queues, calls>>
    BY <1>16 DEF vars
  <2>2. Recovering' <=> Recovering
    BY <2>1, SubmittedStable DEF Recovering
  <2>3. QED
    BY <2>1, <2>2, SubmittedStable, QueuesKept
    DEF RecordInv, RecoveryAlone, RecoveryFirst, AdmittedOnTop, OnTop,
        RowsMatch
<1>17. QED
  BY <1>1, <1>2, <1>3, <1>4, <1>5, <1>6, <1>7, <1>8, <1>9, <1>10, <1>11,
     <1>12, <1>13, <1>14, <1>15, <1>16
  DEF Next, CallStep, TaskStep, Request

\* Between two callbacks and in the middle of one, the rows say where every
\* run is: startRun, startExistingRun, cancelRun, cancelAll, finalizeRun and
\* recoverOrphanedRuns keep queues, tasks and rows together.
THEOREM Recorded == Spec => []RecordInv
BY RecordInit, RecordStep, PTL DEF Spec

\* A queue has room for every run once.
LEMMA QueueFits ==
    ASSUME RecordInv, NEW key \in QueueKeys
    PROVE  DOMAIN queues[key] \subseteq Runs
<1> DEFINE queue == queues[key]
           n == Len(queue)
           places == 1..n
<1>1. /\ queue \in Seq(Submitted) /\ n \in Nat /\ DOMAIN queue = 1..n
      /\ queue \in [1..n -> Submitted] /\ Submitted \subseteq Runs
      /\ IsInjective(queue)
  BY LenProperties, SubmittedType
  DEF RecordInv, PlacementInv, TypeOK, QueuesHoldQueued
<1>2. queue \in Injection(places, Runs)
  BY <1>1 DEF Injection
<1> HIDE DEF queue, n
<1>3. /\ IsFiniteSet(Runs) /\ Cardinality(Runs) = MaxRuns
      /\ Cardinality(places) = n
  <2>1. n \in Nat
    BY <1>1
  <2>2. IsFiniteSet(1..n)
        /\ Cardinality(1..n) = IF 1 > n THEN 0 ELSE n - 1 + 1
    BY <2>1, FS_Interval
  <2>3. IsFiniteSet(1..MaxRuns)
        /\ Cardinality(1..MaxRuns)
              = IF 1 > MaxRuns THEN 0 ELSE MaxRuns - 1 + 1
    BY FS_Interval, RunManagerAssumption
  <2>4. Cardinality(1..n) = n /\ Cardinality(1..MaxRuns) = MaxRuns
    BY <2>1, <2>2, <2>3, RunManagerAssumption
  <2>5. QED  BY <2>3, <2>4 DEF Runs
<1> HIDE DEF places
<1>4. Cardinality(places) <= Cardinality(Runs)
  BY <1>2, <1>3, FS_Injection
<1>5. n <= MaxRuns /\ n \in Nat
  BY <1>1, <1>3, <1>4
<1>6. QED  BY <1>1, <1>5, RunManagerAssumption DEF Runs, queue

\* The records say that memory and rows agree.
LEMMA RecordImplies ==
    ASSUME RecordInv
    PROVE  MemoryMatchesRows
<1> SUFFICES ASSUME Idle, NEW r \in Submitted
             PROVE  /\ Cardinality(QueuedAt(r)) =
                          IF row[r].public = "queued" THEN 1 ELSE 0
                    /\ r \in ActiveRuns <=> row[r].public = "running"
  BY DEF MemoryMatchesRows
<1>1. /\ TypeOK /\ r \in Runs /\ phase[r] \in Phase
      /\ ThreadOf(r) \in Threads
      /\ row[r].public \in StatusIn(phase[r]) /\ phase[r] # "admitted"
  BY NothingUnderWay, SubmittedType
  DEF Idle, RecordInv, PlacementInv, TypeOK, RowsMatch
<1>2. r \in ActiveRuns <=> row[r].public = "running"
  BY <1>1 DEF ActiveRuns, StatusIn, Phase, Executing, TerminalStatus
<1>3. phase[r] = "queued" <=> row[r].public = "queued"
  BY <1>1 DEF StatusIn, Phase, Executing, TerminalStatus
<1>4. \A place \in QueuedAt(r) :
         /\ place[1] \in QueueKeys /\ place[2] \in DOMAIN queues[place[1]]
         /\ queues[place[1]][place[2]] = r
         /\ place = <<place[1], place[2]>>
  BY DEF QueuedAt
<1>5. CASE phase[r] # "queued"
  <2>1. QueuedAt(r) = {}
    BY <1>4, <1>5, WaitsInItsQueue
  <2>2. QED  BY <1>2, <1>3, <1>5, <2>1, FS_EmptySet
<1>6. CASE phase[r] = "queued"
  <2> DEFINE key == IF IsPersistent(r) THEN PersistentQueue ELSE ThreadOf(r)
  <2>1. key \in QueueKeys /\ r \in QueueSet(key)
    BY <1>1, RunManagerAssumption DEF QueueKeys, QueueSet
  <2> HIDE DEF key
  <2>2. r \in ToSet(queues[key]) /\ IsInjective(queues[key])
    BY <1>6, <2>1 DEF RecordInv, QueuesHoldQueued
  <2>3. PICK i \in DOMAIN queues[key] : queues[key][i] = r
    BY <2>2 DEF ToSet
  <2>4. <<key, i>> \in QueuedAt(r)
    BY <2>1, <2>3, QueueFits DEF QueuedAt
  <2>5. ASSUME NEW place \in QueuedAt(r)  PROVE place = <<key, i>>
    <3>1. place[1] = key
      BY <1>4, <2>1, WaitsInItsQueue
    <3>2. place[2] = i
      BY <1>4, <2>2, <2>3, <3>1 DEF IsInjective
    <3>3. QED  BY <1>4, <3>1, <3>2
  <2>6. QueuedAt(r) = {<<key, i>>}
    BY <2>4, <2>5
  <2>7. QED  BY <1>2, <1>3, <1>6, <2>6, FS_Singleton
<1>7. QED  BY <1>5, <1>6

\* No run is lost and none is kept twice: between callbacks a queued row is in
\* exactly one queue, once, and a running row has a task (startRun, cancelRun,
\* cancelAll, finalizeRun and recoverOrphanedRuns, for every number of runs).
THEOREM MemoryAndRows == Spec => []MemoryMatchesRows
BY Recorded, RecordImplies, PTL

-----------------------------------------------------------------------------
(* Done events: the inductive invariant.                                   *)

\* The stream of a run announces one end at most.
Settled(events) ==
    \A i, j \in DOMAIN events :
       events[i] \in TerminalStatus /\ events[j] \in TerminalStatus => i = j

\* The ends it announces are of this status.
Says(events, status) ==
    \A i \in DOMAIN events : events[i] \in TerminalStatus => events[i] = status

\* The events of a canceled queued run are to be published once.
CancelOnce(s) ==
    \A i, j \in DOMAIN s :
       s[i].op = "publishQueuedCancel" /\ s[j] = s[i] => i = j

\* They were not published yet, and the row is as they will say.
CancelsPending ==
    /\ CancelOnce(calls)
    /\ \A r \in Submitted :
          CallRun("publishQueuedCancel", r) \in ToSet(calls)
          => row[r].public = "canceled" /\ ~HasDone(log[r])

\* The events of an orphan follow its row.
RecoveriesPending ==
    \A r \in Submitted :
       OnTop(CallRun("recoverEvents", r))
       => row[r].public = "failed" /\ row[r].internal = "orphaned"

\* An end that was announced was announced once.  It is that of the row, or it
\* will be: the run is about to be finalized, or it is an orphan whose row is
\* still to be, or was, written by the recovery.
Justified(r) ==
    /\ Settled(log[r])
    /\ HasDone(log[r]) =>
          \/ Recovering /\ ~Terminal(r)
          \/ phase[r] = "finalizing" /\ Says(log[r], StatusOf(outcome[r]))
          \/ /\ Terminal(r)
             /\ Says(log[r], row[r].public) \/ row[r].internal = "orphaned"

DoneJustified == \A r \in Submitted : Justified(r)

\* A run that was not submitted has no events.
FreshLogs == \A r \in Runs \ Submitted : log[r] = <<>>

\* Only a restart makes orphans.
OrphansOfRestarts ==
    restarts = 0 =>
       ~Recovering /\ \A r \in Submitted : row[r].internal # "orphaned"

DoneInv ==
    /\ RecordInv
    /\ CancelsPending
    /\ RecoveriesPending
    /\ DoneJustified
    /\ FreshLogs
    /\ OrphansOfRestarts

\* A canceling event announces no end.
LEMMA CancelingSettles ==
    ASSUME NEW events \in Seq(Event)
    PROVE  /\ Settled(events) => Settled(Published(events, "canceling"))
           /\ HasDone(Published(events, "canceling")) <=> HasDone(events)
           /\ \A status : Says(events, status)
                          => Says(Published(events, "canceling"), status)
<1>1. CASE Published(events, "canceling") = events
  BY <1>1
<1>2. CASE Published(events, "canceling") = Append(events, "canceling")
  <2> DEFINE more == Append(events, "canceling")
             n == Len(events)
  <2>1. /\ n \in Nat /\ DOMAIN events = 1..n /\ DOMAIN more = 1..(n + 1)
        /\ \A i \in 1..n : more[i] = events[i]
        /\ more[n + 1] \notin TerminalStatus
    BY AppendProperties, LenProperties DEF TerminalStatus, Event
  <2> HIDE DEF more, n
  <2>2. \A i \in DOMAIN more : more[i] \in TerminalStatus
                               => i \in DOMAIN events /\ more[i] = events[i]
    BY <2>1
  <2>3. \A i \in DOMAIN events : i \in DOMAIN more /\ more[i] = events[i]
    BY <2>1
  <2>4. /\ Settled(events) => Settled(more)
        /\ HasDone(more) <=> HasDone(events)
        /\ \A status : Says(events, status) => Says(more, status)
    BY <2>2, <2>3 DEF Settled, HasDone, Says
  <2>5. QED  BY <1>2, <2>4 DEF more
<1>3. QED  BY <1>1, <1>2 DEF Published

\* The first done event is the only one.
LEMMA DoneSettles ==
    ASSUME NEW events \in Seq(Event), ~HasDone(events),
           NEW status \in TerminalStatus
    PROVE  /\ Settled(Published(events, status))
           /\ Says(Published(events, status), status)
<1> DEFINE more == Append(events, status)
           n == Len(events)
<1>1. Published(events, status) = more
  BY DEF Published, TerminalStatus
<1>2. /\ n \in Nat /\ DOMAIN events = 1..n /\ DOMAIN more = 1..(n + 1)
      /\ \A i \in 1..n : more[i] = events[i]
      /\ more[n + 1] = status
  BY AppendProperties, LenProperties DEF TerminalStatus, Event
<1> HIDE DEF more, n
<1>3. \A i \in DOMAIN more :
         more[i] \in TerminalStatus => i = n + 1 /\ more[i] = status
  BY <1>2 DEF HasDone
<1>4. Settled(more) /\ Says(more, status)
  BY <1>3 DEF Settled, Says
<1>5. QED  BY <1>1, <1>4

\* The events of a stream without a done event say anything.
LEMMA NothingSaid ==
    ASSUME NEW events, ~HasDone(events)
    PROVE  Settled(events) /\ \A status : Says(events, status)
BY DEF HasDone, Settled, Says

\* A call that returns was pending once.
LEMMA CancelOncePops ==
    ASSUME NEW s \in Seq(Call), s # <<>>, CancelOnce(s)
    PROVE  /\ CancelOnce(Tail(s))
           /\ Head(s).op = "publishQueuedCancel"
              => Head(s) \notin ToSet(Tail(s))
<1>1. /\ Tail(s) \in Seq(Call) /\ Len(s) \in Nat \ {0}
      /\ Len(Tail(s)) = Len(s) - 1
      /\ \A i \in 1..Len(Tail(s)) : Tail(s)[i] = s[i + 1]
      /\ DOMAIN s = 1..Len(s) /\ DOMAIN Tail(s) = 1..Len(Tail(s))
  BY HeadTailProperties, LenProperties, EmptySeq
<1>2. 1 \in DOMAIN s /\ Head(s) = s[1]
  BY <1>1
<1>3. \A i \in DOMAIN Tail(s) :
         /\ i \in Nat \ {0} /\ i + 1 \in DOMAIN s /\ Tail(s)[i] = s[i + 1]
  BY <1>1
<1>4. ASSUME NEW i \in DOMAIN Tail(s), NEW j \in DOMAIN Tail(s),
             Tail(s)[i].op = "publishQueuedCancel", Tail(s)[j] = Tail(s)[i]
      PROVE  i = j
  <2>1. i + 1 = j + 1
    BY <1>3, <1>4 DEF CancelOnce
  <2>2. QED  BY <1>3, <2>1
<1>5. ASSUME Head(s).op = "publishQueuedCancel", NEW j \in DOMAIN Tail(s),
             Tail(s)[j] = Head(s)
      PROVE  FALSE
  <2>1. j + 1 = 1
    BY <1>2, <1>3, <1>5 DEF CancelOnce
  <2>2. QED  BY <1>3, <2>1
<1>6. QED  BY <1>4, <1>5 DEF CancelOnce, ToSet

\* Calls pushed on others, with no cancel to publish twice.
LEMMA CancelOncePushes ==
    ASSUME NEW S, NEW s \in Seq(S), NEW t \in Seq(S),
           CancelOnce(s), CancelOnce(t),
           \A c \in ToSet(s) : c.op = "publishQueuedCancel"
                               => c \notin ToSet(t)
    PROVE  CancelOnce(s \o t)
<1> DEFINE u == s \o t
<1>1. /\ Len(s) \in Nat /\ Len(t) \in Nat
      /\ DOMAIN s = 1..Len(s) /\ DOMAIN t = 1..Len(t)
      /\ DOMAIN u = 1..(Len(s) + Len(t))
      /\ \A i \in 1..(Len(s) + Len(t)) :
            u[i] = IF i <= Len(s) THEN s[i] ELSE t[i - Len(s)]
  BY ConcatProperties, LenProperties
<1> HIDE DEF u
<1>2. ASSUME NEW i \in DOMAIN u
      PROVE  \/ i \in DOMAIN s /\ u[i] = s[i]
             \/ /\ i \notin DOMAIN s /\ i - Len(s) \in DOMAIN t
                /\ u[i] = t[i - Len(s)] /\ i \in Nat
  BY <1>1
<1>3. ASSUME NEW i \in DOMAIN u, NEW j \in DOMAIN u,
             u[i].op = "publishQueuedCancel", u[j] = u[i]
      PROVE  i = j
  <2>1. CASE i \in DOMAIN s /\ j \in DOMAIN s
    BY <1>2, <1>3, <2>1 DEF CancelOnce
  <2>2. CASE i \notin DOMAIN s /\ j \notin DOMAIN s
    <3>1. i - Len(s) = j - Len(s)
      BY <1>2, <1>3, <2>2 DEF CancelOnce
    <3>2. QED  BY <1>1, <1>2, <2>2, <3>1
  <2>3. CASE i \in DOMAIN s /\ j \notin DOMAIN s
    BY <1>2, <1>3, <2>3 DEF ToSet
  <2>4. CASE i \notin DOMAIN s /\ j \in DOMAIN s
    BY <1>2, <1>3, <2>4 DEF ToSet
  <2>5. QED  BY <2>1, <2>2, <2>3, <2>4
<1>4. QED  BY <1>3 DEF CancelOnce, u

\* Calls that publish no cancel, pushed on others.
LEMMA QuietPush ==
    ASSUME NEW S, NEW s \in Seq(S), NEW t \in Seq(S), CancelOnce(t),
           \A c \in ToSet(s) : c.op # "publishQueuedCancel"
    PROVE  /\ CancelOnce(s \o t)
           /\ ToSet(s \o t) \subseteq ToSet(s) \cup ToSet(t)
<1>1. CancelOnce(s)
  BY DEF CancelOnce, ToSet
<1>2. CancelOnce(s \o t)
  BY <1>1, CancelOncePushes
<1>3. QED  BY <1>2, ConcatElements

\* A canceled run whose events are still to be published has no task.
LEMMA PendingIsIdle ==
    ASSUME DoneInv, NEW r, CallRun("publishQueuedCancel", r) \in ToSet(calls)
    PROVE  /\ r \in Submitted /\ phase[r] = "idle" /\ ~Recovering
           /\ row[r].public = "canceled" /\ ~HasDone(log[r])
<1> DEFINE call == CallRun("publishQueuedCancel", r)
<1>1. calls \in Seq(Call) /\ TypeOK
  BY DEF DoneInv, RecordInv, PlacementInv, TypeOK
<1>2. call \in Call
  BY <1>1, ElementOfSeq DEF ToSet
<1>3. r \in Submitted /\ r \in Runs /\ phase[r] \in Phase
  BY <1>1, <1>2, RunOfCall, SubmittedType DEF TypeOK
<1>4. row[r].public = "canceled" /\ ~HasDone(log[r])
  BY <1>3 DEF DoneInv, CancelsPending
<1>5. phase[r] = "idle"
  BY <1>3, <1>4
  DEF DoneInv, RecordInv, RowsMatch, StatusIn, Phase, TerminalStatus
<1>6. ~Recovering
  <2>1. call.op = "publishQueuedCancel"
    BY DEF CallRun
  <2>2. \A q : /\ CallAlone("recover").op = "recover"
               /\ CallRun("recoverEvents", q).op = "recoverEvents"
    BY DEF CallAlone, CallRun
  <2>3. /\ ToSet(<<CallAlone("recover")>>) = {CallAlone("recover")}
        /\ \A q : ToSet(<<CallRun("recoverEvents", q), CallAlone("recover")>>)
                     = {CallRun("recoverEvents", q), CallAlone("recover")}
    BY DEF ToSet
  <2>4. QED  BY <2>1, <2>2, <2>3 DEF Recovering
<1>7. QED  BY <1>3, <1>4, <1>5, <1>6

\* A run that has not been reported yet has no done event.
LEMMA NotDoneYet ==
    ASSUME DoneInv, ~Recovering, NEW r \in Submitted,
           phase[r] \notin {"finalizing", "idle"}
    PROVE  ~HasDone(log[r])
<1>1. r \in Runs /\ phase[r] \in Phase /\ row[r].public \in StatusIn(phase[r])
  BY SubmittedType DEF DoneInv, RecordInv, PlacementInv, TypeOK, RowsMatch
<1>2. ~Terminal(r)
  BY <1>1 DEF StatusIn, Terminal, TerminalStatus, Phase
<1>3. QED  BY <1>2 DEF DoneInv, DoneJustified, Justified

\* A step after which the stream announces no end.
LEMMA SilentNow ==
    ASSUME NEW r, ~HasDone(log'[r])
    PROVE  Justified(r)'
BY NothingSaid DEF Justified

\* A step that announces no end of a run and does not end it.
LEMMA JustifiedKept ==
    ASSUME DoneInv, NEW r \in Submitted, ~Recovering,
           \/ log'[r] = log[r]
           \/ log'[r] = Published(log[r], "canceling"),
           Terminal(r) => row'[r] = row[r],
           phase[r] = "finalizing"
           => phase'[r] = "finalizing" /\ outcome'[r] = outcome[r]
    PROVE  Justified(r)'
<1>1. Justified(r) /\ r \in Runs /\ log[r] \in Seq(Event)
  BY SubmittedType
  DEF DoneInv, DoneJustified, RecordInv, PlacementInv, TypeOK
<1>2. /\ Settled(log'[r])
      /\ HasDone(log'[r]) <=> HasDone(log[r])
      /\ \A status : Says(log[r], status) => Says(log'[r], status)
  BY <1>1, CancelingSettles DEF Justified
<1>3. CASE ~HasDone(log[r])
  BY <1>2, <1>3, SilentNow
<1>4. CASE HasDone(log[r]) /\ phase[r] = "finalizing"
           /\ Says(log[r], StatusOf(outcome[r]))
  <2>1. /\ phase'[r] = "finalizing"
        /\ Says(log'[r], StatusOf(outcome[r])) /\ outcome'[r] = outcome[r]
    BY <1>2, <1>4
  <2>2. QED  BY <1>2, <2>1 DEF Justified
<1>5. CASE /\ Terminal(r)
           /\ Says(log[r], row[r].public) \/ row[r].internal = "orphaned"
  <2>1. row'[r] = row[r]
    BY <1>5
  <2>2. Terminal(r)'
    BY <1>5, <2>1 DEF Terminal
  <2>3. Says(log'[r], row'[r].public) \/ row'[r].internal = "orphaned"
    BY <1>2, <1>5, <2>1
  <2>4. QED  BY <1>2, <2>2, <2>3 DEF Justified
<1>6. QED  BY <1>1, <1>3, <1>4, <1>5 DEF Justified

\* A step of a daemon that is not recovering keeps the done events right when
\* it leaves the streams, and the pending cancels, right.
LEMMA DoneNow ==
    ASSUME DoneInv, RecordInv', ~Recovering, restarts' = restarts,
           Submitted \subseteq Submitted',
           CancelOnce(calls'),
           \A c \in ToSet(calls') :
              \/ c \in ToSet(calls)
              \/ c.op \notin {"recover", "recoverEvents",
                              "publishQueuedCancel"}
              \/ \E r \in Submitted :
                    /\ c = CallRun("publishQueuedCancel", r)
                    /\ row'[r].public = "canceled" /\ ~HasDone(log'[r]),
           \A r \in Submitted :
              \/ phase[r] # "idle"
              \/ CallRun("publishQueuedCancel", r) \notin ToSet(calls')
              \/ row'[r] = row[r] /\ log'[r] = log[r],
           \A r \in Submitted' : /\ Justified(r)'
                                 /\ row'[r].internal = "orphaned"
                                    => r \in Submitted
                                       /\ row[r].internal = "orphaned",
           \A r \in Runs \ Submitted' : log'[r] = log[r]
    PROVE  DoneInv'
<1>1. \A r : /\ CallRun("publishQueuedCancel", r).op = "publishQueuedCancel"
             /\ CallRun("publishQueuedCancel", r).run = r
             /\ CallRun("recoverEvents", r).op = "recoverEvents"
  BY DEF CallRun
<1>2. /\ \A c \in ToSet(calls) : c.op \notin {"recover", "recoverEvents"}
      /\ RecoveryAlone
  BY DEF DoneInv, RecordInv, RecoveryAlone
<1>3. \A c \in ToSet(calls') : c.op \notin {"recover", "recoverEvents"}
  BY <1>1, <1>2
<1>4. calls' # <<>> => Head(calls') \in ToSet(calls')
  <2>1. calls' \in Seq(Call')
    BY DEF RecordInv, PlacementInv, TypeOK
  <2>2. QED  BY <2>1, TailElements
<1>5. ~Recovering'
  BY <1>3, <1>4, RecoveryTopNow
<1>6. RecoveriesPending'
  <2>1. \A r : ~OnTop(CallRun("recoverEvents", r))'
    BY <1>1, <1>3, <1>4 DEF OnTop
  <2>2. QED  BY <2>1 DEF RecoveriesPending
<1>7. CancelsPending'
  <2>1. ASSUME NEW r \in Submitted',
               CallRun("publishQueuedCancel", r) \in ToSet(calls')
        PROVE  row'[r].public = "canceled" /\ ~HasDone(log'[r])
    <3>1. CASE CallRun("publishQueuedCancel", r) \in ToSet(calls)
      BY <2>1, <3>1, PendingIsIdle
    <3>2. CASE CallRun("publishQueuedCancel", r) \notin ToSet(calls)
      BY <1>1, <2>1, <3>2
    <3>3. QED  BY <3>1, <3>2
  <2>2. QED  BY <2>1 DEF CancelsPending, CallRun
<1>8. DoneJustified' /\ FreshLogs'
  BY DEF DoneJustified, FreshLogs, DoneInv
<1>9. OrphansOfRestarts'
  BY <1>5 DEF OrphansOfRestarts, DoneInv
<1>10. QED  BY <1>6, <1>7, <1>8, <1>9 DEF DoneInv

\* What a cancel of active runs writes.
LEMMA CancelingWrites ==
    ASSUME TypeOK, NEW canceled \in SUBSET ActiveRuns,
           row' = CancelingRows(row, canceled), log' = CancelingLogs(canceled)
    PROVE  \A s \in Runs :
              \/ row'[s] = row[s] /\ log'[s] = log[s]
              \/ /\ s \in ActiveRuns /\ row'[s].internal = "canceling"
                 /\ log'[s] = Published(log[s], "canceling")
BY DEF TypeOK, CancelingRows, CancelingLogs, Row

\* A step that ends no run and announces no end: a task goes on, active runs
\* are told to cancel, a run leaves its queue to be started.
LEMMA QuietStep ==
    ASSUME DoneInv, RecordInv', ~Recovering, UNCHANGED <<input, restarts>>,
           \A s \in Runs :
              \/ row'[s] = row[s] /\ log'[s] = log[s]
              \/ /\ s \in ActiveRuns /\ row'[s].internal = "canceling"
                 /\ log'[s] = Published(log[s], "canceling"),
           \A s \in Runs :
              phase[s] = "finalizing"
              => phase'[s] = "finalizing" /\ outcome'[s] = outcome[s],
           CancelOnce(calls'),
           \A c \in ToSet(calls') :
              \/ c \in ToSet(calls)
              \/ c.op \notin {"recover", "recoverEvents",
                              "publishQueuedCancel"}
    PROVE  DoneInv'
<1>1. /\ Submitted' = Submitted /\ Submitted \subseteq Runs /\ RecordInv
      /\ TypeOK
  BY SubmittedStable, SubmittedType DEF DoneInv, RecordInv, PlacementInv
<1>2. \A s \in Runs \ Submitted : phase[s] = "idle"
  BY <1>1 DEF TypeOK
<1>3. \A s \in Runs : s \in ActiveRuns => phase[s] # "idle" /\ s \in Submitted
  BY <1>2 DEF ActiveRuns, Executing
<1>4. ASSUME NEW s \in Submitted
      PROVE  /\ Justified(s)'
             /\ row'[s].internal = "orphaned" => row[s].internal = "orphaned"
  <2>1. s \in ActiveRuns => ~Terminal(s)
    BY <1>1 DEF RecordInv, RowsMatch, ActiveRuns, StatusIn, Terminal,
                TerminalStatus, Executing
  <2>2. Justified(s)'
    BY <1>1, <2>1, JustifiedKept
  <2>3. QED  BY <1>1, <2>2
<1>5. \A s \in Runs \ Submitted : log'[s] = log[s]
  BY <1>3
<1>6. \A s \in Submitted :
         \/ phase[s] # "idle"
         \/ CallRun("publishQueuedCancel", s) \notin ToSet(calls')
         \/ row'[s] = row[s] /\ log'[s] = log[s]
  BY <1>1, <1>3
<1>7. QED  BY <1>1, <1>4, <1>5, <1>6, DoneNow

\* A queued run leaves its queue because it is canceled: its events are the
\* only ones to be published.
LEMMA RemovedDone ==
    ASSUME DoneInv, RecordInv', ~Recovering, UNCHANGED <<input, restarts>>,
           NEW key \in QueueKeys, NEW i \in DOMAIN queues[key],
           NEW rest \in Seq(Call), CancelOnce(rest),
           ToSet(rest) \subseteq ToSet(calls),
           UNCHANGED outcome, RemoveQueuedRun(key, i, rest)
    PROVE  DoneInv'
<1> DEFINE r == queues[key][i]
           next == CallAlone("startNextPersistentRuns")
           publish == CallRun("publishQueuedCancel", r)
           first == <<next, publish>>
<1>1. /\ Submitted' = Submitted /\ Submitted \subseteq Runs /\ RecordInv
      /\ TypeOK /\ row \in [Runs -> Row] /\ phase \in [Runs -> Phase]
  BY SubmittedStable, SubmittedType
  DEF DoneInv, RecordInv, PlacementInv, TypeOK
<1>2. r \in Submitted /\ r \in Runs /\ phase[r] = "queued"
  BY <1>1, WaitsInItsQueue
<1>3. /\ row' = [row EXCEPT ![r] = RowOf("canceled", "canceled", "none")]
      /\ phase' = [phase EXCEPT ![r] = "idle"] /\ log' = log
      /\ calls' = first \o rest
  BY DEF RemoveQueuedRun
<1>4. ~HasDone(log[r]) /\ publish \notin ToSet(calls)
  BY <1>2, NotDoneYet, PendingIsIdle
<1>5. /\ next.op = "startNextPersistentRuns"
      /\ publish.op = "publishQueuedCancel" /\ next # publish
      /\ first \in Seq({next, publish} \cup Call) /\ ToSet(first) = {next, publish}
      /\ rest \in Seq({next, publish} \cup Call)
  <2>1. next.op = "startNextPersistentRuns"
        /\ publish.op = "publishQueuedCancel"
    BY DEF CallAlone, CallRun
  <2>2. first \in Seq({next, publish} \cup Call)
        /\ rest \in Seq({next, publish} \cup Call)
    BY SeqMonotonic
  <2>3. ToSet(first) = {next, publish}
    BY DEF ToSet
  <2>4. QED  BY <2>1, <2>2, <2>3
<1>6. CancelOnce(first)
  <2>1. DOMAIN first = 1..2 /\ first[1] = next /\ first[2] = publish
    OBVIOUS
  <2>2. QED  BY <1>5, <2>1 DEF CancelOnce
<1> HIDE DEF first
<1>7. /\ CancelOnce(calls')
      /\ \A c \in ToSet(calls') : c \in ToSet(calls) \/ c \in {next, publish}
  <2>1. \A c \in ToSet(first) : c.op = "publishQueuedCancel"
                                => c \notin ToSet(rest)
    BY <1>4, <1>5
  <2>2. CancelOnce(first \o rest)
    BY <1>5, <1>6, <2>1, CancelOncePushes
  <2>3. ToSet(first \o rest) \subseteq ToSet(first) \cup ToSet(rest)
    BY <1>5, ConcatElements
  <2>4. QED  BY <1>3, <1>5, <2>2, <2>3
<1>8. /\ row'[r].public = "canceled" /\ row'[r].internal = "canceled"
      /\ ~HasDone(log'[r])
      /\ \A s \in Runs : s # r => row'[s] = row[s] /\ phase'[s] = phase[s]
  BY <1>1, <1>2, <1>3, <1>4 DEF RowOf
<1>9. ASSUME NEW s \in Submitted
      PROVE  /\ Justified(s)'
             /\ row'[s].internal = "orphaned" => row[s].internal = "orphaned"
  <2>1. CASE s = r
    BY <1>8, <2>1, SilentNow
  <2>2. CASE s # r
    BY <1>1, <1>3, <1>8, <2>2, JustifiedKept
  <2>3. QED  BY <2>1, <2>2
<1>10. \A s \in Submitted : phase[s] # "idle" \/ row'[s] = row[s]
  BY <1>1, <1>2, <1>8
<1> HIDE DEF r, next
<1>11. QED
  BY <1>1, <1>2, <1>3, <1>5, <1>7, <1>8, <1>9, <1>10, DoneNow

\* A new database has no events.
LEMMA DoneInit == Init => DoneInv
<1> SUFFICES ASSUME Init  PROVE DoneInv
  OBVIOUS
<1>1. RecordInv
  BY RecordInit
<1>2. calls = <<>> /\ input = <<>> /\ log = [r \in Runs |-> <<>>]
  BY DEF Init
<1>3. Submitted = {} /\ ~Recovering
  BY <1>2, RecoveryTop DEF Submitted
<1>4. CancelsPending /\ RecoveriesPending
  BY <1>2, <1>3 DEF CancelsPending, RecoveriesPending, CancelOnce
<1>5. DoneJustified /\ FreshLogs /\ OrphansOfRestarts
  BY <1>2, <1>3 DEF DoneJustified, FreshLogs, OrphansOfRestarts
<1>6. QED  BY <1>1, <1>4, <1>5 DEF DoneInv

\* While the daemon recovers nothing else is called.
LEMMA DoneRecovering ==
    ASSUME RecordInv', Recovering',
           Submitted' = Submitted, restarts' # 0,
           RecoveriesPending', FreshLogs',
           \A r \in Submitted : Justified(r)'
    PROVE  DoneInv'
<1>1. /\ CallAlone("recover").op = "recover"
      /\ \A r : CallRun("recoverEvents", r).op = "recoverEvents"
      /\ \A r : CallRun("publishQueuedCancel", r).op = "publishQueuedCancel"
  BY DEF CallAlone, CallRun
<1>2. \A c \in ToSet(calls') : c.op \in {"recover", "recoverEvents"}
  <2>1. ToSet(<<CallAlone("recover")>>) = {CallAlone("recover")}
    BY DEF ToSet
  <2>2. \A r : ToSet(<<CallRun("recoverEvents", r), CallAlone("recover")>>)
                  = {CallRun("recoverEvents", r), CallAlone("recover")}
    BY DEF ToSet
  <2>3. QED  BY <1>1, <2>1, <2>2 DEF Recovering
<1>3. CancelsPending'
  BY <1>1, <1>2 DEF CancelsPending, CancelOnce, ToSet
<1>4. QED
  BY <1>3 DEF DoneInv, DoneJustified, OrphansOfRestarts

\* The recovery announces the ends that its last session did not.
LEMMA RecoveryDone ==
    ASSUME DoneInv, RecordInv',
           RecoverOrphan \/ \E r \in Runs : RecoverEvents(r)
    PROVE  DoneInv'
<1>1. /\ RecordInv /\ UNCHANGED <<input, restarts, phase, outcome>>
      /\ Submitted' = Submitted /\ Submitted \subseteq Runs
      /\ row \in [Runs -> Row] /\ log \in [Runs -> Seq(Event)]
  BY SubmittedStable, SubmittedType
  DEF DoneInv, RecordInv, PlacementInv, TypeOK, RecoverOrphan, RecoverEvents
<1>2. Recovering
  BY <1>1, RecoveryGoesOn, RecoveryGoesBack
<1>3. \A s \in Runs : phase[s] = "idle"
  BY <1>1, <1>2 DEF RecordInv, RecoveryFirst
<1>4. restarts # 0 /\ restarts' # 0
  BY <1>1, <1>2 DEF DoneInv, OrphansOfRestarts
<1>5. /\ CallAlone("recover").op = "recover"
      /\ \A r : /\ CallRun("recoverEvents", r).op = "recoverEvents"
                /\ CallRun("recoverEvents", r).run = r
  BY DEF CallAlone, CallRun
<1>6. ASSUME NEW r \in Runs, RecoverEvents(r)  PROVE DoneInv'
  <2>1. /\ r \in Submitted /\ calls' = <<CallAlone("recover")>>
        /\ row' = row
        /\ log' = [log EXCEPT ![r] =
                      IF HasDone(@) THEN @ ELSE Published(@, "failed")]
    BY <1>1, <1>6, RecoveryGoesBack DEF RecoverEvents
  <2>2. Recovering'
    BY <2>1 DEF Recovering, CallAlone
  <2>3. RecoveriesPending'
    BY <1>5, <2>1 DEF RecoveriesPending, OnTop
  <2>4. row[r].public = "failed" /\ row[r].internal = "orphaned"
    BY <1>6, <2>1 DEF RecoverEvents, DoneInv, RecoveriesPending
  <2>5. \A s \in Runs : s # r => log'[s] = log[s]
    BY <1>1, <2>1
  <2>6. FreshLogs'
    BY <1>1, <2>1, <2>5 DEF DoneInv, FreshLogs
  <2>7. Settled(log'[r])
    <3>1. CASE HasDone(log[r])
      BY <1>1, <2>1, <3>1 DEF DoneInv, DoneJustified, Justified
    <3>2. CASE ~HasDone(log[r])
      BY <1>1, <2>1, <3>2, DoneSettles DEF TerminalStatus
    <3>3. QED  BY <3>1, <3>2
  <2>8. Justified(r)'
    BY <2>1, <2>4, <2>7 DEF Justified, Terminal, TerminalStatus
  <2>9. ASSUME NEW s \in Submitted, s # r  PROVE Justified(s)'
    <3>1. Justified(s) /\ log'[s] = log[s] /\ row'[s] = row[s]
      BY <1>1, <2>1, <2>5, <2>9 DEF DoneInv, DoneJustified
    <3>2. /\ Terminal(s)' <=> Terminal(s)
          /\ phase[s] # "finalizing"
      BY <1>1, <1>3, <3>1 DEF Terminal
    <3>3. QED  BY <2>2, <3>1, <3>2 DEF Justified
  <2>10. QED
    BY <1>1, <1>4, <2>2, <2>3, <2>6, <2>8, <2>9, DoneRecovering
<1>7. ASSUME RecoverOrphan  PROVE DoneInv'
  <2>1. log' = log /\ FreshLogs'
    BY <1>1, <1>7 DEF RecoverOrphan, DoneInv, FreshLogs
  <2>2. ASSUME NEW r \in Submitted, ~Terminal(r),
               row' = [row EXCEPT ![r] = RowOf("failed", "orphaned", @.queue)],
               calls' = <<CallRun("recoverEvents", r), CallAlone("recover")>>
        PROVE  DoneInv'
    <3>1. Recovering'
      BY <1>1, <2>2 DEF Recovering, CallAlone, CallRun
    <3>2. /\ row'[r].public = "failed" /\ row'[r].internal = "orphaned"
          /\ \A s \in Runs : s # r => row'[s] = row[s]
      BY <1>1, <2>2 DEF RowOf
    <3>3. RecoveriesPending'
      <4>1. Head(calls') = CallRun("recoverEvents", r)
        BY <2>2
      <4>2. \A s : OnTop(CallRun("recoverEvents", s))' => s = r
        BY <1>5, <4>1 DEF OnTop
      <4>3. QED  BY <1>1, <3>2, <4>2 DEF RecoveriesPending
    <3>4. ASSUME NEW s \in Submitted  PROVE Justified(s)'
      <4>1. Justified(s) /\ log'[s] = log[s] /\ phase[s] # "finalizing"
        BY <1>1, <1>3, <2>1 DEF DoneInv, DoneJustified
      <4>2. CASE s = r
        BY <3>2, <4>1, <4>2 DEF Justified, Terminal, TerminalStatus
      <4>3. CASE s # r
        <5>1. row'[s] = row[s] /\ (Terminal(s)' <=> Terminal(s))
          BY <1>1, <3>2, <4>3 DEF Terminal
        <5>2. QED  BY <3>1, <4>1, <5>1 DEF Justified
      <4>4. QED  BY <4>2, <4>3
    <3>5. QED
      BY <1>1, <1>4, <2>1, <3>1, <3>3, <3>4, DoneRecovering
  <2>3. ASSUME \A r \in Submitted : Terminal(r), calls' = <<>>, UNCHANGED row
        PROVE  DoneInv'
    <3>1. CancelsPending' /\ RecoveriesPending'
      BY <2>3 DEF CancelsPending, RecoveriesPending, CancelOnce, ToSet, OnTop
    <3>2. ASSUME NEW s \in Submitted  PROVE Justified(s)'
      <4>1. /\ Justified(s) /\ log'[s] = log[s] /\ phase[s] # "finalizing"
            /\ row'[s] = row[s] /\ Terminal(s) /\ Terminal(s)'
        BY <1>1, <1>3, <2>1, <2>3 DEF DoneInv, DoneJustified, Terminal
      <4>2. QED  BY <4>1 DEF Justified
    <3>3. QED
      BY <1>1, <1>4, <2>1, <3>1, <3>2
      DEF DoneInv, DoneJustified, OrphansOfRestarts
  <2>4. QED  BY <1>1, <1>7, <2>2, <2>3, RecoveryGoesOn
<1>8. QED  BY <1>6, <1>7

\* The ends that a crash left to the recovery are those of rows that are not
\* terminal yet.
LEMMA RestartDone ==
    ASSUME DoneInv, RecordInv', Restart
    PROVE  DoneInv'
<1>1. /\ calls' = <<CallAlone("recover")>> /\ UNCHANGED <<input, row, log>>
      /\ restarts' = restarts + 1 /\ restarts \in Nat
      /\ Submitted' = Submitted /\ RecordInv /\ Submitted \subseteq Runs
  BY SubmittedStable, SubmittedType
  DEF Restart, DoneInv, RecordInv, PlacementInv, TypeOK
<1>2. Recovering' /\ restarts' # 0
  BY <1>1 DEF Recovering, CallAlone
<1>3. RecoveriesPending'
  BY <1>1 DEF RecoveriesPending, OnTop, CallAlone, CallRun
<1>4. FreshLogs'
  BY <1>1 DEF FreshLogs, DoneInv
<1>5. ASSUME NEW s \in Submitted  PROVE Justified(s)'
  <2>1. /\ Justified(s) /\ log'[s] = log[s] /\ row'[s] = row[s]
        /\ Terminal(s)' <=> Terminal(s)
    BY <1>1 DEF DoneInv, DoneJustified, Terminal
  <2>2. CASE ~Terminal(s)
    BY <1>2, <2>1, <2>2 DEF Justified
  <2>3. CASE Terminal(s)
    <3>1. phase[s] # "finalizing"
      BY <1>1, <2>3
      DEF RecordInv, RowsMatch, StatusIn, Terminal, TerminalStatus, Executing
    <3>2. QED  BY <2>1, <2>3, <3>1 DEF Justified
  <2>4. QED  BY <2>2, <2>3
<1>6. QED  BY <1>1, <1>2, <1>3, <1>4, <1>5, DoneRecovering

\* A submitted run has announced nothing.
LEMMA StartRunDone ==
    ASSUME DoneInv, RecordInv', NEW t \in Threads, NEW origin \in Origins,
           NEW mode \in Modes, StartRun(t, origin, mode)
    PROVE  DoneInv'
<1> DEFINE request == [thread |-> t, origin |-> origin, mode |-> mode]
           persistent == AppServer /\ origin = "api"
           canceled == IF mode = "interrupt_and_enqueue"
                         THEN Interrupted(t) ELSE {}
<1>1. /\ TypeOK /\ calls = <<>> /\ ~Recovering /\ restarts' = restarts
      /\ outcome' = outcome /\ RecordInv
      /\ phase \in [Runs -> Phase] /\ row \in [Runs -> Row]
      /\ log \in [Runs -> Seq(Event)]
  BY NothingUnderWay
  DEF StartRun, Idle, DoneInv, RecordInv, PlacementInv, TypeOK
<1>2. PICK r \in Runs :
        /\ r = Len(input) + 1 /\ input' = Append(input, request)
        /\ IF MustQueue(t, persistent)
             THEN QueueRun(r, request, persistent)
             ELSE AdmitRun(r)
  BY DEF StartRun
<1>3. /\ Submitted' = Submitted \cup {r} /\ r \notin Submitted
      /\ Submitted' \subseteq Runs
  <2>1. /\ input \in Seq(Input) /\ request \in Input
        /\ Len(input) \in Nat /\ DOMAIN input = 1..Len(input)
    BY <1>1, LenProperties DEF TypeOK, Input
  <2>2. Len(input') = r /\ DOMAIN input' = 1..r
    BY <1>2, <2>1, AppendProperties
  <2>3. Submitted' = Submitted \cup {r} /\ r \notin Submitted
    BY <1>2, <2>1, <2>2 DEF Submitted
  <2>4. QED  BY <1>1, <2>3, SubmittedType
<1>4. /\ phase[r] = "idle" /\ log[r] = <<>>
      /\ \A s \in Runs \ Submitted : phase[s] = "idle"
  BY <1>1, <1>3 DEF TypeOK, DoneInv, FreshLogs
<1>5. /\ \A s \in Runs : s # r =>
            \/ row'[s] = row[s] /\ log'[s] = log[s]
            \/ /\ s \in ActiveRuns /\ row'[s].internal = "canceling"
               /\ log'[s] = Published(log[s], "canceling")
      /\ log'[r] = <<>> /\ row'[r].internal # "orphaned"
      /\ \A s \in Runs : s # r => phase'[s] = phase[s]
  <2>1. CASE MustQueue(t, persistent)
    <3>1. /\ row' = [CancelingRows(row, canceled) EXCEPT
                       ![r] = RowOf("queued", "queued", "queued")]
          /\ phase' = [phase EXCEPT ![r] = "queued"]
          /\ log' = CancelingLogs(canceled)
      BY <1>2, <2>1 DEF QueueRun
    <3>2. canceled \subseteq ActiveRuns /\ r \notin canceled
      BY <1>4 DEF Interrupted, ActiveRuns, Executing
    <3>3. CancelingRows(row, canceled) \in [Runs -> Row]
      BY <1>1, CancelingRowsType
    <3>4. \A s \in Runs :
             \/ CancelingRows(row, canceled)[s] = row[s]
                /\ CancelingLogs(canceled)[s] = log[s]
             \/ /\ s \in ActiveRuns
                /\ CancelingRows(row, canceled)[s].internal = "canceling"
                /\ CancelingLogs(canceled)[s] = Published(log[s], "canceling")
      BY <1>1, <3>2 DEF CancelingRows, CancelingLogs, Row
    <3>5. log'[r] = <<>>
      BY <1>4, <3>1, <3>2 DEF CancelingLogs
    <3>6. row'[r].internal # "orphaned"
          /\ \A s \in Runs : s # r => /\ row'[s] = CancelingRows(row, canceled)[s]
                                      /\ phase'[s] = phase[s]
      BY <1>1, <3>1, <3>3 DEF RowOf
    <3> HIDE DEF canceled
    <3>7. QED  BY <3>1, <3>4, <3>5, <3>6
  <2>2. CASE ~MustQueue(t, persistent)
    BY <1>1, <1>2, <1>4, <2>2 DEF AdmitRun, RowOf
  <2>3. QED  BY <2>1, <2>2
<1>6. /\ CancelOnce(calls')
      /\ \A c \in ToSet(calls') : c.op = "startExistingRun"
  <2>1. calls' = <<>> \/ calls' = <<CallRun("startExistingRun", r)>>
    BY <1>1, <1>2 DEF QueueRun, AdmitRun
  <2>2. /\ \A i \in DOMAIN calls' : i = 1
        /\ \A c \in ToSet(calls') : c = CallRun("startExistingRun", r)
    BY <2>1 DEF ToSet
  <2>3. CallRun("startExistingRun", r).op = "startExistingRun"
    BY DEF CallRun
  <2>4. QED  BY <2>2, <2>3 DEF CancelOnce
<1>7. ASSUME NEW s \in Submitted, s # r
      PROVE  /\ Justified(s)'
             /\ row'[s].internal = "orphaned" => row[s].internal = "orphaned"
  <2>1. s \in Runs /\ (s \in ActiveRuns => ~Terminal(s))
    BY <1>1, <1>3
    DEF RecordInv, RowsMatch, ActiveRuns, StatusIn, Terminal, TerminalStatus,
        Executing
  <2>2. Justified(s)'
    BY <1>1, <1>5, <1>7, <2>1, JustifiedKept
  <2>3. QED  BY <1>5, <1>7, <2>1, <2>2
<1>8. Justified(r)'
  BY <1>5, SilentNow DEF HasDone
<1>9. \A s \in Submitted :
         CallRun("publishQueuedCancel", s) \notin ToSet(calls')
  BY <1>6 DEF CallRun
<1>10. \A s \in Runs \ Submitted' : log'[s] = log[s]
  BY <1>3, <1>4, <1>5 DEF ActiveRuns, Executing
<1>11. QED
  BY <1>1, <1>3, <1>5, <1>6, <1>7, <1>8, <1>9, <1>10, DoneNow

\* Every step keeps the done events right, action by action.
LEMMA DoneStep == DoneInv /\ [Next]_vars => DoneInv'
<1> SUFFICES ASSUME DoneInv, [Next]_vars  PROVE DoneInv'
  OBVIOUS
<1>a. /\ RecordInv /\ RecordInv' /\ TypeOK /\ Submitted \subseteq Runs
      /\ phase \in [Runs -> Phase] /\ row \in [Runs -> Row]
      /\ log \in [Runs -> Seq(Event)] /\ outcome \in [Runs -> Outcome]
      /\ calls \in Seq(Call) /\ CancelOnce(calls)
  BY RecordStep, SubmittedType
  DEF DoneInv, RecordInv, PlacementInv, TypeOK, CancelsPending
<1>b. /\ \A r : CallRun("publishQueuedCancel", r).op = "publishQueuedCancel"
      /\ \A r : CallRun("startExistingRun", r).op = "startExistingRun"
      /\ \A t : CallThread(t).op = "startNextQueuedThreadRun"
      /\ \A f : CallAlone(f).op = f
  BY DEF CallRun, CallThread, CallAlone
<1>c. calls # <<>> => /\ Tail(calls) \in Seq(Call) /\ CancelOnce(Tail(calls))
                      /\ ToSet(Tail(calls)) \subseteq ToSet(calls)
                      /\ Head(calls) \in ToSet(calls)
                      /\ Head(calls).op = "publishQueuedCancel"
                         => Head(calls) \notin ToSet(Tail(calls))
  BY <1>a, CancelOncePops, TailElements
<1>d. ASSUME NEW key \in QueueKeys, NEW i \in DOMAIN queues[key],
             NEW rest \in Seq(Call), Dequeue(key, i, rest), CancelOnce(rest),
             ToSet(rest) \subseteq ToSet(calls), ~Recovering,
             UNCHANGED <<input, restarts, outcome>>
      PROVE  DoneInv'
  <2> DEFINE r == queues[key][i]
             start == CallRun("startExistingRun", r)
             first == <<start>>
  <2>1. r \in Runs /\ phase[r] = "queued"
    BY <1>a, WaitsInItsQueue
  <2>2. /\ phase' = [phase EXCEPT ![r] = "admitted"]
        /\ calls' = first \o rest /\ row' = row /\ log' = log
    BY <1>d DEF Dequeue
  <2>3. /\ first \in Seq({start} \cup Call) /\ rest \in Seq({start} \cup Call)
        /\ ToSet(first) = {start} /\ start.op = "startExistingRun"
    <3>1. /\ first \in Seq({start} \cup Call)
          /\ rest \in Seq({start} \cup Call)
      BY SeqMonotonic
    <3>2. QED  BY <1>b, <3>1 DEF ToSet
  <2> HIDE DEF first
  <2>4. CancelOnce(calls') /\ ToSet(calls') \subseteq {start} \cup ToSet(calls)
    <3>1. /\ CancelOnce(first \o rest)
          /\ ToSet(first \o rest) \subseteq ToSet(first) \cup ToSet(rest)
      BY <1>d, <2>3, QuietPush
    <3>2. QED  BY <1>d, <2>2, <2>3, <3>1
  <2>5. \A s \in Runs : phase[s] = "finalizing" => phase'[s] = "finalizing"
    BY <1>a, <2>1, <2>2
  <2> HIDE DEF start, r
  <2>6. QED  BY <1>a, <1>d, <2>2, <2>3, <2>4, <2>5, QuietStep
<1>1. ASSUME NEW r \in Runs, Launch(r)  PROVE DoneInv'
  <2>1. /\ OnTop(CallRun("startExistingRun", r)) /\ calls' = Tail(calls)
        /\ phase' = [phase EXCEPT ![r] = "preparing"]
        /\ row' = [row EXCEPT ![r] = RowOf("running", "running", "started")]
        /\ outcome' = [outcome EXCEPT ![r] = "none"] /\ log' = log
        /\ UNCHANGED <<input, restarts>> /\ Submitted' = Submitted
    BY <1>1, SubmittedStable DEF Launch
  <2>2. /\ r \in Submitted /\ phase[r] = "admitted" /\ ~Recovering
        /\ calls # <<>>
    BY <1>a, <2>1, OneAdmitted
  <2>3. ~HasDone(log'[r]) /\ row'[r].internal # "orphaned"
    BY <1>a, <2>1, <2>2, NotDoneYet DEF RowOf
  <2>4. \A s \in Runs : s # r => /\ row'[s] = row[s] /\ phase'[s] = phase[s]
                                 /\ outcome'[s] = outcome[s]
    BY <1>a, <2>1
  <2>5. ASSUME NEW s \in Submitted
        PROVE  /\ Justified(s)'
               /\ row'[s].internal = "orphaned" => row[s].internal = "orphaned"
    BY <1>a, <2>1, <2>2, <2>3, <2>4, SilentNow, JustifiedKept
  <2>6. QED
    BY <1>a, <1>c, <2>1, <2>2, <2>4, <2>5, DoneNow
<1>2. ASSUME NEW r \in Runs, FailBeforeSpawn(r)  PROVE DoneInv'
  <2> DEFINE completion == CompletionCalls(r)
             rest == Tail(calls)
  <2>1. /\ OnTop(CallRun("startExistingRun", r))
        /\ calls' = completion \o rest
        /\ phase' = [phase EXCEPT ![r] = "idle"]
        /\ row' = [row EXCEPT ![r] = RowOf("failed", "failed", "none")]
        /\ log' = [log EXCEPT ![r] = Published(@, "failed")]
        /\ UNCHANGED <<input, restarts, outcome>> /\ Submitted' = Submitted
    BY <1>2, SubmittedStable DEF FailBeforeSpawn
  <2>2. /\ r \in Submitted /\ phase[r] = "admitted" /\ ~Recovering
        /\ calls # <<>>
    BY <1>a, <2>1, OneAdmitted
  <2>3. Settled(log'[r]) /\ Says(log'[r], "failed")
    BY <1>a, <2>1, <2>2, NotDoneYet, DoneSettles DEF TerminalStatus
  <2>4. row'[r].public = "failed" /\ row'[r].internal # "orphaned"
    BY <1>a, <2>1 DEF RowOf
  <2>5. Justified(r)'
    BY <2>3, <2>4 DEF Justified, Terminal, TerminalStatus
  <2>6. \A s \in Runs : s # r => /\ row'[s] = row[s] /\ phase'[s] = phase[s]
                                 /\ log'[s] = log[s]
    BY <1>a, <2>1
  <2>7. ASSUME NEW s \in Submitted
        PROVE  /\ Justified(s)'
               /\ row'[s].internal = "orphaned" => row[s].internal = "orphaned"
    BY <1>a, <2>1, <2>2, <2>4, <2>5, <2>6, JustifiedKept
  <2>8. /\ completion \in Seq(Call) /\ rest \in Seq(Call) /\ CancelOnce(rest)
        /\ ToSet(rest) \subseteq ToSet(calls)
        /\ \A c \in ToSet(completion) :
              c.op \in {"startNextPersistentRuns", "startNextQueuedThreadRun"}
    <3>1. completion \in Seq(Call)
      BY <1>a, <2>2, CompletionPlain
    <3>2. \A c \in ToSet(completion) :
             c \in {CallAlone("startNextPersistentRuns"),
                    CallThread(ThreadOf(r))}
      BY DEF CompletionCalls, ToSet
    <3>3. QED  BY <1>b, <1>c, <2>2, <3>1, <3>2
  <2> HIDE DEF completion, rest
  <2>9. /\ CancelOnce(calls')
        /\ ToSet(calls') \subseteq ToSet(completion) \cup ToSet(calls)
    BY <2>1, <2>8, QuietPush
  <2>10. QED
    BY <1>a, <2>1, <2>2, <2>6, <2>7, <2>8, <2>9, DoneNow

<1>3. ASSUME StartNextPersistentRuns  PROVE DoneInv'
  <2>1. /\ OnTop(CallAlone("startNextPersistentRuns")) /\ calls # <<>>
        /\ PersistentQueue \in QueueKeys
        /\ UNCHANGED <<input, restarts, outcome>>
    BY <1>3 DEF StartNextPersistentRuns, OnTop, QueueKeys
  <2>2. ~Recovering
    BY <1>a, <1>b, <2>1, TopTells
  <2>3. CASE \E i \in DOMAIN queues[PersistentQueue] :
               Dequeue(PersistentQueue, i, calls)
    BY <1>a, <1>d, <2>1, <2>2, <2>3
  <2>4. CASE calls' = Tail(calls) /\ UNCHANGED <<row, log, phase, queues>>
    BY <1>a, <1>c, <2>1, <2>2, <2>4, QuietStep
  <2>5. QED  BY <1>3, <2>3, <2>4 DEF StartNextPersistentRuns
<1>4. ASSUME NEW t \in Threads, StartNextQueuedThreadRun(t)  PROVE DoneInv'
  <2>1. /\ OnTop(CallThread(t)) /\ calls # <<>> /\ t \in QueueKeys
        /\ UNCHANGED <<input, restarts, outcome>>
    BY <1>4 DEF StartNextQueuedThreadRun, OnTop, QueueKeys
  <2>2. ~Recovering
    BY <1>a, <1>b, <2>1, TopTells
  <2>3. CASE queues[t] # <<>> /\ Dequeue(t, 1, Tail(calls))
    <3>1. 1 \in DOMAIN queues[t]
      BY <1>a, <2>1, <2>3 DEF TypeOK
    <3>2. QED  BY <1>c, <1>d, <2>1, <2>2, <2>3, <3>1
  <2>4. CASE calls' = Tail(calls) /\ UNCHANGED <<row, log, phase, queues>>
    BY <1>a, <1>c, <2>1, <2>2, <2>4, QuietStep
  <2>5. QED  BY <1>4, <2>3, <2>4 DEF StartNextQueuedThreadRun
<1>5. ASSUME NEW r \in Runs, PublishQueuedCancel(r)  PROVE DoneInv'
  <2> DEFINE call == CallRun("publishQueuedCancel", r)
             told == Published(log[r], "canceling")
  <2>1. /\ calls # <<>> /\ Head(calls) = call /\ calls' = Tail(calls)
        /\ log' = [log EXCEPT ![r] = Published(told, "canceled")]
        /\ UNCHANGED <<input, row, restarts, phase, outcome>>
        /\ Submitted' = Submitted
    BY <1>5, SubmittedStable DEF PublishQueuedCancel, OnTop
  <2>2. call \in ToSet(calls) /\ call \notin ToSet(calls')
    BY <1>b, <1>c, <2>1
  <2>3. /\ r \in Submitted /\ phase[r] = "idle" /\ ~Recovering
        /\ row[r].public = "canceled" /\ ~HasDone(log[r])
    BY <2>2, PendingIsIdle
  <2>4. told \in Seq(Event) /\ ~HasDone(told)
    BY <1>a, <2>3, PublishedType, CancelingSettles DEF Event
  <2> HIDE DEF told
  <2>5. Settled(log'[r]) /\ Says(log'[r], "canceled")
    BY <1>a, <2>1, <2>4, DoneSettles DEF TerminalStatus
  <2>6. Justified(r)'
    BY <2>1, <2>3, <2>5 DEF Justified, Terminal, TerminalStatus
  <2>7. \A s \in Runs : s # r => log'[s] = log[s]
    BY <1>a, <2>1
  <2>8. \A s \in Submitted : Justified(s)'
    BY <1>a, <2>1, <2>3, <2>6, <2>7, JustifiedKept
  <2>9. ToSet(calls') \subseteq ToSet(calls) /\ CancelOnce(calls')
    BY <1>c, <2>1
  <2>10. \A s \in Submitted :
            \/ CallRun("publishQueuedCancel", s) \notin ToSet(calls')
            \/ row'[s] = row[s] /\ log'[s] = log[s]
    BY <1>a, <2>1, <2>2, <2>7
  <2> HIDE DEF call
  <2>11. QED
    BY <1>a, <2>1, <2>3, <2>7, <2>8, <2>9, <2>10, DoneNow
<1>6. ASSUME CancelAll  PROVE DoneInv'
  <2>1. /\ OnTop(CallAlone("cancelAll")) /\ calls # <<>>
        /\ UNCHANGED <<input, restarts, outcome>>
    BY <1>6 DEF CancelAll, OnTop
  <2>2. ~Recovering
    BY <1>a, <1>b, <2>1, TopTells
  <2>3. ASSUME NEW k \in QueueKeys, queues[k] # <<>>,
               RemoveQueuedRun(k, 1, calls)
        PROVE  DoneInv'
    <3>1. 1 \in DOMAIN queues[k]
      BY <1>a, <2>3 DEF TypeOK
    <3>2. QED  BY <1>a, <2>1, <2>2, <2>3, <3>1, RemovedDone
  <2>4. CASE /\ CancelActive(ActiveRuns) /\ calls' = Tail(calls)
             /\ UNCHANGED <<phase, queues>>
    <3>1. \A s \in Runs :
             \/ row'[s] = row[s] /\ log'[s] = log[s]
             \/ /\ s \in ActiveRuns /\ row'[s].internal = "canceling"
                /\ log'[s] = Published(log[s], "canceling")
      BY <1>a, <2>4, CancelingWrites DEF CancelActive
    <3>2. QED  BY <1>a, <1>c, <2>1, <2>2, <2>4, <3>1, QuietStep
  <2>5. QED  BY <1>6, <2>3, <2>4 DEF CancelAll
<1>7. CASE RecoverOrphan \/ \E r \in Runs : RecoverEvents(r)
  BY <1>a, <1>7, RecoveryDone
<1>8. ASSUME NEW r \in Runs,
             \/ StartPersistentAttempt(r) \/ StartDirectAttempt(r)
             \/ EndTurn(r) \/ HandleResult(r) \/ Rotate(r)
      PROVE  DoneInv'
  <2>1. /\ calls = <<>> /\ UNCHANGED <<input, row, log, restarts, calls>>
        /\ phase[r] # "finalizing"
    BY <1>8
    DEF StartPersistentAttempt, StartDirectAttempt, EndTurn, HandleResult,
        Rotate, Ready, Idle
  <2>2. \A s \in Runs : s # r => /\ phase'[s] = phase[s]
                                 /\ outcome'[s] = outcome[s]
    <3>1. CASE StartPersistentAttempt(r)
      BY <1>a, <3>1 DEF StartPersistentAttempt, BeginTurn, FailAttempt
    <3>2. CASE StartDirectAttempt(r)
      BY <1>a, <3>2 DEF StartDirectAttempt, BeginTurn, FailAttempt
    <3>3. CASE EndTurn(r) \/ HandleResult(r)
      BY <1>a, <3>3 DEF EndTurn, HandleResult
    <3>4. CASE Rotate(r)
      BY <1>a, <3>4 DEF Rotate, BeginTurn
    <3>5. QED  BY <1>8, <3>1, <3>2, <3>3, <3>4
  <2>3. ~Recovering
    BY <1>a, <2>1, NothingUnderWay
  <2>4. QED  BY <1>a, <2>1, <2>2, <2>3, QuietStep
<1>9. ASSUME NEW r \in Runs, PublishDone(r)  PROVE DoneInv'
  <2> DEFINE status == StatusOf(outcome[r])
  <2>1. /\ calls = <<>> /\ phase[r] = "reporting"
        /\ log' = [log EXCEPT ![r] =
                      IF HasDone(@) THEN @ ELSE Published(@, status)]
        /\ phase' = [phase EXCEPT ![r] = "finalizing"]
        /\ UNCHANGED <<input, row, restarts, outcome, calls>>
        /\ Submitted' = Submitted
    BY <1>9, SubmittedStable DEF PublishDone, Idle
  <2>2. ~Recovering /\ r \in Submitted
    BY <1>a, <2>1, NothingUnderWay DEF TypeOK
  <2>3. status \in TerminalStatus
    BY DEF StatusOf, TerminalStatus
  <2> HIDE DEF status
  <2>4. Settled(log'[r]) /\ Says(log'[r], status)
    BY <1>a, <2>1, <2>2, <2>3, NotDoneYet, DoneSettles
  <2>5. Justified(r)'
    BY <1>a, <2>1, <2>4 DEF Justified, status
  <2>6. \A s \in Runs : s # r => log'[s] = log[s] /\ phase'[s] = phase[s]
    BY <1>a, <2>1
  <2>7. \A s \in Submitted : Justified(s)'
    BY <1>a, <2>1, <2>2, <2>5, <2>6, JustifiedKept
  <2>8. QED
    BY <1>a, <2>1, <2>2, <2>6, <2>7, DoneNow
<1>10. ASSUME NEW r \in Runs, FinishRun(r)  PROVE DoneInv'
  <2> DEFINE status == StatusOf(outcome[r])
  <2>1. /\ calls = <<>> /\ phase[r] = "finalizing"
        /\ row' = [row EXCEPT ![r] = RowOf(status, status, "none")]
        /\ phase' = [phase EXCEPT ![r] = "idle"]
        /\ outcome' = [outcome EXCEPT ![r] = "none"]
        /\ calls' = CompletionCalls(r)
        /\ UNCHANGED <<input, log, restarts>>
        /\ Submitted' = Submitted
    BY <1>10, SubmittedStable DEF FinishRun, Idle
  <2>2. ~Recovering /\ r \in Submitted
    BY <1>a, <2>1, NothingUnderWay DEF TypeOK
  <2>3. status \in TerminalStatus
    BY DEF StatusOf, TerminalStatus
  <2>4. /\ row'[r].public = status /\ row'[r].internal = status
        /\ \A s \in Runs : s # r => /\ row'[s] = row[s] /\ phase'[s] = phase[s]
                                    /\ outcome'[s] = outcome[s]
    BY <1>a, <2>1 DEF RowOf
  <2>5. ~Terminal(r)
    BY <1>a, <2>1, <2>2
    DEF RecordInv, RowsMatch, StatusIn, Terminal, TerminalStatus, Executing
  <2>6. Settled(log[r]) /\ (HasDone(log[r]) => Says(log[r], status))
    BY <2>2, <2>5 DEF DoneInv, DoneJustified, Justified
  <2> HIDE DEF status
  <2>7. Justified(r)'
    BY <2>1, <2>3, <2>4, <2>6 DEF Justified, Terminal
  <2>8. ASSUME NEW s \in Submitted
        PROVE  /\ Justified(s)'
               /\ row'[s].internal = "orphaned" => row[s].internal = "orphaned"
    BY <1>a, <2>1, <2>2, <2>3, <2>4, <2>7, JustifiedKept DEF TerminalStatus
  <2>9. \A c \in ToSet(calls') :
           c.op \in {"startNextPersistentRuns", "startNextQueuedThreadRun"}
    <3>1. \A c \in ToSet(calls') :
             c \in {CallAlone("startNextPersistentRuns"),
                    CallThread(ThreadOf(r))}
      BY <2>1 DEF CompletionCalls, ToSet
    <3>2. QED  BY <1>b, <3>1
  <2>10. CancelOnce(calls')
    BY <2>9 DEF CancelOnce, ToSet
  <2>11. QED
    BY <1>a, <2>1, <2>2, <2>4, <2>8, <2>9, <2>10, DoneNow
<1>11. ASSUME NEW r \in Submitted, CancelActiveRun(r)  PROVE DoneInv'
  <2>1. /\ calls = <<>> /\ {r} \subseteq ActiveRuns
        /\ row' = CancelingRows(row, {r}) /\ log' = CancelingLogs({r})
        /\ UNCHANGED <<input, restarts, phase, outcome, calls>>
    BY <1>11 DEF CancelActiveRun, CancelActive, Idle
  <2>2. \A s \in Runs :
           \/ row'[s] = row[s] /\ log'[s] = log[s]
           \/ /\ s \in ActiveRuns /\ row'[s].internal = "canceling"
              /\ log'[s] = Published(log[s], "canceling")
    BY <1>a, <2>1, CancelingWrites
  <2>3. QED  BY <1>a, <2>1, <2>2, NothingUnderWay, QuietStep
<1>12. ASSUME NEW r \in Submitted, CancelQueuedRun(r)  PROVE DoneInv'
  <2>1. calls = <<>> /\ UNCHANGED <<input, restarts, outcome>>
    BY <1>12 DEF CancelQueuedRun, Idle
  <2>2. CancelOnce(<<>>) /\ <<>> \in Seq(Call)
    BY EmptySeq DEF CancelOnce
  <2>3. QED
    BY <1>a, <1>12, <2>1, <2>2, NothingUnderWay, RemovedDone
    DEF CancelQueuedRun
<1>13. ASSUME NEW r \in Submitted, SteerRun(r)  PROVE DoneInv'
  <2> DEFINE canceled == Interrupted(ThreadOf(r))
  <2>1. /\ calls = <<>> /\ canceled \subseteq ActiveRuns
        /\ row' = CancelingRows(row, canceled)
        /\ log' = CancelingLogs(canceled)
        /\ UNCHANGED <<input, restarts, phase, outcome>>
        /\ \/ calls' = <<CallAlone("startNextPersistentRuns")>>
           \/ calls' = <<>>
    BY <1>13 DEF SteerRun, CancelActive, Idle, Interrupted
  <2> HIDE DEF canceled
  <2>2. \A s \in Runs :
           \/ row'[s] = row[s] /\ log'[s] = log[s]
           \/ /\ s \in ActiveRuns /\ row'[s].internal = "canceling"
              /\ log'[s] = Published(log[s], "canceling")
    BY <1>a, <2>1, CancelingWrites
  <2>3. \A c \in ToSet(calls') : c.op = "startNextPersistentRuns"
    <3>1. \A c \in ToSet(calls') : c = CallAlone("startNextPersistentRuns")
      BY <2>1 DEF ToSet
    <3>2. QED  BY <1>b, <3>1
  <2>4. CancelOnce(calls')
    BY <2>3 DEF CancelOnce, ToSet
  <2>5. QED
    BY <1>a, <2>1, <2>2, <2>3, <2>4, NothingUnderWay, QuietStep
<1>14. ASSUME SignOut \/ Close  PROVE DoneInv'
  <2>1. /\ calls = <<>> /\ calls' = <<CallAlone("cancelAll")>>
        /\ UNCHANGED <<input, row, log, restarts, phase, outcome>>
    BY <1>14 DEF SignOut, Close, Idle, persisted
  <2>2. \A c \in ToSet(calls') : c.op = "cancelAll"
    <3>1. \A c \in ToSet(calls') : c = CallAlone("cancelAll")
      BY <2>1 DEF ToSet
    <3>2. QED  BY <1>b, <3>1
  <2>3. CancelOnce(calls')
    BY <2>2 DEF CancelOnce, ToSet
  <2>4. QED
    BY <1>a, <2>1, <2>2, <2>3, NothingUnderWay, QuietStep
<1>15. CASE Restart
  BY <1>a, <1>15, RestartDone
<1>16. ASSUME NEW t \in Threads, NEW origin \in Origins, NEW mode \in Modes,
              StartRun(t, origin, mode)
       PROVE  DoneInv'
  BY <1>a, <1>16, StartRunDone
<1>17. CASE UNCHANGED vars
  <2>1. UNCHANGED <<input, row, log, restarts, phase, outcome, calls>>
    BY <1>17 DEF vars
  <2>2. /\ Submitted' = Submitted
        /\ \A r : Terminal(r)' <=> Terminal(r)
    BY <2>1, SubmittedStable DEF Terminal
  <2>3. /\ Recovering' <=> Recovering
    BY <2>1, <2>2 DEF Recovering
  <2>4. \A r : Justified(r)' <=> Justified(r)
    BY <2>1, <2>2, <2>3 DEF Justified
  <2>5. QED
    BY <1>a, <2>1, <2>2, <2>3, <2>4
    DEF DoneInv, CancelsPending, RecoveriesPending, DoneJustified, FreshLogs,
        OrphansOfRestarts, OnTop
<1>18. QED
  BY <1>1, <1>2, <1>3, <1>4, <1>5, <1>6, <1>7, <1>8, <1>9, <1>10, <1>11,
     <1>12, <1>13, <1>14, <1>15, <1>16, <1>17
  DEF Next, CallStep, TaskStep, Request

\* The done events of every stream are justified by the rows, the tasks and
\* the recovery (finalizeRun, cancelQueuedRun, recoverOrphanedRuns).
THEOREM Announced == Spec => []DoneInv
BY DoneInit, DoneStep, PTL DEF Spec

\* What is announced once is announced at most once.
LEMMA SettledOnce ==
    ASSUME DoneInv
    PROVE  AtMostOneDone
<1> SUFFICES ASSUME NEW r \in Runs
             PROVE  Cardinality({i \in DOMAIN log[r] :
                                    log[r][i] \in TerminalStatus}) <= 1
  BY DEF AtMostOneDone
<1> DEFINE done == {i \in DOMAIN log[r] : log[r][i] \in TerminalStatus}
<1>1. \A i, j \in done : i = j
  <2>1. CASE r \in Submitted
    BY <2>1 DEF DoneInv, DoneJustified, Justified, Settled
  <2>2. CASE r \notin Submitted
    BY <2>2 DEF DoneInv, FreshLogs
  <2>3. QED  BY <2>1, <2>2
<1> HIDE DEF done
<1>2. CASE done = {}
  BY <1>2, FS_EmptySet DEF done
<1>3. ASSUME NEW i \in done  PROVE Cardinality(done) = 1
  <2>1. done = {i}
    BY <1>1, <1>3
  <2>2. QED  BY <2>1, FS_Singleton
<1>4. Cardinality(done) <= 1
  BY <1>2, <1>3, FS_EmptySet
<1>5. QED  BY <1>4 DEF done

\* A run has one done event at most, whatever is canceled, however it ends and
\* however often the daemon stops in between and recovers it (finalizeRun and
\* recoverOrphanedRuns look for a done event before they publish one).
THEOREM OneDone == Spec => []AtMostOneDone
BY Announced, SettledOnce, PTL

\* Of the rows, only those of orphans can say something else than the stream.
DoneMatchesUnlessOrphaned ==
    \A r \in Submitted :
       Terminal(r) /\ row[r].internal # "orphaned"
       => Says(log[r], row[r].public)

\* Justified ends are those of the rows.
LEMMA JustifiedMatches ==
    ASSUME DoneInv
    PROVE  /\ DoneMatchesUnlessOrphaned
           /\ restarts = 0 => DoneMatchesRow
<1>1. ASSUME NEW r \in Submitted, Terminal(r), row[r].internal # "orphaned"
      PROVE  Says(log[r], row[r].public)
  <2>1. Justified(r) /\ TypeOK /\ r \in Runs
    BY SubmittedType
    DEF DoneInv, DoneJustified, RecordInv, PlacementInv
  <2>2. CASE ~HasDone(log[r])
    BY <2>2, NothingSaid
  <2>3. phase[r] # "finalizing"
    BY <1>1
    DEF DoneInv, RecordInv, RowsMatch, StatusIn, Terminal, TerminalStatus,
        Executing
  <2>4. QED  BY <1>1, <2>1, <2>2, <2>3 DEF Justified
<1>2. restarts = 0 => \A r \in Submitted : row[r].internal # "orphaned"
  BY DEF DoneInv, OrphansOfRestarts
<1>3. QED
  BY <1>1, <1>2 DEF DoneMatchesUnlessOrphaned, DoneMatchesRow, Says

\* The done event of a run announces the status of its terminal row, unless
\* a restart fell between the two and the recovery marked the run orphaned
\* (finalizeRun publishes before it writes the row).
THEOREM DoneIsRow == Spec => []DoneMatchesUnlessOrphaned
BY Announced, JustifiedMatches, PTL

\* So until the daemon is restarted done events and rows always agree.
THEOREM DoneMatches == Spec => [](restarts = 0 => DoneMatchesRow)
BY Announced, JustifiedMatches, PTL

-----------------------------------------------------------------------------
(* Cancels: a process that has a cancel to hear of has heard of it.        *)

\* A cancel reaches the process of every run that did not replace its thread.
Told ==
    \A r \in Runs :
       phase[r] = "turn" /\ row[r].internal = "canceling"
       => r \in canceledProcesses \cup rotated

\* Threads are replaced only when Codex can lose them.
RotatedWhenMissing ==
    "resumeMissing" \notin Failures
    => rotated = {} /\ \A r \in Runs : outcome[r] # "resumeMissing"

ToldInv == TypeOK /\ Told /\ RotatedWhenMissing

\* A step that marks runs as canceling and tells their processes.
LEMMA CancelTells ==
    ASSUME TypeOK, Told, NEW canceled \in SUBSET Runs,
           \A s \in Runs :
              row'[s].internal = "canceling" /\ phase'[s] = "turn"
              => row[s].internal = "canceling" \/ s \in canceled,
           \A s \in Runs : phase'[s] = "turn" => phase[s] = "turn",
           rotated' = rotated, CancelProcesses(canceled)
    PROVE  Told'
BY DEF Told, CancelProcesses

\* The cancel of some active runs.
LEMMA CancelActiveTells ==
    ASSUME TypeOK, Told, NEW canceled \in SUBSET Runs,
           CancelActive(canceled), UNCHANGED <<phase, rotated>>
    PROVE  Told'
<1>1. \A s \in Runs : row'[s].internal = "canceling"
                      => row[s].internal = "canceling" \/ s \in canceled
  BY DEF CancelActive, CancelingRows, TypeOK
<1>2. QED  BY <1>1, CancelTells DEF CancelActive

\* A step that tells no process and starts none.
LEMMA NobodyToTell ==
    ASSUME Told, canceledProcesses' = canceledProcesses, rotated' = rotated,
           \A s \in Runs :
              phase'[s] = "turn"
              => phase[s] = "turn" /\ row'[s].internal = row[s].internal
    PROVE  Told'
BY DEF Told

\* The runs that wait, and those that begin to, have no process.
LEMMA QueueOrStart ==
    ASSUME TypeOK, NEW r, NEW new \in {"idle", "admitted"},
           phase' = [phase EXCEPT ![r] = new]
    PROVE  \A s \in Runs : phase'[s] = "turn" => phase[s] = "turn" /\ s # r
BY DEF TypeOK

\* A new daemon has no process.
LEMMA ToldInit == Init => ToldInv
<1> SUFFICES ASSUME Init  PROVE ToldInv
  OBVIOUS
<1>1. Told /\ RotatedWhenMissing
  BY DEF Init, Told, RotatedWhenMissing
<1>2. QED  BY <1>1, TypeInit DEF ToldInv

\* Every step tells the processes that it has to, action by action.
LEMMA ToldStep == ToldInv /\ [Next]_vars => ToldInv'
<1> SUFFICES ASSUME ToldInv, [Next]_vars  PROVE Told' /\ RotatedWhenMissing'
  BY TypeStep DEF ToldInv
<1>a. /\ TypeOK /\ Told /\ RotatedWhenMissing /\ Submitted \subseteq Runs
      /\ phase \in [Runs -> Phase] /\ row \in [Runs -> Row]
      /\ outcome \in [Runs -> Outcome]
      /\ canceledProcesses \subseteq Runs /\ rotated \subseteq Runs
  BY SubmittedType DEF ToldInv, TypeOK
<1>b. ASSUME rotated' = rotated,
             \A r \in Runs : outcome'[r] \in {outcome[r], "none"}
      PROVE  RotatedWhenMissing'
  BY <1>a, <1>b DEF RotatedWhenMissing
<1>1. ASSUME NEW r \in Runs, Launch(r)
      PROVE  Told' /\ RotatedWhenMissing'
  <2>1. \A s \in Runs : phase'[s] = "turn"
                        => phase[s] = "turn" /\ row'[s] = row[s]
    BY <1>a, <1>1 DEF Launch
  <2>2. \A s \in Runs : outcome'[s] \in {outcome[s], "none"}
    BY <1>a, <1>1 DEF Launch
  <2>3. QED  BY <1>a, <1>b, <1>1, <2>1, <2>2, NobodyToTell DEF Launch
<1>2. ASSUME NEW r \in Runs, FailBeforeSpawn(r)
      PROVE  Told' /\ RotatedWhenMissing'
  <2>1. \A s \in Runs : phase'[s] = "turn"
                        => phase[s] = "turn" /\ row'[s] = row[s]
    BY <1>a, <1>2 DEF FailBeforeSpawn
  <2>2. QED  BY <1>a, <1>b, <1>2, <2>1, NobodyToTell DEF FailBeforeSpawn
<1>3. ASSUME StartNextPersistentRuns  PROVE Told' /\ RotatedWhenMissing'
  <2>1. /\ UNCHANGED <<row, outcome, rotated, canceledProcesses>>
        /\ \A s \in Runs : phase'[s] = "turn" => phase[s] = "turn"
    BY <1>a, <1>3, QueueOrStart DEF StartNextPersistentRuns, Dequeue
  <2>2. QED  BY <1>a, <1>b, <2>1, NobodyToTell
<1>4. ASSUME NEW t \in Threads, StartNextQueuedThreadRun(t)
      PROVE  Told' /\ RotatedWhenMissing'
  <2>1. /\ UNCHANGED <<row, outcome, rotated, canceledProcesses>>
        /\ \A s \in Runs : phase'[s] = "turn" => phase[s] = "turn"
    BY <1>a, <1>4, QueueOrStart DEF StartNextQueuedThreadRun, Dequeue
  <2>2. QED  BY <1>a, <1>b, <2>1, NobodyToTell
<1>5. ASSUME NEW r \in Runs, PublishQueuedCancel(r) \/ RecoverEvents(r)
      PROVE  Told' /\ RotatedWhenMissing'
  <2>1. UNCHANGED <<row, phase, outcome, rotated, canceledProcesses>>
    BY <1>5 DEF PublishQueuedCancel, RecoverEvents
  <2>2. QED  BY <1>a, <1>b, <2>1, NobodyToTell
<1>c. ASSUME NEW key, NEW i, NEW rest, RemoveQueuedRun(key, i, rest),
             UNCHANGED <<outcome, rotated>>
      PROVE  Told' /\ RotatedWhenMissing'
  <2> DEFINE r == queues[key][i]
  <2>1. /\ phase' = [phase EXCEPT ![r] = "idle"]
        /\ row' = [row EXCEPT ![r] = RowOf("canceled", "canceled", "none")]
        /\ UNCHANGED canceledProcesses
    BY <1>c DEF RemoveQueuedRun
  <2> HIDE DEF r
  <2>2. \A s \in Runs : phase'[s] = "turn"
                        => phase[s] = "turn" /\ row'[s] = row[s]
    BY <1>a, <2>1, QueueOrStart
  <2>3. QED  BY <1>a, <1>b, <1>c, <2>1, <2>2, NobodyToTell
<1>6. ASSUME CancelAll  PROVE Told' /\ RotatedWhenMissing'
  <2>1. UNCHANGED <<outcome, rotated>>
    BY <1>6 DEF CancelAll
  <2>2. CASE CancelActive(ActiveRuns) /\ UNCHANGED phase
    <3>1. Told'
      BY <1>a, <2>1, <2>2, CancelActiveTells DEF ActiveRuns
    <3>2. QED  BY <1>b, <2>1, <3>1
  <2>3. QED  BY <1>6, <1>c, <2>1, <2>2 DEF CancelAll
<1>7. ASSUME RecoverOrphan  PROVE Told' /\ RotatedWhenMissing'
  <2>1. UNCHANGED <<phase, outcome, rotated, canceledProcesses>>
    BY <1>7 DEF RecoverOrphan
  <2>2. \A s \in Runs : row'[s].internal = "canceling"
                        => row[s].internal = "canceling"
    <3>1. ASSUME NEW r \in Submitted, NEW queue,
                 row' = [row EXCEPT ![r] = RowOf("failed", "orphaned", queue)]
          PROVE  \A s \in Runs : row'[s].internal = "canceling"
                                 => row[s].internal = "canceling"
      BY <1>a, <3>1 DEF RowOf
    <3>2. CASE row' = row
      BY <3>2
    <3>3. QED  BY <1>7, <3>1, <3>2 DEF RecoverOrphan
  <2>3. QED  BY <1>a, <1>b, <2>1, <2>2 DEF Told
<1>d. ASSUME NEW r \in Runs, NEW tell \in BOOLEAN, BeginTurn(r, tell),
             row' = row, rotated \subseteq rotated',
             tell \/ r \in rotated'
      PROVE  Told'
  <2>1. /\ \A s \in Runs : s # r => phase'[s] = phase[s]
        /\ \A s \in canceledProcesses : s # r => s \in canceledProcesses'
    BY <1>a, <1>d DEF BeginTurn
  <2>2. CASE tell
    <3>1. row[r].internal = "canceling" => r \in canceledProcesses'
      BY <1>d, <2>2 DEF BeginTurn
    <3>2. QED  BY <1>a, <1>d, <2>1, <3>1 DEF Told
  <2>3. CASE ~tell
    BY <1>a, <1>d, <2>1, <2>3 DEF Told
  <2>4. QED  BY <2>2, <2>3
<1>e. ASSUME NEW r \in Runs, NEW how \in {"refused", "failed"},
             FailAttempt(r, how), row' = row, rotated' = rotated
      PROVE  Told' /\ RotatedWhenMissing'
  BY <1>a, <1>e DEF FailAttempt, Told, RotatedWhenMissing
<1>8. ASSUME NEW r \in Runs, StartPersistentAttempt(r) \/ StartDirectAttempt(r)
      PROVE  Told' /\ RotatedWhenMissing'
  <2>1. UNCHANGED <<row, rotated>>
    BY <1>8 DEF StartPersistentAttempt, StartDirectAttempt
  <2>2. CASE BeginTurn(r, TRUE)
    <3>1. Told'
      BY <1>d, <2>1, <2>2
    <3>2. RotatedWhenMissing'
      BY <1>a, <1>b, <2>1, <2>2 DEF BeginTurn
    <3>3. QED  BY <3>1, <3>2
  <2>3. CASE FailAttempt(r, "refused") \/ FailAttempt(r, "failed")
    BY <1>e, <2>1, <2>3
  <2>4. QED
    BY <1>8, <2>2, <2>3 DEF StartPersistentAttempt, StartDirectAttempt
<1>9. ASSUME NEW r \in Runs, EndTurn(r)  PROVE Told' /\ RotatedWhenMissing'
  <2>1. /\ UNCHANGED <<row, rotated, canceledProcesses>>
        /\ phase' = [phase EXCEPT ![r] = "releasing"]
        /\ \E how \in PossibleOutcomes(r) :
              outcome' = [outcome EXCEPT ![r] = how]
    BY <1>9 DEF EndTurn
  <2>2. \A s \in Runs : phase'[s] = "turn" => phase[s] = "turn"
    BY <1>a, <2>1
  <2>3. "resumeMissing" \notin Failures
        => \A how \in PossibleOutcomes(r) : how # "resumeMissing"
    BY DEF PossibleOutcomes
  <2>4. RotatedWhenMissing'
    BY <1>a, <2>1, <2>3 DEF RotatedWhenMissing
  <2>5. QED  BY <1>a, <2>1, <2>2, <2>4, NobodyToTell
<1>10. ASSUME NEW r \in Runs, HandleResult(r) \/ PublishDone(r)
       PROVE  Told' /\ RotatedWhenMissing'
  <2>1. UNCHANGED <<row, outcome, rotated, canceledProcesses>>
    BY <1>10 DEF HandleResult, PublishDone
  <2>2. \A s \in Runs : phase'[s] = "turn" => phase[s] = "turn"
    BY <1>a, <1>10 DEF HandleResult, PublishDone
  <2>3. QED  BY <1>a, <1>b, <2>1, <2>2, NobodyToTell
<1>11. ASSUME NEW r \in Runs, Rotate(r)  PROVE Told' /\ RotatedWhenMissing'
  <2>1. /\ row' = row /\ rotated' = rotated \cup {r}
        /\ outcome[r] = "resumeMissing"
    BY <1>11 DEF Rotate
  <2>2. RotatedWhenMissing'
    BY <1>a, <2>1 DEF RotatedWhenMissing
  <2>3. CASE BeginTurn(r, FALSE)
    BY <1>d, <2>1, <2>2, <2>3
  <2>4. CASE /\ phase' = [phase EXCEPT ![r] = "stuck"]
             /\ UNCHANGED canceledProcesses
    BY <1>a, <2>1, <2>2, <2>4 DEF Told
  <2>5. QED  BY <1>11, <2>3, <2>4 DEF Rotate
<1>12. ASSUME NEW r \in Runs, FinishRun(r)  PROVE Told' /\ RotatedWhenMissing'
  <2>1. /\ phase' = [phase EXCEPT ![r] = "idle"]
        /\ outcome' = [outcome EXCEPT ![r] = "none"]
        /\ rotated' = rotated \ {r}
        /\ canceledProcesses' = canceledProcesses \ {r}
        /\ \A s \in Runs : s # r => row'[s] = row[s]
    BY <1>a, <1>12 DEF FinishRun
  <2>2. Told'
    BY <1>a, <2>1 DEF Told
  <2>3. RotatedWhenMissing'
    BY <1>a, <2>1 DEF RotatedWhenMissing
  <2>4. QED  BY <2>2, <2>3
<1>13. ASSUME NEW r \in Submitted, CancelActiveRun(r)
       PROVE  Told' /\ RotatedWhenMissing'
  BY <1>a, <1>b, <1>13, CancelActiveTells DEF CancelActiveRun
<1>14. ASSUME NEW r \in Submitted, CancelQueuedRun(r)
       PROVE  Told' /\ RotatedWhenMissing'
  BY <1>14, <1>c DEF CancelQueuedRun
<1>15. ASSUME NEW r \in Submitted, SteerRun(r)
       PROVE  Told' /\ RotatedWhenMissing'
  <2>1. /\ CancelActive(Interrupted(ThreadOf(r)))
        /\ UNCHANGED <<phase, rotated, outcome>>
        /\ Interrupted(ThreadOf(r)) \subseteq Runs
    BY <1>15 DEF SteerRun, Interrupted, ActiveRuns
  <2>2. QED  BY <1>a, <1>b, <2>1, CancelActiveTells
<1>16. ASSUME SignOut \/ Close \/ UNCHANGED vars
       PROVE  Told' /\ RotatedWhenMissing'
  <2>1. UNCHANGED <<row, phase, outcome, rotated, canceledProcesses>>
    BY <1>16 DEF SignOut, Close, persisted, vars
  <2>2. QED  BY <1>a, <1>b, <2>1, NobodyToTell
<1>17. CASE Restart
  BY <1>17 DEF Restart, Told, RotatedWhenMissing
<1>18. ASSUME NEW t \in Threads, NEW origin \in Origins, NEW mode \in Modes,
              StartRun(t, origin, mode)
       PROVE  Told' /\ RotatedWhenMissing'
  <2> DEFINE request == [thread |-> t, origin |-> origin, mode |-> mode]
             persistent == AppServer /\ origin = "api"
             canceled == IF mode = "interrupt_and_enqueue"
                           THEN Interrupted(t) ELSE {}
  <2>1. PICK r \in Runs : IF MustQueue(t, persistent)
                            THEN QueueRun(r, request, persistent)
                            ELSE AdmitRun(r)
    BY <1>18 DEF StartRun
  <2>2. UNCHANGED <<outcome, rotated>>
    BY <1>18 DEF StartRun
  <2>3. CASE QueueRun(r, request, persistent)
    <3>1. /\ row' = [CancelingRows(row, canceled) EXCEPT
                       ![r] = RowOf("queued", "queued", "queued")]
          /\ CancelProcesses(canceled)
          /\ phase' = [phase EXCEPT ![r] = "queued"]
          /\ canceled \subseteq Runs
      BY <2>3 DEF QueueRun, Interrupted, ActiveRuns
    <3> HIDE DEF canceled
    <3>2. \A s \in Runs : row'[s].internal = "canceling"
                          => row[s].internal = "canceling" \/ s \in canceled
      BY <1>a, <3>1 DEF CancelingRows, RowOf
    <3>3. \A s \in Runs : phase'[s] = "turn" => phase[s] = "turn"
      BY <1>a, <3>1
    <3>4. Told'
      BY <1>a, <2>2, <3>1, <3>2, <3>3, CancelTells
    <3>5. QED  BY <1>b, <2>2, <3>4
  <2>4. CASE AdmitRun(r)
    <3>1. /\ UNCHANGED canceledProcesses
          /\ \A s \in Runs : phase'[s] = "turn"
                             => phase[s] = "turn" /\ row'[s] = row[s]
      BY <1>a, <2>4 DEF AdmitRun
    <3>2. QED  BY <1>a, <1>b, <2>2, <3>1, NobodyToTell
  <2>5. QED  BY <2>1, <2>3, <2>4
<1>19. QED
  BY <1>1, <1>2, <1>3, <1>4, <1>5, <1>6, <1>7, <1>8, <1>9, <1>10, <1>11,
     <1>12, <1>13, <1>14, <1>15, <1>16, <1>17, <1>18
  DEF Next, CallStep, TaskStep, Request

\* A cancel that the daemon accepted has reached the process of the run,
\* however it fell between the steps of the start, unless the run replaced its
\* Codex thread (startAttempt tells the process of a cancel that came first,
\* the attempt of rotateAppServerAfterResumeFailure is not told).
THEOREM CancelsTold == Spec => []ToldInv
BY ToldInit, ToldStep, PTL DEF Spec

\* Told of every run is what the runs check.
LEMMA ToldReaches ==
    ASSUME ToldInv
    PROVE  "resumeMissing" \notin Failures => CancelReachesProcess
BY DEF ToldInv, Told, RotatedWhenMissing, CancelReachesProcess

\* As long as Codex loses no thread, every accepted cancel reaches the process
\* that executes the run.
THEOREM CancelsReach ==
    Spec => []("resumeMissing" \notin Failures => CancelReachesProcess)
BY CancelsTold, ToldReaches, PTL

-----------------------------------------------------------------------------
(* The manager implements RunLifecycle.                                    *)

\* What a client sees: the statuses, threads and places of the submitted runs.
PublicStatuses == [r \in Runs |-> row[r].public]
RunThreads == [r \in Submitted |-> ThreadOf(r)]
PooledRuns == {r \in Submitted : IsPersistent(r)}

\* A step that changes no public status is invisible.
LEMMA Invisible ==
    ASSUME UNCHANGED input, \A r \in Runs : row'[r].public = row[r].public
    PROVE  UNCHANGED Lifecycle!vars
<1>1. PublicStatuses' = PublicStatuses
  BY DEF PublicStatuses
<1>2. RunThreads' = RunThreads /\ PooledRuns' = PooledRuns
  BY SubmittedStable DEF RunThreads, PooledRuns
<1>3. QED
  BY <1>1, <1>2
  DEF Lifecycle!vars, PublicStatuses, RunThreads, PooledRuns

\* A step that writes a terminal status to a run that has none ends it.
LEMMA EndsRun ==
    ASSUME UNCHANGED input, NEW r \in Runs, NEW status \in TerminalStatus,
           row[r].public \in {"queued", "running"},
           row[r].public = "queued" => status # "succeeded",
           \A s \in Runs :
              row'[s].public = IF s = r THEN status ELSE row[s].public
    PROVE  Lifecycle!Next
<1>1. /\ RunThreads' = RunThreads /\ PooledRuns' = PooledRuns
  BY SubmittedStable DEF RunThreads, PooledRuns
<1>2. PublicStatuses' = [PublicStatuses EXCEPT ![r] = status]
  BY DEF PublicStatuses
<1>3. /\ PublicStatuses[r] \in {"queued", "running"}
      /\ PublicStatuses[r] = "queued" => status # "succeeded"
  BY DEF PublicStatuses
<1>4. Lifecycle!End(r, status)
  BY <1>1, <1>2, <1>3
  DEF Lifecycle!End, PublicStatuses, RunThreads, PooledRuns
<1>5. status \in Lifecycle!Terminal
  BY DEF Lifecycle!Terminal, TerminalStatus
<1>6. QED  BY <1>4, <1>5 DEF Lifecycle!Next

\* Whatever says running holds its thread and, in the pool, a place.
LEMMA RunningHolds ==
    ASSUME RecordInv, ~Recovering
    PROVE  \A s \in Runs :
              row[s].public = "running"
              => /\ s \in Submitted /\ phase[s] \in Executing
                 /\ runningThreadRun[ThreadOf(s)] = s /\ s # NoRun
                 /\ IsPersistent(s) => s \in runningPersistentRunIds
<1> SUFFICES ASSUME NEW s \in Runs, row[s].public = "running"
             PROVE  /\ s \in Submitted /\ phase[s] \in Executing
                    /\ runningThreadRun[ThreadOf(s)] = s /\ s # NoRun
                    /\ IsPersistent(s) => s \in runningPersistentRunIds
  OBVIOUS
<1>1. s \in Submitted
  BY DEF RecordInv, RowsMatch
<1>2. phase[s] \in Executing
  BY <1>1 DEF RecordInv, RowsMatch, StatusIn, TerminalStatus
<1>3. s # NoRun
  BY RunManagerAssumption DEF Runs, NoRun
<1>4. QED
  BY <1>1, <1>2, <1>3
  DEF RecordInv, PlacementInv, ThreadsHeld, PlacesHeld

\* startExistingRun takes a free thread and a free place.
LEMMA LaunchStarts ==
    ASSUME RecordInv, NEW r \in Runs, Launch(r)
    PROVE  Lifecycle!Next
<1>1. /\ OnTop(CallRun("startExistingRun", r)) /\ UNCHANGED input
      /\ row' = [row EXCEPT ![r] = RowOf("running", "running", "started")]
      /\ TypeOK /\ row \in [Runs -> Row]
  BY DEF Launch, RecordInv, PlacementInv, TypeOK
<1>2. /\ r \in Submitted /\ phase[r] = "admitted" /\ ~Recovering
  BY <1>1, OneAdmitted
<1>3. /\ runningThreadRun[ThreadOf(r)] = NoRun
      /\ IsPersistent(r) => ~AtCapacity
  BY <1>1, <1>2 DEF RecordInv, PlacementInv, StartsAreFree
<1>4. row[r].public = "queued"
  BY <1>2 DEF RecordInv, RowsMatch, StatusIn
<1>5. \A s \in Runs : row'[s].public = IF s = r THEN "running"
                                       ELSE row[s].public
  BY <1>1 DEF RowOf
<1> DEFINE Running == {s \in Runs : PublicStatuses[s] = "running"}
<1>6. \A s \in Running :
         /\ s \in Submitted /\ runningThreadRun[ThreadOf(s)] = s /\ s # NoRun
         /\ IsPersistent(s) => s \in runningPersistentRunIds
  BY <1>2, RunningHolds DEF PublicStatuses
<1>7. \A s \in Running : RunThreads[s] # RunThreads[r]
  BY <1>2, <1>3, <1>6 DEF RunThreads
<1>8. ASSUME IsPersistent(r)
      PROVE  Cardinality(Running \cap PooledRuns) < MaxConcurrency
  <2> DEFINE pooled == Running \cap PooledRuns
  <2>1. pooled \subseteq runningPersistentRunIds
    BY <1>6 DEF PooledRuns
  <2> HIDE DEF pooled
  <2>2. /\ IsFiniteSet(runningPersistentRunIds)
        /\ Cardinality(runningPersistentRunIds) \in Nat
        /\ Cardinality(runningPersistentRunIds) < MaxConcurrency
    BY <1>1, <1>3, <1>8, FiniteIds, MaxConcurrencyAssumption DEF AtCapacity
  <2>3. /\ IsFiniteSet(pooled)
        /\ Cardinality(pooled) <= Cardinality(runningPersistentRunIds)
    BY <2>1, <2>2, FS_Subset
  <2>4. Cardinality(pooled) \in Nat
    BY <2>3, FS_CardinalityType
  <2>5. Cardinality(pooled) < MaxConcurrency
    BY <2>2, <2>3, <2>4, MaxConcurrencyAssumption
  <2>6. QED  BY <2>5 DEF pooled
<1>9. /\ PublicStatuses[r] = "queued"
      /\ PublicStatuses' = [PublicStatuses EXCEPT ![r] = "running"]
      /\ RunThreads' = RunThreads /\ PooledRuns' = PooledRuns
      /\ r \in PooledRuns => IsPersistent(r)
  BY <1>1, <1>4, <1>5, SubmittedStable
  DEF PublicStatuses, RunThreads, PooledRuns
<1>10. Running = Lifecycle!Running
  BY DEF Lifecycle!Running, PublicStatuses
<1>11. Lifecycle!Start(r)
  <2>1. \A s \in Lifecycle!Running : RunThreads[s] # RunThreads[r]
    BY <1>7, <1>10
  <2>2. \A S : Lifecycle!Cardinality(S) = Cardinality(S)
    BY DEF Lifecycle!Cardinality, Cardinality
  <2>3. r \in PooledRuns
        => Lifecycle!Cardinality(Lifecycle!Running \cap PooledRuns)
              < MaxConcurrency
    BY <1>8, <1>9, <1>10, <2>2
  <2>4. QED
    BY <1>9, <2>1, <2>3
    DEF Lifecycle!Start, PublicStatuses, RunThreads, PooledRuns
<1>12. QED  BY <1>11 DEF Lifecycle!Next

\* startRun submits a run, queued or on its way to startExistingRun.
LEMMA StartRunSubmits ==
    ASSUME RecordInv, NEW t \in Threads, NEW origin \in Origins,
           NEW mode \in Modes, StartRun(t, origin, mode)
    PROVE  Lifecycle!Next
<1> DEFINE request == [thread |-> t, origin |-> origin, mode |-> mode]
           persistent == AppServer /\ origin = "api"
           canceled == IF mode = "interrupt_and_enqueue"
                         THEN Interrupted(t) ELSE {}
<1>1. /\ TypeOK /\ calls = <<>> /\ ~Recovering /\ row \in [Runs -> Row]
  BY NothingUnderWay DEF StartRun, Idle, RecordInv, PlacementInv, TypeOK
<1>2. PICK r \in Runs :
        /\ r = Len(input) + 1 /\ input' = Append(input, request)
        /\ IF MustQueue(t, persistent)
             THEN QueueRun(r, request, persistent)
             ELSE AdmitRun(r)
  BY DEF StartRun
<1>3. /\ Submitted' = Submitted \cup {r} /\ r \notin Submitted
      /\ \A s \in Submitted : input'[s] = input[s]
      /\ input'[r] = request
  <2>1. /\ input \in Seq(Input) /\ request \in Input
        /\ Len(input) \in Nat /\ DOMAIN input = 1..Len(input)
    BY <1>1, LenProperties DEF TypeOK, Input
  <2>2. /\ Len(input') = r /\ DOMAIN input' = 1..r /\ input'[r] = request
        /\ \A s \in 1..Len(input) : input'[s] = input[s]
    BY <1>2, <2>1, AppendProperties
  <2>3. QED  BY <1>2, <2>1, <2>2 DEF Submitted
<1>4. \A s \in Runs : row'[s].public = IF s = r THEN "queued"
                                       ELSE row[s].public
  <2>1. CASE MustQueue(t, persistent)
    <3>1. canceled \subseteq ActiveRuns
      BY DEF Interrupted
    <3>2. /\ CancelingRows(row, canceled) \in [Runs -> Row]
          /\ \A s \in Runs :
                CancelingRows(row, canceled)[s].public = row[s].public
      BY <1>1, <3>1, CancelingRowsType, CancelingIsRunning
    <3>3. row' = [CancelingRows(row, canceled) EXCEPT
                    ![r] = RowOf("queued", "queued", "queued")]
      BY <1>2, <2>1 DEF QueueRun
    <3> HIDE DEF canceled
    <3>4. QED  BY <3>2, <3>3 DEF RowOf
  <2>2. CASE ~MustQueue(t, persistent)
    BY <1>1, <1>2, <2>2 DEF AdmitRun, RowOf
  <2>3. QED  BY <2>1, <2>2
<1>5. row[r].public = "none"
  BY <1>3 DEF RecordInv, RowsMatch
<1>6. /\ PublicStatuses[r] = "none"
      /\ PublicStatuses' = [PublicStatuses EXCEPT ![r] = "queued"]
  BY <1>4, <1>5 DEF PublicStatuses
<1>7. RunThreads' = [s \in DOMAIN RunThreads \cup {r} |->
                       IF s = r THEN t ELSE RunThreads[s]]
  <2>1. DOMAIN RunThreads = Submitted
    BY DEF RunThreads
  <2>2. /\ \A s \in Submitted : RunThreads[s] = input[s].thread
        /\ RunThreads' = [s \in Submitted' |-> input'[s].thread]
    BY DEF RunThreads, ThreadOf
  <2>3. QED  BY <1>3, <2>1, <2>2
<1>8. PooledRuns' \in {PooledRuns, PooledRuns \cup {r}}
  <2>1. /\ PooledRuns' = {s \in Submitted' :
                            AppServer /\ input'[s].origin = "api"}
        /\ PooledRuns = {s \in Submitted :
                            AppServer /\ input[s].origin = "api"}
    BY DEF PooledRuns, IsPersistent
  <2>2. QED  BY <1>3, <2>1
<1>9. Lifecycle!Submit(r, t)
  BY <1>6, <1>7, <1>8
  DEF Lifecycle!Submit, PublicStatuses, RunThreads, PooledRuns
<1>10. QED  BY <1>9 DEF Lifecycle!Next

\* A queued run that is canceled ends without having run.
LEMMA RemovalEnds ==
    ASSUME RecordInv, UNCHANGED input, ~Recovering, NEW key \in QueueKeys,
           NEW i \in DOMAIN queues[key], NEW rest,
           RemoveQueuedRun(key, i, rest)
    PROVE  Lifecycle!Next
<1> DEFINE r == queues[key][i]
<1>1. /\ r \in Submitted /\ r \in Runs /\ phase[r] = "queued"
      /\ row \in [Runs -> Row]
  BY WaitsInItsQueue DEF RecordInv, PlacementInv, TypeOK
<1>2. row' = [row EXCEPT ![r] = RowOf("canceled", "canceled", "none")]
  BY DEF RemoveQueuedRun
<1> HIDE DEF r
<1>3. row[r].public = "queued"
  BY <1>1 DEF RecordInv, RowsMatch, StatusIn
<1>4. \A s \in Runs : row'[s].public = IF s = r THEN "canceled"
                                       ELSE row[s].public
  BY <1>1, <1>2 DEF RowOf
<1>5. QED  BY <1>1, <1>3, <1>4, EndsRun DEF TerminalStatus

\* Every step of the manager is one that clients were promised, or invisible.
LEMMA LifecycleStep ==
    RecordInv /\ [Next]_vars => [Lifecycle!Next]_(Lifecycle!vars)
<1> SUFFICES ASSUME RecordInv, [Next]_vars
             PROVE  Lifecycle!Next \/ UNCHANGED Lifecycle!vars
  OBVIOUS
<1>a. /\ TypeOK /\ Submitted \subseteq Runs
      /\ row \in [Runs -> Row] /\ phase \in [Runs -> Phase]
  BY SubmittedType DEF RecordInv, PlacementInv, TypeOK
<1>b. /\ \A t : CallThread(t).op = "startNextQueuedThreadRun"
      /\ \A f : CallAlone(f).op = f
  BY DEF CallThread, CallAlone
<1>c. ASSUME UNCHANGED <<input, row>>
      PROVE  UNCHANGED Lifecycle!vars
  BY <1>c, Invisible
<1>d. ASSUME NEW canceled \in SUBSET ActiveRuns, UNCHANGED input,
             row' = CancelingRows(row, canceled), ~Recovering
      PROVE  UNCHANGED Lifecycle!vars
  BY <1>d, CancelingIsRunning, Invisible
<1>1. ASSUME NEW r \in Runs, Launch(r)  PROVE Lifecycle!Next
  BY <1>1, LaunchStarts
<1>2. ASSUME NEW r \in Runs, FailBeforeSpawn(r)  PROVE Lifecycle!Next
  <2>1. /\ OnTop(CallRun("startExistingRun", r)) /\ UNCHANGED input
        /\ row' = [row EXCEPT ![r] = RowOf("failed", "failed", "none")]
    BY <1>2 DEF FailBeforeSpawn
  <2>2. row[r].public = "queued"
    BY <2>1, OneAdmitted DEF RecordInv, RowsMatch, StatusIn
  <2>3. \A s \in Runs : row'[s].public = IF s = r THEN "failed"
                                         ELSE row[s].public
    BY <1>a, <2>1 DEF RowOf
  <2>4. QED  BY <2>1, <2>2, <2>3, EndsRun DEF TerminalStatus
<1>3. ASSUME \/ StartNextPersistentRuns
             \/ \E t \in Threads : StartNextQueuedThreadRun(t)
             \/ \E r \in Runs : PublishQueuedCancel(r) \/ RecoverEvents(r)
      PROVE  UNCHANGED Lifecycle!vars
  BY <1>3, <1>c
  DEF StartNextPersistentRuns, StartNextQueuedThreadRun, Dequeue,
      PublishQueuedCancel, RecoverEvents
<1>4. ASSUME CancelAll  PROVE Lifecycle!Next \/ UNCHANGED Lifecycle!vars
  <2>1. ~Recovering /\ UNCHANGED input
    BY <1>4, <1>b, TopTells DEF CancelAll
  <2>2. ASSUME NEW k \in QueueKeys, queues[k] # <<>>,
               RemoveQueuedRun(k, 1, calls)
        PROVE  Lifecycle!Next
    <3>1. 1 \in DOMAIN queues[k]
      BY <1>a, <2>2 DEF TypeOK
    <3>2. QED  BY <2>1, <2>2, <3>1, RemovalEnds
  <2>3. CASE CancelActive(ActiveRuns)
    BY <1>d, <2>1, <2>3 DEF CancelActive
  <2>4. QED  BY <1>4, <2>2, <2>3 DEF CancelAll
<1>5. ASSUME RecoverOrphan  PROVE Lifecycle!Next \/ UNCHANGED Lifecycle!vars
  <2>1. Recovering /\ UNCHANGED input
    BY <1>5, RecoveryGoesOn DEF RecoverOrphan
  <2>2. ASSUME NEW r \in Submitted, ~Terminal(r),
               row' = [row EXCEPT ![r] = RowOf("failed", "orphaned", @.queue)]
        PROVE  Lifecycle!Next
    <3>1. row[r].public \in {"queued", "running"}
      <4>1. phase[r] = "idle"
        BY <1>a, <2>1 DEF RecordInv, RecoveryFirst
      <4>2. QED
        BY <2>2, <4>1 DEF RecordInv, RowsMatch, StatusIn, Terminal, Executing
    <3>2. \A s \in Runs : row'[s].public = IF s = r THEN "failed"
                                           ELSE row[s].public
      BY <1>a, <2>2 DEF RowOf
    <3>3. QED  BY <1>a, <2>1, <3>1, <3>2, EndsRun DEF TerminalStatus
  <2>3. QED  BY <1>5, <1>c, <2>1, <2>2, RecoveryGoesOn
<1>6. ASSUME NEW r \in Runs,
             \/ StartPersistentAttempt(r) \/ StartDirectAttempt(r)
             \/ EndTurn(r) \/ HandleResult(r) \/ Rotate(r) \/ PublishDone(r)
      PROVE  UNCHANGED Lifecycle!vars
  BY <1>6, <1>c
  DEF StartPersistentAttempt, StartDirectAttempt, EndTurn, HandleResult,
      Rotate, PublishDone
<1>7. ASSUME NEW r \in Runs, FinishRun(r)  PROVE Lifecycle!Next
  <2> DEFINE status == StatusOf(outcome[r])
  <2>1. /\ calls = <<>> /\ phase[r] = "finalizing" /\ UNCHANGED input
        /\ row' = [row EXCEPT ![r] = RowOf(status, status, "none")]
    BY <1>7 DEF FinishRun, Idle
  <2>2. status \in TerminalStatus
    BY DEF StatusOf, TerminalStatus
  <2> HIDE DEF status
  <2>3. ~Recovering /\ r \in Submitted
    BY <1>a, <2>1, NothingUnderWay DEF TypeOK
  <2>4. row[r].public = "running"
    BY <2>1, <2>3
    DEF RecordInv, RowsMatch, StatusIn, Executing
  <2>5. \A s \in Runs : row'[s].public = IF s = r THEN status
                                         ELSE row[s].public
    BY <1>a, <2>1 DEF RowOf
  <2>6. QED  BY <2>1, <2>2, <2>4, <2>5, EndsRun
<1>8. ASSUME NEW r \in Submitted, CancelActiveRun(r)
      PROVE  UNCHANGED Lifecycle!vars
  <2>1. /\ {r} \in SUBSET ActiveRuns /\ UNCHANGED input /\ ~Recovering
        /\ row' = CancelingRows(row, {r})
    BY <1>8, NothingUnderWay DEF CancelActiveRun, CancelActive, Idle
  <2>2. QED  BY <1>d, <2>1
<1>9. ASSUME NEW r \in Submitted, CancelQueuedRun(r)  PROVE Lifecycle!Next
  <2>1. ~Recovering /\ UNCHANGED input
    BY <1>9, NothingUnderWay DEF CancelQueuedRun, Idle
  <2>2. QED  BY <1>9, <2>1, RemovalEnds DEF CancelQueuedRun
<1>10. ASSUME NEW r \in Submitted, SteerRun(r)  PROVE UNCHANGED Lifecycle!vars
  <2> DEFINE canceled == Interrupted(ThreadOf(r))
  <2>1. /\ canceled \in SUBSET ActiveRuns /\ UNCHANGED input /\ ~Recovering
        /\ row' = CancelingRows(row, canceled)
    BY <1>10, NothingUnderWay DEF SteerRun, CancelActive, Idle, Interrupted
  <2> HIDE DEF canceled
  <2>2. QED  BY <1>d, <2>1
<1>11. ASSUME SignOut \/ Close \/ Restart \/ UNCHANGED vars
       PROVE  UNCHANGED Lifecycle!vars
  BY <1>11, <1>c DEF SignOut, Close, Restart, vars, persisted
<1>12. ASSUME NEW t \in Threads, NEW origin \in Origins, NEW mode \in Modes,
              StartRun(t, origin, mode)
       PROVE  Lifecycle!Next
  BY <1>12, StartRunSubmits
<1>13. QED
  BY <1>1, <1>2, <1>3, <1>4, <1>5, <1>6, <1>7, <1>8, <1>9, <1>10, <1>11,
     <1>12
  DEF Next, CallStep, TaskStep, Request

\* The daemon keeps the promises of its API on the status of runs, through
\* queues, steers, cancels, crashes and recoveries (the whole of the manager).
THEOREM Implements == Spec => ImplementsLifecycle
<1>1. Init => Lifecycle!Init
  <2> SUFFICES ASSUME Init  PROVE Lifecycle!Init
    OBVIOUS
  <2>1. PublicStatuses = [r \in Runs |-> "none"]
    BY DEF Init, PublicStatuses, RowOf
  <2>2. Submitted = {}
    BY DEF Init, Submitted
  <2>3. RunThreads = <<>> /\ PooledRuns = {}
    BY <2>2 DEF RunThreads, PooledRuns
  <2>4. QED
    BY <2>1, <2>3 DEF Lifecycle!Init, PublicStatuses, RunThreads, PooledRuns
<1>2. QED
  BY <1>1, LifecycleStep, Recorded, PTL
  DEF Spec, ImplementsLifecycle, Lifecycle!Spec

-----------------------------------------------------------------------------
(* Slots and runs: a busy slot executes a pooled run with a process.       *)

\* The run of a busy slot is a pooled run whose thread the slot owns, and a
\* pooled run with a process has a slot.
SlotsHeld ==
    /\ \A s \in Slots :
          pool[s].run # NoRun
          => /\ pool[s].run \in Submitted /\ IsPersistent(pool[s].run)
             /\ ThreadOf(pool[s].run) \in pool[s].threads
    /\ \A r \in Submitted :
          IsPersistent(r) /\ phase[r] \in {"turn", "releasing"}
          => \E s \in Slots : pool[s].run = r

\* Only a closing daemon gives runs up.
GivenUp == \A r \in Runs : phase[r] = "stuck" => closing

SlotsInv == OwnerInv /\ SlotsHeld /\ GivenUp

\* selectSlot returns an idle slot.
LEMMA SelectIdle ==
    ASSUME NEW p \in Pools(Runs), NEW t \in Threads,
           \A s \in Slots : p[s].run # NoRun => p[s].threads # {},
           SelectSlot(p, t) # NoSlot
    PROVE  SelectSlot(p, t) \in Slots /\ p[SelectSlot(p, t)].run = NoRun
<1>1. SelectSlot(p, t) \in Slots
  BY SelectSlotType
<1>2. QED  BY <1>1 DEF SelectSlot, Owners, Free, Created

\* A run that replaces its Codex thread gets its own slot again.
LEMMA Reseated ==
    ASSUME SlotsInv, NEW r \in Submitted, IsPersistent(r),
           phase[r] \in {"turn", "releasing"}
    PROVE  LET vacated == Vacate(pool, r)
               s == SelectSlot(vacated, ThreadOf(r))
           IN  s # NoSlot /\ Occupy(vacated, s, ThreadOf(r), r) = pool
<1> DEFINE t == ThreadOf(r)
           vacated == Vacate(pool, r)
           s == SelectSlot(vacated, t)
<1>1. /\ pool \in Pools(Runs) /\ r \in Runs /\ t \in Threads /\ TypeOK
  BY SubmittedType DEF SlotsInv, OwnerInv, TypeOK
<1>2. r # NoRun
  BY <1>1, RunManagerAssumption DEF Runs, NoRun
<1>3. PICK own \in Slots : pool[own].run = r
  BY DEF SlotsInv, SlotsHeld
<1>4. \A o \in Slots : pool[o].run = r => t \in pool[o].threads
  BY <1>2 DEF SlotsInv, SlotsHeld
<1>5. Owners(pool, t) = {own}
  BY <1>1, <1>3, <1>4 DEF SlotsInv, OwnerInv, UniqueOwners, Owners
<1>6. \A o \in Slots : pool[o].run = r => o = own
  BY <1>4, <1>5 DEF Owners
<1>7. /\ \A o \in Slots : vacated[o] = IF o = own THEN [pool[own] EXCEPT !.run = NoRun]
                                       ELSE pool[o]
      /\ vacated \in Pools(Runs)
  BY <1>1, <1>3, <1>6, VacateType DEF Vacate
<1>8. vacated[own].run = NoRun /\ vacated[own].threads = pool[own].threads
  BY <1>1, <1>7 DEF Pools
<1>9. Owners(vacated, t) = {own}
  BY <1>1, <1>5, <1>7, <1>8 DEF Owners
<1>10. s = own
  <2>1. own <= own
    BY <1>3, MaxConcurrencyAssumption DEF Slots
  <2> HIDE DEF vacated
  <2>2. {o \in Owners(vacated, t) :
           vacated[o].run = NoRun /\ \A q \in Owners(vacated, t) : o <= q} = {own}
    BY <1>8, <1>9, <2>1
  <2>3. QED  BY <1>9, <2>2 DEF SelectSlot
<1>11. s # NoSlot
  BY <1>3, <1>10, MaxConcurrencyAssumption DEF Slots, NoSlot
<1>12. Occupy(vacated, own, t, r) = pool
  <2> DEFINE q == Occupy(vacated, own, t, r)
  <2>1. q \in Pools(Runs)
    BY <1>1, <1>7, OccupyType
  <2>2. \A o \in Slots : o # own => q[o] = pool[o]
    BY <1>7 DEF Occupy, Pools
  <2>3. q[own] = [threads |-> vacated[own].threads \cup {t}, run |-> r]
    BY <1>7 DEF Occupy, Pools
  <2>4. q[own] = pool[own]
    <3>1. vacated[own].threads \cup {t} = pool[own].threads
      BY <1>3, <1>4, <1>8
    <3>2. pool[own] = [threads |-> pool[own].threads, run |-> pool[own].run]
      BY <1>1 DEF Pools
    <3>3. QED  BY <1>3, <2>3, <3>1, <3>2
  <2>5. QED  BY <1>1, <2>1, <2>2, <2>4 DEF Pools
<1>13. QED  BY <1>10, <1>11, <1>12

\* A step that neither moves runs in slots nor gives or takes processes.
LEMMA SlotsKept ==
    ASSUME SlotsHeld, UNCHANGED pool,
           Submitted \subseteq Submitted',
           \A r \in Submitted : /\ ThreadOf(r)' = ThreadOf(r)
                                /\ IsPersistent(r)' = IsPersistent(r),
           \A r \in Submitted' :
              IsPersistent(r)' /\ phase'[r] \in {"turn", "releasing"}
              => r \in Submitted /\ phase[r] \in {"turn", "releasing"}
    PROVE  SlotsHeld'
BY DEF SlotsHeld

\* startRun submits one run.
LEMMA Submission ==
    ASSUME TypeOK, NEW t \in Threads, NEW origin \in Origins,
           NEW mode \in Modes, StartRun(t, origin, mode)
    PROVE  \E r \in Runs :
              /\ r = Len(input) + 1 /\ r \notin Submitted
              /\ Submitted' = Submitted \cup {r}
              /\ \A s \in Submitted : /\ s < r /\ input'[s] = input[s]
                                      /\ ThreadOf(s)' = ThreadOf(s)
                                      /\ IsPersistent(s)' = IsPersistent(s)
              /\ input'[r] = [thread |-> t, origin |-> origin, mode |-> mode]
              /\ ThreadOf(r)' = t
              /\ IsPersistent(r)' = (AppServer /\ origin = "api")
<1> DEFINE request == [thread |-> t, origin |-> origin, mode |-> mode]
<1>1. PICK r \in Runs : r = Len(input) + 1 /\ input' = Append(input, request)
  BY DEF StartRun
<1>2. /\ input \in Seq(Input) /\ request \in Input
      /\ Len(input) \in Nat /\ DOMAIN input = 1..Len(input)
  BY LenProperties, RunManagerAssumption DEF TypeOK, Input
<1>3. /\ Len(input') = r /\ DOMAIN input' = 1..r
      /\ input'[r] = request
      /\ \A s \in 1..Len(input) : input'[s] = input[s]
  BY <1>1, <1>2, AppendProperties
<1>4. Submitted' = Submitted \cup {r} /\ r \notin Submitted
  BY <1>1, <1>2, <1>3 DEF Submitted
<1>5. \A s \in Submitted : s < r /\ input'[s] = input[s]
  BY <1>1, <1>2, <1>3 DEF Submitted
<1>6. ThreadOf(r)' = t /\ IsPersistent(r)' = (AppServer /\ origin = "api")
  BY <1>3 DEF ThreadOf, IsPersistent
<1>7. \A s \in Submitted : /\ ThreadOf(s)' = ThreadOf(s)
                           /\ IsPersistent(s)' = IsPersistent(s)
  BY <1>5 DEF ThreadOf, IsPersistent
<1>8. QED  BY <1>1, <1>3, <1>4, <1>5, <1>6, <1>7

LEMMA SlotsInit == Init => SlotsInv
<1> SUFFICES ASSUME Init  PROVE SlotsInv
  OBVIOUS
<1>1. SlotsHeld /\ GivenUp
  BY DEF Init, SlotsHeld, GivenUp, EmptyPool, Submitted
<1>2. QED  BY <1>1, OwnerInit DEF SlotsInv

\* Every step keeps runs and slots together, action by action.
LEMMA SlotsStep == SlotsInv /\ [Next]_vars => SlotsInv'
<1> SUFFICES ASSUME SlotsInv, [Next]_vars  PROVE SlotsHeld' /\ GivenUp'
  BY OwnerStep DEF SlotsInv
<1>a. /\ TypeOK /\ SlotsHeld /\ GivenUp /\ Submitted \subseteq Runs
      /\ phase \in [Runs -> Phase] /\ pool \in Pools(Runs)
      /\ \A r \in Submitted : ThreadOf(r) \in Threads
      /\ \A r \in Runs : phase[r] # "idle" => r \in Submitted
      /\ NoRun \notin Runs
  BY SubmittedType, RunManagerAssumption
  DEF SlotsInv, OwnerInv, TypeOK, Runs, NoRun
<1>b. ASSUME UNCHANGED <<input, pool>>, closing => closing',
             \A r \in Runs : phase'[r] \in {"turn", "releasing"}
                             => phase[r] \in {"turn", "releasing"},
             \A r \in Runs : phase'[r] = "stuck" => phase[r] = "stuck"
      PROVE  SlotsHeld' /\ GivenUp'
  <2>1. /\ \A r \in Submitted : /\ ThreadOf(r)' = ThreadOf(r)
                                /\ IsPersistent(r)' = IsPersistent(r)
        /\ Submitted' = Submitted
    BY <1>b, SubmittedStable
  <2>2. SlotsHeld'
    BY <1>a, <1>b, <2>1, SlotsKept
  <2>3. QED  BY <1>a, <1>b, <2>2 DEF GivenUp
<1>1. ASSUME NEW r \in Runs, NEW where \in {"idle", "admitted", "preparing",
                                             "reporting", "finalizing"},
             phase' = [phase EXCEPT ![r] = where],
             UNCHANGED <<input, pool, closing>>
      PROVE  SlotsHeld' /\ GivenUp'
  <2>1. \A q \in Runs : phase'[q] = IF q = r THEN where ELSE phase[q]
    BY <1>a, <1>1
  <2>2. \A q \in Runs : phase'[q] \in {"turn", "releasing"}
                         => phase[q] \in {"turn", "releasing"}
    BY <2>1
  <2>3. \A q \in Runs : phase'[q] = "stuck" => phase[q] = "stuck"
    BY <2>1
  <2>4. QED  BY <1>b, <1>1, <2>2, <2>3
<1>2. ASSUME NEW t \in Threads, NEW origin \in Origins, NEW mode \in Modes,
             StartRun(t, origin, mode)
      PROVE  SlotsHeld' /\ GivenUp'
  <2>1. PICK r \in Runs :
           /\ r = Len(input) + 1 /\ r \notin Submitted
           /\ Submitted' = Submitted \cup {r}
           /\ \A s \in Submitted : /\ ThreadOf(s)' = ThreadOf(s)
                                   /\ IsPersistent(s)' = IsPersistent(s)
    BY <1>a, <1>2, Submission
  <2>2. /\ phase' = [phase EXCEPT ![r] = "queued"]
           \/ phase' = [phase EXCEPT ![r] = "admitted"]
        /\ UNCHANGED <<pool, closing>>
    BY <1>2, <2>1 DEF StartRun, QueueRun, AdmitRun
  <2>3. /\ phase'[r] \in {"queued", "admitted"}
        /\ \A q \in Runs : q # r => phase'[q] = phase[q]
    BY <1>a, <2>2
  <2>4. SlotsHeld'
    BY <1>a, <2>1, <2>2, <2>3, SlotsKept
  <2>5. QED  BY <1>a, <2>2, <2>3, <2>4 DEF GivenUp
<1>3. ASSUME NEW r \in Runs, StartPersistentAttempt(r)
      PROVE  SlotsHeld' /\ GivenUp'
  <2> DEFINE t == ThreadOf(r)
             s == SelectSlot(pool, t)
  <2>1. /\ phase[r] = "preparing" /\ IsPersistent(r) /\ r \in Submitted
        /\ UNCHANGED <<input, closing>> /\ t \in Threads
    BY <1>3, <1>a DEF StartPersistentAttempt
  <2>2. CASE FailAttempt(r, "refused") /\ UNCHANGED pool
    BY <1>1, <2>1, <2>2 DEF FailAttempt
  <2>3. CASE s # NoSlot /\ BeginTurn(r, TRUE) /\ pool' = Occupy(pool, s, t, r)
    <3>1. \A o \in Slots : pool[o].run # NoRun => pool[o].threads # {}
      BY <1>a DEF SlotsHeld
    <3>2. s \in Slots /\ pool[s].run = NoRun
      BY <1>a, <2>1, <2>3, <3>1, SelectIdle
    <3>3. /\ pool'[s] = [threads |-> pool[s].threads \cup {t}, run |-> r]
          /\ \A o \in Slots : o # s => pool'[o] = pool[o]
      BY <1>a, <2>3, <3>2 DEF Occupy, Pools
    <3>4. \A q \in Runs : phase'[q] = IF q = r THEN "turn" ELSE phase[q]
      BY <1>a, <2>3 DEF BeginTurn
    <3>5. \A o \in Slots : pool'[o].run # NoRun =>
             /\ pool'[o].run \in Submitted /\ IsPersistent(pool'[o].run)
             /\ ThreadOf(pool'[o].run) \in pool'[o].threads
      BY <1>a, <2>1, <3>3 DEF SlotsHeld
    <3>6. \A q \in Submitted :
             IsPersistent(q) /\ phase'[q] \in {"turn", "releasing"}
             => \E o \in Slots : pool'[o].run = q
      BY <1>a, <3>2, <3>3, <3>4 DEF SlotsHeld
    <3>7. SlotsHeld'
      BY <2>1, <3>5, <3>6, SubmittedStable DEF SlotsHeld
    <3>8. QED  BY <1>a, <2>1, <3>4, <3>7 DEF GivenUp
  <2>4. QED  BY <1>3, <2>2, <2>3 DEF StartPersistentAttempt

<1>4. ASSUME NEW r \in Runs, StartDirectAttempt(r)
      PROVE  SlotsHeld' /\ GivenUp'
  <2>1. /\ ~IsPersistent(r) /\ UNCHANGED <<input, pool, closing>>
        /\ \/ phase' = [phase EXCEPT ![r] = "turn"]
           \/ phase' = [phase EXCEPT ![r] = "reporting"]
    BY <1>4 DEF StartDirectAttempt, BeginTurn, FailAttempt
  <2>2. \A q \in Runs : q # r => phase'[q] = phase[q]
    BY <1>a, <2>1
  <2>3. SlotsHeld'
    BY <1>a, <2>1, <2>2, SlotsKept, SubmittedStable
  <2>4. phase'[r] # "stuck"
    BY <1>a, <2>1
  <2>5. QED  BY <1>a, <2>1, <2>2, <2>3, <2>4 DEF GivenUp
<1>5. ASSUME NEW r \in Runs, EndTurn(r)
      PROVE  SlotsHeld' /\ GivenUp'
  <2>1. /\ phase[r] = "turn" /\ UNCHANGED <<input, pool, closing>>
        /\ phase' = [phase EXCEPT ![r] = "releasing"]
    BY <1>5 DEF EndTurn
  <2>2. \A q \in Runs : phase'[q] = IF q = r THEN "releasing" ELSE phase[q]
    BY <1>a, <2>1
  <2>3. \A q \in Runs : phase'[q] \in {"turn", "releasing"}
                         => phase[q] \in {"turn", "releasing"}
    BY <2>1, <2>2
  <2>4. \A q \in Runs : phase'[q] = "stuck" => phase[q] = "stuck"
    BY <2>2
  <2>5. QED  BY <1>b, <2>1, <2>3, <2>4
<1>6. ASSUME NEW r \in Submitted, UNCHANGED input, pool' = Vacate(pool, r),
             NEW where \in {"reporting", "stuck"},
             phase' = [phase EXCEPT ![r] = where]
      PROVE  SlotsHeld'
  <2>1. \A q \in Runs : phase'[q] = IF q = r THEN where ELSE phase[q]
    BY <1>a, <1>6
  <2>2. \A o \in Slots : /\ pool[o].run # r => pool'[o] = pool[o]
                         /\ pool[o].run = r => pool'[o].run = NoRun
    BY <1>a, <1>6 DEF Vacate, Pools
  <2>3. \A o \in Slots :
           pool'[o].run # NoRun
           => /\ pool'[o].run \in Submitted /\ IsPersistent(pool'[o].run)
              /\ ThreadOf(pool'[o].run) \in pool'[o].threads
    BY <1>a, <2>2 DEF SlotsHeld
  <2>4. \A q \in Submitted :
           IsPersistent(q) /\ phase'[q] \in {"turn", "releasing"}
           => \E o \in Slots : pool'[o].run = q
    BY <1>a, <1>6, <2>1, <2>2 DEF SlotsHeld
  <2>5. QED  BY <1>6, <2>3, <2>4, SubmittedStable DEF SlotsHeld
<1>7. ASSUME NEW r \in Runs, HandleResult(r)
      PROVE  SlotsHeld' /\ GivenUp'
  <2>1. /\ UNCHANGED <<input, closing>> /\ pool' = Vacate(pool, r)
        /\ phase' = [phase EXCEPT ![r] = "reporting"] /\ r \in Submitted
    BY <1>7, <1>a DEF HandleResult
  <2>2. \A q \in Runs : phase'[q] = IF q = r THEN "reporting" ELSE phase[q]
    BY <1>a, <2>1
  <2>3. SlotsHeld'
    BY <1>6, <2>1
  <2>4. QED  BY <1>a, <2>1, <2>2, <2>3 DEF GivenUp
<1>8. ASSUME NEW r \in Runs, Rotate(r)
      PROVE  SlotsHeld' /\ GivenUp'
  <2> DEFINE vacated == Vacate(pool, r)
             s == SelectSlot(vacated, ThreadOf(r))
  <2>1. /\ phase[r] = "releasing" /\ r \in Submitted
        /\ UNCHANGED <<input, closing>>
    BY <1>8, <1>a DEF Rotate
  <2>2. CASE phase' = [phase EXCEPT ![r] = "turn"] /\ pool' = pool
    <3>1. \A q \in Runs : phase'[q] = IF q = r THEN "turn" ELSE phase[q]
      BY <1>a, <2>2
    <3>2. \A q \in Runs : phase'[q] \in {"turn", "releasing"}
                           => phase[q] \in {"turn", "releasing"}
      BY <2>1, <3>1
    <3>3. \A q \in Runs : phase'[q] = "stuck" => phase[q] = "stuck"
      BY <3>1
    <3>4. QED  BY <1>b, <2>1, <2>2, <3>2, <3>3
  <2>3. CASE /\ phase' = [phase EXCEPT ![r] = "stuck"] /\ pool' = vacated
             /\ closing
    <3>1. SlotsHeld'
      BY <1>6, <2>1, <2>3
    <3>2. QED  BY <2>1, <2>3, <3>1 DEF GivenUp
  <2>4. \/ phase' = [phase EXCEPT ![r] = "turn"] /\ pool' = pool
        \/ /\ phase' = [phase EXCEPT ![r] = "stuck"] /\ pool' = vacated
           /\ closing
    <3>1. CASE ~IsPersistent(r)
      BY <1>8, <3>1 DEF Rotate, BeginTurn
    <3>2. CASE IsPersistent(r)
      <4>1. s # NoSlot /\ Occupy(vacated, s, ThreadOf(r), r) = pool
        BY <2>1, <3>2, Reseated
      <4>2. QED  BY <1>8, <3>2, <4>1 DEF Rotate, BeginTurn
    <3>3. QED  BY <3>1, <3>2
  <2>5. QED  BY <2>2, <2>3, <2>4
<1>9. ASSUME Restart  PROVE SlotsHeld' /\ GivenUp'
  <2>1. /\ \A q \in Runs : phase'[q] = "idle"
        /\ pool' = EmptyPool /\ UNCHANGED input
    BY <1>9 DEF Restart
  <2>2. \A q \in Submitted' : phase'[q] \notin {"turn", "releasing"}
    BY <1>a, <2>1, SubmittedStable
  <2>3. \A s \in Slots : pool'[s].run = NoRun
    BY <2>1 DEF EmptyPool
  <2>4. SlotsHeld'
    BY <2>2, <2>3 DEF SlotsHeld
  <2>5. QED  BY <2>1, <2>4 DEF GivenUp
<1>10. ASSUME NEW r \in Runs,
              \/ Launch(r) \/ FailBeforeSpawn(r)
              \/ PublishDone(r) \/ FinishRun(r)
       PROVE  SlotsHeld' /\ GivenUp'
  <2>1. UNCHANGED <<input, pool, closing>>
    BY <1>10 DEF Launch, FailBeforeSpawn, PublishDone, FinishRun
  <2>2. \E where \in {"idle", "preparing", "finalizing"} :
           phase' = [phase EXCEPT ![r] = where]
    BY <1>10 DEF Launch, FailBeforeSpawn, PublishDone, FinishRun
  <2>3. QED  BY <1>1, <2>1, <2>2
<1>11. ASSUME NEW key \in QueueKeys, NEW i \in DOMAIN queues[key],
              NEW rest,
              Dequeue(key, i, rest) \/ RemoveQueuedRun(key, i, rest),
              UNCHANGED <<input, pool, closing>>
       PROVE  SlotsHeld' /\ GivenUp'
  <2>1. queues[key][i] \in Runs
    BY <1>a DEF TypeOK
  <2>2. \E where \in {"idle", "admitted"} :
           phase' = [phase EXCEPT ![queues[key][i]] = where]
    BY <1>11 DEF Dequeue, RemoveQueuedRun
  <2>3. QED  BY <1>1, <1>11, <2>1, <2>2
<1>12. CASE UNCHANGED <<input, pool, phase>> /\ (closing => closing')
  BY <1>b, <1>12
<1>13. CASE StartNextPersistentRuns
  <2>1. PersistentQueue \in QueueKeys /\ UNCHANGED <<input, pool, closing>>
    BY <1>13 DEF StartNextPersistentRuns, QueueKeys
  <2>2. \/ \E i \in DOMAIN queues[PersistentQueue] :
              Dequeue(PersistentQueue, i, calls)
        \/ UNCHANGED phase
    BY <1>13 DEF StartNextPersistentRuns
  <2>3. QED  BY <1>11, <1>12, <2>1, <2>2
<1>14. ASSUME NEW t \in Threads, StartNextQueuedThreadRun(t)
       PROVE  SlotsHeld' /\ GivenUp'
  <2>1. t \in QueueKeys /\ UNCHANGED <<input, pool, closing>>
    BY <1>14 DEF StartNextQueuedThreadRun, QueueKeys
  <2>2. \/ queues[t] # <<>> /\ Dequeue(t, 1, Tail(calls))
        \/ UNCHANGED phase
    BY <1>14 DEF StartNextQueuedThreadRun
  <2>3. queues[t] # <<>> => 1 \in DOMAIN queues[t]
    BY <1>a, <2>1 DEF TypeOK
  <2>4. QED  BY <1>11, <1>12, <2>1, <2>2, <2>3
<1>15. CASE CancelAll
  <2>1. UNCHANGED <<input, pool, closing>>
    BY <1>15 DEF CancelAll
  <2>2. \/ \E k \in QueueKeys :
              queues[k] # <<>> /\ RemoveQueuedRun(k, 1, calls)
        \/ UNCHANGED phase
    BY <1>15 DEF CancelAll
  <2>3. \A k \in QueueKeys : queues[k] # <<>> => 1 \in DOMAIN queues[k]
    BY <1>a DEF TypeOK
  <2>4. QED  BY <1>11, <1>12, <2>1, <2>2, <2>3
<1>16. ASSUME NEW r \in Submitted, CancelQueuedRun(r)
       PROVE  SlotsHeld' /\ GivenUp'
  BY <1>11, <1>16 DEF CancelQueuedRun
<1>17. CASE \/ \E r \in Runs : PublishQueuedCancel(r) \/ RecoverEvents(r)
            \/ RecoverOrphan \/ SignOut \/ Close \/ UNCHANGED vars
            \/ \E r \in Submitted : CancelActiveRun(r) \/ SteerRun(r)
  <2>1. CASE \/ \E r \in Runs : PublishQueuedCancel(r) \/ RecoverEvents(r)
             \/ RecoverOrphan \/ SignOut \/ UNCHANGED vars
    BY <1>12, <2>1
    DEF PublishQueuedCancel, RecoverEvents, RecoverOrphan, SignOut, vars,
        persisted
  <2>2. CASE Close
    BY <1>12, <2>2 DEF Close, persisted
  <2>3. CASE \E r \in Submitted : CancelActiveRun(r) \/ SteerRun(r)
    BY <1>12, <2>3 DEF CancelActiveRun, SteerRun
  <2>4. QED  BY <1>17, <2>1, <2>2, <2>3
<1>18. QED
  BY <1>2, <1>3, <1>4, <1>5, <1>7, <1>8, <1>9, <1>10, <1>13, <1>14, <1>15,
     <1>16, <1>17
  DEF Next, CallStep, TaskStep, Request

\* The executor's slots and the manager's tasks agree: a slot is busy with a
\* pooled run of a thread it owns, and a run keeps its slot until its result
\* is handled, a change of its Codex thread included, which never leaves the
\* run without a process unless the daemon is closing.
THEOREM SlotsAndRuns == Spec => []SlotsInv
BY SlotsInit, SlotsStep, PTL DEF Spec

-----------------------------------------------------------------------------
(* Wake-ups: for whoever could start a call that starts him is pending.    *)

\* A run waits for nothing but its thread, and the thread is free.
ThreadWaits(t) ==
    ~closing /\ runningThreadRun[t] = NoRun /\ queues[t] # <<>>

\* A run waits for a place and a slot, both are free, and no pooled run is
\* about to end and to look after it.
PoolWaits ==
    /\ ~closing /\ ~AtCapacity
    /\ \E i \in DOMAIN queues[PersistentQueue] :
          Startable(queues[PersistentQueue][i])
    /\ \A q \in runningPersistentRunIds : ~Ending(q)

ThreadWoken(t) ==
    \/ CallThread(t) \in ToSet(calls)
    \/ \E r \in Submitted : phase[r] = "admitted" /\ ThreadOf(r) = t

PoolWoken == CallAlone("startNextPersistentRuns") \in ToSet(calls)

Woken ==
    /\ \A t \in Threads : ThreadWaits(t) => ThreadWoken(t)
    /\ PoolWaits => PoolWoken

WakeInv == RecordInv /\ SlotsInv /\ Woken

\* A stack after a push still has what it had.
LEMMA ConcatKeeps ==
    ASSUME NEW S, NEW s \in Seq(S), NEW t \in Seq(S)
    PROVE  ToSet(s) \cup ToSet(t) \subseteq ToSet(s \o t)
<1>1. /\ s \o t \in Seq(S)
      /\ Len(s) \in Nat /\ Len(t) \in Nat
      /\ DOMAIN s = 1..Len(s) /\ DOMAIN t = 1..Len(t)
      /\ DOMAIN (s \o t) = 1..(Len(s) + Len(t))
      /\ \A i \in 1..(Len(s) + Len(t)) :
            (s \o t)[i] = IF i <= Len(s) THEN s[i] ELSE t[i - Len(s)]
  BY ConcatProperties, LenProperties
<1>2. ASSUME NEW i \in 1..Len(s)  PROVE s[i] \in ToSet(s \o t)
  <2>1. i \in DOMAIN (s \o t) /\ (s \o t)[i] = s[i]
    BY <1>1
  <2>2. QED  BY <2>1 DEF ToSet
<1>3. ASSUME NEW i \in 1..Len(t)  PROVE t[i] \in ToSet(s \o t)
  <2>1. /\ Len(s) + i \in 1..(Len(s) + Len(t))
        /\ ~(Len(s) + i <= Len(s)) /\ (Len(s) + i) - Len(s) = i
    BY <1>1
  <2>2. Len(s) + i \in DOMAIN (s \o t) /\ (s \o t)[Len(s) + i] = t[i]
    BY <1>1, <2>1
  <2>3. QED  BY <2>2 DEF ToSet
<1>4. QED  BY <1>1, <1>2, <1>3 DEF ToSet

\* A stack after a pop still has what was not on top.
LEMMA TailKeeps ==
    ASSUME NEW S, NEW s \in Seq(S), s # <<>>, NEW c \in ToSet(s), c # Head(s)
    PROVE  c \in ToSet(Tail(s))
<1>1. /\ Tail(s) \in Seq(S) /\ Len(s) \in Nat \ {0}
      /\ Len(Tail(s)) = Len(s) - 1
      /\ \A i \in 1..Len(Tail(s)) : Tail(s)[i] = s[i + 1]
      /\ DOMAIN s = 1..Len(s) /\ DOMAIN Tail(s) = 1..Len(Tail(s))
      /\ Head(s) = s[1]
  BY HeadTailProperties, LenProperties, EmptySeq
<1>2. PICK i \in 1..Len(s) : c = s[i]
  BY <1>1 DEF ToSet
<1>3. i # 1
  BY <1>1, <1>2
<1>4. i - 1 \in DOMAIN Tail(s) /\ (i - 1) + 1 = i
  BY <1>1, <1>2, <1>3
<1>5. Tail(s)[i - 1] = c
  BY <1>1, <1>2, <1>4
<1>6. QED  BY <1>4, <1>5 DEF ToSet

\* start makes no run startable that was not.
LEMMA OccupyTakes ==
    ASSUME NEW p \in Pools(Runs), NEW s \in Slots, NEW t \in Threads,
           NEW r \in Runs, NEW u \in Threads,
           CanStart(Occupy(p, s, t, r), u)
    PROVE  CanStart(p, u)
<1> DEFINE q == Occupy(p, s, t, r)
<1>0. r # NoRun
  BY RunManagerAssumption DEF Runs, NoRun
<1>1. /\ q[s].run = r /\ q[s].threads = p[s].threads \cup {t}
      /\ \A o \in Slots : o # s => q[o] = p[o]
  BY DEF Occupy, Pools
<1>2. /\ \A o \in Slots : p[o].threads \subseteq q[o].threads
      /\ \A o \in Slots : q[o].run = NoRun => q[o] = p[o]
  BY <1>0, <1>1
<1>3. \A o \in Slots : u \in q[o].threads /\ u \notin p[o].threads => o = s /\ u = t
  BY <1>1
<1> HIDE DEF q
<1>4. CASE Owners(p, u) # {}
  <2>1. Owners(q, u) # {}
    BY <1>2, <1>4 DEF Owners
  <2>2. PICK o \in Owners(q, u) :
               q[o].run = NoRun /\ \A a \in Owners(q, u) : o <= a
    BY <2>1 DEF CanStart, q
  <2>3. o \in Slots /\ o # s /\ q[o] = p[o]
    BY <1>0, <1>1, <2>2 DEF Owners
  <2>4. o \in Owners(p, u)
    BY <2>2, <2>3 DEF Owners
  <2>5. \A a \in Owners(p, u) : o <= a
    BY <1>2, <2>2 DEF Owners
  <2>6. p[o].run = NoRun
    BY <2>2, <2>3
  <2>7. QED  BY <1>4, <2>4, <2>5, <2>6 DEF CanStart
<1>5. CASE Owners(p, u) = {}
  <2>1. CASE Owners(q, u) = {}
    <3>1. Free(q) # {} \/ Created(q) # Slots
      BY <2>1 DEF CanStart, q
    <3>2. Free(q) \subseteq Free(p)
      BY <1>2 DEF Free, Created
    <3>3. Created(p) = Slots => Created(q) = Slots
      BY <1>2 DEF Created
    <3>4. QED  BY <1>5, <3>1, <3>2, <3>3 DEF CanStart
  <2>2. CASE Owners(q, u) # {}
    <3>1. PICK o \in Owners(q, u) : q[o].run = NoRun
      BY <2>2 DEF CanStart, q
    <3>2. o \in Slots /\ q[o] = p[o]
      BY <1>2, <3>1 DEF Owners
    <3>3. o \in Owners(p, u)
      BY <3>1, <3>2 DEF Owners
    <3>4. QED  BY <1>5, <3>3
  <2>3. QED  BY <2>1, <2>2
<1>6. QED  BY <1>4, <1>5

\* Between stretches nobody waits in vain.
LEMMA NobodyWaits ==
    ASSUME WakeInv, calls = <<>>
    PROVE  ~PoolWaits /\ \A t \in Threads : ~ThreadWaits(t)
<1>1. ToSet(calls) = {}
  BY DEF ToSet
<1>2. Submitted \subseteq Runs /\ \A q \in Runs : phase[q] # "admitted"
  BY NothingUnderWay, SubmittedType DEF WakeInv, RecordInv, PlacementInv
<1>3. QED  BY <1>1, <1>2 DEF WakeInv, Woken, ThreadWoken, PoolWoken

\* A step that frees nothing.
LEMMA NothingFreed ==
    ASSUME UNCHANGED <<input, runningThreadRun, runningPersistentRunIds, pool>>,
           closing => closing',
           queues'[PersistentQueue] = queues[PersistentQueue],
           \A t \in Threads : queues[t] = <<>> => queues'[t] = <<>>,
           \A q \in runningPersistentRunIds : Ending(q) => Ending(q)'
    PROVE  /\ PoolWaits' => PoolWaits
           /\ \A t \in Threads : ThreadWaits(t)' => ThreadWaits(t)
<1>1. \A q : Startable(q)' = Startable(q)
  BY SubmittedStable DEF Startable
<1>2. AtCapacity' = AtCapacity
  BY DEF AtCapacity
<1>3. PoolWaits' => PoolWaits
  BY <1>1, <1>2 DEF PoolWaits
<1>4. QED  BY <1>3 DEF ThreadWaits

\* A step that ends the call on top, which wakes nobody.
LEMMA WokenPop ==
    ASSUME TypeOK, Woken, NEW call, OnTop(call), calls' = Tail(calls),
           call.op \notin {"startNextPersistentRuns", "startNextQueuedThreadRun"},
           UNCHANGED <<input, phase>>,
           PoolWaits' => PoolWaits,
           \A t \in Threads : ThreadWaits(t)' => ThreadWaits(t)
    PROVE  Woken'
<1>1. calls \in Seq(Call) /\ calls # <<>> /\ Head(calls) = call
  BY DEF TypeOK, OnTop
<1>2. /\ CallAlone("startNextPersistentRuns") # call
      /\ \A t : CallThread(t) # call
  BY DEF CallAlone, CallThread
<1>3. \A c \in ToSet(calls) : c # call => c \in ToSet(calls')
  BY <1>1, TailKeeps
<1>4. PoolWoken => PoolWoken'
  BY <1>2, <1>3 DEF PoolWoken
<1>5. \A t : ThreadWoken(t) => ThreadWoken(t)'
  BY <1>2, <1>3, SubmittedStable DEF ThreadWoken
<1>6. QED  BY <1>4, <1>5 DEF Woken

\* The same of a step that begins a stretch.
LEMMA WokenFirst ==
    ASSUME WakeInv, calls = <<>>,
           PoolWaits' => PoolWaits \/ PoolWoken',
           \A t \in Threads : ThreadWaits(t)' => ThreadWaits(t) \/ ThreadWoken(t)'
    PROVE  Woken'
BY NobodyWaits DEF Woken

\* completeThreadRun wakes both queues of its run.
LEMMA CompletionWakes ==
    ASSUME TypeOK, NEW r \in Submitted, NEW rest \in Seq(Call), UNCHANGED input,
           calls' = CompletionCalls(r) \o rest
    PROVE  /\ PoolWoken' /\ ThreadWoken(ThreadOf(r))'
           /\ \A c \in ToSet(rest) : c \in ToSet(calls')
<1> DEFINE first == CompletionCalls(r)
<1>1. first \in Seq(Call)
  BY SubmittedType, CompletionCallsType
<1>2. ToSet(first) = {CallAlone("startNextPersistentRuns"), CallThread(ThreadOf(r))}
  BY DEF CompletionCalls, ToSet
<1> HIDE DEF first
<1>3. ToSet(first) \cup ToSet(rest) \subseteq ToSet(calls')
  BY <1>1, ConcatKeeps DEF first
<1>4. /\ CallAlone("startNextPersistentRuns") \in ToSet(calls')
      /\ CallThread(ThreadOf(r)) \in ToSet(calls')
  BY <1>2, <1>3
<1>5. ThreadOf(r)' = ThreadOf(r)
  BY SubmittedStable
<1>6. QED  BY <1>3, <1>4, <1>5 DEF PoolWoken, ThreadWoken

\* startExistingRun: its run takes the thread ...
LEMMA LaunchWakes ==
    ASSUME WakeInv, NEW r \in Runs, Launch(r)
    PROVE  Woken'
<1>a. /\ RecordInv /\ TypeOK /\ Woken
      /\ runningThreadRun \in [Threads -> Runs \cup {NoRun}]
      /\ runningPersistentRunIds \subseteq Runs
      /\ phase \in [Runs -> Phase] /\ calls \in Seq(Call)
  BY DEF WakeInv, RecordInv, PlacementInv, TypeOK
<1>b. NoRun \notin Runs
  BY RunManagerAssumption DEF Runs, NoRun
<1>1. /\ r \in Submitted /\ phase[r] = "admitted" /\ calls # <<>>
      /\ \A q \in Runs : phase[q] = "admitted" => q = r
      /\ Head(calls) = CallRun("startExistingRun", r)
  BY <1>a, OneAdmitted DEF Launch, OnTop
<1>2. /\ UNCHANGED <<input, queues, pool, closing>> /\ calls' = Tail(calls)
      /\ runningThreadRun' = [runningThreadRun EXCEPT ![ThreadOf(r)] = r]
      /\ \/ runningPersistentRunIds' = runningPersistentRunIds
         \/ runningPersistentRunIds' = runningPersistentRunIds \cup {r}
      /\ \A q \in Runs : phase'[q] = IF q = r THEN "preparing" ELSE phase[q]
  BY <1>a DEF Launch
<1>3. /\ Submitted \subseteq Runs /\ Submitted' = Submitted
      /\ \A q \in Submitted : ThreadOf(q) \in Threads
      /\ \A q : ThreadOf(q)' = ThreadOf(q)
  BY <1>a, <1>2, SubmittedType, SubmittedStable
<1>4. \A t \in Threads : ThreadWaits(t)' => ThreadWaits(t) /\ t # ThreadOf(r)
  BY <1>a, <1>b, <1>1, <1>2, <1>3 DEF ThreadWaits
<1>5. AtCapacity => AtCapacity'
  <2>1. /\ IsFiniteSet(runningPersistentRunIds)
        /\ Cardinality(runningPersistentRunIds) \in Nat
    BY <1>a, FiniteIds
  <2>2. Cardinality(runningPersistentRunIds \cup {r}) \in
           {Cardinality(runningPersistentRunIds),
            Cardinality(runningPersistentRunIds) + 1}
    BY <2>1, FS_AddElement
  <2>3. Cardinality(runningPersistentRunIds') \in
           {Cardinality(runningPersistentRunIds),
            Cardinality(runningPersistentRunIds) + 1}
    BY <1>2, <2>2
  <2>4. QED
    BY <2>1, <2>3, MaxConcurrencyAssumption DEF AtCapacity
<1>6. \A i \in DOMAIN queues[PersistentQueue] :
         Startable(queues[PersistentQueue][i])'
         => Startable(queues[PersistentQueue][i])
  <2>1. SUFFICES ASSUME NEW q \in Submitted, Startable(q)'
                 PROVE  Startable(q)
    <3>1. queues[PersistentQueue] \in Seq(Submitted)
      BY <1>a DEF TypeOK, QueueKeys
    <3>2. \A i \in DOMAIN queues[PersistentQueue] :
             queues[PersistentQueue][i] \in Submitted
      BY <3>1
    <3>3. QED  BY <1>2, <3>2
  <2>2. /\ runningThreadRun'[ThreadOf(q)] = NoRun /\ CanStart(pool, ThreadOf(q))
    BY <1>2, <1>3, <2>1 DEF Startable
  <2>3. runningThreadRun[ThreadOf(q)] = NoRun
    BY <1>a, <1>b, <1>1, <1>2, <1>3, <2>2
  <2>4. QED  BY <2>2, <2>3 DEF Startable
<1>7. \A q \in runningPersistentRunIds :
         q \in runningPersistentRunIds' /\ (Ending(q) => Ending(q)')
  BY <1>a, <1>1, <1>2 DEF Ending
<1>8. PoolWaits' => PoolWaits
  BY <1>2, <1>5, <1>6, <1>7 DEF PoolWaits
<1>9. \A c \in ToSet(calls) : c # CallRun("startExistingRun", r) => c \in ToSet(calls')
  BY <1>a, <1>1, <1>2, TailKeeps
<1>10. /\ CallAlone("startNextPersistentRuns") # CallRun("startExistingRun", r)
       /\ \A t : CallThread(t) # CallRun("startExistingRun", r)
  BY DEF CallAlone, CallThread, CallRun
<1>11. PoolWaits' => PoolWoken'
  BY <1>a, <1>8, <1>9, <1>10 DEF Woken, PoolWoken
<1>12. ASSUME NEW t \in Threads, ThreadWaits(t)'  PROVE ThreadWoken(t)'
  <2>1. ThreadWoken(t) /\ t # ThreadOf(r)
    BY <1>a, <1>4, <1>12 DEF Woken
  <2>2. CallThread(t) \in ToSet(calls)
    BY <1>1, <1>3, <2>1 DEF ThreadWoken
  <2>3. QED  BY <1>9, <1>10, <2>2 DEF ThreadWoken
<1>13. QED  BY <1>11, <1>12 DEF Woken

\* ... or fails before anything is spawned.
LEMMA FailureWakes ==
    ASSUME WakeInv, NEW r \in Runs, FailBeforeSpawn(r)
    PROVE  Woken'
<1>a. /\ RecordInv /\ TypeOK /\ Woken /\ calls \in Seq(Call)
      /\ runningThreadRun \in [Threads -> Runs \cup {NoRun}]
  BY DEF WakeInv, RecordInv, PlacementInv, TypeOK
<1>1. /\ r \in Submitted /\ calls # <<>>
      /\ \A q \in Runs : phase[q] = "admitted" => q = r
      /\ Head(calls) = CallRun("startExistingRun", r)
      /\ Tail(calls) \in Seq(Call)
  BY <1>a, OneAdmitted DEF FailBeforeSpawn, OnTop
<1>2. /\ UNCHANGED <<input, queues, closing>>
      /\ calls' = CompletionCalls(r) \o Tail(calls)
      /\ \A t \in Threads : t # ThreadOf(r)
                             => runningThreadRun'[t] = runningThreadRun[t]
  BY <1>a DEF FailBeforeSpawn, ReleaseThread
<1>3. /\ PoolWoken' /\ ThreadWoken(ThreadOf(r))'
      /\ \A c \in ToSet(Tail(calls)) : c \in ToSet(calls')
      /\ ThreadOf(r)' = ThreadOf(r)
  BY <1>a, <1>1, <1>2, CompletionWakes, SubmittedStable
<1>4. ASSUME NEW t \in Threads, t # ThreadOf(r), ThreadWaits(t)'
      PROVE  ThreadWoken(t)'
  <2>1. ThreadWoken(t)
    BY <1>a, <1>2, <1>4 DEF Woken, ThreadWaits
  <2>2. CallThread(t) \in ToSet(calls)
    BY <1>a, <1>1, <1>4, <2>1, SubmittedType DEF ThreadWoken
  <2>3. CallThread(t) # CallRun("startExistingRun", r)
    BY DEF CallThread, CallRun
  <2>4. QED  BY <1>a, <1>1, <1>3, <2>2, <2>3, TailKeeps DEF ThreadWoken
<1>5. \A t \in Threads : ThreadWaits(t)' => ThreadWoken(t)'
  BY <1>3, <1>4
<1>6. QED  BY <1>3, <1>5 DEF Woken

\* The loop of startNextPersistentRuns ends when nobody can start.
LEMMA PoolCallWakes ==
    ASSUME WakeInv, StartNextPersistentRuns
    PROVE  Woken'
<1> DEFINE pooled == CallAlone("startNextPersistentRuns")
           queue == queues[PersistentQueue]
<1>a. /\ RecordInv /\ TypeOK /\ Woken /\ calls \in Seq(Call)
      /\ queues \in [QueueKeys -> Seq(Submitted)]
      /\ Threads \subseteq QueueKeys /\ PersistentQueue \in QueueKeys
      /\ PersistentQueue \notin Threads /\ Submitted \subseteq Runs
      /\ phase \in [Runs -> Phase]
  BY SubmittedType, RunManagerAssumption
  DEF WakeInv, RecordInv, PlacementInv, TypeOK, QueueKeys
<1>1. pooled.op = "startNextPersistentRuns" /\ \A t : CallThread(t) # pooled
  BY DEF CallAlone, CallThread
<1>2. /\ calls # <<>> /\ Head(calls) = pooled
      /\ \A q \in Runs : phase[q] # "admitted"
      /\ UNCHANGED <<input, runningThreadRun, runningPersistentRunIds, pool,
                     closing>>
  BY <1>a, <1>1, NoneAdmitted DEF StartNextPersistentRuns, OnTop
<1>3. ASSUME NEW t \in Threads, ThreadWaits(t)  PROVE CallThread(t) \in ToSet(calls)
  BY <1>a, <1>2, <1>3 DEF Woken, ThreadWoken
<1>4. CASE \E i \in DOMAIN queue : Dequeue(PersistentQueue, i, calls)
  <2>1. PICK i \in DOMAIN queue : Dequeue(PersistentQueue, i, calls)
    BY <1>4
  <2> DEFINE first == <<CallRun("startExistingRun", queue[i])>>
  <2>2. queue[i] \in Submitted
    BY <1>a
  <2>3. first \in Seq(Call)
    BY <2>2, CallTypes
  <2>4. /\ calls' = first \o calls
        /\ \A t \in Threads : queues'[t] = queues[t]
    BY <1>a, <2>1 DEF Dequeue
  <2> HIDE DEF first
  <2>5. ToSet(calls) \subseteq ToSet(calls')
    BY <1>a, <2>3, <2>4, ConcatKeeps
  <2>6. PoolWoken'
    BY <1>a, <1>2, <2>5, TailElements DEF PoolWoken
  <2>7. ASSUME NEW t \in Threads, ThreadWaits(t)'  PROVE ThreadWoken(t)'
    <3>1. ThreadWaits(t)
      BY <1>2, <2>4, <2>7 DEF ThreadWaits
    <3>2. QED  BY <1>3, <2>5, <3>1 DEF ThreadWoken
  <2>8. QED  BY <2>6, <2>7 DEF Woken
<1>5. CASE /\ ~closing /\ ~AtCapacity => \A i \in DOMAIN queue : ~Startable(queue[i])
           /\ calls' = Tail(calls) /\ UNCHANGED <<phase, queues>>
  <2>1. /\ PoolWaits' => PoolWaits
        /\ \A t \in Threads : ThreadWaits(t)' => ThreadWaits(t)
    BY <1>2, <1>5, NothingFreed DEF Ending
  <2>2. ~PoolWaits
    BY <1>5 DEF PoolWaits
  <2>3. ASSUME NEW t \in Threads, ThreadWaits(t)'  PROVE ThreadWoken(t)'
    <3>1. CallThread(t) \in ToSet(calls) /\ CallThread(t) # Head(calls)
      BY <1>1, <1>2, <1>3, <2>1, <2>3
    <3>2. QED  BY <1>a, <1>2, <1>5, <3>1, TailKeeps DEF ThreadWoken
  <2>4. QED  BY <2>1, <2>2, <2>3 DEF Woken
<1>6. QED  BY <1>4, <1>5 DEF StartNextPersistentRuns

\* startNextQueuedThreadRun starts a run of its thread unless none can start.
LEMMA ThreadCallWakes ==
    ASSUME WakeInv, NEW t \in Threads, StartNextQueuedThreadRun(t)
    PROVE  Woken'
<1>a. /\ RecordInv /\ TypeOK /\ Woken /\ calls \in Seq(Call)
      /\ queues \in [QueueKeys -> Seq(Submitted)]
      /\ Threads \subseteq QueueKeys /\ PersistentQueue \in QueueKeys
      /\ PersistentQueue \notin Threads /\ Submitted \subseteq Runs
      /\ phase \in [Runs -> Phase]
  BY SubmittedType, RunManagerAssumption
  DEF WakeInv, RecordInv, PlacementInv, TypeOK, QueueKeys
<1>1. /\ CallThread(t).op = "startNextQueuedThreadRun"
      /\ CallAlone("startNextPersistentRuns") # CallThread(t)
      /\ \A u : CallThread(u) = CallThread(t) => u = t
  <2>1. \A u : CallThread(u).thread = u
    BY DEF CallThread
  <2>2. QED  BY <2>1 DEF CallAlone, CallThread
<1>2. /\ calls # <<>> /\ Head(calls) = CallThread(t)
      /\ \A q \in Runs : phase[q] # "admitted"
      /\ UNCHANGED <<input, runningThreadRun, runningPersistentRunIds, pool,
                     closing>>
      /\ Tail(calls) \in Seq(Call)
  BY <1>a, <1>1, NoneAdmitted DEF StartNextQueuedThreadRun, OnTop
<1>3. ASSUME NEW u \in Threads, ThreadWaits(u), u # t
      PROVE  CallThread(u) \in ToSet(Tail(calls))
  <2>1. CallThread(u) \in ToSet(calls)
    BY <1>a, <1>2, <1>3 DEF Woken, ThreadWoken
  <2>2. QED  BY <1>a, <1>1, <1>2, <1>3, <2>1, TailKeeps
<1>4. PoolWaits => CallAlone("startNextPersistentRuns") \in ToSet(Tail(calls))
  BY <1>a, <1>1, <1>2, TailKeeps DEF Woken, PoolWoken
<1>5. CASE queues[t] # <<>> /\ Dequeue(t, 1, Tail(calls))
  <2>1. 1 \in DOMAIN queues[t]
    BY <1>a, <1>5
  <2>2. PICK r \in Submitted : /\ r = queues[t][1] /\ r \in Runs
                               /\ ThreadOf(r) = t /\ phase[r] = "queued"
    BY <1>a, <2>1, WaitsInItsQueue DEF QueueSet
  <2> DEFINE first == <<CallRun("startExistingRun", r)>>
  <2>3. first \in Seq(Call)
    BY <2>2, CallTypes
  <2>4. /\ calls' = first \o Tail(calls)
        /\ \A k \in QueueKeys : k # t => queues'[k] = queues[k]
        /\ phase' = [phase EXCEPT ![r] = "admitted"]
    BY <1>a, <1>5, <2>2 DEF Dequeue
  <2> HIDE DEF first
  <2>5. ToSet(Tail(calls)) \subseteq ToSet(calls')
    BY <1>2, <2>3, <2>4, ConcatKeeps
  <2>6. \A q : Ending(q) => Ending(q)'
    BY <1>a, <2>2, <2>4 DEF Ending
  <2>7. /\ PoolWaits' => PoolWaits
        /\ \A u \in Threads : ThreadWaits(u)' => ThreadWaits(u)
    <3>1. queues'[PersistentQueue] = queues[PersistentQueue]
      BY <1>a, <2>4
    <3>2. \A u \in Threads : queues[u] = <<>> => queues'[u] = <<>>
      BY <1>a, <1>5, <2>4
    <3>3. QED  BY <1>2, <2>6, <3>1, <3>2, NothingFreed
  <2>8. ThreadWoken(t)'
    <3>1. phase'[r] = "admitted" /\ r \in Submitted' /\ ThreadOf(r)' = t
      BY <1>a, <1>2, <2>2, <2>4, SubmittedStable
    <3>2. \E q \in Submitted' : phase'[q] = "admitted" /\ ThreadOf(q)' = t
      BY <3>1
    <3>3. QED  BY <3>2 DEF ThreadWoken
  <2>9. \A u \in Threads : ThreadWaits(u)' => ThreadWoken(u)'
    BY <1>3, <2>5, <2>7, <2>8 DEF ThreadWoken
  <2>10. PoolWaits' => PoolWoken'
    BY <1>4, <2>5, <2>7 DEF PoolWoken
  <2>11. QED  BY <2>9, <2>10 DEF Woken
<1>6. CASE /\ closing \/ runningThreadRun[t] # NoRun \/ queues[t] = <<>>
           /\ calls' = Tail(calls) /\ UNCHANGED <<phase, queues>>
  <2>1. /\ PoolWaits' => PoolWaits
        /\ \A u \in Threads : ThreadWaits(u)' => ThreadWaits(u)
    BY <1>2, <1>6, NothingFreed DEF Ending
  <2>2. ~ThreadWaits(t)
    BY <1>6 DEF ThreadWaits
  <2>3. \A u \in Threads : ThreadWaits(u)' => ThreadWoken(u)'
    BY <1>3, <1>6, <2>1, <2>2 DEF ThreadWoken
  <2>4. PoolWaits' => PoolWoken'
    BY <1>4, <1>6, <2>1 DEF PoolWoken
  <2>5. QED  BY <2>3, <2>4 DEF Woken
<1>7. QED  BY <1>5, <1>6 DEF StartNextQueuedThreadRun

\* cancelRun looks for a run that can start after it took one out of a queue.
LEMMA RemovalWakes ==
    ASSUME WakeInv, \A q \in Runs : phase[q] # "admitted",
           NEW key \in QueueKeys, NEW i \in DOMAIN queues[key],
           NEW rest \in Seq(Call), ToSet(calls) \subseteq ToSet(rest),
           RemoveQueuedRun(key, i, rest),
           UNCHANGED <<input, runningThreadRun, closing>>
    PROVE  Woken'
<1> DEFINE pooled == CallAlone("startNextPersistentRuns")
           publish == CallRun("publishQueuedCancel", queues[key][i])
           first == <<pooled, publish>>
<1>a. /\ Woken /\ Submitted \subseteq Runs
      /\ queues \in [QueueKeys -> Seq(Submitted)] /\ Threads \subseteq QueueKeys
  BY SubmittedType DEF WakeInv, RecordInv, PlacementInv, TypeOK, QueueKeys
<1>1. queues[key][i] \in Submitted
  BY <1>a
<1>2. first \in Seq(Call) /\ ToSet(first) = {pooled, publish}
  <2>1. first \in Seq(Call)
    BY <1>1, CallTypes
  <2>2. ToSet(first) = {pooled, publish}
    BY DEF ToSet
  <2>3. QED  BY <2>1, <2>2
<1>3. /\ calls' = first \o rest
      /\ \A t \in Threads : queues[t] = <<>> => queues'[t] = queues[t]
  BY <1>a DEF RemoveQueuedRun
<1> HIDE DEF first
<1>4. ToSet(first) \cup ToSet(rest) \subseteq ToSet(calls')
  BY <1>2, <1>3, ConcatKeeps
<1>5. PoolWoken'
  BY <1>2, <1>4 DEF PoolWoken
<1>6. ASSUME NEW t \in Threads, ThreadWaits(t)'  PROVE ThreadWoken(t)'
  <2>1. ThreadWaits(t)
    BY <1>3, <1>6 DEF ThreadWaits
  <2>2. CallThread(t) \in ToSet(calls)
    BY <1>a, <2>1 DEF Woken, ThreadWoken
  <2>3. QED  BY <1>4, <2>2 DEF ThreadWoken
<1>7. QED  BY <1>5, <1>6 DEF Woken

\* finalizeRun wakes both queues of its run.
LEMMA FinishWakes ==
    ASSUME WakeInv, NEW r \in Runs, FinishRun(r)
    PROVE  Woken'
<1>1. /\ TypeOK /\ phase[r] = "finalizing" /\ calls = <<>>
      /\ UNCHANGED <<input, queues, closing>> /\ calls' = CompletionCalls(r)
      /\ \A t \in Threads : t # ThreadOf(r)
                             => runningThreadRun'[t] = runningThreadRun[t]
  BY DEF WakeInv, RecordInv, PlacementInv, FinishRun, Idle, ReleaseThread, TypeOK
<1>2. r \in Submitted
  BY <1>1 DEF TypeOK
<1>3. calls' = CompletionCalls(r) \o <<>> /\ <<>> \in Seq(Call)
  <2>1. CompletionCalls(r) \in Seq(Call)
    BY <1>1, <1>2, SubmittedType, CompletionCallsType
  <2>2. CompletionCalls(r) \o <<>> = CompletionCalls(r)
    BY <2>1, ConcatEmptySeq
  <2>3. QED  BY <1>1, <2>2, EmptySeq
<1>4. PoolWoken' /\ ThreadWoken(ThreadOf(r))' /\ ThreadOf(r)' = ThreadOf(r)
  BY <1>1, <1>2, <1>3, CompletionWakes, SubmittedStable
<1>5. \A t \in Threads : ThreadWaits(t)' => ThreadWaits(t) \/ ThreadWoken(t)'
  BY <1>1, <1>4 DEF ThreadWaits
<1>6. QED  BY <1>1, <1>4, <1>5, WokenFirst

\* A run's own task wakes nobody, and frees a slot only when its run ends.
LEMMA TaskWakes ==
    ASSUME WakeInv, calls = <<>>,
           UNCHANGED <<input, queues, runningThreadRun,
                       runningPersistentRunIds, closing>>,
           PoolWaits' => \A t \in Threads : CanStart(pool', t) => CanStart(pool, t),
           \A q \in runningPersistentRunIds : Ending(q) => Ending(q)'
    PROVE  Woken'
<1>1. /\ \A t : ThreadWaits(t)' => ThreadWaits(t)
      /\ AtCapacity' = AtCapacity
  BY DEF ThreadWaits, AtCapacity
<1>2. /\ queues[PersistentQueue] \in Seq(Submitted) /\ TypeOK
      /\ \A q \in Submitted : ThreadOf(q) \in Threads
      /\ \A q : ThreadOf(q)' = ThreadOf(q)
  BY SubmittedType, SubmittedStable
  DEF WakeInv, RecordInv, PlacementInv, TypeOK, QueueKeys
<1>3. ASSUME PoolWaits'  PROVE PoolWaits
  <2>1. PICK i \in DOMAIN queues[PersistentQueue] :
               Startable(queues[PersistentQueue][i])'
    BY <1>3 DEF PoolWaits
  <2>2. \A q \in Submitted : Startable(q)' => Startable(q)
    BY <1>2, <1>3 DEF Startable
  <2>3. queues[PersistentQueue][i] \in Submitted
    BY <1>2
  <2>4. Startable(queues[PersistentQueue][i])
    BY <2>1, <2>2, <2>3
  <2>5. QED  BY <1>1, <1>3, <2>4 DEF PoolWaits
<1>4. QED  BY <1>1, <1>3, WokenFirst

\* A process that is started takes a slot; a refused start takes none.
LEMMA PersistentAttemptWakes ==
    ASSUME WakeInv, NEW r \in Runs, StartPersistentAttempt(r)
    PROVE  Woken'
<1> DEFINE s == SelectSlot(pool, ThreadOf(r))
<1>1. /\ calls = <<>> /\ phase[r] = "preparing" /\ TypeOK
      /\ phase \in [Runs -> Phase] /\ pool \in Pools(Runs)
      /\ UNCHANGED <<input, queues, runningThreadRun,
                     runningPersistentRunIds, closing>>
  BY DEF WakeInv, RecordInv, PlacementInv, StartPersistentAttempt, Ready,
         Idle, TypeOK
<1>2. r \in Submitted /\ ThreadOf(r) \in Threads
  BY <1>1, SubmittedType DEF TypeOK
<1>3. \A t \in Threads : CanStart(pool', t) => CanStart(pool, t)
  <2>1. CASE pool' = pool
    BY <2>1
  <2>2. CASE s # NoSlot /\ pool' = Occupy(pool, s, ThreadOf(r), r)
    <3>1. s \in Slots
      BY <1>1, <1>2, <2>2, SelectSlotType
    <3>2. QED  BY <1>1, <1>2, <2>2, <3>1, OccupyTakes
  <2>3. QED  BY <2>1, <2>2 DEF StartPersistentAttempt
<1>4. \A q \in runningPersistentRunIds : Ending(q) => Ending(q)'
  <2>1. \A q \in Runs : q # r => phase'[q] = phase[q]
    BY <1>1 DEF StartPersistentAttempt, FailAttempt, BeginTurn
  <2>2. QED  BY <1>1, <2>1 DEF Ending, TypeOK
<1>5. QED  BY <1>1, <1>3, <1>4, TaskWakes

\* A slot is freed by a pooled run, which is then about to end.
LEMMA ResultWakes ==
    ASSUME WakeInv, NEW r \in Runs, HandleResult(r)
    PROVE  Woken'
<1>1. /\ calls = <<>> /\ phase[r] = "releasing" /\ TypeOK
      /\ phase \in [Runs -> Phase] /\ pool \in Pools(Runs)
      /\ phase' = [phase EXCEPT ![r] = "reporting"] /\ pool' = Vacate(pool, r)
      /\ UNCHANGED <<input, queues, runningThreadRun,
                     runningPersistentRunIds, closing>>
  BY DEF WakeInv, RecordInv, PlacementInv, HandleResult, Ready, Idle, TypeOK
<1>2. /\ Ending(r)' /\ \A q \in Runs : Ending(q) => Ending(q)'
      /\ runningPersistentRunIds \subseteq Runs
  BY <1>1 DEF Ending, TypeOK
<1>3. PoolWaits' => \A t \in Threads : CanStart(pool', t) => CanStart(pool, t)
  <2>1. CASE IsPersistent(r)
    <3>1. r \in runningPersistentRunIds
      BY <1>1, <2>1
      DEF WakeInv, RecordInv, PlacementInv, PlacesHeld, Executing
    <3>2. ~PoolWaits'
      BY <1>1, <1>2, <3>1 DEF PoolWaits
    <3>3. QED  BY <3>2
  <2>2. CASE ~IsPersistent(r)
    <3>1. \A s \in Slots : pool[s].run # r
      BY <2>2, RunManagerAssumption DEF WakeInv, SlotsInv, SlotsHeld, Runs, NoRun
    <3>2. pool' = pool
      BY <1>1, <3>1 DEF Vacate, Pools
    <3>3. QED  BY <3>2
  <2>3. QED  BY <2>1, <2>2
<1>4. QED  BY <1>1, <1>2, <1>3, TaskWakes

\* A run that replaces its Codex thread keeps its slot, or is given up by a
\* daemon that is closing.
LEMMA RotationWakes ==
    ASSUME WakeInv, NEW r \in Runs, Rotate(r)
    PROVE  Woken'
<1> DEFINE vacated == Vacate(pool, r)
           s == SelectSlot(vacated, ThreadOf(r))
<1>1. /\ calls = <<>> /\ phase[r] = "releasing" /\ TypeOK /\ SlotsInv
      /\ phase \in [Runs -> Phase]
      /\ UNCHANGED <<input, queues, runningThreadRun,
                     runningPersistentRunIds, closing>>
  BY DEF WakeInv, RecordInv, PlacementInv, Rotate, Ready, Idle, TypeOK
<1>2. r \in Submitted
  BY <1>1 DEF TypeOK
<1>3. pool' = pool \/ closing
  <2>1. CASE IsPersistent(r)
    <3>1. s # NoSlot /\ Occupy(vacated, s, ThreadOf(r), r) = pool
      BY <1>1, <1>2, <2>1, Reseated
    <3>2. QED  BY <2>1, <3>1 DEF Rotate
  <2>2. CASE ~IsPersistent(r)
    BY <2>2 DEF Rotate
  <2>3. QED  BY <2>1, <2>2
<1>4. PoolWaits' => \A t \in Threads : CanStart(pool', t) => CanStart(pool, t)
  BY <1>1, <1>3 DEF PoolWaits
<1>5. \A q \in runningPersistentRunIds : Ending(q) => Ending(q)'
  <2>1. \A q \in Runs : q # r => phase'[q] = phase[q]
    BY <1>1 DEF Rotate, BeginTurn
  <2>2. QED  BY <1>1, <2>1 DEF Ending, TypeOK
<1>6. QED  BY <1>1, <1>4, <1>5, TaskWakes

\* A new run that is queued waits for something; one that is admitted changes
\* nothing for the others.
LEMMA StartRunWakes ==
    ASSUME WakeInv, NEW t \in Threads, NEW origin \in Origins,
           NEW mode \in Modes, StartRun(t, origin, mode)
    PROVE  Woken'
<1> DEFINE request == [thread |-> t, origin |-> origin, mode |-> mode]
           persistent == AppServer /\ origin = "api"
           key == IF persistent THEN PersistentQueue ELSE t
<1>1. /\ RecordInv /\ TypeOK /\ calls = <<>> /\ phase \in [Runs -> Phase]
      /\ queues \in [QueueKeys -> Seq(Submitted)] /\ Submitted \subseteq Runs
      /\ Threads \subseteq QueueKeys /\ key \in QueueKeys
      /\ PersistentQueue \in QueueKeys /\ PersistentQueue \notin Threads
      /\ UNCHANGED <<runningThreadRun, runningPersistentRunIds, pool, closing>>
  BY SubmittedType, RunManagerAssumption
  DEF WakeInv, RecordInv, PlacementInv, StartRun, Idle, TypeOK, QueueKeys
<1>2. PICK r \in Runs :
        /\ r = Len(input) + 1 /\ r \notin Submitted
        /\ \A s \in Submitted : ThreadOf(s)' = ThreadOf(s)
        /\ ThreadOf(r)' = t
  BY <1>1, Submission
<1>3. AtCapacity' = AtCapacity
  BY <1>1 DEF AtCapacity
<1>4. \A s \in Submitted : Startable(s)' = Startable(s)
  BY <1>1, <1>2 DEF Startable
<1>5. ASSUME NEW where \in {"queued", "admitted"},
             phase' = [phase EXCEPT ![r] = where]
      PROVE  \A q \in runningPersistentRunIds : Ending(q) => Ending(q)'
  <2>1. /\ \A q \in Runs : q # r => phase'[q] = phase[q]
        /\ ~Ending(r) /\ runningPersistentRunIds \subseteq Runs
    BY <1>1, <1>2, <1>5 DEF TypeOK, Ending
  <2>2. QED  BY <2>1 DEF Ending
<1>6. CASE ~MustQueue(t, persistent)
  <2>1. queues' = queues /\ phase' = [phase EXCEPT ![r] = "admitted"]
    BY <1>2, <1>6 DEF StartRun, AdmitRun
  <2>2. \A i \in DOMAIN queues[PersistentQueue] :
           queues[PersistentQueue][i] \in Submitted
    BY <1>1
  <2>3. PoolWaits' => PoolWaits
    BY <1>1, <1>3, <1>4, <1>5, <2>1, <2>2 DEF PoolWaits
  <2>4. \A u : ThreadWaits(u)' => ThreadWaits(u)
    BY <1>1, <2>1 DEF ThreadWaits
  <2>5. QED  BY <1>1, <2>3, <2>4, WokenFirst
<1>7. CASE MustQueue(t, persistent)
  <2>1. /\ phase' = [phase EXCEPT ![r] = "queued"]
        /\ \E i \in 1..(Len(queues[key]) + 1) :
              queues' = [queues EXCEPT ![key] = InsertAt(@, i, r)]
    BY <1>2, <1>7 DEF StartRun, QueueRun
  <2>2. PICK i \in 1..(Len(queues[key]) + 1) :
               queues' = [queues EXCEPT ![key] = InsertAt(@, i, r)]
    BY <2>1
  <2>3. /\ queues'[key] = InsertAt(queues[key], i, r)
        /\ \A k \in QueueKeys : k # key => queues'[k] = queues[k]
    BY <1>1, <2>2
  <2>4. \A u \in Threads : ThreadWaits(u)' => ThreadWaits(u)
    <3>1. CASE persistent
      BY <1>1, <2>3, <3>1 DEF ThreadWaits
    <3>2. CASE ~persistent
      <4>1. runningThreadRun[t] # NoRun /\ key = t
        BY <1>7, <3>2 DEF MustQueue
      <4>2. QED  BY <1>1, <2>3, <4>1 DEF ThreadWaits
    <3>3. QED  BY <3>1, <3>2
  <2>5. ASSUME PoolWaits'  PROVE PoolWaits
    <3>1. PICK j \in DOMAIN queues'[PersistentQueue] :
                 \E q : q = queues'[PersistentQueue][j] /\ Startable(q)'
      BY <2>5 DEF PoolWaits, Startable
    <3>2. PICK q : q = queues'[PersistentQueue][j] /\ Startable(q)'
      BY <3>1
    <3>3. q \in ToSet(queues[PersistentQueue])
      <4>1. CASE ~persistent
        <5>1. queues'[PersistentQueue] = queues[PersistentQueue]
          BY <1>1, <2>3, <4>1
        <5>2. QED  BY <3>1, <3>2, <5>1 DEF ToSet
      <4>2. CASE persistent
        <5> DEFINE queue == queues[PersistentQueue]
        <5>1. /\ IsInjective(queue) /\ r \notin ToSet(queue)
              /\ queue \in Seq(Runs) /\ i \in 1..(Len(queue) + 1)
              /\ queues'[PersistentQueue] = InsertAt(queue, i, r)
          <6>1. queue \in Seq(Runs)
            BY <1>1, SeqMonotonic
          <6>2. i \in 1..(Len(queue) + 1)
            BY <4>2
          <6>3. queues'[PersistentQueue] = InsertAt(queue, i, r)
            BY <2>3, <4>2
          <6>4. QED
            BY <1>1, <1>2, <6>1, <6>2, <6>3
            DEF RecordInv, QueuesHoldQueued, QueueSet
        <5> HIDE DEF queue
        <5>2. ToSet(queues'[PersistentQueue]) = ToSet(queue) \cup {r}
          BY <5>1, InsertAtElements
        <5>3. q \in ToSet(queues'[PersistentQueue])
          BY <3>1, <3>2 DEF ToSet
        <5>4. ~Startable(r)'
          <6>1. \/ runningThreadRun[t] # NoRun \/ AtCapacity
                \/ ~CanStart(pool, t)
            BY <1>7 DEF MustQueue
          <6>2. ~AtCapacity
            BY <1>3, <2>5 DEF PoolWaits
          <6>3. QED  BY <1>1, <1>2, <6>1, <6>2 DEF Startable
        <5>5. QED  BY <3>2, <5>2, <5>3, <5>4 DEF queue
      <4>3. QED  BY <4>1, <4>2
    <3>4. PICK i0 \in DOMAIN queues[PersistentQueue] :
                 q = queues[PersistentQueue][i0]
      BY <3>3 DEF ToSet
    <3>5. q \in Submitted
      BY <1>1, <3>4
    <3>6. Startable(queues[PersistentQueue][i0])
      BY <1>4, <3>2, <3>4, <3>5
    <3>7. QED  BY <1>1, <1>3, <1>5, <2>1, <2>5, <3>6 DEF PoolWaits
  <2>6. QED  BY <1>1, <2>4, <2>5, WokenFirst
<1>8. QED  BY <1>6, <1>7

\* With no run in a queue nobody waits.
LEMMA NobodyQueued ==
    ASSUME RecordInv, \A q \in Runs : phase[q] # "queued"
    PROVE  \A k \in QueueKeys : queues[k] = <<>>
<1>1. SUFFICES ASSUME NEW k \in QueueKeys, queues[k] # <<>>  PROVE FALSE
  OBVIOUS
<1>2. queues[k] \in Seq(Submitted)
  BY DEF RecordInv, PlacementInv, TypeOK
<1>3. 1 \in DOMAIN queues[k]
  BY <1>1, <1>2
<1>4. QED  BY <1>3, WaitsInItsQueue

\* After a step that leaves the queues empty nobody waits.
LEMMA WokenEmpty ==
    ASSUME \A k \in QueueKeys : queues'[k] = <<>>
    PROVE  Woken'
<1>1. /\ queues'[PersistentQueue] = <<>>
      /\ \A t \in Threads : queues'[t] = <<>>
  BY DEF QueueKeys
<1>2. QED  BY <1>1 DEF Woken, ThreadWaits, PoolWaits

LEMMA WakeInit == Init => WakeInv
<1> SUFFICES ASSUME Init  PROVE Woken
  BY RecordInit, SlotsInit DEF WakeInv
<1>1. \A k \in QueueKeys : queues[k] = <<>>
  BY DEF Init
<1>2. /\ queues[PersistentQueue] = <<>>
      /\ \A t \in Threads : queues[t] = <<>>
  BY <1>1 DEF QueueKeys
<1>3. QED  BY <1>2 DEF Woken, ThreadWaits, PoolWaits

\* Every step wakes those for whom it made room, action by action.
LEMMA WakeStep == WakeInv /\ [Next]_vars => WakeInv'
<1> SUFFICES ASSUME WakeInv, [Next]_vars  PROVE Woken'
  BY RecordStep, SlotsStep DEF WakeInv
<1>a. /\ RecordInv /\ TypeOK /\ Submitted \subseteq Runs
      /\ queues \in [QueueKeys -> Seq(Submitted)] /\ phase \in [Runs -> Phase]
      /\ Threads \subseteq QueueKeys /\ PersistentQueue \in QueueKeys
      /\ PersistentQueue \notin Threads /\ runningPersistentRunIds \subseteq Runs
  BY SubmittedType, RunManagerAssumption
  DEF WakeInv, RecordInv, PlacementInv, TypeOK, QueueKeys
<1>b. ASSUME calls = <<>>,
             UNCHANGED <<input, runningThreadRun, runningPersistentRunIds,
                         pool, queues>>,
             closing => closing',
             \A q \in runningPersistentRunIds : Ending(q) => Ending(q)'
      PROVE  Woken'
  BY <1>b, NothingFreed, WokenFirst
<1>1. ASSUME NEW r \in Runs,
             Launch(r) \/ FailBeforeSpawn(r) \/ FinishRun(r)
      PROVE  Woken'
  BY <1>1, LaunchWakes, FailureWakes, FinishWakes
<1>2. ASSUME NEW r \in Runs,
             StartPersistentAttempt(r) \/ HandleResult(r) \/ Rotate(r)
      PROVE  Woken'
  BY <1>2, PersistentAttemptWakes, ResultWakes, RotationWakes
<1>3. ASSUME NEW r \in Runs,
             StartDirectAttempt(r) \/ EndTurn(r) \/ PublishDone(r)
      PROVE  Woken'
  <2>1. /\ calls = <<>>
        /\ UNCHANGED <<input, runningThreadRun, runningPersistentRunIds,
                       pool, queues, closing>>
    BY <1>3 DEF StartDirectAttempt, EndTurn, PublishDone, Idle
  <2>2. \/ phase[r] \in {"preparing", "turn"}
        \/ phase' = [phase EXCEPT ![r] = "finalizing"]
    BY <1>3 DEF StartDirectAttempt, EndTurn, PublishDone
  <2>3. \A q \in Runs : q # r => phase'[q] = phase[q]
    BY <1>a, <1>3
    DEF StartDirectAttempt, BeginTurn, FailAttempt, EndTurn, PublishDone
  <2>4. \A q \in runningPersistentRunIds : Ending(q) => Ending(q)'
    BY <1>a, <2>2, <2>3 DEF Ending
  <2>5. QED  BY <1>b, <2>1, <2>4
<1>4. CASE StartNextPersistentRuns \/ \E t \in Threads : StartNextQueuedThreadRun(t)
  BY <1>4, PoolCallWakes, ThreadCallWakes
<1>5. ASSUME NEW t \in Threads, NEW origin \in Origins, NEW mode \in Modes,
             StartRun(t, origin, mode)
      PROVE  Woken'
  BY <1>5, StartRunWakes
<1>6. ASSUME NEW r \in Submitted, CancelActiveRun(r)  PROVE Woken'
  BY <1>b, <1>6 DEF CancelActiveRun, Idle, Ending
<1>7. ASSUME NEW r \in Submitted, CancelQueuedRun(r)  PROVE Woken'
  <2>1. /\ calls = <<>> /\ \A q \in Runs : phase[q] # "admitted"
        /\ UNCHANGED <<input, runningThreadRun, closing>>
    BY <1>a, <1>7, NothingUnderWay DEF CancelQueuedRun, Idle
  <2>2. <<>> \in Seq(Call) /\ ToSet(calls) \subseteq ToSet(<<>>)
    BY <2>1, EmptySeq
  <2>3. PICK key \in QueueKeys : \E i \in DOMAIN queues[key] :
                                    RemoveQueuedRun(key, i, <<>>)
    BY <1>7 DEF CancelQueuedRun
  <2>4. PICK i \in DOMAIN queues[key] : RemoveQueuedRun(key, i, <<>>)
    BY <2>3
  <2>5. QED  BY <2>1, <2>2, <2>4, RemovalWakes
<1>8. ASSUME NEW r \in Submitted, SteerRun(r)  PROVE Woken'
  <2>1. /\ calls = <<>>
        /\ UNCHANGED <<input, runningThreadRun, runningPersistentRunIds, pool,
                       closing, phase>>
    BY <1>8 DEF SteerRun, Idle
  <2>2. PICK key \in QueueKeys :
           \E i \in DOMAIN queues[key] :
              /\ queues' = [queues EXCEPT ![key] = <<r>> \o RemoveAt(@, i)]
              /\ calls' = IF key = PersistentQueue
                            THEN <<CallAlone("startNextPersistentRuns")>>
                            ELSE <<>>
    BY <1>8 DEF SteerRun
  <2>3. /\ \A k \in QueueKeys : k # key => queues'[k] = queues[k]
        /\ queues[key] # <<>>
    BY <1>a, <2>2
  <2>4. \A t \in Threads : ThreadWaits(t)' => ThreadWaits(t)
    BY <1>a, <2>1, <2>3 DEF ThreadWaits
  <2>5. CASE key = PersistentQueue
    <3>1. calls' = <<CallAlone("startNextPersistentRuns")>>
      BY <2>2, <2>5
    <3>2. /\ DOMAIN calls' = 1..1
          /\ calls'[1] = CallAlone("startNextPersistentRuns")
      BY <3>1
    <3>3. PoolWoken'
      BY <3>2 DEF PoolWoken, ToSet
    <3>4. QED  BY <2>1, <2>4, <3>3, WokenFirst
  <2>6. CASE key # PersistentQueue
    <3>1. queues'[PersistentQueue] = queues[PersistentQueue]
      BY <1>a, <2>3, <2>6
    <3>2. \A t \in Threads : queues[t] = <<>> => queues'[t] = <<>>
      BY <1>a, <2>3
    <3>3. PoolWaits' => PoolWaits
      BY <2>1, <3>1, <3>2, NothingFreed DEF Ending
    <3>4. QED  BY <2>1, <2>4, <3>3, WokenFirst
  <2>7. QED  BY <2>5, <2>6
<1>9. CASE SignOut \/ Close
  <2>1. /\ calls = <<>> /\ (closing => closing')
        /\ UNCHANGED <<input, runningThreadRun, runningPersistentRunIds,
                       pool, queues, phase>>
    BY <1>9 DEF SignOut, Close, Idle, persisted
  <2>2. QED  BY <1>b, <2>1 DEF Ending
<1>10. ASSUME NEW r \in Runs, PublishQueuedCancel(r)  PROVE Woken'
  <2>1. /\ OnTop(CallRun("publishQueuedCancel", r)) /\ calls' = Tail(calls)
        /\ UNCHANGED <<input, phase, queues, runningThreadRun,
                       runningPersistentRunIds, pool, closing>>
    BY <1>10 DEF PublishQueuedCancel
  <2>2. /\ PoolWaits' => PoolWaits
        /\ \A t \in Threads : ThreadWaits(t)' => ThreadWaits(t)
    BY <2>1, NothingFreed DEF Ending
  <2>3. CallRun("publishQueuedCancel", r).op = "publishQueuedCancel"
    BY DEF CallRun
  <2>4. QED  BY <1>a, <2>1, <2>2, <2>3, WokenPop DEF WakeInv
<1>11. CASE CancelAll
  <2>1. /\ \A q \in Runs : phase[q] # "admitted"
        /\ UNCHANGED <<input, runningThreadRun, closing>>
    BY <1>a, <1>11, NoneAdmitted DEF CancelAll, CallAlone
  <2>2. calls \in Seq(Call)
    BY <1>a DEF TypeOK
  <2>3. ASSUME NEW k \in QueueKeys, queues[k] # <<>>,
               RemoveQueuedRun(k, 1, calls)
        PROVE  Woken'
    <3>1. 1 \in DOMAIN queues[k]
      BY <1>a, <2>3
    <3>2. QED  BY <2>1, <2>2, <2>3, <3>1, RemovalWakes
  <2>4. CASE (\A k \in QueueKeys : queues[k] = <<>>) /\ queues' = queues
    BY <2>4, WokenEmpty
  <2>5. \/ \E k \in QueueKeys : queues[k] # <<>> /\ RemoveQueuedRun(k, 1, calls)
        \/ (\A k \in QueueKeys : queues[k] = <<>>) /\ queues' = queues
    BY <1>11 DEF CancelAll
  <2>6. QED  BY <2>3, <2>4, <2>5
<1>12. CASE RecoverOrphan \/ \E r \in Runs : RecoverEvents(r)
  <2>1. /\ \/ OnTop(CallAlone("recover"))
           \/ \E r \in Runs : OnTop(CallRun("recoverEvents", r))
        /\ queues' = queues
    BY <1>12 DEF RecoverOrphan, RecoverEvents
  <2>2. Recovering
    <3>1. /\ CallAlone("recover").op = "recover"
          /\ \A r : CallRun("recoverEvents", r).op = "recoverEvents"
      BY DEF CallAlone, CallRun
    <3>2. QED  BY <1>a, <2>1, <3>1, TopTells
  <2>3. \A q \in Runs : phase[q] # "queued"
    BY <1>a, <2>2 DEF RecordInv, RecoveryFirst
  <2>4. QED  BY <1>a, <2>1, <2>3, NobodyQueued, WokenEmpty
<1>13. CASE Restart
  <2>1. \A k \in QueueKeys : queues'[k] = <<>>
    BY <1>13 DEF Restart
  <2>2. QED  BY <2>1, WokenEmpty
<1>14. CASE UNCHANGED vars
  <2>1. /\ PoolWaits' <=> PoolWaits
        /\ \A t : ThreadWaits(t)' <=> ThreadWaits(t)
        /\ PoolWoken' <=> PoolWoken
        /\ \A t : ThreadWoken(t)' <=> ThreadWoken(t)
    BY <1>14
    DEF vars, PoolWaits, ThreadWaits, PoolWoken, ThreadWoken, Startable,
        Ending, AtCapacity, ThreadOf, Submitted
  <2>2. QED  BY <2>1 DEF WakeInv, Woken
<1>15. QED
  BY <1>1, <1>2, <1>3, <1>4, <1>5, <1>6, <1>7, <1>8, <1>9, <1>10, <1>11,
     <1>12, <1>13, <1>14
  DEF Next, CallStep, TaskStep, Request

\* Whenever a run could start and waits, the call that starts it is pending:
\* startRun, completeThreadRun, cancelRun, steerRun, and the loop of
\* startNextPersistentRuns leave nobody behind.
THEOREM Wakes == Spec => []WakeInv
BY WakeInit, WakeStep, PTL DEF Spec

\* Between callbacks a run waits only for what another one holds.
THEOREM NoneMissed == Spec => []NoMissedWakeUp
<1>1. ASSUME WakeInv, Idle, ~closing
      PROVE  /\ \A t \in Threads : queues[t] # <<>> => runningThreadRun[t] # NoRun
             /\ \A i \in DOMAIN queues[PersistentQueue] :
                   Startable(queues[PersistentQueue][i]) /\ ~AtCapacity
                   => \E q \in runningPersistentRunIds : Ending(q)
  BY <1>1, NobodyWaits DEF Idle, ThreadWaits, PoolWaits
<1>2. WakeInv => NoMissedWakeUp
  BY <1>1 DEF NoMissedWakeUp
<1>3. QED  BY <1>2, Wakes, PTL

-----------------------------------------------------------------------------
(* The order of a thread's runs.                                           *)

\* In a queue the regular runs are in the order of their submission.
InOrder(queue) ==
    \A i, j \in DOMAIN queue :
       /\ i < j
       /\ input[queue[i]].mode = "enqueue" /\ input[queue[j]].mode = "enqueue"
       => queue[i] < queue[j]

QueueOrder ==
    "steer" \notin Requests => \A key \in QueueKeys : InOrder(queues[key])

OrderInv == WakeInv /\ QueueOrder

\* A queue that loses a run stays in order.
LEMMA OrderOfRest ==
    ASSUME NEW queue \in Seq(Submitted), NEW i \in DOMAIN queue,
           InOrder(queue), UNCHANGED input
    PROVE  InOrder(RemoveAt(queue, i))'
<1> DEFINE t == RemoveAt(queue, i)
           at(j) == IF j < i THEN j ELSE j + 1
<1>1. Len(queue) \in Nat /\ DOMAIN queue = 1..Len(queue) /\ i \in 1..Len(queue)
  BY LenProperties
<1>2. /\ DOMAIN t = 1..(Len(queue) - 1)
      /\ \A j \in 1..(Len(queue) - 1) : t[j] = IF j < i THEN queue[j]
                                               ELSE queue[j + 1]
  BY RemoveAtValues
<1>3. \A j \in DOMAIN t : at(j) \in DOMAIN queue /\ t[j] = queue[at(j)]
  BY <1>1, <1>2
<1>4. \A j, k \in DOMAIN t : j < k => at(j) < at(k)
  BY <1>1, <1>2
<1> HIDE DEF t, at
<1>5. InOrder(t)'
  BY <1>3, <1>4 DEF InOrder
<1>6. QED  BY <1>5 DEF t

\* startRun puts a regular run behind all others, and an interrupting one
\* anywhere.
LEMMA OrderOfMore ==
    ASSUME NEW queue \in Seq(Submitted), Submitted \subseteq Runs,
           InOrder(queue), NEW mode, NEW i, InsertionPoint(queue, mode, i),
           NEW r \in Runs, input'[r].mode = mode,
           \A s \in Submitted : s < r /\ input'[s] = input[s]
    PROVE  InOrder(InsertAt(queue, i, r))'
<1> DEFINE t == InsertAt(queue, i, r)
           at(j) == IF j < i THEN j ELSE j - 1
<1>1. /\ Len(queue) \in Nat /\ DOMAIN queue = 1..Len(queue)
      /\ i \in 1..(Len(queue) + 1)
      /\ mode = "enqueue" => i = Len(queue) + 1
  BY LenProperties DEF InsertionPoint
<1>2. /\ DOMAIN t = 1..(Len(queue) + 1)
      /\ \A j \in 1..(Len(queue) + 1) : t[j] = IF j < i THEN queue[j]
                                               ELSE IF j = i THEN r
                                               ELSE queue[j - 1]
  <2>1. queue \in Seq(Runs)
    BY SeqMonotonic
  <2>2. QED  BY <1>1, <2>1, InsertAtValues
<1>3. \A j \in DOMAIN t : IF j = i THEN t[j] = r
                          ELSE /\ at(j) \in DOMAIN queue
                               /\ t[j] = queue[at(j)]
                               /\ t[j] \in Submitted
  <2>1. \A j \in DOMAIN queue : queue[j] \in Submitted
    OBVIOUS
  <2>2. QED  BY <1>1, <1>2, <2>1
<1>4. \A j, k \in DOMAIN t : j < k /\ j # i /\ k # i => at(j) < at(k)
  BY <1>1, <1>2
<1>5. \A k \in DOMAIN t : mode = "enqueue" => ~(i < k)
  BY <1>1, <1>2
<1> HIDE DEF t, at
<1>6. ASSUME NEW j \in DOMAIN t, NEW k \in DOMAIN t, j < k,
             input'[t[j]].mode = "enqueue", input'[t[k]].mode = "enqueue"
      PROVE  t[j] < t[k]
  <2>1. CASE j = i
    BY <1>3, <1>5, <1>6, <2>1
  <2>2. CASE k = i
    BY <1>1, <1>2, <1>3, <1>6, <2>2
  <2>3. CASE j # i /\ k # i
    BY <1>3, <1>4, <1>6, <2>3 DEF InOrder
  <2>4. QED  BY <2>1, <2>2, <2>3
<1>7. InOrder(t)'
  BY <1>6 DEF InOrder
<1>8. QED  BY <1>7 DEF t

LEMMA OrderInit == Init => OrderInv
<1>1. Init => QueueOrder
  BY DEF Init, QueueOrder, InOrder
<1>2. QED  BY <1>1, WakeInit DEF OrderInv

\* Only a steer moves a run in its queue.
LEMMA OrderStep == OrderInv /\ [Next]_vars => OrderInv'
<1> SUFFICES ASSUME OrderInv, [Next]_vars, "steer" \notin Requests,
                    NEW key \in QueueKeys
             PROVE  InOrder(queues[key])'
  BY WakeStep DEF OrderInv, QueueOrder
<1>a. /\ TypeOK /\ Submitted \subseteq Runs /\ InOrder(queues[key])
      /\ queues \in [QueueKeys -> Seq(Submitted)]
      /\ PersistentQueue \in QueueKeys /\ Threads \subseteq QueueKeys
  BY SubmittedType
  DEF OrderInv, QueueOrder, WakeInv, RecordInv, PlacementInv, TypeOK, QueueKeys
<1>b. ASSUME UNCHANGED <<input, queues>>  PROVE InOrder(queues[key])'
  BY <1>a, <1>b DEF InOrder
<1>c. ASSUME UNCHANGED input, NEW k \in QueueKeys, NEW i \in DOMAIN queues[k],
             queues' = [queues EXCEPT ![k] = RemoveAt(@, i)]
      PROVE  InOrder(queues[key])'
  <2>1. CASE k = key
    <3>1. PICK queue \in Seq(Submitted) : queue = queues[key]
      BY <1>a
    <3>2. InOrder(queue) /\ i \in DOMAIN queue
      BY <1>a, <2>1, <3>1
    <3>3. queues'[key] = RemoveAt(queue, i)
      BY <1>a, <1>c, <2>1, <3>1
    <3>4. InOrder(RemoveAt(queue, i))'
      BY <1>c, <3>2, OrderOfRest
    <3>5. QED  BY <3>3, <3>4 DEF InOrder
  <2>2. CASE k # key
    <3>1. queues'[key] = queues[key]
      BY <1>a, <1>c, <2>2
    <3>2. QED  BY <1>a, <1>c, <3>1 DEF InOrder
  <2>3. QED  BY <2>1, <2>2
<1>1. CASE StartNextPersistentRuns
  <2>1. /\ UNCHANGED input
        /\ \/ \E i \in DOMAIN queues[PersistentQueue] :
                 Dequeue(PersistentQueue, i, calls)
           \/ UNCHANGED queues
    BY <1>1 DEF StartNextPersistentRuns
  <2>2. QED  BY <1>a, <1>b, <1>c, <2>1 DEF Dequeue
<1>2. ASSUME NEW t \in Threads, StartNextQueuedThreadRun(t)
      PROVE  InOrder(queues[key])'
  <2>1. /\ UNCHANGED input
        /\ \/ queues[t] # <<>> /\ Dequeue(t, 1, Tail(calls))
           \/ UNCHANGED queues
    BY <1>2 DEF StartNextQueuedThreadRun
  <2>2. t \in QueueKeys /\ (queues[t] # <<>> => 1 \in DOMAIN queues[t])
    BY <1>a
  <2>3. QED  BY <1>b, <1>c, <2>1, <2>2 DEF Dequeue
<1>3. ASSUME NEW r \in Submitted, CancelQueuedRun(r)
      PROVE  InOrder(queues[key])'
  BY <1>c, <1>3 DEF CancelQueuedRun, RemoveQueuedRun
<1>4. CASE CancelAll
  <2>1. /\ UNCHANGED input
        /\ \/ \E k \in QueueKeys : queues[k] # <<>> /\ RemoveQueuedRun(k, 1, calls)
           \/ UNCHANGED queues
    BY <1>4 DEF CancelAll
  <2>2. \A k \in QueueKeys : queues[k] # <<>> => 1 \in DOMAIN queues[k]
    BY <1>a
  <2>3. QED  BY <1>b, <1>c, <2>1, <2>2 DEF RemoveQueuedRun
<1>5. ASSUME NEW t \in Threads, NEW origin \in Origins, NEW mode \in Modes,
             StartRun(t, origin, mode)
      PROVE  InOrder(queues[key])'
  <2>1. PICK r \in Runs :
          /\ r = Len(input) + 1 /\ input'[r].mode = mode
          /\ \A s \in Submitted : s < r /\ input'[s] = input[s]
    <3>1. PICK r \in Runs :
            /\ r = Len(input) + 1
            /\ input'[r] = [thread |-> t, origin |-> origin, mode |-> mode]
            /\ \A s \in Submitted : s < r /\ input'[s] = input[s]
      BY <1>a, <1>5, Submission
    <3>2. QED  BY <3>1
  <2> DEFINE mine == IF AppServer /\ origin = "api" THEN PersistentQueue ELSE t
  <2>2. PICK k \in QueueKeys : k = mine
    BY <1>a
  <2>3. \/ UNCHANGED queues
        \/ \E i : /\ InsertionPoint(queues[k], mode, i)
                  /\ queues' = [queues EXCEPT ![k] = InsertAt(@, i, r)]
    BY <1>5, <2>1, <2>2 DEF StartRun, QueueRun, AdmitRun
  <2> HIDE DEF mine
  <2>4. CASE queues'[key] = queues[key]
    <3>1. \A i \in DOMAIN queues[key] : queues[key][i] \in Submitted
      BY <1>a
    <3>2. QED  BY <1>a, <2>1, <2>4, <3>1 DEF InOrder
  <2>5. ASSUME NEW i, InsertionPoint(queues[key], mode, i),
               queues' = [queues EXCEPT ![key] = InsertAt(@, i, r)]
        PROVE  InOrder(queues[key])'
    <3>1. PICK queue \in Seq(Submitted) : queue = queues[key]
      BY <1>a
    <3>2. InOrder(queue) /\ InsertionPoint(queue, mode, i)
      BY <1>a, <2>5, <3>1
    <3>3. queues'[key] = InsertAt(queue, i, r)
      BY <1>a, <2>5, <3>1
    <3>4. InOrder(InsertAt(queue, i, r))'
      BY <1>a, <2>1, <3>2, OrderOfMore
    <3>5. QED  BY <3>3, <3>4 DEF InOrder
  <2>6. QED
    <3>1. CASE k = key
      BY <2>3, <2>4, <2>5, <3>1
    <3>2. CASE k # key
      BY <1>a, <2>3, <2>4, <3>2
    <3>3. QED  BY <3>1, <3>2
<1>6. CASE Restart
  <2>1. queues'[key] = <<>>
    BY <1>6 DEF Restart
  <2>2. QED  BY <2>1 DEF InOrder
<1>7. CASE \/ \E r \in Runs : \/ Launch(r) \/ FailBeforeSpawn(r)
                              \/ PublishQueuedCancel(r) \/ RecoverEvents(r)
                              \/ TaskStep(r)
           \/ RecoverOrphan \/ SignOut \/ Close \/ UNCHANGED vars
           \/ \E r \in Submitted : CancelActiveRun(r) \/ SteerRun(r)
  <2>1. CASE \E r \in Runs : TaskStep(r)
    <3>1. UNCHANGED <<input, queues>>
      BY <2>1
      DEF TaskStep, StartPersistentAttempt, StartDirectAttempt, EndTurn,
          HandleResult, Rotate, PublishDone, FinishRun
    <3>2. QED  BY <1>b, <3>1
  <2>2. CASE \/ \E r \in Runs : \/ Launch(r) \/ FailBeforeSpawn(r)
                                \/ PublishQueuedCancel(r) \/ RecoverEvents(r)
             \/ RecoverOrphan \/ SignOut \/ Close \/ UNCHANGED vars
    <3>1. UNCHANGED <<input, queues>>
      BY <2>2
      DEF Launch, FailBeforeSpawn, PublishQueuedCancel, RecoverEvents,
          RecoverOrphan, SignOut, Close, persisted, vars
    <3>2. QED  BY <1>b, <3>1
  <2>3. CASE \E r \in Submitted : CancelActiveRun(r) \/ SteerRun(r)
    BY <1>b, <2>3 DEF CancelActiveRun, SteerRun
  <2>4. QED  BY <1>7, <2>1, <2>2, <2>3
<1>8. QED
  BY <1>1, <1>2, <1>3, <1>4, <1>5, <1>6, <1>7
  DEF Next, CallStep, Request

\* Who is admitted in a step: a new run, the first startable run of the
\* persistent queue, or the first run of a thread's queue.
LEMMA WhoIsAdmitted ==
    ASSUME RecordInv, [Next]_vars, NEW r \in Runs,
           phase[r] # "admitted", phase'[r] = "admitted"
    PROVE  \/ \E t \in Threads, origin \in Origins, mode \in Modes :
                 /\ StartRun(t, origin, mode) /\ r = Len(input) + 1
                 /\ ~MustQueue(t, AppServer /\ origin = "api")
           \/ /\ UNCHANGED input
              /\ \E i \in DOMAIN queues[PersistentQueue] :
                    /\ r = queues[PersistentQueue][i] /\ Startable(r)
                    /\ \A j \in 1..(i - 1) :
                          ~Startable(queues[PersistentQueue][j])
           \/ /\ UNCHANGED input
              /\ \E t \in Threads : queues[t] # <<>> /\ r = queues[t][1]
<1>a. /\ TypeOK /\ phase \in [Runs -> Phase] /\ Submitted \subseteq Runs
      /\ \A k \in QueueKeys : \A i \in DOMAIN queues[k] : queues[k][i] \in Runs
  BY SubmittedType, WaitsInItsQueue DEF RecordInv, PlacementInv, TypeOK
<1>b. ASSUME NEW q \in Runs, NEW where, where # "admitted",
             phase' = [phase EXCEPT ![q] = where]
      PROVE  FALSE
  BY <1>a, <1>b
<1>c. ASSUME NEW q \in Runs, phase' = [phase EXCEPT ![q] = "admitted"]
      PROVE  r = q
  BY <1>a, <1>c
<1>1. CASE StartNextPersistentRuns
  <2>1. /\ UNCHANGED input /\ PersistentQueue \in QueueKeys
        /\ \/ UNCHANGED phase
           \/ \E i \in DOMAIN queues[PersistentQueue] :
                 /\ Startable(queues[PersistentQueue][i])
                 /\ \A j \in 1..(i - 1) :
                       ~Startable(queues[PersistentQueue][j])
                 /\ phase' = [phase EXCEPT ![queues[PersistentQueue][i]]
                                              = "admitted"]
    BY <1>1 DEF StartNextPersistentRuns, Dequeue, QueueKeys
  <2>2. PICK i \in DOMAIN queues[PersistentQueue] :
                 /\ Startable(queues[PersistentQueue][i])
                 /\ \A j \in 1..(i - 1) :
                       ~Startable(queues[PersistentQueue][j])
                 /\ phase' = [phase EXCEPT ![queues[PersistentQueue][i]]
                                              = "admitted"]
    BY <2>1
  <2>3. r = queues[PersistentQueue][i]
    BY <1>a, <1>c, <2>1, <2>2
  <2>4. QED  BY <2>1, <2>2, <2>3
<1>2. ASSUME NEW t \in Threads, StartNextQueuedThreadRun(t)
      PROVE  UNCHANGED input /\ queues[t] # <<>> /\ r = queues[t][1]
  <2>1. /\ UNCHANGED input /\ t \in QueueKeys
        /\ \/ UNCHANGED phase
           \/ /\ queues[t] # <<>>
              /\ phase' = [phase EXCEPT ![queues[t][1]] = "admitted"]
    BY <1>2 DEF StartNextQueuedThreadRun, Dequeue, QueueKeys
  <2>2. queues[t] # <<>> => 1 \in DOMAIN queues[t]
    BY <1>a, <2>1 DEF TypeOK
  <2>3. QED  BY <1>a, <1>c, <2>1, <2>2
<1>3. ASSUME NEW t \in Threads, NEW origin \in Origins, NEW mode \in Modes,
             StartRun(t, origin, mode)
      PROVE  /\ r = Len(input) + 1
             /\ ~MustQueue(t, AppServer /\ origin = "api")
  <2>1. /\ Len(input) + 1 \in Runs
        /\ IF MustQueue(t, AppServer /\ origin = "api")
             THEN phase' = [phase EXCEPT ![Len(input) + 1] = "queued"]
             ELSE phase' = [phase EXCEPT ![Len(input) + 1] = "admitted"]
    BY <1>3 DEF StartRun, QueueRun, AdmitRun
  <2>2. QED  BY <1>b, <1>c, <2>1
<1>4. ASSUME NEW k \in QueueKeys, NEW i \in DOMAIN queues[k], NEW rest,
             RemoveQueuedRun(k, i, rest)
      PROVE  FALSE
  BY <1>a, <1>b, <1>4 DEF RemoveQueuedRun
<1>5. ~CancelAll /\ ~\E q \in Submitted : CancelQueuedRun(q)
  <2>1. ASSUME CancelAll  PROVE FALSE
    <3>1. \/ \E k \in QueueKeys :
                queues[k] # <<>> /\ RemoveQueuedRun(k, 1, calls)
          \/ UNCHANGED phase
      BY <2>1 DEF CancelAll
    <3>2. \A k \in QueueKeys : queues[k] # <<>> => 1 \in DOMAIN queues[k]
      BY <1>a DEF TypeOK
    <3>3. QED  BY <1>4, <3>1, <3>2
  <2>2. ASSUME NEW q \in Submitted, CancelQueuedRun(q)  PROVE FALSE
    BY <1>4, <2>2 DEF CancelQueuedRun
  <2>3. QED  BY <2>1, <2>2
<1>6. ~\E q \in Runs : \/ Launch(q) \/ FailBeforeSpawn(q)
                       \/ PublishQueuedCancel(q) \/ RecoverEvents(q)
                       \/ TaskStep(q)
  <2>1. SUFFICES ASSUME NEW q \in Runs,
                        \/ Launch(q) \/ FailBeforeSpawn(q)
                        \/ PublishQueuedCancel(q) \/ RecoverEvents(q)
                        \/ TaskStep(q)
                 PROVE  FALSE
    OBVIOUS
  <2>2. CASE Launch(q) \/ FailBeforeSpawn(q)
    BY <1>b, <2>2 DEF Launch, FailBeforeSpawn
  <2>3. CASE PublishQueuedCancel(q) \/ RecoverEvents(q)
    BY <2>3 DEF PublishQueuedCancel, RecoverEvents
  <2>4. CASE StartPersistentAttempt(q) \/ StartDirectAttempt(q) \/ Rotate(q)
    BY <1>b, <2>4
    DEF StartPersistentAttempt, StartDirectAttempt, Rotate, BeginTurn,
        FailAttempt
  <2>5. CASE EndTurn(q) \/ HandleResult(q) \/ PublishDone(q) \/ FinishRun(q)
    BY <1>b, <2>5 DEF EndTurn, HandleResult, PublishDone, FinishRun
  <2>6. QED  BY <2>1, <2>2, <2>3, <2>4, <2>5 DEF TaskStep
<1>7. ~(RecoverOrphan \/ SignOut \/ Close \/ Restart \/ UNCHANGED vars)
  BY DEF RecoverOrphan, SignOut, Close, Restart, vars
<1>8. ~\E q \in Submitted : CancelActiveRun(q) \/ SteerRun(q)
  BY DEF CancelActiveRun, SteerRun
<1>9. QED
  BY <1>1, <1>2, <1>3, <1>5, <1>6, <1>7, <1>8 DEF Next, CallStep, Request

\* Two regular submissions of one kind to one thread, of which the later one
\* leaves for startExistingRun while the earlier one stays in its queue.
Overtakes(r, s) ==
    /\ s < r
    /\ input'[r].thread = input[s].thread
    /\ input'[r].origin = input[s].origin
    /\ input'[r].mode = "enqueue" /\ input[s].mode = "enqueue"
    /\ phase[r] # "admitted" /\ phase'[r] = "admitted"
    /\ phase[s] = "queued" /\ phase'[s] = "queued"

\* A run overtakes only while a pooled run is ending and a place is free: its
\* startRun comes after the slot has been released and before finalizeRun looks
\* after the runs that wait.
OvertakingStep ==
    "steer" \notin Requests =>
    \A r \in DOMAIN input' : \A s \in Submitted :
       Overtakes(r, s)
       => /\ r \notin Submitted /\ AppServer /\ ~AtCapacity
          /\ \E q \in runningPersistentRunIds : Ending(q)

LEMMA OvertakingIsRare == OrderInv /\ [Next]_vars => OvertakingStep
<1> SUFFICES ASSUME OrderInv, [Next]_vars, "steer" \notin Requests,
                    NEW r \in DOMAIN input', NEW s \in Submitted,
                    Overtakes(r, s)
             PROVE  /\ r \notin Submitted /\ AppServer /\ ~AtCapacity
                    /\ \E q \in runningPersistentRunIds : Ending(q)
  BY DEF OvertakingStep
<1>a. /\ RecordInv /\ TypeOK /\ WakeInv /\ Submitted \subseteq Runs
      /\ s \in Runs /\ ThreadOf(s) \in Threads
      /\ \A k \in QueueKeys : InOrder(queues[k])
      /\ \A k \in QueueKeys : queues[k] \in Seq(Submitted)
      /\ PersistentQueue \in QueueKeys /\ Threads \subseteq QueueKeys
      /\ PersistentQueue \notin Threads
  BY SubmittedType, RunManagerAssumption
  DEF OrderInv, QueueOrder, WakeInv, RecordInv, PlacementInv, TypeOK, QueueKeys
<1>b. r \in Runs
  <2>1. TypeOK'
    BY <1>a, TypeStep
  <2>2. /\ input' \in Seq(Input) /\ Len(input') \in Nat /\ Len(input') <= MaxRuns
        /\ DOMAIN input' = 1..Len(input')
    BY <2>1, LenProperties DEF TypeOK, Input
  <2>3. QED  BY <2>2, RunManagerAssumption DEF Runs
<1> DEFINE mine == IF IsPersistent(s) THEN PersistentQueue ELSE ThreadOf(s)
<1>c. PICK key \in QueueKeys : key = mine
  BY <1>a
<1>d. PICK at \in DOMAIN queues[key] : s = queues[key][at]
  <2>1. s \in QueueSet(key) /\ phase[s] = "queued"
    BY <1>a, <1>c DEF QueueSet, Overtakes
  <2>2. s \in ToSet(queues[key])
    BY <1>a, <2>1 DEF RecordInv, QueuesHoldQueued
  <2>3. QED  BY <2>2 DEF ToSet
<1>e. ASSUME UNCHANGED input, NEW i \in DOMAIN queues[key], r = queues[key][i]
      PROVE  at < i
  <2>1. /\ at \in 1..Len(queues[key]) /\ i \in 1..Len(queues[key])
        /\ Len(queues[key]) \in Nat
    BY <1>a, <1>d, <1>e, LenProperties
  <2>2. /\ input[queues[key][i]].mode = "enqueue"
        /\ input[queues[key][at]].mode = "enqueue"
        /\ queues[key][at] < queues[key][i]
    BY <1>d, <1>e DEF Overtakes
  <2>3. i # at /\ ~(i < at)
    <3>1. r \in 1..MaxRuns /\ s \in 1..MaxRuns /\ s < r
      BY <1>a, <1>b DEF Overtakes, Runs
    <3>2. ~(r < s) /\ r # s
      BY <3>1, RunManagerAssumption
    <3>3. QED  BY <1>a, <1>d, <1>e, <2>2, <3>2 DEF InOrder
  <2>4. QED  BY <2>1, <2>3
<1>1. ASSUME UNCHANGED input, NEW i \in DOMAIN queues[PersistentQueue],
             r = queues[PersistentQueue][i], Startable(r),
             \A j \in 1..(i - 1) : ~Startable(queues[PersistentQueue][j])
      PROVE  FALSE
  <2>1. r \in Submitted /\ IsPersistent(r)
    BY <1>a, <1>1, WaitsInItsQueue DEF QueueSet
  <2>2. IsPersistent(s) /\ ThreadOf(s) = ThreadOf(r)
    BY <1>1, <2>1 DEF Overtakes, IsPersistent, ThreadOf
  <2>3. key = PersistentQueue
    BY <1>c, <2>2
  <2>4. at < i
    BY <1>1, <1>e, <2>3
  <2>5. at \in 1..(i - 1)
    <3>1. /\ at \in 1..Len(queues[key]) /\ i \in 1..Len(queues[key])
          /\ Len(queues[key]) \in Nat
      BY <1>a, <1>d, <1>1, <2>3, LenProperties
    <3>2. QED  BY <2>4, <3>1
  <2>6. ~Startable(s)
    BY <1>1, <1>d, <2>3, <2>5
  <2>7. QED  BY <1>1, <2>2, <2>6 DEF Startable
<1>2. ASSUME UNCHANGED input, NEW t \in Threads, queues[t] # <<>>,
             r = queues[t][1]
      PROVE  FALSE
  <2>1. 1 \in DOMAIN queues[t] /\ t \in QueueKeys /\ t # PersistentQueue
    BY <1>a, <1>2
  <2>2. r \in Submitted /\ ~IsPersistent(r) /\ ThreadOf(r) = t
    BY <1>a, <1>2, <2>1, WaitsInItsQueue DEF QueueSet
  <2>3. ~IsPersistent(s) /\ ThreadOf(s) = t
    BY <1>2, <2>2 DEF Overtakes, IsPersistent, ThreadOf
  <2>4. key = t
    BY <1>c, <2>3
  <2>5. at < 1
    BY <1>2, <1>e, <2>1, <2>4
  <2>6. at \in 1..Len(queues[key]) /\ Len(queues[key]) \in Nat
    BY <1>a, <1>d, LenProperties
  <2>7. QED  BY <2>5, <2>6
<1>3. ASSUME NEW t \in Threads, NEW origin \in Origins, NEW mode \in Modes,
             StartRun(t, origin, mode), r = Len(input) + 1,
             ~MustQueue(t, AppServer /\ origin = "api")
      PROVE  /\ r \notin Submitted /\ AppServer /\ ~AtCapacity
             /\ \E q \in runningPersistentRunIds : Ending(q)
  <2>1. /\ r \notin Submitted
        /\ input'[r] = [thread |-> t, origin |-> origin, mode |-> mode]
    BY <1>a, <1>3, Submission
  <2>2. /\ ThreadOf(s) = t
        /\ IsPersistent(s) <=> AppServer /\ origin = "api"
    BY <2>1 DEF Overtakes, ThreadOf, IsPersistent
  <2>3. /\ calls = <<>> /\ ~closing /\ runningThreadRun[t] = NoRun
        /\ IsPersistent(s) => ~AtCapacity /\ CanStart(pool, t)
    BY <1>3, <2>2 DEF StartRun, Idle, MustQueue
  <2>4. ~PoolWaits /\ ~ThreadWaits(t)
    BY <1>a, <2>3, NobodyWaits
  <2>5. queues[key] # <<>>
    BY <1>a, <1>d
  <2>6. IsPersistent(s)
    BY <1>c, <2>2, <2>3, <2>4, <2>5 DEF ThreadWaits
  <2>7. at \in DOMAIN queues[PersistentQueue] /\ s = queues[PersistentQueue][at]
    BY <1>c, <1>d, <2>6
  <2>8. Startable(s)
    BY <2>2, <2>3, <2>6 DEF Startable
  <2>9. \E q \in runningPersistentRunIds : Ending(q)
    BY <2>3, <2>4, <2>6, <2>7, <2>8 DEF PoolWaits
  <2>10. QED  BY <2>1, <2>3, <2>6, <2>9 DEF IsPersistent
<1>4. QED
  BY <1>a, <1>b, <1>1, <1>2, <1>3, WhoIsAdmitted DEF Overtakes

\* Without a steer, a run overtakes an earlier one of its thread only when it
\* is submitted between the end of a pooled run's turn and its finalizeRun.
THEOREM FifoUnlessEnding == Spec => [][OvertakingStep]_vars
<1>1. OrderInv /\ [Next]_vars => [OvertakingStep]_vars
  BY OvertakingIsRare
<1>2. Spec => []OrderInv
  BY OrderInit, OrderStep, PTL DEF Spec
<1>3. QED  BY <1>1, <1>2, PTL DEF Spec

\* With one slot, or with a process for every run, the runs of a thread start
\* in the order they were submitted.
THEOREM Fifo ==
    ASSUME MaxConcurrency = 1 \/ ~AppServer
    PROVE  Spec => ThreadFifo
<1>1. ASSUME OrderInv, AppServer, ~AtCapacity  PROVE runningPersistentRunIds = {}
  <2>1. /\ IsFiniteSet(runningPersistentRunIds)
        /\ Cardinality(runningPersistentRunIds) \in Nat
    BY <1>1, FiniteIds DEF OrderInv, WakeInv, RecordInv, PlacementInv
  <2>2. Cardinality(runningPersistentRunIds) = 0
    BY <1>1, <2>1 DEF AtCapacity
  <2>3. QED  BY <2>1, <2>2, FS_EmptySet
<1>2. OrderInv /\ [Next]_vars => FifoStep
  <2>1. SUFFICES ASSUME OrderInv, OvertakingStep  PROVE FifoStep
    BY OvertakingIsRare
  <2>2. "steer" \notin Requests =>
        \A r \in DOMAIN input' : \A s \in Submitted : ~Overtakes(r, s)
    BY <1>1, <2>1 DEF OvertakingStep
  <2>3. QED  BY <2>2 DEF FifoStep, Overtakes
<1>3. OrderInv /\ [Next]_vars => [FifoStep]_vars
  BY <1>2
<1>4. Spec => []OrderInv
  BY OrderInit, OrderStep, PTL DEF Spec
<1>5. QED  BY <1>3, <1>4, PTL DEF Spec, ThreadFifo
=============================================================================
