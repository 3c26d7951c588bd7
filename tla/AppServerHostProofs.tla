-------------------------- MODULE AppServerHostProofs --------------------------
(***************************************************************************)
(* An app-server host implements TurnHost, leaves no turn behind, and ends *)
(* every job as the turn of the job ended, for every number of jobs.       *)
(*                                                                         *)
(* The host takes one of six kinds of steps with its jobs (HostKind): one  *)
(* begins, goes to its next stage or settles, all fail, the process ends,  *)
(* or nothing happens to them.  Each kind is a step of TurnHost or a       *)
(* stutter.  Codex is asked for the turn of a job once, at a stage that    *)
(* comes once, and this is what a late or foreign frame cannot break.      *)
(***************************************************************************)
EXTENDS AppServerHost, SequenceTheorems, TLAPS

USE AppServerHostAssumption DEF Jobs, NoJob

Live == state \in {"starting", "ready", "turn_active"}

\* Stages before Codex is asked to reload, and before it is asked for the turn.
BeforeReload == {"none", "acquiring", "gating", "thread_starting", "thread_callback"}
BeforeTurn == BeforeReload \union {"mcp_refreshing", "mcp_waiting"}
WithManifest == {"mcp_waiting", "turn_start_written", "turn_active", "interrupting"}

Whats == TurnStatus \union {"ok", "error", "unusable", "none"}
Frames == [about : Methods \union {"completed", "none"}, job : 0..MaxJobs, what : Whats]
Heard == {frames[i] : i \in 1..Len(frames)}
Asked(method, j) == Request(method, j) \in asked

FrameTypes == frames \in Seq(Frames) /\ delivering \in [frame : Frames, job : 0..MaxJobs]

\* Only a notification is delivered, and to a job.
Deliveries ==
    delivering.frame # NoFrame => delivering.frame.about = "completed" /\ delivering.job # NoJob

\* Jobs run one after the other, and those before the active one are settled.
Stages ==
    /\ active # NoJob => state \in {"turn_active", "closing"}
    /\ state = "turn_active" => active # NoJob
    /\ active \in {NoJob, jobs}
    /\ \A j \in Jobs : /\ j > jobs => stage[j] = "none"
                       /\ j <= jobs /\ j # active => stage[j] = "settled"
                       /\ j = active => stage[j] \notin {"none", "settled"}
                       /\ outcome[j] = "none" <=> stage[j] # "settled"

\* A request is pending in the stage that awaits its answer; that of an
\* interrupt may stay when the job has settled.
PendingStages ==
    /\ \A j \in Jobs :
        /\ Request("thread", j) \in pending => stage[j] = "thread_starting"
        /\ Request("reload", j) \in pending => stage[j] = "mcp_refreshing"
        /\ Request("turn", j) \in pending => stage[j] = "turn_start_written"
        /\ Request("interrupt", j) \in pending => stage[j] \in {"interrupting", "settled"}
    /\ \A q \in pending \union asked : q.method # "initialize" <=> q.job \in Jobs

\* A turn is asked for once, runs once and ends once.
Turns ==
    /\ \A j \in Jobs : stage[j] \in BeforeTurn =>
          /\ ~Asked("turn", j) /\ turn # j /\ ended[j] = "none"
          /\ \A f \in Heard : ~(f.about = "turn" /\ f.job = j)
    /\ \A j \in Jobs : Asked("turn", j) =>
          /\ turn # j /\ ended[j] = "none"
          /\ \A f \in Heard : ~(f.about = "turn" /\ f.job = j)
    /\ turn # NoJob => ended[turn] = "none"
    /\ \A f \in Heard \union {delivering.frame} :
          f.about = "completed" /\ f.job \in Jobs => f.what = ended[f.job] /\ f.what \in TurnStatus

\* While the host takes jobs, Codex has the turn of the active job only.
LiveTurns ==
    Live => /\ \A j \in Jobs : Asked("turn", j) => j = active /\ stage[j] = "turn_start_written"
            /\ turn # NoJob => turn = active /\ stage[turn] \in {"turn_start_written"} \union TurnKnown

\* A reload is asked for once by a job.
Reloads ==
    /\ \A j \in Jobs : stage[j] \in BeforeReload \/ Asked("reload", j) =>
          \A f \in Heard : ~(f.about = "reload" /\ f.job = j)
    /\ \A j \in Jobs : stage[j] \in BeforeReload => ~Asked("reload", j)
    /\ active # NoJob /\ stage[active] \in WithManifest => lastManifestKey = key[active]

\* The host knows which manifest Codex has loaded, but for a reload under way.
LiveReloads ==
    Live => /\ \A j \in Jobs : Asked("reload", j) => j = active /\ stage[j] = "mcp_refreshing"
            /\ \A f \in Heard : /\ f.about = "reload" /\ f.what = "ok" /\ f.job = active
                               /\ active # NoJob /\ stage[active] = "mcp_refreshing"
                               => loadedKey = key[active]
            /\ \/ loadedKey = lastManifestKey
               \/ active # NoJob /\ stage[active] = "mcp_refreshing"

HostInv ==
    /\ TypeOK /\ FrameTypes /\ Deliveries
    /\ Stages /\ PendingStages
    /\ Turns /\ LiveTurns /\ OutcomeIsOwn
    /\ Reloads /\ LiveReloads

-----------------------------------------------------------------------------
(* The kinds of steps the host takes with its jobs.                        *)

\* The stages before a stage, and what Codex is asked on the way there.
From(to) ==
    CASE to = "gating" -> {"acquiring"}
      [] to = "thread_starting" -> {"acquiring", "gating"}
      [] to = "thread_callback" -> {"thread_starting"}
      [] to = "mcp_refreshing" -> {"thread_callback"}
      [] to = "mcp_waiting" -> {"thread_callback", "mcp_refreshing"}
      [] to = "turn_start_written" -> {"thread_callback", "mcp_refreshing", "mcp_waiting"}
      [] to = "turn_active" -> {"turn_start_written"}
      [] to = "interrupting" -> {"turn_start_written", "turn_active"}
AsksFor(to, j) ==
    CASE to = "thread_starting" -> {Request("thread", j)}
      [] to = "mcp_refreshing" -> {Request("reload", j)}
      [] to = "turn_start_written" -> {Request("turn", j)}
      [] to = "interrupting" -> {Request("interrupt", j)}
      [] OTHER -> {}
Reached == {"gating", "thread_starting", "thread_callback", "mcp_refreshing", "mcp_waiting",
            "turn_start_written", "turn_active", "interrupting"}

\* The manifest key is kept, or set to the one whose reload is answered.
KeyStep(j) ==
    \/ lastManifestKey' = lastManifestKey
    \/ /\ lastManifestKey' = key[j] /\ stage[j] = "mcp_refreshing"
       /\ Frame("reload", j, "ok") \in Heard

Begins ==
    /\ state \in {"starting", "ready"} /\ active = NoJob /\ jobs < MaxJobs
    /\ jobs' = jobs + 1 /\ active' = jobs + 1 /\ state' = "turn_active"
    /\ stage' = [stage EXCEPT ![jobs + 1] = "acquiring"]
    /\ \E k \in Keys : key' = [key EXCEPT ![jobs + 1] = k]
    /\ UNCHANGED <<outcome, canceled, lastManifestKey, pending, asked>>

Stays ==
    /\ UNCHANGED <<jobs, active, stage, outcome, key, asked, lastManifestKey>>
    /\ pending' \subseteq pending
    /\ canceled' \subseteq canceled \union ({active} \ {NoJob})
    /\ \/ state' = state
       \/ state = "starting" /\ state' = "ready"
       \/ state \notin {"closing", "closed"} /\ state' = "closing"

Moves(j, to) ==
    /\ j = active /\ j # NoJob /\ to \in Reached /\ stage[j] \in From(to)
    /\ UNCHANGED <<state, jobs, active, outcome, key>>
    /\ stage' = [stage EXCEPT ![j] = to]
    /\ canceled' \subseteq canceled \union {j}
    /\ asked' \subseteq asked \union AsksFor(to, j)
    /\ \A q \in pending' : \/ q \in AsksFor(to, j)
                           \/ q \in pending /\ (q.job = j => q.method = "interrupt")
    /\ KeyStep(j)
    /\ stage[j] = "mcp_refreshing" => Frame("reload", j, "ok") \in Heard
    /\ stage[j] = "turn_start_written" => Frame("turn", j, "ok") \in Heard
    /\ to \in {"mcp_waiting", "turn_start_written"} => lastManifestKey' = key[j]
    /\ to \notin {"mcp_waiting", "turn_start_written"} => lastManifestKey' = lastManifestKey

Settles(j, how) ==
    /\ j = active /\ j # NoJob
    /\ UNCHANGED <<jobs, key, asked, canceled>>
    /\ stage' = [stage EXCEPT ![j] = "settled"]
    /\ outcome' = [outcome EXCEPT ![j] = how]
    /\ active' = NoJob
    /\ state' = IF state = "turn_active" THEN "ready" ELSE state
    /\ \A q \in pending' : q \in pending /\ (q.job = j => q.method = "interrupt")
    /\ KeyStep(j)
    /\ \/ how = "error" /\ (Live => stage[j] \in BeforeTurn)
       \/ how = delivering.frame.what /\ how \in TurnStatus
             /\ delivering.frame.about = "completed" /\ delivering.frame.job = j
             /\ stage[j] \in TurnKnown
    /\ Live /\ stage[j] = "mcp_refreshing" =>
             Frame("reload", j, "ok") \in Heard /\ lastManifestKey' = key[j]

Fails ==
    /\ Live /\ state' = "failed"
    /\ pending' = {} /\ active' = NoJob
    /\ stage' = [j \in Jobs |-> IF j = active THEN "settled" ELSE stage[j]]
    /\ outcome' = [j \in Jobs |-> IF j = active THEN "error" ELSE outcome[j]]
    /\ UNCHANGED <<jobs, key, asked, canceled, lastManifestKey>>

Ends ==
    /\ state # "closed" /\ state' = "closed"
    /\ pending' = {} /\ active' = NoJob
    /\ stage' = [j \in Jobs |-> IF j = active THEN "settled" ELSE stage[j]]
    /\ outcome' = [j \in Jobs |-> IF j = active THEN "error" ELSE outcome[j]]
    /\ UNCHANGED <<jobs, key, asked, canceled, lastManifestKey>>

HostKind ==
    \/ Begins \/ Stays \/ Fails \/ Ends
    \/ \E j \in Jobs : \/ \E to \in Reached : Moves(j, to)
                       \/ \E how \in TurnStatus \union {"error"} : Settles(j, how)

\* The host hears frames in their order, and Codex does nothing meanwhile.
Hears ==
    /\ FrameTypes'
    /\ Heard' \subseteq Heard
    /\ \/ delivering' = delivering \/ delivering'.frame = NoFrame
       \/ /\ delivering'.frame \in Heard /\ delivering'.frame.about = "completed"
          /\ delivering'.job # NoJob
    /\ delivering'.job \in 0..jobs
    /\ UNCHANGED codexVars
    /\ initialized' \in BOOLEAN /\ gatePassed' \in BOOLEAN

-----------------------------------------------------------------------------
(* What the steps of the host are.                                         *)

LEMMA TailIs ==
  ASSUME frames \in Seq(Frames), frames # <<>>
  PROVE  /\ Head(frames) \in Heard /\ Head(frames) \in Frames
         /\ Tail(frames) \in Seq(Frames)
         /\ \A i \in 1..Len(Tail(frames)) : Tail(frames)[i] \in Heard
<1>1. Len(frames) \in Nat /\ Len(frames) >= 1 /\ Head(frames) = frames[1]
  OBVIOUS
<1>2. /\ Head(frames) \in Frames /\ Tail(frames) \in Seq(Frames)
      /\ Len(Tail(frames)) = Len(frames) - 1
      /\ \A i \in 1..Len(Tail(frames)) : Tail(frames)[i] = frames[i + 1]
  BY HeadTailProperties
<1>3. \A i \in 1..Len(Tail(frames)) : i + 1 \in 1..Len(frames)
  BY <1>1, <1>2
<1> QED
  BY <1>1, <1>2, <1>3 DEF Heard

LEMMA NoFrameTypes == NoFrame \in Frames
  BY DEF NoFrame, Frame, Frames, Whats

\* A step that takes the next frame away.
LEMMA TailHears ==
  ASSUME TypeOK, FrameTypes, frames # <<>>, frames' = Tail(frames), UNCHANGED codexVars,
         initialized' \in BOOLEAN, gatePassed' \in BOOLEAN,
         \/ delivering' = delivering
         \/ /\ Head(frames).about = "completed"
            /\ \E j \in 1..jobs : delivering' = [frame |-> Head(frames), job |-> j]
  PROVE  Hears
<1>1. /\ Head(frames) \in Heard /\ Head(frames) \in Frames
      /\ Tail(frames) \in Seq(Frames)
      /\ \A i \in 1..Len(Tail(frames)) : Tail(frames)[i] \in Heard
  BY TailIs DEF FrameTypes
<1>2. FrameTypes' /\ delivering'.job \in 0..jobs
  BY <1>1 DEF FrameTypes, TypeOK
<1>3. Heard' \subseteq Heard
  BY <1>1 DEF Heard
<1>4. \/ delivering' = delivering
      \/ /\ delivering'.frame \in Heard /\ delivering'.frame.about = "completed"
         /\ delivering'.job # NoJob
  BY <1>1
<1> QED
  BY <1>2, <1>3, <1>4 DEF Hears

\* A step that leaves the frames alone.
LEMMA QuietHears ==
  ASSUME TypeOK, FrameTypes, UNCHANGED <<frames, delivering, codexVars>>,
         initialized' \in BOOLEAN, gatePassed' \in BOOLEAN
  PROVE  Hears
<1>1. delivering'.job \in 0..jobs
  BY DEF TypeOK
<1> QED
  BY <1>1 DEF Hears, FrameTypes, Heard

\* The stage of a job that has begun and not settled is that of the active job.
LEMMA ActiveIs ==
  ASSUME HostInv, NEW j \in Jobs, stage[j] \notin {"none", "settled"}
  PROVE  j = active /\ active # NoJob /\ active <= jobs
  BY DEF HostInv, Stages, TypeOK

\* Pending are requests of the stage only.
LEMMA NothingElsePending ==
  ASSUME HostInv, NEW j \in Jobs,
         stage[j] \notin {"thread_starting", "mcp_refreshing", "turn_start_written"}
  PROVE  \A q \in pending : q.job = j => q.method = "interrupt"
<1>1. ASSUME NEW q \in pending, q.job = j, q.method # "interrupt" PROVE FALSE
  <2>1. q \in [method : Methods, job : 0..jobs]
    BY DEF HostInv, TypeOK
  <2>2. q = Request(q.method, j)
    BY <1>1, <2>1 DEF Request
  <2>3. q.method \in {"thread", "reload", "turn", "initialize"}
    BY <1>1, <2>1 DEF Methods, JobMethods
  <2> QED
    BY <1>1, <2>2, <2>3 DEF HostInv, PendingStages
<1> QED
  BY <1>1

\* An answer to a request of the active job's stage, taken away.
LEMMA AnswerIs ==
  ASSUME HostInv, NEW method \in Methods, NEW whats, Answer(method, whats)
  PROVE  /\ delivering.frame = NoFrame /\ frames # <<>> /\ frames' = Tail(frames)
         /\ Head(frames) \in Heard /\ Head(frames).what \in whats
         /\ Head(frames) = Frame(method, Head(frames).job, Head(frames).what)
         /\ Left(method) \subseteq pending
         /\ method # "initialize" => Head(frames).job \in Jobs
         /\ method = "thread" => stage[Head(frames).job] = "thread_starting"
         /\ method = "reload" => stage[Head(frames).job] = "mcp_refreshing"
         /\ method = "turn" => stage[Head(frames).job] = "turn_start_written"
         /\ method \in {"thread", "reload", "turn"} =>
               /\ Head(frames).job = active /\ active # NoJob
               /\ \A q \in Left(method) : q.job = active => q.method = "interrupt"
<1> DEFINE j == Head(frames).job
<1>1. /\ delivering.frame = NoFrame /\ frames # <<>> /\ frames' = Tail(frames)
      /\ Head(frames).about = method /\ Head(frames).what \in whats
      /\ Request(method, j) \in pending
  BY DEF Answer
<1>2. Head(frames) \in Heard /\ Head(frames) \in Frames
  BY <1>1, TailIs DEF HostInv, FrameTypes
<1>3. Head(frames) = Frame(method, j, Head(frames).what)
  BY <1>1, <1>2 DEF Frames, Frame
<1>4. Left(method) \subseteq pending /\ Request(method, j) \notin Left(method)
  BY DEF Left
<1>5. method # "initialize" => j \in Jobs
  BY <1>1 DEF HostInv, PendingStages, Request
<1>6. /\ method = "thread" => stage[j] = "thread_starting"
      /\ method = "reload" => stage[j] = "mcp_refreshing"
      /\ method = "turn" => stage[j] = "turn_start_written"
  BY <1>1, <1>5 DEF HostInv, PendingStages
<1>7. ASSUME method \in {"thread", "reload", "turn"}
      PROVE  /\ j = active /\ active # NoJob
             /\ \A q \in Left(method) : q.job = active => q.method = "interrupt"
  <2>1. j = active /\ active # NoJob
    BY <1>5, <1>6, <1>7, ActiveIs
  <2>2. ASSUME NEW q \in Left(method), q.job = active, q.method # "interrupt" PROVE FALSE
    <3>1. q \in [method : Methods, job : 0..jobs]
      BY <1>4 DEF HostInv, TypeOK
    <3>2. q = Request(q.method, j)
      BY <2>1, <2>2, <3>1 DEF Request
    <3>3. q.method \in {"thread", "reload", "turn", "initialize"} /\ q.method # method
      BY <1>4, <2>2, <3>1, <3>2 DEF Methods, JobMethods
    <3>4. q.method # "initialize"
      BY <1>4, <1>5, <1>7, <2>1, <2>2 DEF HostInv, PendingStages
    <3>5. Request(q.method, j) \in pending
      BY <1>4, <3>2
    <3> QED
      BY <1>5, <1>6, <1>7, <3>3, <3>4, <3>5 DEF HostInv, PendingStages
  <2> QED
    BY <2>1, <2>2
<1> QED
  BY <1>1, <1>2, <1>3, <1>4, <1>5, <1>6, <1>7

LEMMA RunIs == ASSUME HostInv, NEW k \in Keys, Run(k) PROVE HostKind /\ Hears
<1>1. Begins
  BY DEF Run, Begins, memory, HostInv, TypeOK
<1>2. Hears
  BY QuietHears DEF Run, memory, HostInv, TypeOK
<1> QED
  BY <1>1, <1>2 DEF HostKind

LEMMA CloseIs == ASSUME HostInv, Close PROVE HostKind /\ Hears
<1>1. Stays
  BY DEF Close, Stays, memory
<1>2. Hears
  BY QuietHears DEF Close, memory, HostInv, TypeOK
<1> QED
  BY <1>1, <1>2 DEF HostKind

LEMMA CancelIs == ASSUME HostInv, NEW j \in Jobs, Cancel(j) PROVE HostKind /\ Hears
<1>1. Hears
  BY QuietHears DEF Cancel, memory, HostInv, TypeOK
<1>2. CASE stage[j] = "turn_active"
  <2>1. \A q \in pending : q.job = j => q.method = "interrupt"
    BY <1>2, NothingElsePending
  <2>2. Moves(j, "interrupting")
    BY <1>2, <2>1 DEF Cancel, Ask, Enter, Moves, From, AsksFor, Reached, KeyStep, memory
  <2> QED
    BY <1>1, <2>2 DEF HostKind, Reached
<1>3. CASE stage[j] # "turn_active"
  <2>1. Stays
    BY <1>3 DEF Cancel, Stays, jobVars, memory
  <2> QED
    BY <1>1, <2>1 DEF HostKind
<1> QED
  BY <1>2, <1>3

\* A job settles with an error before its turn, or when the host is closing.
LEMMA SettleJobErrorIs ==
  ASSUME HostInv, NEW j \in Jobs, j = active, NEW left, left \subseteq pending,
         SettleJobError(j, left), UNCHANGED <<jobs, key, asked, canceled>>, KeyStep(j),
         Live => /\ stage[j] \in BeforeTurn
                 /\ stage[j] = "mcp_refreshing" =>
                       Frame("reload", j, "ok") \in Heard /\ lastManifestKey' = key[j]
  PROVE  HostKind
<1>1. Settles(j, "error")
  BY DEF SettleJobError, Settled, Settles
<1> QED
  BY <1>1 DEF HostKind

\* Codex is asked for the turn of the job, unless it was canceled.
LEMMA StartTurnIs ==
  ASSUME HostInv, NEW j \in Jobs, j = active, NEW left, left \subseteq pending,
         \A q \in left : q.job = j => q.method = "interrupt",
         stage[j] \in {"thread_callback", "mcp_refreshing", "mcp_waiting"},
         stage[j] = "mcp_refreshing" => Frame("reload", j, "ok") \in Heard,
         UNCHANGED <<jobs, key, canceled>>, KeyStep(j), lastManifestKey' = key[j],
         StartTurn(j, left)
  PROVE  HostKind
<1>1. CASE CanceledBeforeTurn(j, left)
  <2>1. stage[j] \in BeforeTurn
    BY DEF BeforeTurn, BeforeReload
  <2> QED
    BY <1>1, <2>1, SettleJobErrorIs DEF CanceledBeforeTurn
<1>2. CASE Ask(j, "turn_start_written", "turn", left)
  <2>1. Moves(j, "turn_start_written")
    BY <1>2 DEF Ask, Enter, Moves, From, AsksFor, Reached
  <2> QED
    BY <2>1 DEF HostKind, Reached
<1> QED
  BY <1>1, <1>2 DEF StartTurn

LEMMA AwaitServersIs ==
  ASSUME HostInv, NEW j \in Jobs, j = active, NEW left, left \subseteq pending,
         \A q \in left : q.job = j => q.method = "interrupt",
         stage[j] \in {"thread_callback", "mcp_refreshing"},
         stage[j] = "mcp_refreshing" => Frame("reload", j, "ok") \in Heard,
         UNCHANGED <<jobs, key, canceled>>, KeyStep(j), lastManifestKey' = key[j],
         AwaitServers(j, left)
  PROVE  HostKind
<1>1. CASE Enter(j, "mcp_waiting", left) /\ UNCHANGED asked
  <2>1. Moves(j, "mcp_waiting")
    BY <1>1 DEF Enter, Moves, From, AsksFor, Reached
  <2> QED
    BY <2>1 DEF HostKind, Reached
<1>2. CASE StartTurn(j, left)
  BY <1>2, StartTurnIs
<1> QED
  BY <1>1, <1>2 DEF AwaitServers

LEMMA StartThreadIs ==
  ASSUME HostInv, NEW j \in Jobs, j = active, stage[j] \in {"acquiring", "gating"},
         UNCHANGED <<jobs, key, canceled, lastManifestKey>>, StartThread(j)
  PROVE  HostKind
<1>1. CASE CanceledBeforeTurn(j, pending)
  <2>1. stage[j] \in BeforeTurn
    BY DEF BeforeTurn, BeforeReload
  <2> QED
    BY <1>1, <2>1, SettleJobErrorIs DEF CanceledBeforeTurn, KeyStep
<1>2. CASE Ask(j, "thread_starting", "thread", pending)
  <2>1. \A q \in pending : q.job = j => q.method = "interrupt"
    BY NothingElsePending
  <2>2. Moves(j, "thread_starting")
    BY <1>2, <2>1 DEF Ask, Enter, Moves, From, AsksFor, Reached, KeyStep
  <2> QED
    BY <2>2 DEF HostKind, Reached
<1> QED
  BY <1>1, <1>2 DEF StartThread

\* The steps of a job between two requests.
LEMMA JobStepIs ==
  ASSUME HostInv, NEW j \in Jobs,
         \/ Acquired(j) \/ GatePassed(j) \/ ThreadStarted(j) \/ CallbackFails(j)
         \/ ServersAwaited(j) \/ WriteFails(j)
  PROVE  HostKind /\ Hears
<1>1. j = active /\ UNCHANGED <<jobs, key, canceled, lastManifestKey, frames, delivering, codexVars>>
  BY DEF Acquired, GatePassed, ThreadStarted, CallbackFails, ServersAwaited, WriteFails, memory
<1>2. initialized' \in BOOLEAN /\ gatePassed' \in BOOLEAN
  BY DEF Acquired, GatePassed, ThreadStarted, CallbackFails, ServersAwaited, WriteFails, memory,
         HostInv, TypeOK
<1>3. Hears
  BY <1>1, <1>2, QuietHears DEF HostInv
<1>4. CASE Acquired(j)
  <2>1. CASE Enter(j, "gating", pending) /\ UNCHANGED asked
    <3>1. stage[j] = "acquiring"
      BY <1>4 DEF Acquired
    <3>2. \A q \in pending : q.job = j => q.method = "interrupt"
      BY <3>1, NothingElsePending
    <3>3. Moves(j, "gating")
      BY <1>1, <2>1, <3>1, <3>2 DEF Enter, Moves, From, AsksFor, Reached, KeyStep
    <3> QED
      BY <1>3, <3>3 DEF HostKind, Reached
  <2>2. CASE StartThread(j)
    BY <1>1, <1>3, <1>4, <2>2, StartThreadIs DEF Acquired
  <2> QED
    BY <1>4, <2>1, <2>2 DEF Acquired
<1>5. CASE GatePassed(j)
  BY <1>1, <1>3, <1>5, StartThreadIs DEF GatePassed
<1>6. CASE ThreadStarted(j)
  <2>1. stage[j] = "thread_callback" /\ ReloadServers(j)
    BY <1>6 DEF ThreadStarted
  <2>2. \A q \in pending : q.job = j => q.method = "interrupt"
    BY <2>1, NothingElsePending
  <2>3. CASE Ask(j, "mcp_refreshing", "reload", pending)
    <3>1. Moves(j, "mcp_refreshing")
      BY <1>1, <2>1, <2>2, <2>3 DEF Ask, Enter, Moves, From, AsksFor, Reached, KeyStep
    <3> QED
      BY <1>3, <3>1 DEF HostKind, Reached
  <2>4. CASE key[j] = lastManifestKey /\ AwaitServers(j, pending)
    BY <1>1, <1>3, <2>1, <2>2, <2>4, AwaitServersIs DEF KeyStep
  <2> QED
    BY <2>1, <2>3, <2>4 DEF ReloadServers
<1>7. CASE CallbackFails(j)
  <2>1. stage[j] \in BeforeTurn /\ stage[j] # "mcp_refreshing"
    BY <1>7 DEF CallbackFails, BeforeTurn, BeforeReload
  <2> QED
    BY <1>1, <1>3, <1>7, <2>1, SettleJobErrorIs DEF CallbackFails, KeyStep
<1>8. CASE ServersAwaited(j)
  <2>1. stage[j] = "mcp_waiting" /\ StartTurn(j, pending)
    BY <1>8 DEF ServersAwaited
  <2>2. \A q \in pending : q.job = j => q.method = "interrupt"
    BY <2>1, NothingElsePending
  <2>3. lastManifestKey = key[j]
    BY <1>1, <2>1 DEF HostInv, Reloads, WithManifest
  <2> QED
    BY <1>1, <1>3, <2>1, <2>2, <2>3, StartTurnIs DEF KeyStep
<1>9. CASE WriteFails(j)
  <2>1. ~Live
    BY <1>9 DEF WriteFails, Live
  <2> QED
    BY <1>1, <1>3, <1>9, <2>1, SettleJobErrorIs DEF WriteFails, KeyStep
<1> QED
  BY <1>4, <1>5, <1>6, <1>7, <1>8, <1>9

\* The host fails, or has begun to end.
LEMMA FailHostIs ==
  ASSUME HostInv, NEW left, left \subseteq pending, FailHost(left),
         UNCHANGED <<jobs, key, asked, canceled, lastManifestKey>>
  PROVE  HostKind
<1>1. CASE state \in {"closing", "failed", "closed"} /\ pending' = left /\ UNCHANGED jobVars
  <2>1. Stays
    BY <1>1 DEF Stays, jobVars
  <2> QED
    BY <2>1 DEF HostKind
<1>2. CASE state \notin {"closing", "failed", "closed"}
  <2>1. Fails
    BY <1>2 DEF FailHost, Fails, Live, HostInv, TypeOK, HostState
  <2> QED
    BY <2>1 DEF HostKind
<1> QED
  BY <1>1, <1>2 DEF FailHost

\* The answers.
LEMMA AnswerStepIs ==
  ASSUME HostInv,
         \/ Initialized \/ InitializeFails \/ ThreadKnown \/ ThreadRefused \/ Refreshed
         \/ TurnAnswered \/ InterruptAnswered \/ AnswerIsFatal
  PROVE  HostKind /\ Hears
<1> DEFINE j == Head(frames).job
<1>1. PICK method \in Methods : \E whats : Answer(method, whats)
  BY DEF Initialized, InitializeFails, ThreadKnown, ThreadRefused, Refreshed, TurnAnswered,
         InterruptAnswered, AnswerIsFatal, Methods, JobMethods
<1>2. frames # <<>> /\ frames' = Tail(frames) /\ Head(frames) \in Heard
  BY <1>1, AnswerIs
<1>3. UNCHANGED <<jobs, key, canceled, delivering, codexVars>>
  BY DEF Initialized, InitializeFails, ThreadKnown, ThreadRefused, Refreshed, TurnAnswered,
         InterruptAnswered, AnswerIsFatal
<1>4. initialized' \in BOOLEAN /\ gatePassed' \in BOOLEAN
  BY DEF Initialized, InitializeFails, ThreadKnown, ThreadRefused, Refreshed, TurnAnswered,
         InterruptAnswered, AnswerIsFatal, memory, HostInv, TypeOK
<1>5. Hears
  BY <1>2, <1>3, <1>4, TailHears DEF HostInv
<1>6. CASE Initialized
  <2>1. Left("initialize") \subseteq pending
    BY DEF Left
  <2>2. Stays
    BY <1>3, <1>6, <2>1 DEF Initialized, Stays
  <2> QED
    BY <1>5, <2>2 DEF HostKind
<1>7. CASE InitializeFails
  <2>1. Left("initialize") \subseteq pending
    BY DEF Left
  <2>2. UNCHANGED <<lastManifestKey, asked>>
    BY <1>7 DEF InitializeFails, memory
  <2>3. CASE state = "closing" /\ active # NoJob
    <3>1. active \in Jobs
      BY <2>3 DEF HostInv, TypeOK
    <3>2. SettleJobError(active, Left("initialize")) /\ ~Live
      BY <1>7, <2>3 DEF InitializeFails, Live
    <3> QED
      BY <1>3, <1>5, <2>1, <2>2, <3>1, <3>2, SettleJobErrorIs DEF KeyStep
  <2>4. CASE FailHost(Left("initialize"))
    BY <1>3, <1>5, <2>1, <2>2, <2>4, FailHostIs
  <2> QED
    BY <1>7, <2>3, <2>4 DEF InitializeFails
<1>8. CASE ThreadKnown
  <2>1. Answer("thread", {"ok"}) /\ Enter(j, "thread_callback", Left("thread"))
        /\ UNCHANGED <<lastManifestKey, asked>>
    BY <1>8 DEF ThreadKnown, memory
  <2>2. /\ j \in Jobs /\ j = active /\ active # NoJob /\ stage[j] = "thread_starting"
        /\ Left("thread") \subseteq pending
        /\ \A q \in Left("thread") : q.job = active => q.method = "interrupt"
    BY <2>1, AnswerIs DEF Methods, JobMethods
  <2>3. Moves(j, "thread_callback")
    BY <1>3, <2>1, <2>2 DEF Enter, Moves, From, AsksFor, Reached, KeyStep
  <2> QED
    BY <1>5, <2>2, <2>3 DEF HostKind, Reached
<1>9. CASE ThreadRefused
  <2>1. Answer("thread", {"error"}) /\ SettleJobError(j, Left("thread"))
        /\ UNCHANGED <<lastManifestKey, asked>>
    BY <1>9 DEF ThreadRefused, memory
  <2>2. /\ j \in Jobs /\ j = active /\ active # NoJob /\ stage[j] = "thread_starting"
        /\ Left("thread") \subseteq pending
    BY <2>1, AnswerIs DEF Methods, JobMethods
  <2>3. stage[j] \in BeforeTurn
    BY <2>2 DEF BeforeTurn, BeforeReload
  <2> QED
    BY <1>3, <1>5, <2>1, <2>2, <2>3, SettleJobErrorIs DEF KeyStep
<1>10. CASE Refreshed
  <2>1. /\ Answer("reload", {"ok"}) /\ AwaitServers(j, Left("reload"))
        /\ lastManifestKey' = key[j]
    BY <1>10 DEF Refreshed
  <2>2. /\ j \in Jobs /\ j = active /\ active # NoJob /\ stage[j] = "mcp_refreshing"
        /\ Left("reload") \subseteq pending
        /\ \A q \in Left("reload") : q.job = active => q.method = "interrupt"
        /\ Frame("reload", j, "ok") \in Heard
    BY <2>1, AnswerIs DEF Methods, JobMethods
  <2> QED
    BY <1>3, <1>5, <2>1, <2>2, AwaitServersIs DEF KeyStep
<1>11. CASE TurnAnswered
  <2>1. /\ Answer("turn", {"ok"}) /\ UNCHANGED lastManifestKey
        /\ \/ Ask(j, "interrupting", "interrupt", Left("turn"))
           \/ Enter(j, "turn_active", Left("turn")) /\ UNCHANGED asked
    BY <1>11 DEF TurnAnswered, memory
  <2>2. /\ j \in Jobs /\ j = active /\ active # NoJob /\ stage[j] = "turn_start_written"
        /\ Left("turn") \subseteq pending
        /\ \A q \in Left("turn") : q.job = active => q.method = "interrupt"
        /\ Frame("turn", j, "ok") \in Heard
    BY <2>1, AnswerIs DEF Methods, JobMethods
  <2>3. CASE Ask(j, "interrupting", "interrupt", Left("turn"))
    <3>1. Moves(j, "interrupting")
      BY <1>3, <2>1, <2>2, <2>3 DEF Ask, Enter, Moves, From, AsksFor, Reached, KeyStep
    <3> QED
      BY <1>5, <2>2, <3>1 DEF HostKind, Reached
  <2>4. CASE Enter(j, "turn_active", Left("turn")) /\ UNCHANGED asked
    <3>1. Moves(j, "turn_active")
      BY <1>3, <2>1, <2>2, <2>4 DEF Enter, Moves, From, AsksFor, Reached, KeyStep
    <3> QED
      BY <1>5, <2>2, <3>1 DEF HostKind, Reached
  <2> QED
    BY <2>1, <2>3, <2>4
<1>12. CASE InterruptAnswered
  <2>1. Stays
    BY <1>12 DEF InterruptAnswered, Stays, Left, jobVars, memory
  <2> QED
    BY <1>5, <2>1 DEF HostKind
<1>13. CASE AnswerIsFatal
  <2>1. PICK m \in JobMethods : FailHost(Left(m)) /\ UNCHANGED <<asked, lastManifestKey>>
    BY <1>13 DEF AnswerIsFatal, memory
  <2>2. Left(m) \subseteq pending
    BY DEF Left
  <2> QED
    BY <1>3, <1>5, <2>1, <2>2, FailHostIs
<1> QED
  BY <1>6, <1>7, <1>8, <1>9, <1>10, <1>11, <1>12, <1>13

\* The other frames, failures and the end of the process.
LEMMA OtherStepIs ==
  ASSUME HostInv, FrameIgnored \/ Notify \/ Notified \/ NotifyFails \/ HostFails \/ Closed
  PROVE  HostKind /\ Hears
<1>1. /\ UNCHANGED <<jobs, key, canceled, codexVars, lastManifestKey, asked>>
      /\ initialized' \in BOOLEAN /\ gatePassed' \in BOOLEAN
  BY DEF FrameIgnored, Notify, Notified, NotifyFails, HostFails, Closed, memory, HostInv, TypeOK
<1>2. TypeOK /\ FrameTypes /\ active \in 0..jobs /\ jobs \in 0..MaxJobs
  BY DEF HostInv, TypeOK
<1>3. CASE FrameIgnored
  <2>1. Stays
    BY <1>1, <1>3 DEF FrameIgnored, Stays, jobVars
  <2>2. Hears
    BY <1>1, <1>2, <1>3, TailHears DEF FrameIgnored
  <2> QED
    BY <2>1, <2>2 DEF HostKind
<1>4. CASE Notify
  <2>1. Stays
    BY <1>1, <1>4 DEF Notify, Stays, jobVars
  <2>2. Hears
    BY <1>1, <1>2, <1>4, TailHears DEF Notify, ForActiveJob
  <2> QED
    BY <2>1, <2>2 DEF HostKind
<1>5. CASE Notified
  <2>1. frames' = frames /\ delivering' = [frame |-> NoFrame, job |-> NoJob]
    BY <1>5 DEF Notified
  <2>2. Hears
    BY <1>1, <1>2, <2>1, NoFrameTypes DEF Hears, FrameTypes, Heard
  <2>3. CASE UNCHANGED <<jobVars, pending>>
    <3>1. Stays
      BY <1>1, <2>3 DEF Stays, jobVars
    <3> QED
      BY <2>2, <3>1 DEF HostKind
  <2>4. CASE /\ stage[delivering.job] \in TurnKnown /\ delivering.frame.job = delivering.job
             /\ Settled(delivering.job, delivering.frame.what, pending)
    <3>0. delivering.frame.about = "completed" /\ delivering.job # NoJob
      BY <1>5 DEF Notified, HostInv, Deliveries
    <3>1. delivering.job \in Jobs
      BY <1>2, <3>0 DEF FrameTypes
    <3>2. delivering.job = active /\ active # NoJob
      BY <2>4, <3>1, ActiveIs DEF TurnKnown
    <3>3. delivering.frame.what \in TurnStatus
      BY <2>4, <3>0, <3>1 DEF HostInv, Turns
    <3>4. \A q \in pending : q.job = delivering.job => q.method = "interrupt"
      BY <2>4, <3>1, NothingElsePending DEF TurnKnown
    <3>5. Settles(delivering.job, delivering.frame.what)
      BY <1>1, <2>4, <3>0, <3>2, <3>3, <3>4 DEF Settled, Settles, KeyStep, TurnKnown
    <3> QED
      BY <2>2, <3>1, <3>3, <3>5 DEF HostKind
  <2> QED
    BY <1>5, <2>3, <2>4 DEF Notified
<1>6. CASE NotifyFails
  <2>1. HostKind
    BY <1>1, <1>6, FailHostIs DEF NotifyFails
  <2>2. PICK n \in 0..Len(frames) : frames' = SubSeq(frames, n + 1, Len(frames))
    BY <1>6 DEF NotifyFails
  <2>3. \A i \in n + 1..Len(frames) : frames[i] \in Frames
    BY <1>2 DEF FrameTypes
  <2>4. /\ frames' \in Seq(Frames)
        /\ \A i \in 1..Len(frames') : frames'[i] \in Heard
    <3>1. Len(frames) \in Nat
      BY <1>2 DEF FrameTypes
    <3>2. /\ SubSeq(frames, n + 1, Len(frames)) \in Seq(Frames)
          /\ Len(SubSeq(frames, n + 1, Len(frames))) =
                IF n + 1 <= Len(frames) THEN Len(frames) - (n + 1) + 1 ELSE 0
          /\ \A i \in 1..Len(frames) - (n + 1) + 1 :
                SubSeq(frames, n + 1, Len(frames))[i] = frames[n + 1 + i - 1]
      BY <2>3, <3>1, SubSeqProperties
    <3>3. ASSUME NEW i \in 1..Len(frames') PROVE frames'[i] \in Heard
      <4>1. i \in 1..Len(frames) - (n + 1) + 1 /\ n + 1 + i - 1 \in 1..Len(frames)
        BY <2>2, <3>1, <3>2
      <4> QED
        BY <2>2, <3>2, <4>1 DEF Heard
    <3> QED
      BY <2>2, <3>2, <3>3
  <2>5. Hears
    BY <1>1, <1>2, <1>6, <2>4, NoFrameTypes DEF NotifyFails, Hears, FrameTypes, Heard
  <2> QED
    BY <2>1, <2>5
<1>7. CASE HostFails
  <2>1. HostKind
    BY <1>1, <1>7, FailHostIs DEF HostFails
  <2>2. Hears
    BY <1>1, <1>2, <1>7, QuietHears DEF HostFails
  <2> QED
    BY <2>1, <2>2
<1>8. CASE Closed
  <2>1. Ends
    BY <1>1, <1>8 DEF Closed, Ends
  <2>2. Hears
    BY <1>1, <1>2, <1>8, QuietHears DEF Closed
  <2> QED
    BY <2>1, <2>2 DEF HostKind
<1> QED
  BY <1>3, <1>4, <1>5, <1>6, <1>7, <1>8

-----------------------------------------------------------------------------
(* Every kind of step keeps the invariant.                                 *)

\* What the host hears is typed, and a notification of a job is delivered.
LEMMA HearsKeeps == ASSUME HostInv, Hears PROVE FrameTypes' /\ Deliveries'
<1>1. FrameTypes'
  BY DEF Hears
<1>2. Deliveries'
  BY DEF HostInv, Hears, Deliveries
<1> QED
  BY <1>1, <1>2

\* The frame that is delivered says how the turn of its job ended.
LEMMA EndsAreHeard ==
  ASSUME HostInv, Hears
  PROVE  \A f \in (Heard \union {delivering.frame})' :
            f.about = "completed" /\ f.job \in Jobs =>
               f.what = ended[f.job] /\ f.what \in TurnStatus
<1>1. NoFrame.about # "completed"
  BY DEF NoFrame, Frame
<1>2. ASSUME NEW f \in (Heard \union {delivering.frame})', f.about = "completed"
      PROVE  f \in Heard \union {delivering.frame}
  BY <1>1, <1>2 DEF Hears
<1> QED
  BY <1>2 DEF HostInv, Turns

LEMMA StaysKeeps == ASSUME HostInv, Stays, Hears PROVE HostInv'
<1>1. TypeOK'
  BY DEF Stays, Hears, HostInv, TypeOK, HostState, codexVars, FrameTypes, Stages
<1>2. FrameTypes' /\ Deliveries'
  BY HearsKeeps
<1>3. Stages' /\ PendingStages' /\ OutcomeIsOwn'
  BY DEF Stays, Hears, HostInv, Stages, PendingStages, OutcomeIsOwn, codexVars, TypeOK
<1>4. Turns'
  BY EndsAreHeard DEF Stays, Hears, HostInv, Turns, codexVars, Asked
<1>5. Live' => Live
  BY DEF Stays, Live, HostInv, TypeOK, HostState
<1>6. LiveTurns'
  BY <1>5 DEF Stays, Hears, HostInv, LiveTurns, codexVars, Asked
<1>7. Reloads'
  BY DEF Stays, Hears, HostInv, Reloads, codexVars, Asked
<1>8. LiveReloads'
  BY <1>5 DEF Stays, Hears, HostInv, LiveReloads, codexVars, Asked
<1> QED
  BY <1>1, <1>2, <1>3, <1>4, <1>6, <1>7, <1>8 DEF HostInv

\* All jobs are settled, and the host takes none any more.
LEMMA FailsKeeps == ASSUME HostInv, Fails \/ Ends, Hears PROVE HostInv'
<1>1. /\ state' \in {"failed", "closed"} /\ pending' = {} /\ active' = NoJob
      /\ stage' = [j \in Jobs |-> IF j = active THEN "settled" ELSE stage[j]]
      /\ outcome' = [j \in Jobs |-> IF j = active THEN "error" ELSE outcome[j]]
      /\ UNCHANGED <<jobs, key, asked, canceled, lastManifestKey>>
  BY DEF Fails, Ends
<1>2. \A j \in Jobs : /\ stage'[j] = IF j = active THEN "settled" ELSE stage[j]
                      /\ outcome'[j] = IF j = active THEN "error" ELSE outcome[j]
  BY <1>1
<1>3. TypeOK'
  <2>1. stage' \in [Jobs -> Stage] /\ outcome' \in [Jobs -> TurnStatus \union {"none", "error"}]
    BY <1>1 DEF HostInv, TypeOK, Stage
  <2>2. (state \in HostState /\ active \in 0..jobs)'
    BY <1>1 DEF HostInv, TypeOK, HostState
  <2> QED
    BY <1>1, <2>1, <2>2 DEF Hears, HostInv, TypeOK, codexVars, FrameTypes
<1>4. FrameTypes' /\ Deliveries'
  BY HearsKeeps
<1>5. Stages'
  BY <1>1, <1>2 DEF HostInv, Stages, TypeOK
<1>6. PendingStages'
  BY <1>1 DEF HostInv, PendingStages
<1>7. OutcomeIsOwn'
  BY <1>1, <1>2 DEF HostInv, OutcomeIsOwn, Hears, codexVars, TurnStatus
<1>8. ~Live'
  BY <1>1 DEF Live
<1>9. LiveTurns' /\ LiveReloads'
  BY <1>8 DEF LiveTurns, LiveReloads
<1>10. Turns'
  BY <1>1, <1>2, EndsAreHeard DEF Hears, HostInv, Turns, codexVars, Asked, BeforeTurn, BeforeReload
<1>11. Reloads'
  BY <1>1, <1>2 DEF Hears, HostInv, Reloads, codexVars, Asked, BeforeReload
<1> QED
  BY <1>3, <1>4, <1>5, <1>6, <1>7, <1>9, <1>10, <1>11 DEF HostInv

\* The next job begins: nothing was asked for it yet.
LEMMA BeginsKeeps == ASSUME HostInv, Begins, Hears PROVE HostInv'
<1> DEFINE n == jobs + 1
<1>1. /\ n \in Jobs /\ active = NoJob /\ Live /\ jobs \in Nat
      /\ state \in {"starting", "ready"} /\ state' = "turn_active"
      /\ jobs' = n /\ active' = n
      /\ UNCHANGED <<outcome, canceled, lastManifestKey, pending, asked>>
      /\ stage[n] = "none"
  BY DEF Begins, Live, HostInv, TypeOK, Stages
<1>2. \A j \in Jobs : stage'[j] = IF j = n THEN "acquiring" ELSE stage[j]
  BY DEF Begins, HostInv, TypeOK
<1>3. \A j \in Jobs : j # n => key'[j] = key[j]
  BY DEF Begins, HostInv, TypeOK
<1>4. UNCHANGED codexVars /\ Heard' \subseteq Heard
  BY DEF Hears
<1>5. TypeOK'
  <2>1. stage' \in [Jobs -> Stage] /\ key' \in [Jobs -> Keys \union {NoKey}]
    BY <1>1 DEF Begins, HostInv, TypeOK, Stage
  <2>2. (jobs \in 0..MaxJobs /\ state \in HostState /\ active \in 0..jobs)'
    BY <1>1 DEF HostInv, TypeOK, HostState
  <2>3. (pending \union asked \subseteq [method : Methods, job : 0..jobs])'
    BY <1>1 DEF HostInv, TypeOK
  <2>4. (delivering.job \in 0..jobs)'
    BY <1>1 DEF Hears, HostInv, TypeOK
  <2>5. (turn \in 0..jobs /\ canceled \subseteq 1..jobs)'
    BY <1>1, <1>4 DEF HostInv, TypeOK, codexVars
  <2> QED
    BY <1>1, <1>4, <2>1, <2>2, <2>3, <2>4, <2>5 DEF Hears, HostInv, TypeOK, codexVars
<1>6. FrameTypes' /\ Deliveries'
  BY HearsKeeps
<1>7. Stages'
  BY <1>1, <1>2 DEF HostInv, Stages, TypeOK
<1>8. PendingStages'
  <2>1. \A q \in pending : q.job # n
    BY <1>1 DEF HostInv, TypeOK
  <2>2. \A m \in Methods : Request(m, n) \notin pending
    BY <2>1 DEF Request
  <2> QED
    BY <1>1, <1>2, <2>2 DEF HostInv, PendingStages, Methods, JobMethods
<1>9. OutcomeIsOwn'
  BY <1>1, <1>4 DEF HostInv, OutcomeIsOwn, codexVars
<1>10. Turns'
  BY <1>1, <1>2, <1>4, EndsAreHeard DEF HostInv, Turns, codexVars, Asked, BeforeTurn, BeforeReload
<1>11. LiveTurns'
  BY <1>1, <1>2, <1>4 DEF HostInv, LiveTurns, codexVars, Asked
<1>12. Reloads'
  BY <1>1, <1>2, <1>4 DEF HostInv, Reloads, Asked, BeforeReload, WithManifest
<1>13. LiveReloads'
  BY <1>1, <1>2, <1>4 DEF HostInv, LiveReloads, Asked, codexVars
<1> QED
  BY <1>5, <1>6, <1>7, <1>8, <1>9, <1>10, <1>11, <1>12, <1>13 DEF HostInv

\* A job settles: as its turn ended, or with an error before its turn.
LEMMA SettlesKeeps ==
  ASSUME HostInv, NEW j \in Jobs, NEW how \in TurnStatus \union {"error"}, Settles(j, how), Hears
  PROVE  HostInv'
<1>1. /\ j = active /\ active' = NoJob /\ UNCHANGED <<jobs, key, asked, canceled>>
      /\ state' = IF state = "turn_active" THEN "ready" ELSE state
      /\ \A q \in pending' : q \in pending /\ (q.job = j => q.method = "interrupt")
  BY DEF Settles
<1>2. \A i \in Jobs : /\ stage'[i] = IF i = j THEN "settled" ELSE stage[i]
                      /\ outcome'[i] = IF i = j THEN how ELSE outcome[i]
  BY DEF Settles, HostInv, TypeOK
<1>3. UNCHANGED codexVars /\ Heard' \subseteq Heard
  BY DEF Hears
<1>4. TypeOK'
  <2>1. stage' \in [Jobs -> Stage] /\ outcome' \in [Jobs -> TurnStatus \union {"none", "error"}]
    BY DEF Settles, HostInv, TypeOK, Stage
  <2>2. (state \in HostState /\ active \in 0..jobs)'
    BY <1>1 DEF HostInv, TypeOK, HostState
  <2>3. (pending \union asked \subseteq [method : Methods, job : 0..jobs])'
    BY <1>1 DEF HostInv, TypeOK
  <2>4. (delivering.job \in 0..jobs)'
    BY <1>1 DEF Hears, HostInv, TypeOK
  <2>5. lastManifestKey' \in Keys \union {NoKey}
    BY DEF Settles, KeyStep, HostInv, TypeOK
  <2> QED
    BY <1>1, <1>3, <2>1, <2>2, <2>3, <2>4, <2>5 DEF Hears, HostInv, TypeOK, codexVars
<1>5. FrameTypes' /\ Deliveries'
  BY HearsKeeps
<1>6. Stages'
  BY <1>1, <1>2 DEF HostInv, Stages, TypeOK, TurnStatus
<1>7. PendingStages'
  <2>1. \A m \in Methods : m # "interrupt" => Request(m, j) \notin pending'
    BY <1>1 DEF Request
  <2> QED
    BY <1>1, <1>2, <2>1 DEF HostInv, PendingStages, Methods, JobMethods
<1>8. OutcomeIsOwn'
  BY <1>2, <1>3 DEF Settles, HostInv, OutcomeIsOwn, Turns, codexVars, TurnStatus
<1>9. Turns'
  BY <1>1, <1>2, <1>3, EndsAreHeard DEF HostInv, Turns, codexVars, Asked, BeforeTurn, BeforeReload
<1>10. Live => ~Asked("turn", j) /\ turn # j
  BY DEF Settles, HostInv, Turns, LiveTurns, TurnStatus, TurnKnown
<1>11. Live' => Live
  BY <1>1 DEF Live
<1>12. LiveTurns'
  BY <1>1, <1>2, <1>3, <1>10, <1>11 DEF HostInv, LiveTurns, codexVars, Asked
<1>13. Reloads'
  BY <1>1, <1>2, <1>3 DEF HostInv, Reloads, Asked, BeforeReload
<1>14. Live => ~Asked("reload", j)
  BY <1>1 DEF Settles, HostInv, Reloads, LiveReloads, Frame
<1>15. Live => loadedKey = lastManifestKey'
  <2>1. CASE stage[j] = "mcp_refreshing"
    BY <1>1, <2>1 DEF Settles, HostInv, LiveReloads, Frame
  <2>2. CASE stage[j] # "mcp_refreshing"
    BY <1>1, <2>2 DEF Settles, KeyStep, HostInv, LiveReloads
  <2> QED
    BY <2>1, <2>2
<1>16. LiveReloads'
  BY <1>1, <1>2, <1>3, <1>11, <1>14, <1>15 DEF HostInv, LiveReloads, codexVars, Asked
<1> QED
  BY <1>4, <1>5, <1>6, <1>7, <1>8, <1>9, <1>12, <1>13, <1>16 DEF HostInv

\* A job goes on to its next stage: Codex is asked once for what it needs.
LEMMA MovesKeeps ==
  ASSUME HostInv, NEW j \in Jobs, NEW to \in Reached, Moves(j, to), Hears
  PROVE  HostInv'
<1>1. /\ j = active /\ active # NoJob /\ UNCHANGED <<state, jobs, active, outcome, key>>
      /\ stage[j] \in From(to) /\ KeyStep(j)
      /\ asked' \subseteq asked \union AsksFor(to, j)
      /\ \A q \in pending' : \/ q \in AsksFor(to, j)
                             \/ q \in pending /\ (q.job = j => q.method = "interrupt")
  BY DEF Moves
<1>2. \A i \in Jobs : stage'[i] = IF i = j THEN to ELSE stage[i]
  BY DEF Moves, HostInv, TypeOK
<1>3. UNCHANGED codexVars /\ Heard' \subseteq Heard
  BY DEF Hears
<1>4. /\ stage[j] \in Stage \ {"none", "settled", "interrupting"}
      /\ to \in Stage \ {"none", "settled", "acquiring"}
      /\ to \in BeforeReload => stage[j] \in BeforeReload
      /\ to \in BeforeTurn => stage[j] \in BeforeTurn
  BY <1>1 DEF From, Reached, Stage, BeforeReload, BeforeTurn
<1>5. \A q \in AsksFor(to, j) :
         /\ q \in [method : JobMethods, job : 0..jobs] /\ q.job = j
         /\ q.method = "thread" => to = "thread_starting"
         /\ q.method = "reload" => to = "mcp_refreshing"
         /\ q.method = "turn" => to = "turn_start_written"
         /\ q.method = "interrupt" => to = "interrupting"
  BY <1>1 DEF AsksFor, Request, JobMethods, Reached, HostInv, TypeOK
<1>6. \A i \in Jobs, m \in Methods :
         Request(m, i) \in AsksFor(to, j) =>
            /\ i = j /\ m \in JobMethods
            /\ m = "thread" => to = "thread_starting"
            /\ m = "reload" => to = "mcp_refreshing"
            /\ m = "turn" => to = "turn_start_written"
            /\ m = "interrupt" => to = "interrupting"
  <2>1. \A i \in Jobs, m \in Methods : Request(m, i).job = i /\ Request(m, i).method = m
    BY DEF Request
  <2> QED
    BY <1>5, <2>1
<1>7. TypeOK'
  <2>1. stage' \in [Jobs -> Stage]
    BY <1>4 DEF Moves, HostInv, TypeOK
  <2>2. (state \in HostState /\ active \in 0..jobs /\ canceled \subseteq 1..jobs)'
    BY <1>1 DEF Moves, HostInv, TypeOK, HostState
  <2>3. (pending \union asked \subseteq [method : Methods, job : 0..jobs])'
    BY <1>1, <1>5 DEF HostInv, TypeOK, Methods
  <2>4. (delivering.job \in 0..jobs)'
    BY <1>1 DEF Hears, HostInv, TypeOK
  <2>5. lastManifestKey' \in Keys \union {NoKey}
    BY <1>1 DEF KeyStep, HostInv, TypeOK
  <2> QED
    BY <1>1, <1>3, <2>1, <2>2, <2>3, <2>4, <2>5 DEF Hears, HostInv, TypeOK, codexVars
<1>8. FrameTypes' /\ Deliveries'
  BY HearsKeeps
<1>9. Stages'
  BY <1>1, <1>2, <1>4 DEF HostInv, Stages, TypeOK
<1>10. PendingStages'
  <2>1. \A i \in Jobs, m \in Methods :
           Request(m, i) \in pending' =>
              \/ i = j /\ Request(m, i) \in AsksFor(to, j)
              \/ Request(m, i) \in pending /\ (i = j => m = "interrupt")
    BY <1>1, <1>6 DEF Request
  <2>2. ASSUME NEW i \in Jobs
        PROVE  /\ Request("thread", i) \in pending' => stage'[i] = "thread_starting"
               /\ Request("reload", i) \in pending' => stage'[i] = "mcp_refreshing"
               /\ Request("turn", i) \in pending' => stage'[i] = "turn_start_written"
               /\ Request("interrupt", i) \in pending' => stage'[i] \in {"interrupting", "settled"}
    <3>1. CASE i = j
      <4>1. Request("interrupt", j) \notin pending
        BY <1>4 DEF HostInv, PendingStages
      <4> QED
        BY <1>2, <1>6, <2>1, <3>1, <4>1 DEF Methods, JobMethods
    <3>2. CASE i # j
      BY <1>2, <2>1, <3>2 DEF HostInv, PendingStages, Methods, JobMethods
    <3> QED
      BY <3>1, <3>2
  <2>3. \A q \in (pending \union asked)' : q.method # "initialize" <=> q.job \in Jobs
    BY <1>1, <1>5 DEF HostInv, PendingStages, JobMethods
  <2> QED
    BY <2>2, <2>3 DEF PendingStages
<1>11. OutcomeIsOwn'
  BY <1>1, <1>3 DEF HostInv, OutcomeIsOwn, codexVars
<1>12. \A i \in Jobs : /\ Asked("turn", i)' => Asked("turn", i) \/ (i = j /\ to = "turn_start_written")
                       /\ Asked("reload", i)' => Asked("reload", i) \/ (i = j /\ to = "mcp_refreshing")
  BY <1>1, <1>6 DEF Asked, Methods, JobMethods
<1>13. /\ to = "turn_start_written" => stage[j] \in BeforeTurn
       /\ to = "mcp_refreshing" => stage[j] \in BeforeReload
  BY <1>1 DEF From, BeforeTurn, BeforeReload
<1>14. Turns'
  <2>1. \A i \in Jobs : stage'[i] \in BeforeTurn => stage[i] \in BeforeTurn
    BY <1>2, <1>4
  <2>2. to = "turn_start_written" => to \notin BeforeTurn
    BY DEF BeforeTurn, BeforeReload
  <2>3. /\ \A i \in Jobs : stage'[i] \in BeforeTurn => ~Asked("turn", i)'
        /\ \A i \in Jobs : Asked("turn", i)' => Asked("turn", i) \/ stage[i] \in BeforeTurn
    BY <1>2, <1>12, <1>13, <2>1, <2>2 DEF HostInv, Turns
  <2> QED
    BY <1>3, <2>1, <2>3, EndsAreHeard DEF HostInv, Turns, codexVars
<1>15. LiveTurns'
  <2>1. Live' => Live
    BY <1>1 DEF Live
  <2>2. Live => /\ stage[j] = "turn_start_written" => ~Asked("turn", j)
                /\ turn = j => to \in {"turn_start_written"} \union TurnKnown
    BY <1>1 DEF Moves, HostInv, Turns, LiveTurns, TurnKnown, From, Frame, Reached
  <2> QED
    BY <1>1, <1>2, <1>3, <1>12, <2>1, <2>2 DEF HostInv, LiveTurns, codexVars
<1>16. Reloads'
  <2>1. \A i \in Jobs : stage'[i] \in BeforeReload => stage[i] \in BeforeReload
    BY <1>2, <1>4
  <2>2. to = "mcp_refreshing" => to \notin BeforeReload
    BY DEF BeforeReload
  <2>3. /\ \A i \in Jobs : stage'[i] \in BeforeReload => ~Asked("reload", i)'
        /\ \A i \in Jobs : Asked("reload", i)' => Asked("reload", i) \/ stage[i] \in BeforeReload
    BY <1>2, <1>12, <1>13, <2>1, <2>2 DEF HostInv, Reloads
  <2>4. to \in WithManifest => lastManifestKey' = key[j]
    <3>1. CASE to \in {"mcp_waiting", "turn_start_written"}
      BY <3>1 DEF Moves
    <3>2. CASE to \in {"turn_active", "interrupting"}
      <4>1. stage[j] \in WithManifest /\ lastManifestKey' = lastManifestKey
        BY <1>1, <3>2 DEF From, WithManifest, Moves
      <4> QED
        BY <1>1, <4>1 DEF HostInv, Reloads
    <3> QED
      BY <3>1, <3>2 DEF WithManifest
  <2>5. active' = j /\ stage'[j] = to /\ key' = key
    BY <1>1, <1>2
  <2> QED
    BY <1>3, <2>1, <2>3, <2>4, <2>5 DEF HostInv, Reloads
<1>17. LiveReloads'
  <2>1. Live' => Live
    BY <1>1 DEF Live
  <2>2. Live /\ stage[j] = "mcp_refreshing" =>
           /\ ~Asked("reload", j) /\ loadedKey = lastManifestKey' /\ to # "mcp_refreshing"
    BY <1>1 DEF Moves, HostInv, Reloads, LiveReloads, From, Frame, Reached
  <2>3. Live /\ stage[j] # "mcp_refreshing" => loadedKey = lastManifestKey'
    BY <1>1 DEF KeyStep, HostInv, LiveReloads
  <2>4. to = "mcp_refreshing" => \A f \in Heard : ~(f.about = "reload" /\ f.job = j)
    BY <1>13 DEF HostInv, Reloads
  <2> QED
    BY <1>1, <1>2, <1>3, <1>12, <2>1, <2>2, <2>3, <2>4 DEF HostInv, LiveReloads, codexVars
<1> QED
  BY <1>7, <1>8, <1>9, <1>10, <1>11, <1>14, <1>15, <1>16, <1>17 DEF HostInv

-----------------------------------------------------------------------------
(* The steps of Codex.                                                     *)

\* Codex sends a frame.
Sends(f) == f \in Frames /\ frames' = Append(frames, f)

LEMMA SendsIs ==
  ASSUME FrameTypes, UNCHANGED delivering, NEW f, Sends(f)
  PROVE  FrameTypes' /\ Heard' = Heard \union {f}
<1>1. /\ frames' \in Seq(Frames) /\ Len(frames) \in Nat
      /\ Len(frames') = Len(frames) + 1
      /\ \A i \in 1..Len(frames) : frames'[i] = frames[i]
      /\ frames'[Len(frames) + 1] = f
  BY AppendProperties DEF FrameTypes, Sends
<1> QED
  BY <1>1 DEF FrameTypes, Heard

\* What Codex sends leaves the jobs of the host and their requests alone.
LEMMA CodexKeeps ==
  ASSUME HostInv, UNCHANGED hostSide, FrameTypes', asked' \subseteq asked,
         alive' \in BOOLEAN, stopping' \in BOOLEAN, turn' \in 0..jobs,
         loadedKey' \in Keys \union {NoKey}, ended' \in [Jobs -> TurnStatus \union {"none"}]
  PROVE  /\ TypeOK' /\ FrameTypes' /\ Deliveries' /\ Stages' /\ PendingStages'
         /\ Live' = Live
<1>1. UNCHANGED <<state, jobs, active, stage, canceled, key, outcome, initialized, gatePassed,
                  lastManifestKey, pending, delivering>>
  BY DEF hostSide, jobVars, memory
<1>2. TypeOK'
  BY <1>1 DEF HostInv, TypeOK
<1>3. Deliveries' /\ Stages' /\ PendingStages'
  BY <1>1 DEF HostInv, Deliveries, Stages, PendingStages
<1> QED
  BY <1>1, <1>2, <1>3 DEF Live


\* An answer to the request, and what it means for the turn and the manifest.
AnswerStep(q, what) ==
    /\ q \in asked /\ asked' = asked \ {q}
    /\ UNCHANGED <<hostSide, alive, ended>>
    /\ Sends(Frame(q.method, q.job, what))
    /\ \/ q.method \in {"initialize", "thread"} /\ UNCHANGED <<turn, stopping, loadedKey>>
       \/ q.method = "interrupt" /\ UNCHANGED <<turn, loadedKey>> /\ stopping' \in BOOLEAN
       \/ /\ q.method = "reload" /\ q.job \in Jobs /\ UNCHANGED <<turn, stopping>>
          /\ loadedKey' \in {loadedKey, key[q.job]} /\ (what = "ok" => loadedKey' = key[q.job])
       \/ /\ q.method = "turn" /\ q.job \in Jobs /\ UNCHANGED loadedKey /\ stopping' = FALSE
          /\ turn' \in {turn, q.job}

LEMMA AnswersSends ==
  ASSUME HostInv, NEW q, NEW what \in Whats, Answers(q, what)
  PROVE  /\ q \in asked /\ asked' = asked \ {q} /\ UNCHANGED <<hostSide, alive>>
         /\ Sends(Frame(q.method, q.job, what))
<1>1. q \in [method : Methods, job : 0..jobs] /\ jobs \in 0..MaxJobs
  BY DEF Answers, HostInv, TypeOK
<1>2. Frame(q.method, q.job, what) \in Frames
  BY <1>1 DEF Frame, Frames
<1> QED
  BY <1>2 DEF Answers, Sends

LEMMA AnswersAre ==
  ASSUME HostInv, CodexAnswers
  PROVE  \E q \in asked, what \in Whats : AnswerStep(q, what)
<1>1. {"ok", "error", "unusable"} \subseteq Whats
  BY DEF Whats
<1>2. CASE AnswersInitialize
  <2>1. PICK what \in Whats : Answers(Request("initialize", NoJob), what)
    BY <1>1, <1>2 DEF AnswersInitialize
  <2>2. AnswerStep(Request("initialize", NoJob), what)
    BY <1>2, <2>1, AnswersSends DEF AnswerStep, AnswersInitialize, codexVars, Request
  <2> QED
    BY <2>2 DEF AnswerStep
<1>3. ASSUME NEW j \in Jobs, AnswersThread(j)
      PROVE  \E q \in asked, what \in Whats : AnswerStep(q, what)
  <2>1. PICK what \in Whats : Answers(Request("thread", j), what)
    BY <1>1, <1>3 DEF AnswersThread
  <2>2. AnswerStep(Request("thread", j), what)
    BY <1>3, <2>1, AnswersSends DEF AnswerStep, AnswersThread, codexVars, Request
  <2> QED
    BY <2>2 DEF AnswerStep
<1>4. ASSUME NEW j \in Jobs, AnswersReload(j)
      PROVE  \E q \in asked, what \in Whats : AnswerStep(q, what)
  <2>1. PICK what \in Whats :
           /\ Answers(Request("reload", j), what) /\ loadedKey' \in {loadedKey, key[j]}
           /\ what = "ok" => loadedKey' = key[j]
    BY <1>1, <1>4 DEF AnswersReload
  <2>2. AnswerStep(Request("reload", j), what)
    BY <1>4, <2>1, AnswersSends DEF AnswerStep, AnswersReload, Request
  <2> QED
    BY <2>2 DEF AnswerStep
<1>5. ASSUME NEW j \in Jobs, AnswersTurn(j)
      PROVE  \E q \in asked, what \in Whats : AnswerStep(q, what)
  <2>1. PICK what \in Whats : Answers(Request("turn", j), what) /\ turn' \in {turn, j}
    BY <1>1, <1>5 DEF AnswersTurn
  <2>2. AnswerStep(Request("turn", j), what)
    BY <1>5, <2>1, AnswersSends DEF AnswerStep, AnswersTurn, Request
  <2> QED
    BY <2>2 DEF AnswerStep
<1>6. ASSUME NEW j \in Jobs, AnswersInterrupt(j)
      PROVE  \E q \in asked, what \in Whats : AnswerStep(q, what)
  <2>1. PICK what \in Whats : Answers(Request("interrupt", j), what)
    BY <1>1, <1>6 DEF AnswersInterrupt
  <2>2. stopping' \in BOOLEAN
    BY <1>6 DEF AnswersInterrupt, HostInv, TypeOK
  <2>3. AnswerStep(Request("interrupt", j), what)
    BY <1>6, <2>1, <2>2, AnswersSends DEF AnswerStep, AnswersInterrupt, Request
  <2> QED
    BY <2>3 DEF AnswerStep
<1> QED
  BY <1>2, <1>3, <1>4, <1>5, <1>6 DEF CodexAnswers

\* An answer comes once: what is asked is not yet answered.
LEMMA AnswerKeeps ==
  ASSUME HostInv, NEW q \in asked, NEW what \in Whats, AnswerStep(q, what)
  PROVE  HostInv'
<1> DEFINE f == Frame(q.method, q.job, what)
<1>1. /\ q \in [method : Methods, job : 0..jobs] /\ jobs \in 0..MaxJobs
      /\ f.about = q.method /\ f.job = q.job /\ f.what = what /\ q = Request(q.method, q.job)
  BY DEF HostInv, TypeOK, Frame, Request
<1>2. UNCHANGED <<state, jobs, active, stage, outcome, key, lastManifestKey, delivering, ended>>
  BY DEF AnswerStep, hostSide, jobVars, memory
<1>3. FrameTypes' /\ Heard' = Heard \union {f}
  BY <1>2, SendsIs DEF AnswerStep, HostInv
<1>4. asked' = asked \ {q}
  BY DEF AnswerStep
<1>5. /\ TypeOK' /\ FrameTypes' /\ Deliveries' /\ Stages' /\ PendingStages'
      /\ Live' = Live
  <2>1. /\ alive' \in BOOLEAN /\ stopping' \in BOOLEAN /\ turn' \in 0..jobs
        /\ loadedKey' \in Keys \union {NoKey}
        /\ ended' \in [Jobs -> TurnStatus \union {"none"}]
    BY <1>1 DEF AnswerStep, HostInv, TypeOK
  <2> QED
    BY <1>3, <1>4, <2>1, CodexKeeps DEF AnswerStep
<1>6. \A m \in Methods, j \in Jobs : Asked(m, j)' <=> Asked(m, j) /\ ~(m = q.method /\ j = q.job)
  BY <1>1, <1>4 DEF Asked, Request
<1>7. Turns'
  <2>1. turn' = turn \/ (q.method = "turn" /\ q.job \in Jobs /\ turn' = q.job)
    BY DEF AnswerStep
  <2>2. q.method = "turn" => Asked("turn", q.job)
    BY <1>1 DEF Asked
  <2>3. f.about # "completed"
    BY <1>1 DEF Methods, JobMethods
  <2> QED
    BY <1>1, <1>2, <1>3, <1>6, <2>1, <2>2, <2>3 DEF HostInv, Turns, Methods, JobMethods
<1>8. LiveTurns'
  <2>1. \/ turn' = turn
        \/ q.method = "turn" /\ q.job \in Jobs /\ turn' = q.job /\ Asked("turn", q.job)
    BY <1>1 DEF AnswerStep, Asked
  <2> QED
    BY <1>2, <1>5, <1>6, <2>1 DEF HostInv, LiveTurns, Methods, JobMethods
<1>9. OutcomeIsOwn'
  BY <1>2 DEF HostInv, OutcomeIsOwn
<1>10. Reloads'
  <2>1. q.method = "reload" => Asked("reload", q.job)
    BY <1>1 DEF Asked
  <2> QED
    BY <1>1, <1>2, <1>3, <1>6, <2>1 DEF HostInv, Reloads, Methods, JobMethods
<1>11. LiveReloads'
  <2>1. CASE q.method = "reload"
    <3>1. /\ q.job \in Jobs /\ Asked("reload", q.job)
          /\ what = "ok" => loadedKey' = key[q.job]
      BY <1>1, <2>1 DEF AnswerStep, Asked
    <3> QED
      BY <1>1, <1>2, <1>3, <1>5, <1>6, <2>1, <3>1 DEF HostInv, Reloads, LiveReloads, Methods, JobMethods
  <2>2. CASE q.method # "reload"
    <3>1. loadedKey' = loadedKey
      BY <2>2 DEF AnswerStep
    <3> QED
      BY <1>1, <1>2, <1>3, <1>5, <1>6, <2>2, <3>1 DEF HostInv, LiveReloads, Methods, JobMethods
  <2> QED
    BY <2>1, <2>2
<1> QED
  BY <1>5, <1>7, <1>8, <1>9, <1>10, <1>11 DEF HostInv

\* A turn ends, once.
LEMMA EndsTurnKeeps ==
  ASSUME HostInv, NEW status \in TurnStatus, EndsTurn(status)
  PROVE  HostInv'
<1> DEFINE f == Frame("completed", turn, status)
<1>1. /\ turn \in Jobs /\ ended[turn] = "none" /\ turn \in 0..jobs
      /\ turn' = NoJob /\ stopping' = FALSE
  BY DEF EndsTurn, HostInv, TypeOK, Turns
<1>2. UNCHANGED <<state, jobs, active, stage, outcome, key, lastManifestKey, delivering, asked,
                  loadedKey, alive>>
  BY DEF EndsTurn, hostSide, jobVars, memory
<1>3. f \in Frames /\ f.about = "completed" /\ f.job = turn /\ f.what = status
  BY <1>1 DEF Frame, Frames, Whats
<1>4. FrameTypes' /\ Heard' = Heard \union {f}
  BY <1>2, <1>3, SendsIs DEF EndsTurn, Sends, HostInv
<1>5. \A j \in Jobs : ended'[j] = IF j = turn THEN status ELSE ended[j]
  BY DEF EndsTurn, HostInv, TypeOK
<1>6. /\ TypeOK' /\ FrameTypes' /\ Deliveries' /\ Stages' /\ PendingStages'
      /\ Live' = Live
  <2>1. alive \in BOOLEAN /\ jobs \in Nat /\ loadedKey \in Keys \union {NoKey}
    BY DEF HostInv, TypeOK
  <2>2. ended' \in [Jobs -> TurnStatus \union {"none"}]
    BY <1>1 DEF EndsTurn, HostInv, TypeOK
  <2> QED
    BY <1>1, <1>2, <1>4, <2>1, <2>2, NoJob \in 0..jobs, CodexKeeps DEF EndsTurn
<1>7. Turns'
  BY <1>1, <1>2, <1>3, <1>4, <1>5 DEF HostInv, Turns, Asked, TurnStatus
<1>8. OutcomeIsOwn'
  BY <1>1, <1>2, <1>5 DEF HostInv, OutcomeIsOwn, TurnStatus
<1>9. LiveTurns' /\ Reloads' /\ LiveReloads'
  BY <1>1, <1>2, <1>3, <1>4, <1>6 DEF HostInv, LiveTurns, Reloads, LiveReloads, Asked
<1> QED
  BY <1>6, <1>7, <1>8, <1>9 DEF HostInv

LEMMA CompletesOtherKeeps ==
  ASSUME HostInv, CompletesOther
  PROVE  HostInv'
<1> DEFINE f == Frame("completed", NoJob, "completed")
<1>1. UNCHANGED <<state, jobs, active, stage, outcome, key, lastManifestKey, delivering, asked,
                  loadedKey, alive, turn, stopping, ended>>
  BY DEF CompletesOther, hostSide, jobVars, memory, codexVars
<1>2. f \in Frames /\ f.about = "completed" /\ f.job \notin Jobs
  BY DEF Frame, Frames, Whats, TurnStatus
<1>3. FrameTypes' /\ Heard' = Heard \union {f}
  BY <1>1, <1>2, SendsIs DEF CompletesOther, Sends, HostInv
<1>4. /\ TypeOK' /\ FrameTypes' /\ Deliveries' /\ Stages' /\ PendingStages'
      /\ Live' = Live
  BY <1>1, <1>3, CodexKeeps DEF CompletesOther, HostInv, TypeOK
<1>5. Turns' /\ OutcomeIsOwn' /\ LiveTurns' /\ Reloads' /\ LiveReloads'
  BY <1>1, <1>2, <1>3, <1>4 DEF HostInv, Turns, OutcomeIsOwn, LiveTurns, Reloads, LiveReloads, Asked
<1> QED
  BY <1>4, <1>5 DEF HostInv

LEMMA DiesKeeps ==
  ASSUME HostInv, Dies
  PROVE  HostInv'
<1>1. /\ UNCHANGED <<state, jobs, active, stage, outcome, key, lastManifestKey, delivering, frames,
                     loadedKey, ended>>
      /\ asked' = {} /\ turn' = NoJob /\ alive' = FALSE /\ stopping' = FALSE
  BY DEF Dies, hostSide, jobVars, memory
<1>2. FrameTypes' /\ Heard' = Heard
  BY <1>1 DEF HostInv, FrameTypes, Heard
<1>3. /\ TypeOK' /\ FrameTypes' /\ Deliveries' /\ Stages' /\ PendingStages'
      /\ Live' = Live
  <2>1. /\ jobs \in Nat /\ loadedKey \in Keys \union {NoKey}
        /\ ended \in [Jobs -> TurnStatus \union {"none"}]
    BY DEF HostInv, TypeOK
  <2> QED
    BY <1>1, <1>2, <2>1, NoJob \in 0..jobs, CodexKeeps DEF Dies
<1>4. Turns' /\ OutcomeIsOwn' /\ LiveTurns' /\ Reloads' /\ LiveReloads'
  BY <1>1, <1>2, <1>3 DEF HostInv, Turns, OutcomeIsOwn, LiveTurns, Reloads, LiveReloads, Asked
<1> QED
  BY <1>3, <1>4 DEF HostInv

-----------------------------------------------------------------------------
(* The theorems.                                                           *)

HostNext ==
    \/ \E k \in Keys : Run(k)
    \/ \E j \in Jobs : Cancel(j)
    \/ Close \/ HostStep \/ HostFails
CodexNext == CodexAnswers \/ CompletesTurn \/ InterruptsTurn \/ CompletesOther \/ Dies

LEMMA NextIs == Next => HostNext \/ CodexNext
  BY DEF Next, HostNext, CodexNext, Killed

LEMMA HostNextIs == ASSUME HostInv, HostNext PROVE HostKind /\ Hears
<1>1. CASE \E k \in Keys : Run(k)
  BY <1>1, RunIs
<1>2. CASE \E j \in Jobs : Cancel(j)
  BY <1>2, CancelIs
<1>3. CASE Close
  BY <1>3, CloseIs
<1>4. CASE HostStep
  <2>1. ASSUME NEW j \in Jobs,
               \/ Acquired(j) \/ GatePassed(j) \/ ThreadStarted(j) \/ CallbackFails(j)
               \/ ServersAwaited(j) \/ WriteFails(j)
        PROVE  HostKind /\ Hears
    BY <2>1, JobStepIs
  <2>2. CASE \/ Initialized \/ InitializeFails \/ ThreadKnown \/ ThreadRefused \/ Refreshed
             \/ TurnAnswered \/ InterruptAnswered \/ AnswerIsFatal
    BY <2>2, AnswerStepIs
  <2>3. CASE FrameIgnored \/ Notify \/ Notified \/ NotifyFails \/ Closed
    BY <2>3, OtherStepIs
  <2> QED
    BY <1>4, <2>1, <2>2, <2>3 DEF HostStep
<1>5. CASE HostFails
  BY <1>5, OtherStepIs
<1> QED
  BY <1>1, <1>2, <1>3, <1>4, <1>5 DEF HostNext

LEMMA InitHolds == Init => HostInv
<1> SUFFICES ASSUME Init PROVE HostInv
  OBVIOUS
<1>1. TypeOK
  <2>1. /\ stage \in [Jobs -> Stage] /\ key \in [Jobs -> Keys \union {NoKey}]
        /\ outcome \in [Jobs -> TurnStatus \union {"none", "error"}]
        /\ ended \in [Jobs -> TurnStatus \union {"none"}]
    BY DEF Init, Stage
  <2>2. pending \union asked \subseteq [method : Methods, job : 0..jobs]
    BY DEF Init, Request, Methods
  <2>3. state \in HostState /\ jobs \in 0..MaxJobs /\ active \in 0..jobs /\ canceled \subseteq 1..jobs
    BY DEF Init, HostState
  <2> QED
    BY <2>1, <2>2, <2>3 DEF Init, TypeOK
<1>2. FrameTypes /\ Heard = {}
  BY NoFrameTypes DEF Init, FrameTypes, Heard
<1>3. NoFrame.about = "none"
  BY DEF NoFrame, Frame
<1>4. Deliveries /\ Stages /\ OutcomeIsOwn
  BY DEF Init, Deliveries, Stages, OutcomeIsOwn, TurnStatus
<1>5. PendingStages
  BY DEF Init, PendingStages, Request
<1>6. \A j \in Jobs : ~Asked("turn", j) /\ ~Asked("reload", j)
  BY DEF Init, Asked, Request
<1>7. Turns /\ LiveTurns
  BY <1>2, <1>3, <1>6 DEF Init, Turns, LiveTurns
<1>8. Reloads /\ LiveReloads
  BY <1>2, <1>6 DEF Init, Reloads, LiveReloads
<1> QED
  BY <1>1, <1>2, <1>4, <1>5, <1>7, <1>8 DEF HostInv

LEMMA StutterHolds == ASSUME HostInv, UNCHANGED vars PROVE HostInv'
<1>1. Stays
  BY DEF Stays, vars, jobVars, memory
<1>2. Hears
  BY QuietHears DEF vars, memory, HostInv, TypeOK
<1> QED
  BY <1>1, <1>2, StaysKeeps

LEMMA StepHolds == HostInv /\ [Next]_vars => HostInv'
<1> SUFFICES ASSUME HostInv, [Next]_vars PROVE HostInv'
  OBVIOUS
<1>1. CASE HostNext
  <2>1. HostKind /\ Hears
    BY <1>1, HostNextIs
  <2> QED
    BY <2>1, BeginsKeeps, StaysKeeps, FailsKeeps, MovesKeeps, SettlesKeeps DEF HostKind
<1>2. CASE CodexNext
  <2>1. CASE CodexAnswers
    BY <2>1, AnswersAre, AnswerKeeps
  <2>2. CASE CompletesTurn \/ InterruptsTurn
    BY <2>2, EndsTurnKeeps DEF CompletesTurn, InterruptsTurn, TurnStatus
  <2>3. CASE CompletesOther
    BY <2>3, CompletesOtherKeeps
  <2>4. CASE Dies
    BY <2>4, DiesKeeps
  <2> QED
    BY <1>2, <2>1, <2>2, <2>3, <2>4 DEF CodexNext
<1>3. CASE UNCHANGED vars
  BY <1>3, StutterHolds
<1> QED
  BY <1>1, <1>2, <1>3, NextIs

\* The inductive invariant of one host and its process, with the type
\* invariant in it (app-server-host: executeJob, handleMessage, failHost).
THEOREM HostInvariant == Spec => []HostInv
  BY InitHolds, StepHolds, PTL DEF Spec

\* While the host takes jobs, Codex runs no turn but that of the active job:
\* what fails, is refused or is canceled takes its turn or the process with it
\* (the catch of executeJob).
THEOREM NoTurnIsLeft == Spec => []NoTurnLeftBehind
<1>1. HostInv => NoTurnLeftBehind
  BY DEF HostInv, LiveTurns, Live, NoTurnLeftBehind
<1> QED
  BY <1>1, HostInvariant, PTL

\* A job ends with the status of its own turn, whichever notifications come
\* late or from other turns (handleMessage).
THEOREM JobsEndAsTheirTurns == Spec => []OutcomeIsOwn
<1>1. HostInv => OutcomeIsOwn
  BY DEF HostInv
<1> QED
  BY <1>1, HostInvariant, PTL

\* The turn that runs runs with the manifest of its job, although reloads are
\* skipped when the key is known and may fail half-way (lastManifestKey).
THEOREM ManifestsAreOwn == Spec => []TurnHasItsManifest
<1>1. HostInv => TurnHasItsManifest
  <2> SUFFICES ASSUME HostInv, turn # NoJob, Live PROVE loadedKey = key[turn]
    BY DEF TurnHasItsManifest, Live
  <2>1. turn = active /\ stage[turn] \in {"turn_start_written"} \union TurnKnown
    BY DEF HostInv, LiveTurns
  <2>2. lastManifestKey = key[turn]
    BY <2>1 DEF HostInv, Reloads, WithManifest, TurnKnown
  <2> QED
    BY <2>1, <2>2 DEF HostInv, LiveReloads, TurnKnown
<1> QED
  BY <1>1, HostInvariant, PTL

-----------------------------------------------------------------------------
(* The host implements TurnHost.                                           *)

\* The state of TurnHost.
Status == CASE state \in {"starting", "ready"} -> "ready"
            [] state = "turn_active" -> "turn"
            [] state \in {"closing", "failed"} -> "ending"
            [] state = "closed" -> "gone"
Taken == {active} \ {NoJob}
Promised == [j \in Jobs |-> IF outcome[j] \in TurnStatus THEN "result" ELSE outcome[j]]

LEMMA StatusIs ==
  /\ state \in {"starting", "ready"} => Status = "ready"
  /\ state = "turn_active" => Status = "turn"
  /\ state \in {"closing", "failed"} => Status = "ending"
  /\ state = "closed" => Status = "gone"
<1>1. CASE state = "starting"
  BY <1>1 DEF Status
<1>2. CASE state = "ready"
  BY <1>2 DEF Status
<1>3. CASE state = "turn_active"
  BY <1>3 DEF Status
<1>4. CASE state = "closing"
  BY <1>4 DEF Status
<1>5. CASE state = "failed"
  BY <1>5 DEF Status
<1>6. CASE state = "closed"
  BY <1>6 DEF Status
<1> QED
  BY <1>1, <1>2, <1>3, <1>4, <1>5, <1>6

LEMMA StatusIsNext ==
  /\ state' \in {"starting", "ready"} => Status' = "ready"
  /\ state' = "turn_active" => Status' = "turn"
  /\ state' \in {"closing", "failed"} => Status' = "ending"
  /\ state' = "closed" => Status' = "gone"
<1>1. CASE state' = "starting"
  BY <1>1 DEF Status
<1>2. CASE state' = "ready"
  BY <1>2 DEF Status
<1>3. CASE state' = "turn_active"
  BY <1>3 DEF Status
<1>4. CASE state' = "closing"
  BY <1>4 DEF Status
<1>5. CASE state' = "failed"
  BY <1>5 DEF Status
<1>6. CASE state' = "closed"
  BY <1>6 DEF Status
<1> QED
  BY <1>1, <1>2, <1>3, <1>4, <1>5, <1>6

LEMMA BeginsTakes == ASSUME HostInv, Begins PROVE Abstract!Take(jobs + 1)
<1>1. jobs + 1 \in Jobs /\ outcome[jobs + 1] = "none"
  BY DEF Begins, HostInv, TypeOK, Stages
<1>2. Status = "ready" /\ Status' = "turn" /\ Taken' = {jobs + 1}
  BY StatusIs, StatusIsNext DEF Begins, Taken, HostInv, TypeOK
<1>3. Promised' = Promised /\ Promised[jobs + 1] = "none"
  BY <1>1 DEF Begins, Promised, TurnStatus
<1> QED
  BY <1>2, <1>3 DEF Abstract!Take, Status, Taken, Promised

LEMMA SettlesSettles ==
  ASSUME HostInv, NEW j \in Jobs, NEW how \in TurnStatus \union {"error"}, Settles(j, how)
  PROVE  \E h \in {"result", "error"} : Abstract!Settle(j, h)
<1> DEFINE h == IF how \in TurnStatus THEN "result" ELSE "error"
<1>1. outcome[j] = "none" /\ j = active /\ state \in {"turn_active", "closing"}
  BY DEF Settles, HostInv, Stages
<1>2. Taken = {j} /\ Taken' = {}
  BY <1>1 DEF Settles, Taken
<1>3. Status' = IF Status = "turn" THEN "ready" ELSE Status
  BY <1>1, StatusIs, StatusIsNext DEF Settles
<1>4. \A i \in Jobs : outcome'[i] = IF i = j THEN how ELSE outcome[i]
  BY DEF Settles, HostInv, TypeOK
<1>5. Promised[j] = "none" /\ Promised' = [Promised EXCEPT ![j] = h]
  <2>1. Promised[j] = "none"
    BY <1>1 DEF Promised, TurnStatus
  <2>2. \A i \in Jobs : Promised'[i] = IF i = j THEN h ELSE Promised[i]
    BY <1>4 DEF Promised, TurnStatus
  <2> QED
    BY <2>1, <2>2 DEF Promised
<1>6. h \in {"result", "error"} /\ Abstract!Settle(j, h)
  BY <1>2, <1>3, <1>5 DEF Abstract!Settle, Status, Taken, Promised
<1> QED
  BY <1>6

\* Every job that is taken ends with an error.
LEMMA AllFail ==
  ASSUME HostInv, active' = NoJob,
         outcome' = [j \in Jobs |-> IF j = active THEN "error" ELSE outcome[j]]
  PROVE  /\ Taken' = {}
         /\ Promised' = [j \in Jobs |-> IF j \in Taken THEN "error" ELSE Promised[j]]
<1>1. Taken' = {}
  BY DEF Taken
<1>2. \A j \in Jobs : j \in Taken <=> j = active
  BY DEF Taken
<1>3. \A j \in Jobs : Promised'[j] = IF j \in Taken THEN "error" ELSE Promised[j]
  BY <1>2 DEF Promised, TurnStatus
<1> QED
  BY <1>1, <1>3 DEF Promised

LEMMA FailsEnds == ASSUME HostInv, Fails PROVE Abstract!End
<1>1. Status \in {"ready", "turn"} /\ Status' = "ending"
  BY StatusIs, StatusIsNext DEF Fails, Live
<1>2. /\ Taken' = {}
      /\ Promised' = [j \in Jobs |-> IF j \in Taken THEN "error" ELSE Promised[j]]
  BY AllFail DEF Fails
<1> QED
  BY <1>1, <1>2 DEF Abstract!End, Status, Taken, Promised

LEMMA EndsGoes == ASSUME HostInv, Ends PROVE Abstract!Go
<1>1. Status # "gone" /\ Status' = "gone"
  BY StatusIs, StatusIsNext DEF Ends, HostInv, TypeOK, HostState
<1>2. /\ Taken' = {}
      /\ Promised' = [j \in Jobs |-> IF j \in Taken THEN "error" ELSE Promised[j]]
  BY AllFail DEF Ends
<1> QED
  BY <1>1, <1>2 DEF Abstract!Go, Status, Taken, Promised

LEMMA StaysIs == ASSUME HostInv, Stays PROVE Abstract!End \/ UNCHANGED Abstract!hostVars
<1>1. Taken' = Taken /\ Promised' = Promised
  BY DEF Stays, Taken, Promised
<1>2. CASE state' = state
  <2>1. Status' = Status
    BY <1>2 DEF Status
  <2> QED
    BY <1>1, <2>1 DEF Abstract!hostVars, Status, Taken, Promised
<1>3. CASE \/ state = "starting" /\ state' = "ready"
           \/ state = "failed" /\ state' = "closing"
  <2>1. Status' = Status
    BY <1>3, StatusIs, StatusIsNext
  <2> QED
    BY <1>1, <2>1 DEF Abstract!hostVars, Status, Taken, Promised
<1>4. CASE state \in {"starting", "ready", "turn_active"} /\ state' = "closing"
  <2>1. Status \in {"ready", "turn"} /\ Status' = "ending"
    BY <1>4, StatusIs, StatusIsNext
  <2> QED
    BY <1>1, <2>1 DEF Abstract!End, Status, Taken, Promised
<1>5. state \in HostState
  BY DEF HostInv, TypeOK
<1>6. \/ state' = state
      \/ state = "starting" /\ state' = "ready"
      \/ state \notin {"closing", "closed"} /\ state' = "closing"
  BY DEF Stays
<1> QED
  BY <1>2, <1>3, <1>4, <1>5, <1>6 DEF HostState

LEMMA KindImplements == ASSUME HostInv, HostKind PROVE [Abstract!Next]_(Abstract!hostVars)
<1>1. CASE Begins
  <2>1. jobs + 1 \in Jobs
    BY <1>1 DEF Begins, HostInv, TypeOK
  <2> QED
    BY <1>1, <2>1, BeginsTakes DEF Abstract!Next
<1>2. CASE Stays
  BY <1>2, StaysIs DEF Abstract!Next
<1>3. CASE Fails
  BY <1>3, FailsEnds DEF Abstract!Next
<1>4. CASE Ends
  BY <1>4, EndsGoes DEF Abstract!Next
<1>5. ASSUME NEW j \in Jobs, NEW to \in Reached, Moves(j, to)
      PROVE  UNCHANGED Abstract!hostVars
  BY <1>5 DEF Moves, Abstract!hostVars
<1>6. ASSUME NEW j \in Jobs, NEW how \in TurnStatus \union {"error"}, Settles(j, how)
      PROVE  Abstract!Next
  BY <1>6, SettlesSettles DEF Abstract!Next
<1> QED
  BY <1>1, <1>2, <1>3, <1>4, <1>5, <1>6 DEF HostKind

\* Every step of Codex is hidden in the host, and every step of the host is one
\* of its promise or none (CodexAppServerHost as its slot uses it).
THEOREM HostImplementsTurnHost == Spec => ImplementsTurnHost
<1>1. Init => Abstract!Init
  <2> SUFFICES ASSUME Init PROVE Abstract!Init
    OBVIOUS
  <2>1. Status = "ready" /\ Taken = {} /\ Promised = [j \in Jobs |-> "none"]
    BY StatusIs DEF Init, Taken, Promised, TurnStatus
  <2> QED
    BY <2>1 DEF Abstract!Init, Status, Taken, Promised
<1>2. HostInv /\ [Next]_vars => [Abstract!Next]_(Abstract!hostVars)
  <2> SUFFICES ASSUME HostInv, [Next]_vars PROVE [Abstract!Next]_(Abstract!hostVars)
    OBVIOUS
  <2>1. CASE HostNext
    BY <2>1, HostNextIs, KindImplements
  <2>2. CASE CodexNext
    <3>1. UNCHANGED hostSide
      BY <2>2 DEF CodexNext, CodexAnswers, AnswersInitialize, AnswersThread, AnswersReload,
                  AnswersTurn, AnswersInterrupt, Answers, CompletesTurn, InterruptsTurn, EndsTurn,
                  CompletesOther, Dies
    <3> QED
      BY <3>1 DEF hostSide, jobVars, Abstract!hostVars
  <2>3. CASE UNCHANGED vars
    BY <2>3 DEF vars, jobVars, Abstract!hostVars
  <2> QED
    BY <2>1, <2>2, <2>3, NextIs
<1> QED
  BY <1>1, <1>2, HostInvariant, PTL DEF Spec, ImplementsTurnHost, Abstract!Spec
=============================================================================
