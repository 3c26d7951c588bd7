------------------------ MODULE EnterpriseSession ------------------------
(***************************************************************************)
(* The enterprise session of the daemon                                    *)
(* (enterprise/session-manager-2026-07-30.ts): sign-in by password,        *)
(* registration, QR code or DingTalk, refresh, sign-out, and the managers  *)
(* that spend its access token.  Every operation takes a number, its       *)
(* generation, and answers of an operation that is no longer the latest    *)
(* must change nothing.                                                    *)
(*                                                                         *)
(* One action is what runs between two answers of the outside: the gateway *)
(* (HTTP), the credential file or a timer.  Continuations of promises that *)
(* are already settled belong to the action that settled them.             *)
(***************************************************************************)
EXTENDS Naturals, Sequences

CONSTANTS
    MaxOps,     \* bound: operations that callers may start
    MaxTokens   \* bound: access tokens that the gateway may issue

ASSUME EnterpriseSessionAssumption ==
    MaxOps \in Nat \ {0} /\ MaxTokens \in Nat \ {0}

VARIABLES
    generation,  \* number of the latest operation
    closed,
    status,      \* snapshot.status
    credential,  \* the token in memory, NoToken if undefined
    pending,     \* generation of the DingTalk sign-in that waits, 0 if none
    store,       \* the token in the credential file, or Damaged
    io,          \* accesses of the credential file, served in order
    chain,       \* credentialMutation: operations that change the file
    op,          \* the operations
    issued,      \* tokens 1..issued exist
    settled,     \* history: tokens stored for good, or asked to be revoked
    revoked,     \* history: tokens that the gateway was asked to end
    cleared,     \* history: generation whose operation removed the session
    broken       \* history: some change of the file was reported as failed

memory == <<status, credential>>
history == <<settled, revoked, cleared, broken>>
vars == <<generation, closed, status, credential, pending, store, io, chain,
          op, issued, settled, revoked, cleared, broken>>

Ops == 1..MaxOps
NoToken == 0
Tokens == 1..MaxTokens
MaybeToken == 0..MaxTokens

\* What the file holds for the session and the daemon cannot decode.
Damaged == MaxTokens + 1

SignIns == {"login", "register", "exchange", "poll"}   \* persist: true
Readers == {"refresh", "identity", "logout"}
Passive == {"prepare", "qr"}
Kinds == SignIns \cup Readers \cup Passive \cup {"invalidate", "use"}

Statuses == {"checking", "signed_out", "signed_in", "service_unavailable"}

\* reading, agent and the names of requests: what the operation waits for.
\* chained: its turn to change the file.  writing, undoing, deleting: the file.
PCs == {"free", "reading", "agent", "registering", "preparing", "login", "me",
        "chained", "writing", "undoing", "deleting", "revoking", "leaving",
        "using", "done"}

\* The accesses of the file that the readers share: the read, and the deletion
\* of what could not be decoded.  The others are operations.
SharedRead == 0
SharedDrop == MaxOps + 1

Free == [kind |-> "use", pc |-> "free", gen |-> 0, tok |-> NoToken,
         after |-> "none"]
Ended == [Free EXCEPT !.pc = "done"]

Latest(o) == op[o].gen = generation

\* Mutant: publish forgets the generation.
PublishesUnlessClosed(o) == ~closed

\* publish succeeds.
Publishes(o) == ~closed /\ Latest(o)

Published(o, s) == IF Publishes(o) THEN s ELSE status

Remember(o, t) == IF Latest(o) THEN t ELSE credential

To(o, pc) == [op EXCEPT ![o].pc = pc]
End(o) == [op EXCEPT ![o] = Ended]

\* Operations are numbered in the order in which they begin.
Fresh(o) == op[o].pc = "free" /\ \A p \in Ops : p < o => op[p].pc # "free"

\* revokeQuietly, and the status to publish once it has returned.
Revoke(o, s) == [op EXCEPT ![o].pc = "revoking", ![o].after = s]

(***************************************************************************)
(* Begin.                                                                  *)
(***************************************************************************)
\* What follows readCredential when it returns t.
AfterRead(r, t) ==
    IF t = NoToken \/ (r.kind = "use" /\ status # "signed_in")
    THEN Ended
    ELSE [r EXCEPT !.tok = t,
                   !.pc = CASE r.kind = "refresh" -> "agent"
                            [] r.kind = "identity" -> "me"
                            [] r.kind = "logout" -> "leaving"
                            [] OTHER -> "using"]

\* readCredential: from memory, or from a read of the file, shared if one runs.
Reading(o, r) ==
    IF credential # NoToken
    THEN /\ op' = [op EXCEPT ![o] = AfterRead(r, credential)]
         /\ UNCHANGED io
    ELSE /\ op' = [op EXCEPT ![o] = [r EXCEPT !.pc = "reading"]]
         /\ io' = IF \E i \in DOMAIN io : io[i] \in {SharedRead, SharedDrop}
                  THEN io ELSE Append(io, SharedRead)

\* beginOperation and beginPassiveAuthentication.
BeginGeneration(s) ==
    /\ generation' = generation + 1
    /\ pending' = 0
    /\ status' = s

Started(k, g) == [kind |-> k, pc |-> "agent", gen |-> g, tok |-> NoToken,
                  after |-> "none"]

\* refresh (also startRestore), requireIdentity, logout.
BeginReader(o, k) ==
    /\ Fresh(o)
    /\ BeginGeneration("checking")
    /\ Reading(o, Started(k, generation + 1))
    /\ UNCHANGED <<closed, credential, store, chain, issued, history>>

\* login, register, prepareDingTalkLogin, startQrLogin.
BeginSignIn(o, k) ==
    /\ Fresh(o)
    /\ BeginGeneration(IF k \in Passive THEN "signed_out" ELSE "checking")
    /\ op' = [op EXCEPT ![o] = Started(k, generation + 1)]
    /\ UNCHANGED <<closed, credential, store, io, chain, issued, history>>

\* pollQrLogin, which takes a generation only when the code was scanned.
BeginPoll(o) ==
    /\ Fresh(o)
    /\ op' = [op EXCEPT ![o] = Started("poll", generation)]
    /\ UNCHANGED <<generation, closed, memory, pending, store, io, chain,
                   issued, history>>

\* invalidateUnauthorized, called because the gateway address changes or the
\* model service was refused; o is about the session as it stands.
BeginInvalidate(o) ==
    /\ Fresh(o)
    /\ BeginGeneration("checking")
    /\ op' = [op EXCEPT ![o] = [Started("invalidate", generation + 1)
                                EXCEPT !.pc = "chained", !.tok = credential]]
    /\ chain' = Append(chain, o)
    /\ UNCHANGED <<closed, credential, store, io, issued, history>>

\* A manager of skills, knowledge, drives ... takes the token for a request.
BeginUse(o) ==
    /\ Fresh(o)
    /\ Reading(o, Started("use", generation))
    /\ UNCHANGED <<generation, closed, memory, pending, store, chain, issued,
                   history>>

(***************************************************************************)
(* The credential file.                                                    *)
(***************************************************************************)
Waiting == {o \in Ops : op[o].pc = "reading"}

\* The shared read throws.
ReadersFail ==
    /\ op' = [o \in Ops |-> IF o \in Waiting THEN Ended ELSE op[o]]
    /\ status' = IF \E o \in Waiting : Publishes(o) THEN "signed_out" ELSE status
    /\ UNCHANGED <<credential, cleared>>

\* The shared read returns: every operation that waits for it goes on.
ReadDone ==
    /\ io # <<>> /\ Head(io) = SharedRead
    /\ io' = Tail(io)
    /\ LET asks == {o \in Waiting : op[o].kind # "use" /\ Publishes(o)}
       IN \/ /\ store # Damaged
             /\ op' = [o \in Ops |-> IF o \in Waiting
                                     THEN AfterRead(op[o], store) ELSE op[o]]
             /\ credential' = IF \E o \in Waiting : Latest(o)
                              THEN store ELSE credential
             /\ status' = IF store = NoToken /\ asks # {}
                          THEN "signed_out" ELSE status
             /\ cleared' = IF /\ store = NoToken
                              /\ \E o \in asks : op[o].kind = "logout"
                           THEN generation ELSE cleared
          \/ ReadersFail
    /\ UNCHANGED <<generation, closed, pending, store, chain, issued,
                   settled, revoked, broken>>

\* What was read cannot be decoded: its deletion is queued, behind any access
\* that was queued since the read.
DecodeFails ==
    /\ io # <<>> /\ Head(io) = SharedRead /\ store = Damaged
    /\ io' = Append(Tail(io), SharedDrop)
    /\ UNCHANGED <<generation, closed, memory, pending, store, chain, op,
                   issued, history>>

\* The end of that deletion, whose failure nobody hears of: the read throws.
DropDone ==
    /\ io # <<>> /\ Head(io) = SharedDrop
    /\ io' = Tail(io)
    /\ store' \in {store, NoToken}
    /\ ReadersFail
    /\ UNCHANGED <<generation, closed, pending, chain, issued, settled,
                   revoked, broken>>

\* waitForCredentialRead gives up; the read itself goes on.
ReadTimeout(o) ==
    /\ op[o].pc = "reading"
    /\ op' = End(o)
    /\ status' = Published(o, "signed_out")
    /\ UNCHANGED <<generation, closed, credential, pending, store, io, chain,
                   issued, history>>

\* mutateCredential runs the first of its queue.  A sign-in looks first
\* whether it is still the latest operation.
StartMutation(o) ==
    /\ chain # <<>> /\ Head(chain) = o /\ op[o].pc = "chained"
    /\ \/ /\ op[o].kind \in SignIns /\ Publishes(o)
          /\ op' = To(o, "writing")
          /\ io' = Append(io, o)
          /\ UNCHANGED chain
       \/ /\ op[o].kind \in SignIns /\ ~Publishes(o)
          /\ op' = Revoke(o, "none")
          /\ chain' = Tail(chain)
          /\ UNCHANGED io
       \/ /\ op[o].kind \notin SignIns
          /\ op' = To(o, "deleting")
          /\ io' = Append(io, o)
          /\ UNCHANGED chain
    /\ UNCHANGED <<generation, closed, memory, pending, store, issued, history>>

Served(o, pc) == io # <<>> /\ Head(io) = o /\ op[o].pc = pc

\* Mutant: a sign-in that is overtaken during its write leaves the token in the file.
WriteNeverUndone(o) ==
    /\ Served(o, "writing")
    /\ store' = op[o].tok
    /\ op' = IF Publishes(o) THEN End(o) ELSE Revoke(o, "none")
    /\ credential' = IF Publishes(o) THEN op[o].tok ELSE credential
    /\ status' = Published(o, "signed_in")
    /\ settled' = IF Publishes(o) THEN settled \cup {op[o].tok} ELSE settled
    /\ io' = Tail(io)
    /\ chain' = Tail(chain)
    /\ UNCHANGED <<generation, closed, pending, issued, revoked, cleared,
                   broken>>

\* The token is written.  Still the latest: the session is signed in.  No
\* longer: the token is deleted again.
WriteDone(o) ==
    /\ Served(o, "writing")
    /\ store' = op[o].tok
    /\ \/ /\ Publishes(o)
          /\ op' = End(o)
          /\ credential' = op[o].tok
          /\ status' = "signed_in"
          /\ settled' = settled \cup {op[o].tok}
          /\ io' = Tail(io)
          /\ chain' = Tail(chain)
       \/ /\ ~Publishes(o)
          /\ op' = To(o, "undoing")
          /\ io' = Append(Tail(io), o)
          /\ UNCHANGED <<memory, settled, chain>>
    /\ UNCHANGED <<generation, closed, pending, issued, revoked, cleared,
                   broken>>

\* The write failed, possibly after the file was replaced (the permissions are
\* set once more after the rename).
WriteFailed(o) ==
    /\ Served(o, "writing")
    /\ store' \in {store, op[o].tok}
    /\ op' = Revoke(o, "signed_out")
    /\ io' = Tail(io)
    /\ chain' = Tail(chain)
    /\ broken' = TRUE
    /\ UNCHANGED <<generation, closed, memory, pending, issued, settled,
                   revoked, cleared>>

\* The end of the deletion of a token that was written too late.
UndoDone(o) ==
    /\ Served(o, "undoing")
    /\ \/ store' = NoToken /\ UNCHANGED broken
       \/ store' \in {store, NoToken} /\ broken' = TRUE
    /\ op' = Revoke(o, "none")
    /\ io' = Tail(io)
    /\ chain' = Tail(chain)
    /\ UNCHANGED <<generation, closed, memory, pending, issued, settled,
                   revoked, cleared>>

\* The end of clearCredential.
DeleteDone(o) ==
    /\ Served(o, "deleting")
    /\ store' = NoToken
    /\ credential' = Remember(o, NoToken)
    /\ status' = Published(o, "signed_out")
    /\ cleared' = IF Publishes(o) THEN generation ELSE cleared
    /\ op' = End(o)
    /\ io' = Tail(io)
    /\ chain' = Tail(chain)
    /\ UNCHANGED <<generation, closed, pending, issued, settled, revoked,
                   broken>>

DeleteFailed(o) ==
    /\ Served(o, "deleting")
    /\ store' \in {store, NoToken}
    /\ broken' = TRUE
    /\ status' = Published(o, "signed_out")
    /\ op' = End(o)
    /\ io' = Tail(io)
    /\ chain' = Tail(chain)
    /\ UNCHANGED <<generation, closed, credential, pending, issued,
                   settled, revoked, cleared>>

(***************************************************************************)
(* Answers of the gateway and of the store of the agent identity.          *)
(***************************************************************************)
AgentRead(o) ==
    /\ op[o].pc = "agent"
    /\ op' = CASE op[o].kind = "refresh" -> To(o, "me")
                [] op[o].kind = "register" -> To(o, "registering")
                [] op[o].kind = "prepare" -> To(o, "preparing")
                [] op[o].kind = "qr" -> End(o)
                [] OTHER -> To(o, "login")
    /\ UNCHANGED <<generation, closed, memory, pending, store, io, chain,
                   issued, history>>

\* Mutant: a registered user whose sign-in is refused is told, and nobody else.
AuthenticationFailsQuietly(o) ==
    /\ op[o].pc \in {"agent", "registering", "preparing", "login"}
    /\ op' = End(o)
    /\ status' = IF op[o].kind \in {"poll", "register"} /\ op[o].pc = "login"
                 THEN status ELSE Published(o, "signed_out")
    /\ UNCHANGED <<generation, closed, credential, pending, store, io, chain,
                   issued, history>>

\* The identity cannot be read, the registration or the sign-in is refused.
\* A refused poll of a QR code publishes nothing.
AuthenticationFails(o) ==
    /\ op[o].pc \in {"agent", "registering", "preparing", "login"}
    /\ op' = End(o)
    /\ status' = IF op[o].kind = "poll" /\ op[o].pc = "login"
                 THEN status ELSE Published(o, "signed_out")
    /\ UNCHANGED <<generation, closed, credential, pending, store, io, chain,
                   issued, history>>

Registered(o) ==
    /\ op[o].pc = "registering"
    /\ op' = To(o, "login")
    /\ UNCHANGED <<generation, closed, memory, pending, store, io, chain,
                   issued, history>>

\* The authorization URL arrives: the sign-in waits for its callback.
Prepared(o) ==
    /\ op[o].pc = "preparing"
    /\ op' = End(o)
    /\ pending' = IF Publishes(o) THEN op[o].gen ELSE pending
    /\ UNCHANGED <<generation, closed, memory, store, io, chain, issued, history>>

\* The gateway issues a token; authenticateLoginResult asks whether anybody
\* still waits for it.
LoginDone(o) ==
    /\ op[o].pc = "login" /\ op[o].kind # "poll"
    /\ issued < MaxTokens
    /\ issued' = issued + 1
    /\ op' = [op EXCEPT ![o].tok = issued + 1,
                        ![o].pc = IF Publishes(o) THEN "me" ELSE "revoking"]
    /\ UNCHANGED <<generation, closed, memory, pending, store, io, chain, history>>

\* The same for a QR code, which becomes an operation now.
PollSignsIn(o) ==
    /\ op[o].pc = "login" /\ op[o].kind = "poll"
    /\ issued < MaxTokens
    /\ issued' = issued + 1
    /\ BeginGeneration("checking")
    /\ op' = [op EXCEPT ![o].tok = issued + 1,
                        ![o].gen = generation + 1,
                        ![o].pc = IF closed THEN "revoking" ELSE "me"]
    /\ UNCHANGED <<closed, credential, store, io, chain, history>>

\* rejectUnusableCredential and its like: a new token is revoked, a stored one
\* is deleted.
Reject(o) ==
    IF op[o].kind \in SignIns
    THEN op' = Revoke(o, "signed_out") /\ UNCHANGED chain
    ELSE op' = To(o, "chained") /\ chain' = Append(chain, o)

\* getMe fails: unauthorized or any error but "unavailable".  Whether the
\* operation is still the latest is not asked.
MeRefused(o) ==
    /\ op[o].pc = "me"
    /\ Reject(o)
    /\ UNCHANGED <<generation, closed, memory, pending, store, io, issued, history>>

MeUnavailable(o) ==
    /\ op[o].pc = "me"
    /\ \/ /\ op[o].kind \in SignIns
          /\ op' = Revoke(o, IF op[o].kind = "exchange"
                             THEN "signed_out" ELSE "service_unavailable")
          /\ UNCHANGED memory
       \/ /\ op[o].kind \notin SignIns
          /\ op' = End(o)
          /\ credential' = Remember(o, op[o].tok)
          /\ status' = Published(o, "service_unavailable")
    /\ UNCHANGED <<generation, closed, pending, store, io, chain, issued, history>>

\* Mutant: a token that arrives too late is dropped.
MeTooLateDrops(o) ==
    /\ op[o].pc = "me" /\ ~Publishes(o)
    /\ op' = End(o)
    /\ UNCHANGED <<generation, closed, memory, pending, store, io, chain,
                   issued, history>>

\* getMe answers.  Nobody waits: a new token is revoked.
MeTooLate(o) ==
    /\ op[o].pc = "me" /\ ~Publishes(o)
    /\ op' = IF op[o].kind \in SignIns THEN Revoke(o, "none") ELSE End(o)
    /\ UNCHANGED <<generation, closed, memory, pending, store, io, chain,
                   issued, history>>

\* The account is another one, inactive, or has no access to the client.
MeUnusable(o) ==
    /\ op[o].pc = "me" /\ Publishes(o)
    /\ Reject(o)
    /\ UNCHANGED <<generation, closed, memory, pending, store, io, issued, history>>

MeAccepted(o) ==
    /\ op[o].pc = "me" /\ Publishes(o)
    /\ \/ /\ op[o].kind \in SignIns
          /\ op' = To(o, "chained")
          /\ chain' = Append(chain, o)
          /\ UNCHANGED memory
       \/ /\ op[o].kind \notin SignIns
          /\ op' = End(o)
          /\ credential' = op[o].tok
          /\ status' = "signed_in"
          /\ UNCHANGED chain
    /\ UNCHANGED <<generation, closed, pending, store, io, issued, history>>

\* revokeQuietly returns, whatever the gateway said.
RevokeDone(o) ==
    /\ op[o].pc = "revoking"
    /\ op' = End(o)
    /\ settled' = settled \cup {op[o].tok}
    /\ revoked' = revoked \cup {op[o].tok}
    /\ status' = IF op[o].after = "none"
                 THEN status ELSE Published(o, op[o].after)
    /\ UNCHANGED <<generation, closed, credential, pending, store, io, chain,
                   issued, cleared, broken>>

\* logout: the gateway has ended the session, or does not know it.
LogoutDone(o) ==
    /\ op[o].pc = "leaving"
    /\ op' = To(o, "chained")
    /\ chain' = Append(chain, o)
    /\ settled' = settled \cup {op[o].tok}
    /\ revoked' = revoked \cup {op[o].tok}
    /\ UNCHANGED <<generation, closed, memory, pending, store, io, issued,
                   cleared, broken>>

LogoutUnavailable(o) ==
    /\ op[o].pc = "leaving"
    /\ op' = End(o)
    /\ credential' = Remember(o, op[o].tok)
    /\ status' = Published(o, "service_unavailable")
    /\ UNCHANGED <<generation, closed, pending, store, io, chain, issued, history>>

\* The request of a manager is answered.
UseDone(o) ==
    /\ op[o].pc = "using"
    /\ op' = End(o)
    /\ UNCHANGED <<generation, closed, memory, pending, store, io, chain,
                   issued, history>>

\* ... with 401: the manager calls invalidateUnauthorized.
UseRefused(o) ==
    /\ op[o].pc = "using"
    /\ BeginGeneration("checking")
    /\ op' = [op EXCEPT ![o].pc = "chained", ![o].gen = generation + 1]
    /\ chain' = Append(chain, o)
    /\ UNCHANGED <<closed, credential, store, io, issued, history>>

(***************************************************************************)
(* DingTalk, and the end.                                                  *)
(***************************************************************************)
\* handleDingTalkCallback with a valid code.
Callback(o) ==
    /\ Fresh(o)
    /\ pending # 0 /\ pending = generation
    /\ pending' = 0
    /\ op' = [op EXCEPT ![o] = [Started("exchange", pending) EXCEPT !.pc = "login"]]
    /\ UNCHANGED <<generation, closed, memory, store, io, chain, issued, history>>

\* The time to live ends, or the provider reports an error.
PendingEnds ==
    /\ pending # 0 /\ pending = generation
    /\ pending' = 0
    /\ status' = IF closed THEN status ELSE "signed_out"
    /\ UNCHANGED <<generation, closed, credential, store, io, chain, op, issued,
                   history>>

Close ==
    /\ ~closed
    /\ closed' = TRUE
    /\ pending' = 0
    /\ generation' = generation + 1
    /\ credential' = NoToken
    /\ UNCHANGED <<status, store, io, chain, op, issued, history>>

(***************************************************************************)
(* The specification.                                                      *)
(***************************************************************************)
\* The file may hold the session of an earlier run of the daemon, or something
\* that this one does not accept as a credential.
Init ==
    /\ generation = 0 /\ closed = FALSE
    /\ status = "checking" /\ credential = NoToken /\ pending = 0
    /\ store \in {NoToken, 1, Damaged}
    /\ io = <<>> /\ chain = <<>>
    /\ op = [o \in Ops |-> Free]
    /\ issued = IF store = 1 THEN 1 ELSE 0
    /\ settled = {t \in Tokens : t = store}
    /\ revoked = {} /\ cleared = 0 /\ broken = FALSE

Begin(o) ==
    \/ \E k \in Readers : BeginReader(o, k)
    \/ \E k \in Passive \cup {"login", "register"} : BeginSignIn(o, k)
    \/ BeginPoll(o) \/ BeginInvalidate(o) \/ BeginUse(o) \/ Callback(o)

FileStep(o) ==
    \/ StartMutation(o)
    \/ WriteDone(o) \/ WriteFailed(o) \/ UndoDone(o)
    \/ DeleteDone(o) \/ DeleteFailed(o)

Answer(o) ==
    \/ AgentRead(o) \/ AuthenticationFails(o) \/ Registered(o) \/ Prepared(o)
    \/ LoginDone(o) \/ PollSignsIn(o)
    \/ MeRefused(o) \/ MeUnavailable(o) \/ MeTooLate(o) \/ MeUnusable(o)
    \/ MeAccepted(o) \/ RevokeDone(o)
    \/ LogoutDone(o) \/ LogoutUnavailable(o) \/ UseDone(o) \/ UseRefused(o)

Next ==
    \/ \E o \in Ops : Begin(o) \/ FileStep(o) \/ Answer(o) \/ ReadTimeout(o)
    \/ ReadDone \/ DecodeFails \/ DropDone
    \/ PendingEnds \/ Close

Spec == Init /\ [][Next]_vars

(***************************************************************************)
(* Properties.                                                             *)
(***************************************************************************)
OpRecords == [kind : Kinds, pc : PCs, gen : Nat, tok : MaybeToken,
              after : Statuses \cup {"none"}]

\* The values of the session's variables, of the queues and of the operations.
TypeOK ==
    /\ generation \in Nat /\ closed \in BOOLEAN
    /\ status \in Statuses /\ credential \in MaybeToken /\ pending \in Nat
    /\ store \in MaybeToken \cup {Damaged}
    /\ io \in Seq(Ops \cup {SharedRead, SharedDrop}) /\ chain \in Seq(Ops)
    /\ op \in [Ops -> OpRecords]
    /\ issued \in MaybeToken
    /\ settled \in SUBSET MaybeToken /\ revoked \in SUBSET MaybeToken
    /\ cleared \in Nat /\ broken \in BOOLEAN

\* A DingTalk sign-in that waits for its callback belongs to the latest
\* operation: any other sign-in, refresh, sign-out or close has ended it, so a
\* callback never continues an authentication that the user has left.
PendingIsCurrent == pending # 0 => pending = generation

Carries(o, t) ==
    op[o].tok = t /\ op[o].kind \in SignIns /\ op[o].pc \notin {"free", "done"}

\* The gateway's tokens do not leak: one that was issued is still being worked
\* on, was stored as the session's, or the daemon has asked to revoke it,
\* whichever answer, supersession, close or failing file ended the sign-in.
NoTokenLeaks ==
    \A t \in 1..issued :
        t \in settled \/ \E o \in Ops : Carries(o, t)

\* The operation that removed the session is the latest one.
Removed == cleared = generation /\ cleared # 0

\* The gateway was asked to end t, or a sign-in that is giving t back will ask.
GivenBack(t) ==
    \/ t \in revoked
    \/ \E o \in Ops : Carries(o, t) /\ op[o].pc \in {"undoing", "revoking"}

\* Signing out wins, although sign-ins it superseded may have been anywhere,
\* also between the writing of their token and its deletion: clients stay
\* signed out; once the queue of changes is empty, the file holds no token; and
\* memory holds none that works.  (It may hold a token: a request that is
\* refused because nobody is signed in has read the file meanwhile.)
SignOutStands ==
    Removed =>
        /\ status = "signed_out"
        /\ chain = <<>> /\ ~broken => store = NoToken
        /\ credential # NoToken => GivenBack(credential)

\* Late answers change nothing: the snapshot and the token in memory change
\* only when an operation begins, when an operation of the latest generation
\* gets an answer, when the DingTalk sign-in ends that waits and is the latest,
\* or on close.
OnlyTheLatestSpeaks ==
    [][ memory' # memory =>
          \/ generation' # generation
          \/ pending = generation /\ pending' = 0
          \/ \E o \in Ops : Latest(o) /\ op'[o] # op[o] ]_vars

\* Clients never see "checking" for ever: whenever they see it, an operation of
\* the latest generation is under way, and every way in which it may end
\* publishes something else.
CheckingIsAnswered ==
    status = "checking" /\ generation > 0 /\ ~closed
    => \E o \in Ops : Latest(o) /\ op[o].pc \notin {"free", "done"}

\* What the manager of MCP servers ensures for its own requests, and its test
\* "does not invalidate a new session when an old catalog request returns 401"
\* states: an answer about one token never deletes another one that is stored.
\* The code lets a late refusal delete the token of a newer sign-in.
DeletesOnlyItsOwn ==
    [][ \A o \in Ops :
          DeleteDone(o) /\ op[o].kind # "invalidate" /\ store # NoToken
          => op[o].tok = store ]_vars
=============================================================================
