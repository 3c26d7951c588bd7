---------------------- MODULE EnterpriseSessionProofs ----------------------
(***************************************************************************)
(* Proofs about EnterpriseSession, for every number of operations and of   *)
(* tokens.                                                                 *)
(***************************************************************************)
EXTENDS EnterpriseSession, TLAPS

\* What an operation waits for fits what it is.
Fits(r) ==
    /\ r.pc = "reading" => r.kind \in Readers \cup {"use"}
    /\ r.pc = "agent" => r.kind \in Passive \cup {"refresh", "login", "register", "poll"}
    /\ r.pc = "registering" => r.kind = "register"
    /\ r.pc = "preparing" => r.kind = "prepare"
    /\ r.pc = "login" => r.kind \in SignIns
    /\ r.pc = "me" => r.kind \in SignIns \cup {"refresh", "identity"}
    /\ r.pc = "chained" => r.kind \in SignIns \cup Readers \cup {"invalidate", "use"}
    /\ r.pc \in {"writing", "undoing", "revoking"} => r.kind \in SignIns
    /\ r.pc = "deleting" => r.kind \notin SignIns
    /\ r.pc = "leaving" => r.kind = "logout"
    /\ r.pc = "using" => r.kind = "use"
    /\ r.pc = "revoking" => r.after # "checking"
    /\ r.pc # "revoking" => r.after = "none"
    /\ r.pc \in {"agent", "registering", "preparing", "login"} /\ r.kind \in SignIns
          => r.tok = NoToken

\* The generation of an operation has been given out, and who takes a token
\* back, or revokes it without publishing, is not the latest any more.
Dated(r) ==
    /\ r.gen <= generation
    /\ r.pc = "undoing" \/ (r.pc = "revoking" /\ r.after = "none")
       => closed \/ r.gen < generation

OpTypes == op \in [Ops -> OpRecords]

OpInv ==
    /\ OpTypes
    /\ \A o \in Ops : Fits(op[o]) /\ Dated(op[o])

Scalars ==
    /\ generation \in Nat /\ closed \in BOOLEAN
    /\ status \in Statuses /\ credential \in MaybeToken /\ pending \in Nat
    /\ store \in MaybeToken \cup {Damaged} /\ issued \in MaybeToken
    /\ settled \in SUBSET MaybeToken /\ revoked \in SUBSET MaybeToken
    /\ cleared \in Nat /\ broken \in BOOLEAN

Queues == io \in Seq(Ops \cup {SharedRead, SharedDrop}) /\ chain \in Seq(Ops)

OpStep(o) == Begin(o) \/ FileStep(o) \/ Answer(o) \/ ReadTimeout(o)

(***************************************************************************)
(* The records of operations.                                              *)
(***************************************************************************)
LEMMA EndedIs ==
    /\ Ended \in OpRecords /\ Fits(Ended)
    /\ Ended.pc = "done" /\ Ended.gen = 0
<1>1. NoToken \in MaybeToken
  BY EnterpriseSessionAssumption DEF NoToken, MaybeToken
<1> QED
  BY <1>1 DEF Ended, Free, OpRecords, Kinds, PCs, Fits

LEMMA FreeIs ==
    /\ Free \in OpRecords /\ Fits(Free)
    /\ Free.pc = "free" /\ Free.gen = 0
<1>1. NoToken \in MaybeToken
  BY EnterpriseSessionAssumption DEF NoToken, MaybeToken
<1> QED
  BY <1>1 DEF Free, OpRecords, Kinds, PCs, Fits

LEMMA EndSets ==
    ASSUME OpTypes, NEW o \in Ops
    PROVE  End(o) = [op EXCEPT ![o] = Ended] /\ End(o)[o] = Ended
  BY DEF OpTypes, End

LEMMA ToSets ==
    ASSUME OpTypes, NEW o \in Ops, NEW pc \in PCs
    PROVE  /\ To(o, pc) = [op EXCEPT ![o] = To(o, pc)[o]]
           /\ To(o, pc)[o] \in OpRecords
           /\ To(o, pc)[o].pc = pc
           /\ To(o, pc)[o].after = op[o].after
           /\ To(o, pc)[o].kind = op[o].kind
           /\ To(o, pc)[o].gen = op[o].gen
           /\ To(o, pc)[o].tok = op[o].tok
  BY DEF OpTypes, To, OpRecords

LEMMA RevokeSets ==
    ASSUME OpTypes, NEW o \in Ops, NEW s \in Statuses \cup {"none"}
    PROVE  /\ Revoke(o, s) = [op EXCEPT ![o] = Revoke(o, s)[o]]
           /\ Revoke(o, s)[o] \in OpRecords
           /\ Revoke(o, s)[o].pc = "revoking"
           /\ Revoke(o, s)[o].after = s
           /\ Revoke(o, s)[o].kind = op[o].kind
           /\ Revoke(o, s)[o].gen = op[o].gen
           /\ Revoke(o, s)[o].tok = op[o].tok
  BY DEF OpTypes, Revoke, OpRecords, PCs

LEMMA StartedIs ==
    ASSUME NEW k \in Kinds, NEW g \in Nat
    PROVE  /\ Started(k, g) \in OpRecords
           /\ Started(k, g).kind = k
           /\ Started(k, g).pc = "agent"
           /\ Started(k, g).gen = g
           /\ Started(k, g).tok = NoToken
           /\ Started(k, g).after = "none"
<1>1. NoToken \in MaybeToken
  BY EnterpriseSessionAssumption DEF NoToken, MaybeToken
<1> QED
  BY <1>1 DEF Started, OpRecords, PCs

LEMMA AfterReadIs ==
    ASSUME NEW r \in OpRecords, r.kind \in Readers \cup {"use"}, r.after = "none",
           NEW t \in MaybeToken
    PROVE  /\ AfterRead(r, t) \in OpRecords
           /\ Fits(AfterRead(r, t))
           /\ AfterRead(r, t).gen \in {0, r.gen}
           /\ AfterRead(r, t).pc \in {"agent", "me", "leaving", "using", "done"}
           /\ AfterRead(r, t).pc # "done"
              => /\ AfterRead(r, t).kind = r.kind
                 /\ AfterRead(r, t).gen = r.gen
           /\ r.kind # "use" =>
                (AfterRead(r, t).pc = "done" <=> t = NoToken)
<1>1. CASE AfterRead(r, t) = Ended
  <2>1. t = NoToken \/ r.kind = "use"
    <3> SUFFICES ASSUME t # NoToken, r.kind # "use" PROVE FALSE
      OBVIOUS
    <3>1. AfterRead(r, t).pc # "done"
      BY DEF AfterRead, OpRecords
    <3> QED
      BY <1>1, <3>1, EndedIs
  <2> QED
    BY <1>1, <2>1, EndedIs
<1>2. CASE AfterRead(r, t) # Ended
  <2> DEFINE q == AfterRead(r, t)
  <2>1. /\ q.kind = r.kind /\ q.gen = r.gen /\ q.after = r.after /\ q.tok = t
        /\ q.pc = CASE r.kind = "refresh" -> "agent"
                    [] r.kind = "identity" -> "me"
                    [] r.kind = "logout" -> "leaving"
                    [] OTHER -> "using"
        /\ t # NoToken
    BY <1>2 DEF AfterRead, OpRecords
  <2>2. q \in OpRecords
    BY <1>2 DEF AfterRead, OpRecords, PCs
  <2>3. r.kind \in {"refresh", "identity", "logout", "use"}
    BY DEF Readers
  <2>4. q.pc \in {"agent", "me", "leaving", "using"}
    BY <2>1, <2>3
  <2>5. Fits(q)
    <3>1. CASE r.kind = "refresh"
      BY <2>1, <3>1 DEF Fits, SignIns
    <3>2. CASE r.kind = "identity"
      BY <2>1, <3>2 DEF Fits, SignIns
    <3>3. CASE r.kind = "logout"
      BY <2>1, <3>3 DEF Fits, SignIns
    <3>4. CASE r.kind = "use"
      BY <2>1, <3>4 DEF Fits, SignIns
    <3> QED
      BY <2>3, <3>1, <3>2, <3>3, <3>4
  <2> QED
    BY <2>1, <2>2, <2>4, <2>5
<1> QED
  BY <1>1, <1>2

(***************************************************************************)
(* Steps of one operation.                                                 *)
(***************************************************************************)
\* One step of an operation changes no other operation, and leaves its own
\* record as Fits and Dated say.
LEMMA StepIsLocal ==
    ASSUME OpInv, Scalars, NEW o \in Ops, OpStep(o)
    PROVE  /\ op' = [op EXCEPT ![o] = op'[o]]
           /\ op'[o] \in OpRecords
           /\ Fits(op'[o])
           /\ Dated(op[o])'
           /\ generation <= generation' /\ closed' = closed
<1> USE DEF OpTypes
<1>0. /\ op \in [Ops -> OpRecords] /\ op[o] \in OpRecords
      /\ Fits(op[o]) /\ Dated(op[o])
      /\ generation \in Nat /\ op[o].gen \in Nat
      /\ credential \in MaybeToken
  BY DEF OpInv, Scalars, OpRecords
<1>1. CASE \E k \in Readers : BeginReader(o, k)
  <2>1. PICK k \in Readers : BeginReader(o, k)
    BY <1>1
  <2> DEFINE r == Started(k, generation + 1)
  <2>2. k \in Kinds /\ generation + 1 \in Nat /\ generation' = generation + 1
    BY <1>0, <2>1 DEF BeginReader, BeginGeneration, Kinds
  <2>3. r \in OpRecords /\ r.kind = k /\ r.gen = generation + 1 /\ r.after = "none"
    BY <2>2, StartedIs
  <2>4. CASE op' = [op EXCEPT ![o] = AfterRead(r, credential)]
    BY <1>0, <2>1, <2>2, <2>3, <2>4, AfterReadIs DEF BeginReader, Dated
  <2>5. CASE op' = [op EXCEPT ![o] = [r EXCEPT !.pc = "reading"]]
    <3> DEFINE q == [r EXCEPT !.pc = "reading"]
    <3>1. q \in OpRecords /\ q.kind = k /\ q.gen = generation + 1
          /\ q.pc = "reading" /\ q.after = "none"
      BY <2>3 DEF OpRecords, PCs
    <3>2. Fits(q)
      BY <3>1 DEF Fits
    <3> QED
      BY <1>0, <2>1, <2>2, <2>5, <3>1, <3>2 DEF BeginReader, Dated
  <2> QED
    BY <2>1, <2>4, <2>5 DEF BeginReader, Reading
<1>2. CASE \E k \in Passive \cup {"login", "register"} : BeginSignIn(o, k)
  <2>1. PICK k \in Passive \cup {"login", "register"} : BeginSignIn(o, k)
    BY <1>2
  <2>2. k \in Kinds /\ generation + 1 \in Nat /\ generation' = generation + 1
    BY <1>0, <2>1 DEF BeginSignIn, BeginGeneration, Kinds, SignIns
  <2> QED
    BY <1>0, <2>1, <2>2, StartedIs DEF BeginSignIn, Fits, Dated
<1>3. CASE BeginPoll(o)
  <2>1. "poll" \in Kinds
    BY DEF Kinds, SignIns
  <2> QED
    BY <1>0, <1>3, <2>1, StartedIs DEF BeginPoll, Fits, Dated
<1>4. CASE BeginInvalidate(o)
  <2> DEFINE r == Started("invalidate", generation + 1)
             q == [r EXCEPT !.pc = "chained", !.tok = credential]
  <2>1. "invalidate" \in Kinds /\ "chained" \in PCs /\ "invalidate" \notin SignIns
    BY DEF Kinds, PCs, SignIns
  <2>2. r \in OpRecords /\ r.kind = "invalidate" /\ r.gen = generation + 1
        /\ r.after = "none"
    BY <1>0, <2>1, StartedIs
  <2>3. q \in OpRecords /\ q.kind = "invalidate" /\ q.gen = generation + 1
        /\ q.pc = "chained" /\ q.after = "none"
    BY <1>0, <2>1, <2>2 DEF OpRecords
  <2>4. op' = [op EXCEPT ![o] = q] /\ generation' = generation + 1 /\ closed' = closed
    BY <1>4 DEF BeginInvalidate, BeginGeneration
  <2>5. Fits(q)
    BY <2>3 DEF Fits
  <2> QED
    BY <1>0, <2>3, <2>4, <2>5 DEF Dated
<1>5. CASE BeginUse(o)
  <2> DEFINE r == Started("use", generation)
  <2>1. "use" \in Kinds
    BY DEF Kinds
  <2>2. r \in OpRecords /\ r.kind = "use" /\ r.gen = generation
        /\ r.after = "none"
    BY <1>0, <2>1, StartedIs
  <2>3. generation' = generation /\ closed' = closed
    BY <1>5 DEF BeginUse
  <2>4. CASE op' = [op EXCEPT ![o] = AfterRead(r, credential)]
    BY <1>0, <2>2, <2>3, <2>4, AfterReadIs DEF Dated
  <2>5. CASE op' = [op EXCEPT ![o] = [r EXCEPT !.pc = "reading"]]
    <3> DEFINE q == [r EXCEPT !.pc = "reading"]
    <3>1. q \in OpRecords /\ q.kind = "use" /\ q.gen = generation
          /\ q.pc = "reading" /\ q.after = "none"
      BY <2>2 DEF OpRecords, PCs
    <3>2. Fits(q)
      BY <3>1 DEF Fits
    <3> QED
      BY <1>0, <2>3, <2>5, <3>1, <3>2 DEF Dated
  <2> QED
    BY <1>5, <2>4, <2>5 DEF BeginUse, Reading
<1>6. CASE Callback(o)
  <2> DEFINE r == Started("exchange", pending)
             q == [r EXCEPT !.pc = "login"]
  <2>1. "exchange" \in Kinds /\ "login" \in PCs /\ "exchange" \in SignIns
    BY DEF Kinds, PCs, SignIns
  <2>2. pending = generation /\ op' = [op EXCEPT ![o] = q]
        /\ generation' = generation /\ closed' = closed
    BY <1>6 DEF Callback
  <2>3. r \in OpRecords /\ r.kind = "exchange" /\ r.gen = generation
        /\ r.tok = NoToken /\ r.after = "none"
    BY <1>0, <2>1, <2>2, StartedIs
  <2>4. q \in OpRecords /\ q.kind = "exchange" /\ q.gen = generation
        /\ q.pc = "login" /\ q.tok = NoToken /\ q.after = "none"
    BY <2>1, <2>3 DEF OpRecords
  <2>5. Fits(q)
    BY <2>1, <2>4 DEF Fits
  <2> QED
    BY <1>0, <2>2, <2>4, <2>5 DEF Dated
<1>7. CASE StartMutation(o)
  <2>1. /\ generation' = generation /\ closed' = closed
        /\ op[o].after = "none"
    BY <1>0, <1>7 DEF StartMutation, Served, Fits
  <2>2. CASE op[o].kind \in SignIns /\ Publishes(o)
              /\ op' = To(o, "writing")
    BY <1>0, <1>7, <2>1, <2>2, ToSets DEF PCs, Fits, Dated
  <2>3. CASE op[o].kind \in SignIns /\ ~Publishes(o)
              /\ op' = Revoke(o, "none")
    BY <1>0, <1>7, <2>1, <2>3, RevokeSets DEF Publishes, Latest, Fits, Dated
  <2>4. CASE op[o].kind \notin SignIns /\ op' = To(o, "deleting")
    BY <1>0, <1>7, <2>1, <2>4, ToSets DEF PCs, Fits, Dated
  <2> QED
    BY <1>7, <2>2, <2>3, <2>4 DEF StartMutation
<1>8. CASE WriteDone(o)
  <2>1. /\ generation' = generation /\ closed' = closed
        /\ op[o].pc = "writing" /\ op[o].kind \in SignIns
        /\ op[o].after = "none"
    BY <1>0, <1>8 DEF WriteDone, Served, Fits
  <2>2. CASE op' = End(o)
    BY <1>0, <2>1, <2>2, EndSets, EndedIs DEF Dated
  <2>3. CASE ~Publishes(o) /\ op' = To(o, "undoing")
    <3>1. closed \/ op[o].gen < generation
      BY <1>0, <2>3 DEF Publishes, Latest, Dated
    <3>2. "undoing" \in PCs
      BY DEF PCs
    <3>3. Fits(op'[o])
      BY <1>0, <2>1, <2>3, <3>2, ToSets DEF Fits
    <3> QED
      BY <1>0, <2>1, <2>3, <3>1, <3>2, <3>3, ToSets DEF Dated
  <2> QED
    BY <1>8, <2>2, <2>3 DEF WriteDone
<1>9. CASE WriteFailed(o)
  <2>1. /\ generation' = generation /\ closed' = closed
        /\ op[o].after = "none"
    BY <1>0, <1>9 DEF WriteFailed, Served, Fits
  <2>2. CASE op' = Revoke(o, "signed_out")
    BY <1>0, <1>9, <2>1, <2>2, RevokeSets
    DEF WriteFailed, Served, Statuses, Fits, Dated
  <2> QED
    BY <1>9, <2>2 DEF WriteFailed
<1>10. CASE UndoDone(o)
  <2>1. /\ generation' = generation /\ closed' = closed
        /\ op[o].pc = "undoing" /\ op' = Revoke(o, "none")
    BY <1>10 DEF UndoDone, Served
  <2>2. closed \/ op[o].gen < generation
    BY <1>0, <2>1 DEF Dated
  <2> QED
    BY <1>0, <2>1, <2>2, RevokeSets DEF Fits, Dated
<1>11. CASE DeleteDone(o)
  BY <1>0, <1>11, EndSets, EndedIs DEF DeleteDone, Dated
<1>12. CASE DeleteFailed(o)
  BY <1>0, <1>12, EndSets, EndedIs DEF DeleteFailed, Dated
<1>13. CASE AgentRead(o)
  <2>1. /\ generation' = generation /\ closed' = closed
        /\ op[o].after = "none"
    BY <1>0, <1>13 DEF AgentRead, Served, Fits
  <2>2. CASE op[o].kind = "refresh" /\ op' = To(o, "me")
    BY <1>0, <1>13, <2>1, <2>2, ToSets DEF PCs, SignIns, Fits, Dated
  <2>3. CASE op[o].kind = "register" /\ op' = To(o, "registering")
    BY <1>0, <1>13, <2>1, <2>3, ToSets
    DEF AgentRead, PCs, SignIns, Fits, Dated
  <2>4. CASE op[o].kind = "prepare" /\ op' = To(o, "preparing")
    BY <1>0, <1>13, <2>1, <2>4, ToSets
    DEF AgentRead, PCs, SignIns, Fits, Dated
  <2>5. CASE op' = End(o)
    BY <1>0, <1>13, <2>1, <2>5, EndSets, EndedIs DEF Dated
  <2>6. CASE op[o].kind \notin {"refresh", "register", "prepare", "qr"}
              /\ op' = To(o, "login")
    <3>1. op[o].pc = "agent" /\ op[o].kind \in {"login", "poll"}
      BY <1>0, <1>13, <2>6 DEF AgentRead, Fits, Passive
    <3>2. op[o].kind \in SignIns /\ op[o].tok = NoToken /\ op[o].after = "none"
      BY <1>0, <3>1 DEF Fits, SignIns
    <3>3. Fits(op'[o])
      BY <1>0, <2>6, <3>2, ToSets DEF Fits, PCs
    <3> QED
      BY <1>0, <2>1, <2>6, <3>3, ToSets DEF Dated, PCs
  <2> QED
    BY <1>13, <2>2, <2>3, <2>4, <2>5, <2>6 DEF AgentRead
<1>14. CASE AuthenticationFails(o)
  BY <1>0, <1>14, EndSets, EndedIs DEF AuthenticationFails, Dated
<1>15. CASE Registered(o)
  <2>1. /\ generation' = generation /\ closed' = closed
        /\ op[o].after = "none"
    BY <1>0, <1>15 DEF Registered, Served, Fits
  <2>2. CASE op' = To(o, "login")
    BY <1>0, <1>15, <2>1, <2>2, ToSets
    DEF Registered, PCs, SignIns, Fits, Dated
  <2> QED
    BY <1>15, <2>2 DEF Registered
<1>16. CASE Prepared(o)
  BY <1>0, <1>16, EndSets, EndedIs DEF Prepared, Dated
<1>17. CASE LoginDone(o)
  <2>1. /\ generation' = generation /\ closed' = closed
        /\ op[o].pc = "login" /\ op[o].kind \in SignIns
        /\ op[o].after = "none" /\ issued + 1 \in MaybeToken
    BY <1>0, <1>17, EnterpriseSessionAssumption
    DEF LoginDone, Fits, Scalars, MaybeToken
  <2> DEFINE pc == IF Publishes(o) THEN "me" ELSE "revoking"
  <2>2. op' = [op EXCEPT ![o].tok = issued + 1, ![o].pc = pc]
    BY <1>17 DEF LoginDone
  <2>3. /\ op' = [op EXCEPT ![o] = op'[o]]
        /\ op'[o].kind = op[o].kind /\ op'[o].gen = op[o].gen
        /\ op'[o].pc = pc /\ op'[o].after = op[o].after
    BY <1>0, <2>2 DEF OpRecords
  <2>4. op'[o] \in OpRecords
    BY <1>0, <2>1, <2>2 DEF OpRecords, PCs
  <2>5. pc = "me" \/ (pc = "revoking" /\ (closed \/ op[o].gen < generation))
    BY <1>0 DEF Publishes, Latest, Dated
  <2>6. Fits(op'[o])
    BY <2>1, <2>3, <2>5 DEF Fits
  <2> QED
    BY <1>0, <2>1, <2>3, <2>4, <2>5, <2>6 DEF Dated
<1>18. CASE PollSignsIn(o)
  <2>1. /\ generation' = generation + 1 /\ closed' = closed
        /\ op[o].pc = "login" /\ op[o].kind \in SignIns
        /\ op[o].after = "none" /\ issued + 1 \in MaybeToken
    BY <1>0, <1>18, EnterpriseSessionAssumption
    DEF PollSignsIn, BeginGeneration, Fits, Scalars, MaybeToken
  <2> DEFINE pc == IF closed THEN "revoking" ELSE "me"
  <2>2. op' = [op EXCEPT ![o].tok = issued + 1, ![o].gen = generation + 1,
                         ![o].pc = pc]
    BY <1>18 DEF PollSignsIn
  <2>3. /\ op' = [op EXCEPT ![o] = op'[o]]
        /\ op'[o].kind = op[o].kind /\ op'[o].gen = generation + 1
        /\ op'[o].pc = pc /\ op'[o].after = op[o].after
    BY <1>0, <2>2 DEF OpRecords
  <2>4. op'[o] \in OpRecords
    BY <1>0, <2>1, <2>2 DEF OpRecords, PCs
  <2>5. pc = "me" \/ (pc = "revoking" /\ closed)
    OBVIOUS
  <2>6. Fits(op'[o])
    BY <2>1, <2>3, <2>5 DEF Fits
  <2> QED
    BY <1>0, <2>1, <2>3, <2>4, <2>5, <2>6 DEF Dated
<1>19. CASE MeRefused(o)
  <2>1. /\ generation' = generation /\ closed' = closed
        /\ op[o].after = "none"
    BY <1>0, <1>19 DEF MeRefused, Served, Fits
  <2>2. CASE op[o].kind \in SignIns /\ op' = Revoke(o, "signed_out")
    BY <1>0, <1>19, <2>1, <2>2, RevokeSets DEF Statuses, Fits, Dated
  <2>3. CASE op[o].kind \notin SignIns /\ op' = To(o, "chained")
    BY <1>0, <1>19, <2>1, <2>3, ToSets
    DEF MeRefused, PCs, Readers, Fits, Dated
  <2> QED
    BY <1>19, <2>2, <2>3 DEF MeRefused, Reject
<1>20. CASE MeUnusable(o)
  <2>1. /\ generation' = generation /\ closed' = closed
        /\ op[o].after = "none"
    BY <1>0, <1>20 DEF MeUnusable, Served, Fits
  <2>2. CASE op[o].kind \in SignIns /\ op' = Revoke(o, "signed_out")
    BY <1>0, <1>20, <2>1, <2>2, RevokeSets DEF Statuses, Fits, Dated
  <2>3. CASE op[o].kind \notin SignIns /\ op' = To(o, "chained")
    BY <1>0, <1>20, <2>1, <2>3, ToSets
    DEF MeUnusable, PCs, Readers, Fits, Dated
  <2> QED
    BY <1>20, <2>2, <2>3 DEF MeUnusable, Reject
<1>21. CASE MeUnavailable(o)
  <2>1. /\ generation' = generation /\ closed' = closed
        /\ op[o].after = "none"
    BY <1>0, <1>21 DEF MeUnavailable, Served, Fits
  <2>2. CASE op[o].kind \in SignIns
              /\ \E s \in {"signed_out", "service_unavailable"} :
                    op' = Revoke(o, s)
    BY <1>0, <1>21, <2>1, <2>2, RevokeSets DEF Statuses, Fits, Dated
  <2>3. CASE op' = End(o)
    BY <1>0, <1>21, <2>1, <2>3, EndSets, EndedIs DEF Dated
  <2> QED
    BY <1>21, <2>2, <2>3 DEF MeUnavailable, Statuses
<1>22. CASE MeTooLate(o)
  <2>1. /\ generation' = generation /\ closed' = closed
        /\ op[o].after = "none"
    BY <1>0, <1>22 DEF MeTooLate, Served, Fits
  <2>2. CASE op[o].kind \in SignIns /\ ~Publishes(o)
              /\ op' = Revoke(o, "none")
    BY <1>0, <1>22, <2>1, <2>2, RevokeSets DEF Publishes, Latest, Fits, Dated
  <2>3. CASE op' = End(o)
    BY <1>0, <1>22, <2>1, <2>3, EndSets, EndedIs DEF Dated
  <2> QED
    BY <1>22, <2>2, <2>3 DEF MeTooLate
<1>23. CASE MeAccepted(o)
  <2>1. /\ generation' = generation /\ closed' = closed
        /\ op[o].after = "none"
    BY <1>0, <1>23 DEF MeAccepted, Served, Fits
  <2>2. CASE op[o].kind \in SignIns /\ op' = To(o, "chained")
    BY <1>0, <1>23, <2>1, <2>2, ToSets DEF PCs, Fits, Dated
  <2>3. CASE op' = End(o)
    BY <1>0, <1>23, <2>1, <2>3, EndSets, EndedIs DEF Dated
  <2> QED
    BY <1>23, <2>2, <2>3 DEF MeAccepted
<1>24. CASE RevokeDone(o)
  BY <1>0, <1>24, EndSets, EndedIs DEF RevokeDone, Dated
<1>25. CASE LogoutDone(o)
  <2>1. /\ generation' = generation /\ closed' = closed
        /\ op[o].after = "none"
    BY <1>0, <1>25 DEF LogoutDone, Served, Fits
  <2>2. CASE op' = To(o, "chained")
    BY <1>0, <1>25, <2>1, <2>2, ToSets
    DEF LogoutDone, PCs, Readers, SignIns, Fits, Dated
  <2> QED
    BY <1>25, <2>2 DEF LogoutDone
<1>26. CASE LogoutUnavailable(o)
  BY <1>0, <1>26, EndSets, EndedIs DEF LogoutUnavailable, Dated
<1>27. CASE UseDone(o)
  BY <1>0, <1>27, EndSets, EndedIs DEF UseDone, Dated
<1>28. CASE UseRefused(o)
  <2>1. /\ generation' = generation + 1 /\ closed' = closed
        /\ op[o].pc = "using" /\ op[o].kind = "use" /\ op[o].after = "none"
    BY <1>0, <1>28 DEF UseRefused, BeginGeneration, Fits
  <2>2. op' = [op EXCEPT ![o].pc = "chained", ![o].gen = generation + 1]
    BY <1>28 DEF UseRefused
  <2>3. /\ op' = [op EXCEPT ![o] = op'[o]]
        /\ op'[o].kind = op[o].kind /\ op'[o].gen = generation + 1
        /\ op'[o].pc = "chained" /\ op'[o].after = op[o].after
    BY <1>0, <2>2 DEF OpRecords
  <2>4. op'[o] \in OpRecords
    <3>1. generation + 1 \in Nat /\ "chained" \in PCs
      BY <1>0 DEF PCs
    <3>2. op'[o] = [op[o] EXCEPT !.pc = "chained", !.gen = generation + 1]
      BY <1>0, <2>2
    <3> QED
      BY <1>0, <3>1, <3>2 DEF OpRecords
  <2>5. Fits(op'[o])
    <3>1. op'[o].kind = "use" /\ op'[o].pc = "chained" /\ op'[o].after = "none"
      BY <2>1, <2>3
    <3> QED
      BY <3>1 DEF Fits
  <2> QED
    BY <1>0, <2>1, <2>3, <2>4, <2>5 DEF Dated
<1>29. CASE ReadTimeout(o)
  BY <1>0, <1>29, EndSets, EndedIs DEF ReadTimeout, Dated
<1> QED
  BY <1>1, <1>2, <1>3, <1>4, <1>5, <1>6, <1>7, <1>8, <1>9, <1>10, <1>11,
     <1>12, <1>13, <1>14, <1>15, <1>16, <1>17, <1>18, <1>19, <1>20, <1>21,
     <1>22, <1>23, <1>24, <1>25, <1>26, <1>27, <1>28, <1>29
  DEF OpStep, Begin, FileStep, Answer

(***************************************************************************)
(* What every step keeps.                                                  *)
(***************************************************************************)
LEMMA OpFacts ==
    ASSUME OpInv, Scalars, NEW o \in Ops
    PROVE  /\ op \in [Ops -> OpRecords] /\ op[o] \in OpRecords
           /\ Fits(op[o]) /\ Dated(op[o])
           /\ op[o].gen \in Nat /\ op[o].tok \in MaybeToken
           /\ op[o].kind \in Kinds
           /\ op[o].after \in Statuses \cup {"none"}
           /\ generation \in Nat /\ issued \in Nat
           /\ credential \in MaybeToken
           /\ store \in MaybeToken \cup {Damaged}
  BY EnterpriseSessionAssumption
  DEF OpInv, OpTypes, Scalars, OpRecords, MaybeToken

HoldsToken(r) == r.kind \in SignIns /\ r.pc \notin {"free", "done"}

\* No step of an operation loses a token.
LEMMA NoStepLeaks ==
    ASSUME OpInv, Scalars, NEW o \in Ops, OpStep(o)
    PROVE  /\ settled \subseteq settled'
           /\ issued' \in {issued, issued + 1}
           /\ issued' # issued => HoldsToken(op'[o]) /\ op'[o].tok = issued'
           /\ HoldsToken(op[o]) /\ op[o].tok # NoToken
              => \/ op[o].tok \in settled'
                 \/ HoldsToken(op'[o]) /\ op'[o].tok = op[o].tok
<1> USE DEF OpTypes, HoldsToken
<1>0. /\ op \in [Ops -> OpRecords] /\ op[o] \in OpRecords
      /\ Fits(op[o]) /\ issued \in Nat
  BY OpFacts
<1>1. CASE \E k \in Readers : BeginReader(o, k)
  BY <1>1, <1>0 DEF BeginReader, Fresh, history
<1>2. CASE \E k \in Passive \cup {"login", "register"} : BeginSignIn(o, k)
  BY <1>2, <1>0 DEF BeginSignIn, Fresh, history
<1>3. CASE BeginPoll(o)
  BY <1>3, <1>0 DEF BeginPoll, Fresh, history
<1>4. CASE BeginInvalidate(o)
  BY <1>4, <1>0 DEF BeginInvalidate, Fresh, history
<1>5. CASE BeginUse(o)
  BY <1>5, <1>0 DEF BeginUse, Fresh, history
<1>6. CASE Callback(o)
  BY <1>6, <1>0 DEF Callback, Fresh, history
<1>7. CASE StartMutation(o)
  BY <1>7, <1>0, ToSets, RevokeSets DEF StartMutation, PCs, history
<1>8. CASE WriteDone(o)
  BY <1>8, <1>0, ToSets, EndSets, EndedIs DEF WriteDone, Served, PCs
<1>9. CASE WriteFailed(o)
  BY <1>9, <1>0, RevokeSets DEF WriteFailed, Served, Statuses
<1>10. CASE UndoDone(o)
  BY <1>10, <1>0, RevokeSets DEF UndoDone, Served
<1>11. CASE DeleteDone(o)
  BY <1>11, <1>0 DEF DeleteDone, Served, Fits
<1>12. CASE DeleteFailed(o)
  BY <1>12, <1>0 DEF DeleteFailed, Served, Fits
<1>13. CASE AgentRead(o)
  BY <1>13, <1>0, ToSets DEF AgentRead, PCs, Fits, history
<1>14. CASE AuthenticationFails(o)
  BY <1>14, <1>0 DEF AuthenticationFails, Fits, history
<1>15. CASE Registered(o)
  BY <1>15, <1>0 DEF Registered, Fits, history
<1>16. CASE Prepared(o)
  BY <1>16, <1>0 DEF Prepared, Fits, SignIns, history
<1>17. CASE LoginDone(o)
  <2>1. op[o].pc = "login" /\ op[o].kind \in SignIns /\ op[o].tok = NoToken
    BY <1>0, <1>17 DEF LoginDone, Fits
  <2>2. /\ op'[o].kind = op[o].kind /\ op'[o].tok = issued + 1
        /\ op'[o].pc \in {"me", "revoking"} /\ issued' = issued + 1
        /\ settled' = settled
    BY <1>0, <1>17 DEF LoginDone, OpRecords, history
  <2> QED
    BY <2>1, <2>2
<1>18. CASE PollSignsIn(o)
  <2>1. op[o].pc = "login" /\ op[o].kind \in SignIns /\ op[o].tok = NoToken
    BY <1>0, <1>18 DEF PollSignsIn, Fits
  <2>2. /\ op'[o].kind = op[o].kind /\ op'[o].tok = issued + 1
        /\ op'[o].pc \in {"me", "revoking"} /\ issued' = issued + 1
        /\ settled' = settled
    BY <1>0, <1>18 DEF PollSignsIn, OpRecords, history
  <2> QED
    BY <2>1, <2>2
<1>19. CASE MeRefused(o)
  BY <1>19, <1>0, ToSets, RevokeSets
  DEF MeRefused, Reject, Statuses, PCs, history
<1>20. CASE MeUnavailable(o)
  BY <1>20, <1>0, RevokeSets DEF MeUnavailable, Statuses, history
<1>21. CASE MeTooLate(o)
  BY <1>21, <1>0, RevokeSets DEF MeTooLate, history
<1>22. CASE MeUnusable(o)
  BY <1>22, <1>0, ToSets, RevokeSets
  DEF MeUnusable, Reject, Statuses, PCs, history
<1>23. CASE MeAccepted(o)
  BY <1>23, <1>0, ToSets DEF MeAccepted, PCs, history
<1>24. CASE RevokeDone(o)
  BY <1>24, <1>0 DEF RevokeDone
<1>25. CASE LogoutDone(o)
  BY <1>25, <1>0 DEF LogoutDone, Fits, SignIns, history
<1>26. CASE LogoutUnavailable(o)
  BY <1>26, <1>0 DEF LogoutUnavailable, Fits, SignIns, history
<1>27. CASE UseDone(o)
  BY <1>27, <1>0 DEF UseDone, Fits, SignIns, history
<1>28. CASE UseRefused(o)
  BY <1>28, <1>0 DEF UseRefused, Fits, SignIns, history
<1>29. CASE ReadTimeout(o)
  BY <1>29, <1>0 DEF ReadTimeout, Fits, SignIns, Readers, history
<1> QED
  BY <1>1, <1>2, <1>3, <1>4, <1>5, <1>6, <1>7, <1>8, <1>9, <1>10, <1>11,
     <1>12, <1>13, <1>14, <1>15, <1>16, <1>17, <1>18, <1>19, <1>20, <1>21,
     <1>22, <1>23, <1>24, <1>25, <1>26, <1>27, <1>28, <1>29
  DEF OpStep, Begin, FileStep, Answer

\* Only an operation of the latest generation changes what clients see.
LEMMA OnlyTheLatestMoves ==
    ASSUME OpInv, Scalars, NEW o \in Ops, OpStep(o), memory' # memory
    PROVE  generation' # generation \/ (Latest(o) /\ op'[o] # op[o])
<1> USE DEF OpTypes
<1>0. op \in [Ops -> OpRecords] /\ op[o] \in OpRecords /\ generation \in Nat
  BY OpFacts
<1>1. CASE \E k \in Readers : BeginReader(o, k)
  BY <1>1, <1>0 DEF BeginReader, BeginGeneration
<1>2. CASE \E k \in Passive \cup {"login", "register"} : BeginSignIn(o, k)
  BY <1>2, <1>0 DEF BeginSignIn, BeginGeneration
<1>3. CASE BeginPoll(o)
  BY <1>3, <1>0 DEF BeginPoll, memory
<1>4. CASE BeginInvalidate(o)
  BY <1>4, <1>0 DEF BeginInvalidate, BeginGeneration
<1>5. CASE BeginUse(o)
  BY <1>5, <1>0 DEF BeginUse, memory
<1>6. CASE Callback(o)
  BY <1>6, <1>0 DEF Callback, memory
<1>7. CASE StartMutation(o)
  BY <1>7, <1>0 DEF StartMutation, memory
<1>8. CASE WriteDone(o)
  BY <1>8, <1>0, EndSets, EndedIs DEF WriteDone, memory, Served, Publishes
<1>9. CASE WriteFailed(o)
  BY <1>9, <1>0 DEF WriteFailed, memory
<1>10. CASE UndoDone(o)
  BY <1>10, <1>0 DEF UndoDone, memory
<1>11. CASE DeleteDone(o)
  BY <1>11, <1>0, EndSets, EndedIs
  DEF DeleteDone, memory, Served, Remember, Published, Publishes
<1>12. CASE DeleteFailed(o)
  BY <1>12, <1>0, EndSets, EndedIs
  DEF DeleteFailed, memory, Served, Remember, Published, Publishes
<1>13. CASE AgentRead(o)
  BY <1>13, <1>0 DEF AgentRead, memory
<1>14. CASE AuthenticationFails(o)
  BY <1>14, <1>0, EndSets, EndedIs
  DEF AuthenticationFails, memory, Published, Publishes
<1>15. CASE Registered(o)
  BY <1>15, <1>0 DEF Registered, memory
<1>16. CASE Prepared(o)
  BY <1>16, <1>0 DEF Prepared, memory
<1>17. CASE LoginDone(o)
  BY <1>17, <1>0 DEF LoginDone, memory
<1>18. CASE PollSignsIn(o)
  BY <1>18, <1>0 DEF PollSignsIn, BeginGeneration
<1>19. CASE MeRefused(o)
  BY <1>19, <1>0 DEF MeRefused, memory
<1>20. CASE MeUnavailable(o)
  BY <1>20, <1>0, EndSets, EndedIs
  DEF MeUnavailable, memory, Remember, Published, Publishes
<1>21. CASE MeTooLate(o)
  BY <1>21, <1>0 DEF MeTooLate, memory
<1>22. CASE MeUnusable(o)
  BY <1>22, <1>0 DEF MeUnusable, memory
<1>23. CASE MeAccepted(o)
  BY <1>23, <1>0, EndSets, EndedIs DEF MeAccepted, memory, Publishes
<1>24. CASE RevokeDone(o)
  BY <1>24, <1>0, EndSets, EndedIs
  DEF RevokeDone, memory, Published, Publishes
<1>25. CASE LogoutDone(o)
  BY <1>25, <1>0 DEF LogoutDone, memory
<1>26. CASE LogoutUnavailable(o)
  BY <1>26, <1>0, EndSets, EndedIs
  DEF LogoutUnavailable, memory, Remember, Published, Publishes
<1>27. CASE UseDone(o)
  BY <1>27, <1>0 DEF UseDone, memory
<1>28. CASE UseRefused(o)
  BY <1>28, <1>0 DEF UseRefused, BeginGeneration
<1>29. CASE ReadTimeout(o)
  BY <1>29, <1>0, EndSets, EndedIs
  DEF ReadTimeout, memory, Published, Publishes
<1> QED
  BY <1>1, <1>2, <1>3, <1>4, <1>5, <1>6, <1>7, <1>8, <1>9, <1>10, <1>11,
     <1>12, <1>13, <1>14, <1>15, <1>16, <1>17, <1>18, <1>19, <1>20, <1>21,
     <1>22, <1>23, <1>24, <1>25, <1>26, <1>27, <1>28, <1>29
  DEF OpStep, Begin, FileStep, Answer

\* An operation that will tell clients how it ended, if it is the latest: a
\* poll of a QR code and a request of a manager only once they have become
\* operations.
Answers(r) ==
    \/ /\ r.kind \in {"refresh", "identity", "logout", "login", "register", "invalidate"}
       /\ r.pc \notin {"free", "done"}
    \/ r.kind = "poll" /\ r.pc \in {"me", "chained", "writing", "undoing", "revoking"}
    \/ r.kind = "use" /\ r.pc \in {"chained", "deleting"}

\* Whoever leaves clients with "checking" is, or becomes, the one to answer, or
\* leaves the duty to the one who had it.
LEMMA CheckingStays ==
    ASSUME OpInv, Scalars, NEW o \in Ops, OpStep(o), ~closed, status' = "checking"
    PROVE  \/ Answers(op'[o]) /\ op'[o].gen = generation'
           \/ /\ status = "checking" /\ generation' = generation
              /\ ~(Answers(op[o]) /\ Latest(o))
<1> USE DEF OpTypes, Answers, Latest
<1>0. /\ op \in [Ops -> OpRecords] /\ op[o] \in OpRecords
      /\ Fits(op[o]) /\ Dated(op[o])
      /\ generation \in Nat /\ op[o].gen \in Nat
      /\ credential \in MaybeToken
      /\ op[o].after \in Statuses \cup {"none"}
  BY OpFacts
<1>1. CASE \E k \in Readers : BeginReader(o, k)
  <2>1. PICK k \in Readers : BeginReader(o, k)
    BY <1>1
  <2> DEFINE r == Started(k, generation + 1)
  <2>2. k \in Kinds /\ generation + 1 \in Nat /\ generation' = generation + 1
    BY <1>0, <2>1 DEF BeginReader, BeginGeneration, Kinds
  <2>3. r \in OpRecords /\ r.kind = k /\ r.gen = generation + 1
        /\ r.after = "none"
    BY <2>2, StartedIs
  <2>4. k \in {"refresh", "identity", "logout"} /\ k # "use"
    BY DEF Readers
  <2>5. CASE credential # NoToken /\ op' = [op EXCEPT ![o] = AfterRead(r, credential)]
    <3>1. AfterRead(r, credential).pc # "done"
      BY <1>0, <2>3, <2>4, <2>5, AfterReadIs
    <3> QED
      BY <1>0, <2>2, <2>3, <2>4, <2>5, <3>1, AfterReadIs
  <2>6. CASE op' = [op EXCEPT ![o] = [r EXCEPT !.pc = "reading"]]
    <3>1. op'[o].kind = k /\ op'[o].gen = generation + 1 /\ op'[o].pc = "reading"
      BY <1>0, <2>3, <2>6 DEF OpRecords
    <3> QED
      BY <2>2, <2>4, <3>1
  <2> QED
    BY <2>1, <2>5, <2>6 DEF BeginReader, Reading
<1>2. CASE \E k \in Passive \cup {"login", "register"} : BeginSignIn(o, k)
  <2>1. PICK k \in Passive \cup {"login", "register"} : BeginSignIn(o, k)
    BY <1>2
  <2>2. k \in Kinds /\ generation + 1 \in Nat /\ generation' = generation + 1
    BY <1>0, <2>1 DEF BeginSignIn, BeginGeneration, Kinds, SignIns
  <2>3. k \notin Passive
    BY <2>1 DEF BeginSignIn, BeginGeneration
  <2> QED
    BY <1>0, <2>1, <2>2, <2>3, StartedIs DEF BeginSignIn
<1>3. CASE BeginPoll(o)
  BY <1>3, <1>0 DEF BeginPoll, Fresh, memory
<1>4. CASE BeginInvalidate(o)
  <2> DEFINE r == Started("invalidate", generation + 1)
             q == [r EXCEPT !.pc = "chained", !.tok = credential]
  <2>1. "invalidate" \in Kinds
    BY DEF Kinds
  <2>2. r \in OpRecords /\ r.kind = "invalidate" /\ r.gen = generation + 1
    BY <1>0, <2>1, StartedIs
  <2>3. q.kind = "invalidate" /\ q.gen = generation + 1 /\ q.pc = "chained"
    BY <1>0, <2>2 DEF OpRecords
  <2>4. op' = [op EXCEPT ![o] = q] /\ generation' = generation + 1
    BY <1>4 DEF BeginInvalidate, BeginGeneration
  <2> QED
    BY <1>0, <2>3, <2>4
<1>5. CASE BeginUse(o)
  BY <1>5, <1>0 DEF BeginUse, Fresh, memory
<1>6. CASE Callback(o)
  BY <1>6, <1>0 DEF Callback, Fresh, memory
<1>7. CASE StartMutation(o)
  <2>1. status' = status /\ generation' = generation /\ op[o].pc = "chained"
    BY <1>7 DEF StartMutation, memory
  <2>2. CASE op' = To(o, "writing") /\ op[o].kind \in SignIns
    BY <1>0, <2>1, <2>2, ToSets DEF PCs, SignIns
  <2>3. CASE ~Publishes(o)
    BY <2>1, <2>3 DEF Publishes
  <2>4. CASE op' = To(o, "deleting") /\ op[o].kind \notin SignIns
    BY <1>0, <2>1, <2>4, ToSets DEF PCs, Fits, Readers, SignIns
  <2> QED
    BY <1>7, <2>2, <2>3, <2>4 DEF StartMutation
<1>8. CASE WriteDone(o)
  BY <1>8, <1>0, ToSets DEF WriteDone, PCs, Publishes, memory, Served
<1>9. CASE WriteFailed(o)
  BY <1>9, <1>0, RevokeSets DEF WriteFailed, Statuses, Served, memory
<1>10. CASE UndoDone(o)
  BY <1>10, <1>0 DEF UndoDone, Served, Dated, memory
<1>11. CASE DeleteDone(o)
  BY <1>11, <1>0 DEF DeleteDone, Served, Published, Publishes
<1>12. CASE DeleteFailed(o)
  BY <1>12, <1>0 DEF DeleteFailed, Served, Published, Publishes
<1>13. CASE AgentRead(o)
  BY <1>13, <1>0, ToSets DEF AgentRead, PCs, memory, Fits, Passive
<1>14. CASE AuthenticationFails(o)
  BY <1>14, <1>0 DEF AuthenticationFails, Published, Publishes
<1>15. CASE Registered(o)
  BY <1>15, <1>0, ToSets DEF Registered, PCs, memory
<1>16. CASE Prepared(o)
  BY <1>16, <1>0 DEF Prepared, memory, Fits
<1>17. CASE LoginDone(o)
  <2>1. /\ op'[o].kind = op[o].kind /\ op'[o].gen = op[o].gen
        /\ op'[o].pc \in {"me", "revoking"} /\ generation' = generation
        /\ status' = status /\ op[o].pc = "login"
    BY <1>0, <1>17 DEF LoginDone, OpRecords, memory
  <2> QED
    BY <2>1
<1>18. CASE PollSignsIn(o)
  <2>1. /\ op'[o].kind = "poll" /\ op'[o].gen = generation + 1
        /\ op'[o].pc = "me" /\ generation' = generation + 1
    BY <1>0, <1>18 DEF PollSignsIn, BeginGeneration, OpRecords
  <2> QED
    BY <2>1
<1>19. CASE MeRefused(o)
  BY <1>19, <1>0, ToSets, RevokeSets
  DEF MeRefused, Reject, Statuses, PCs, memory
<1>20. CASE MeUnavailable(o)
  BY <1>20, <1>0, RevokeSets
  DEF MeUnavailable, Statuses, Published, Publishes, memory
<1>21. CASE MeTooLate(o)
  BY <1>21, <1>0 DEF MeTooLate, Publishes, memory
<1>22. CASE MeUnusable(o)
  BY <1>22, <1>0, ToSets, RevokeSets
  DEF MeUnusable, Reject, Statuses, PCs, memory
<1>23. CASE MeAccepted(o)
  BY <1>23, <1>0, ToSets DEF MeAccepted, PCs, memory
<1>24. CASE RevokeDone(o)
  BY <1>24, <1>0 DEF RevokeDone, Published, Publishes, Dated, Fits
<1>25. CASE LogoutDone(o)
  BY <1>25, <1>0, ToSets DEF LogoutDone, PCs, memory
<1>26. CASE LogoutUnavailable(o)
  BY <1>26, <1>0 DEF LogoutUnavailable, Published, Publishes
<1>27. CASE UseDone(o)
  BY <1>27, <1>0 DEF UseDone, memory, Fits
<1>28. CASE UseRefused(o)
  <2>1. /\ op'[o].gen = generation + 1 /\ op'[o].kind = "use"
        /\ op'[o].pc = "chained" /\ generation' = generation + 1
    BY <1>0, <1>28 DEF UseRefused, BeginGeneration, OpRecords, Fits
  <2> QED
    BY <2>1
<1>29. CASE ReadTimeout(o)
  BY <1>29, <1>0 DEF ReadTimeout, Published, Publishes
<1> QED
  BY <1>1, <1>2, <1>3, <1>4, <1>5, <1>6, <1>7, <1>8, <1>9, <1>10, <1>11,
     <1>12, <1>13, <1>14, <1>15, <1>16, <1>17, <1>18, <1>19, <1>20, <1>21,
     <1>22, <1>23, <1>24, <1>25, <1>26, <1>27, <1>28, <1>29
  DEF OpStep, Begin, FileStep, Answer

\* The other variables keep their types.
LEMMA ScalarsStep ==
    ASSUME OpInv, Scalars, NEW o \in Ops, OpStep(o)
    PROVE  Scalars'
<1> USE EnterpriseSessionAssumption DEF Scalars, MaybeToken
<1>0. 0 \in MaybeToken /\ MaxTokens \in Nat
  OBVIOUS
<1>1. CASE \E k \in Readers : BeginReader(o, k)
  BY <1>1, <1>0 DEF BeginReader, BeginGeneration, Statuses, history
<1>2. CASE \E k \in Passive \cup {"login", "register"} : BeginSignIn(o, k)
  BY <1>2, <1>0 DEF BeginSignIn, BeginGeneration, Statuses, history
<1>3. CASE BeginPoll(o)
  BY <1>3, <1>0 DEF BeginPoll, history, memory
<1>4. CASE BeginInvalidate(o)
  BY <1>4, <1>0 DEF BeginInvalidate, BeginGeneration, Statuses, history
<1>5. CASE BeginUse(o)
  BY <1>5, <1>0 DEF BeginUse, history, memory
<1>6. CASE Callback(o)
  BY <1>6, <1>0 DEF Callback, history, memory
<1>7. CASE StartMutation(o)
  BY <1>7, <1>0 DEF StartMutation, history, memory
<1>8. CASE WriteDone(o)
  BY <1>8, <1>0, OpFacts DEF WriteDone, Statuses, memory
<1>9. CASE WriteFailed(o)
  BY <1>9, <1>0, OpFacts DEF WriteFailed, memory, NoToken
<1>10. CASE UndoDone(o)
  BY <1>10, <1>0, OpFacts DEF UndoDone, memory, NoToken
<1>11. CASE DeleteDone(o)
  BY <1>11, <1>0, OpFacts
  DEF DeleteDone, Statuses, Remember, Published, NoToken, history
<1>12. CASE DeleteFailed(o)
  BY <1>12, <1>0, OpFacts
  DEF DeleteFailed, Statuses, Published, NoToken, history
<1>13. CASE AgentRead(o)
  BY <1>13, <1>0 DEF AgentRead, history, memory
<1>14. CASE AuthenticationFails(o)
  BY <1>14, <1>0 DEF AuthenticationFails, Statuses, Published, history
<1>15. CASE Registered(o)
  BY <1>15, <1>0 DEF Registered, history, memory
<1>16. CASE Prepared(o)
  BY <1>16, <1>0, OpFacts DEF Prepared, memory, history
<1>17. CASE LoginDone(o)
  BY <1>17, <1>0 DEF LoginDone, memory, history
<1>18. CASE PollSignsIn(o)
  BY <1>18, <1>0 DEF PollSignsIn, BeginGeneration, Statuses, history
<1>19. CASE MeRefused(o)
  BY <1>19, <1>0 DEF MeRefused, history, memory
<1>20. CASE MeUnavailable(o)
  BY <1>20, <1>0, OpFacts
  DEF MeUnavailable, Statuses, Remember, Published, memory, history
<1>21. CASE MeTooLate(o)
  BY <1>21, <1>0 DEF MeTooLate, history, memory
<1>22. CASE MeUnusable(o)
  BY <1>22, <1>0 DEF MeUnusable, history, memory
<1>23. CASE MeAccepted(o)
  BY <1>23, <1>0, OpFacts DEF MeAccepted, Statuses, memory, history
<1>24. CASE RevokeDone(o)
  BY <1>24, <1>0, OpFacts DEF RevokeDone, Published
<1>25. CASE LogoutDone(o)
  BY <1>25, <1>0, OpFacts DEF LogoutDone, memory
<1>26. CASE LogoutUnavailable(o)
  BY <1>26, <1>0, OpFacts
  DEF LogoutUnavailable, Statuses, Remember, Published, history
<1>27. CASE UseDone(o)
  BY <1>27, <1>0 DEF UseDone, history, memory
<1>28. CASE UseRefused(o)
  BY <1>28, <1>0 DEF UseRefused, BeginGeneration, Statuses, history
<1>29. CASE ReadTimeout(o)
  BY <1>29, <1>0 DEF ReadTimeout, Statuses, Published, history
<1> QED
  BY <1>1, <1>2, <1>3, <1>4, <1>5, <1>6, <1>7, <1>8, <1>9, <1>10, <1>11,
     <1>12, <1>13, <1>14, <1>15, <1>16, <1>17, <1>18, <1>19, <1>20, <1>21,
     <1>22, <1>23, <1>24, <1>25, <1>26, <1>27, <1>28, <1>29
  DEF OpStep, Begin, FileStep, Answer

\* A sign-in waits for its callback only while it is the latest operation.
LEMMA PendingStep ==
    ASSUME PendingIsCurrent, NEW o \in Ops, OpStep(o)
    PROVE  PendingIsCurrent'
<1> USE DEF PendingIsCurrent
<1>1. CASE \E k \in Readers : BeginReader(o, k)
  BY <1>1 DEF BeginReader, BeginGeneration
<1>2. CASE \E k \in Passive \cup {"login", "register"} : BeginSignIn(o, k)
  BY <1>2 DEF BeginSignIn, BeginGeneration
<1>3. CASE BeginPoll(o)
  BY <1>3 DEF BeginPoll, history, memory
<1>4. CASE BeginInvalidate(o)
  BY <1>4 DEF BeginInvalidate, BeginGeneration
<1>5. CASE BeginUse(o)
  BY <1>5 DEF BeginUse, history, memory
<1>6. CASE Callback(o)
  BY <1>6 DEF Callback, history, memory
<1>7. CASE StartMutation(o)
  BY <1>7 DEF StartMutation, history, memory
<1>8. CASE WriteDone(o)
  BY <1>8 DEF WriteDone, history, memory
<1>9. CASE WriteFailed(o)
  BY <1>9 DEF WriteFailed, history, memory
<1>10. CASE UndoDone(o)
  BY <1>10 DEF UndoDone, history, memory
<1>11. CASE DeleteDone(o)
  BY <1>11 DEF DeleteDone, history, memory
<1>12. CASE DeleteFailed(o)
  BY <1>12 DEF DeleteFailed, history, memory
<1>13. CASE AgentRead(o)
  BY <1>13 DEF AgentRead, history, memory
<1>14. CASE AuthenticationFails(o)
  BY <1>14 DEF AuthenticationFails, history, memory
<1>15. CASE Registered(o)
  BY <1>15 DEF Registered, history, memory
<1>16. CASE Prepared(o)
  BY <1>16 DEF Prepared, Publishes, Latest
<1>17. CASE LoginDone(o)
  BY <1>17 DEF LoginDone, history, memory
<1>18. CASE PollSignsIn(o)
  BY <1>18 DEF PollSignsIn, BeginGeneration
<1>19. CASE MeRefused(o)
  BY <1>19 DEF MeRefused, history, memory
<1>20. CASE MeUnavailable(o)
  BY <1>20 DEF MeUnavailable, history, memory
<1>21. CASE MeTooLate(o)
  BY <1>21 DEF MeTooLate, history, memory
<1>22. CASE MeUnusable(o)
  BY <1>22 DEF MeUnusable, history, memory
<1>23. CASE MeAccepted(o)
  BY <1>23 DEF MeAccepted, history, memory
<1>24. CASE RevokeDone(o)
  BY <1>24 DEF RevokeDone, history, memory
<1>25. CASE LogoutDone(o)
  BY <1>25 DEF LogoutDone, history, memory
<1>26. CASE LogoutUnavailable(o)
  BY <1>26 DEF LogoutUnavailable, history, memory
<1>27. CASE UseDone(o)
  BY <1>27 DEF UseDone, history, memory
<1>28. CASE UseRefused(o)
  BY <1>28 DEF UseRefused, BeginGeneration
<1>29. CASE ReadTimeout(o)
  BY <1>29 DEF ReadTimeout, history, memory
<1> QED
  BY <1>1, <1>2, <1>3, <1>4, <1>5, <1>6, <1>7, <1>8, <1>9, <1>10, <1>11,
     <1>12, <1>13, <1>14, <1>15, <1>16, <1>17, <1>18, <1>19, <1>20, <1>21,
     <1>22, <1>23, <1>24, <1>25, <1>26, <1>27, <1>28, <1>29
  DEF OpStep, Begin, FileStep, Answer

\* Who uses the file is the first of the queue of changes.
AtTheFile == {"writing", "undoing", "deleting"}

Front ==
    \A o \in Ops : op[o].pc \in AtTheFile => chain # <<>> /\ Head(chain) = o

LEMMA QueuesKept ==
    ASSUME OpInv, Scalars, Queues, Front, NEW o \in Ops, OpStep(o)
    PROVE  /\ Queues'
           /\ op'[o].pc \in AtTheFile => chain' # <<>> /\ Head(chain') = o
           /\ \A p \in Ops \ {o} : op[p].pc \in AtTheFile
                 => chain' # <<>> /\ Head(chain') = p
<1> USE DEF OpTypes
<1>0. /\ op \in [Ops -> OpRecords] /\ op[o] \in OpRecords
      /\ generation \in Nat /\ generation + 1 \in Nat
      /\ credential \in MaybeToken
      /\ io \in Seq(Ops \cup {SharedRead, SharedDrop}) /\ chain \in Seq(Ops)
      /\ \A p \in Ops : op[p].pc \in AtTheFile => chain # <<>> /\ Head(chain) = p
  BY OpFacts DEF Queues, Front
<1>a. Append(chain, o) \in Seq(Ops) /\ Append(chain, o) # <<>>
      /\ chain # <<>> => Head(Append(chain, o)) = Head(chain)
  BY <1>0
<1> USE DEF Queues
<1>1. CASE \E k \in Readers : BeginReader(o, k)
  <2>1. PICK k \in Readers : BeginReader(o, k)
    BY <1>1
  <2> DEFINE r == Started(k, generation + 1)
  <2>2. r \in OpRecords /\ r.kind = k /\ r.after = "none" /\ k \in Readers \cup {"use"}
    <3>1. k \in Kinds
      BY <2>1, SMT DEF Kinds
    <3> QED
      BY <1>0, <2>1, <3>1, StartedIs
  <2>3. CASE op' = [op EXCEPT ![o] = AfterRead(r, credential)] /\ io' = io
    <3>1. op'[o].pc \notin AtTheFile
      BY <1>0, <2>2, <2>3, AfterReadIs DEF AtTheFile
    <3> QED
      BY <1>0, <2>1, <2>3, <3>1 DEF BeginReader
  <2>4. CASE op' = [op EXCEPT ![o] = [r EXCEPT !.pc = "reading"]]
             /\ io' \in {io, Append(io, SharedRead)}
    <3>1. op'[o].pc \notin AtTheFile
      BY <1>0, <2>2, <2>4 DEF AtTheFile, OpRecords
    <3>2. io' \in Seq(Ops \cup {SharedRead, SharedDrop})
      <4>1. Append(io, SharedRead) \in Seq(Ops \cup {SharedRead, SharedDrop})
        BY <1>0
      <4> QED
        BY <1>0, <2>4, <4>1
    <3> QED
      BY <1>0, <2>1, <3>1, <3>2 DEF BeginReader
  <2> QED
    BY <2>1, <2>3, <2>4 DEF BeginReader, Reading
<1>2. CASE \E k \in Passive \cup {"login", "register"} : BeginSignIn(o, k)
  BY <1>2, <1>0 DEF BeginSignIn, Started, AtTheFile
<1>3. CASE BeginPoll(o)
  BY <1>3, <1>0 DEF BeginPoll, Started, AtTheFile
<1>4. CASE BeginInvalidate(o)
  <2>1. op'[o].pc \notin AtTheFile
    BY <1>0, <1>4 DEF BeginInvalidate, Started, AtTheFile
  <2> QED
    BY <1>0, <1>4, <2>1 DEF BeginInvalidate
<1>5. CASE BeginUse(o)
  <2>1. BeginUse(o)
    BY <1>5
  <2> DEFINE r == Started("use", generation)
  <2>2. r \in OpRecords /\ r.kind = "use" /\ r.after = "none" /\ "use" \in Readers \cup {"use"}
    <3>1. "use" \in Kinds
      BY SMT DEF Kinds
    <3> QED
      BY <1>0, <2>1, <3>1, StartedIs
  <2>3. CASE op' = [op EXCEPT ![o] = AfterRead(r, credential)] /\ io' = io
    <3>1. op'[o].pc \notin AtTheFile
      BY <1>0, <2>2, <2>3, AfterReadIs DEF AtTheFile
    <3> QED
      BY <1>0, <2>1, <2>3, <3>1 DEF BeginUse
  <2>4. CASE op' = [op EXCEPT ![o] = [r EXCEPT !.pc = "reading"]]
             /\ io' \in {io, Append(io, SharedRead)}
    <3>1. op'[o].pc \notin AtTheFile
      BY <1>0, <2>2, <2>4 DEF AtTheFile, OpRecords
    <3>2. io' \in Seq(Ops \cup {SharedRead, SharedDrop})
      <4>1. Append(io, SharedRead) \in Seq(Ops \cup {SharedRead, SharedDrop})
        BY <1>0
      <4> QED
        BY <1>0, <2>4, <4>1
    <3> QED
      BY <1>0, <2>1, <3>1, <3>2 DEF BeginUse
  <2> QED
    BY <2>1, <2>3, <2>4 DEF BeginUse, Reading
<1>6. CASE Callback(o)
  BY <1>6, <1>0 DEF Callback, Started, AtTheFile
<1>7. CASE StartMutation(o)
  <2>1. chain # <<>> /\ Head(chain) = o /\ op[o].pc \notin AtTheFile
    BY <1>7 DEF StartMutation, AtTheFile
  <2>2. \A p \in Ops \ {o} : op[p].pc \notin AtTheFile
    BY <1>0, <2>1
  <2>3. CASE chain' = chain /\ io' = Append(io, o)
    BY <1>0, <2>1, <2>2, <2>3
  <2>4. CASE chain' = Tail(chain) /\ io' = io /\ op' = Revoke(o, "none")
    BY <1>0, <2>1, <2>2, <2>4, RevokeSets DEF AtTheFile
  <2> QED
    BY <1>7, <2>3, <2>4 DEF StartMutation
<1>8. CASE WriteDone(o)
  <2>1. op[o].pc \in AtTheFile /\ io # <<>>
    BY <1>8 DEF WriteDone, Served, AtTheFile
  <2>2. chain # <<>> /\ Head(chain) = o /\ \A p \in Ops \ {o} : op[p].pc \notin AtTheFile
    BY <1>0, <2>1
  <2>3. CASE op' = End(o) /\ io' = Tail(io) /\ chain' = Tail(chain)
    BY <1>0, <2>1, <2>2, <2>3, EndSets, EndedIs DEF AtTheFile
  <2>4. CASE io' = Append(Tail(io), o) /\ chain' = chain
    BY <1>0, <2>1, <2>2, <2>4
  <2> QED
    BY <1>8, <2>3, <2>4 DEF WriteDone
<1>9. CASE WriteFailed(o)
  <2>1. op[o].pc \in AtTheFile /\ io # <<>>
    BY <1>9 DEF WriteFailed, Served, AtTheFile
  <2>2. chain # <<>> /\ Head(chain) = o /\ \A p \in Ops \ {o} : op[p].pc \notin AtTheFile
    BY <1>0, <2>1
  <2>3. op' = Revoke(o, "signed_out") /\ io' = Tail(io) /\ chain' = Tail(chain)
    BY <1>9 DEF WriteFailed
  <2> QED
    BY <1>0, <2>1, <2>2, <2>3, RevokeSets DEF AtTheFile, Statuses
<1>10. CASE UndoDone(o)
  <2>1. op[o].pc \in AtTheFile /\ io # <<>>
    BY <1>10 DEF UndoDone, Served, AtTheFile
  <2>2. chain # <<>> /\ Head(chain) = o /\ \A p \in Ops \ {o} : op[p].pc \notin AtTheFile
    BY <1>0, <2>1
  <2>3. op' = Revoke(o, "none") /\ io' = Tail(io) /\ chain' = Tail(chain)
    BY <1>10 DEF UndoDone
  <2> QED
    BY <1>0, <2>1, <2>2, <2>3, RevokeSets DEF AtTheFile, Statuses
<1>11. CASE DeleteDone(o)
  <2>1. op[o].pc \in AtTheFile /\ io # <<>>
    BY <1>11 DEF DeleteDone, Served, AtTheFile
  <2>2. chain # <<>> /\ Head(chain) = o /\ \A p \in Ops \ {o} : op[p].pc \notin AtTheFile
    BY <1>0, <2>1
  <2>3. op' = End(o) /\ io' = Tail(io) /\ chain' = Tail(chain)
    BY <1>11 DEF DeleteDone
  <2> QED
    BY <1>0, <2>1, <2>2, <2>3, EndSets, EndedIs DEF AtTheFile, Statuses
<1>12. CASE DeleteFailed(o)
  <2>1. op[o].pc \in AtTheFile /\ io # <<>>
    BY <1>12 DEF DeleteFailed, Served, AtTheFile
  <2>2. chain # <<>> /\ Head(chain) = o /\ \A p \in Ops \ {o} : op[p].pc \notin AtTheFile
    BY <1>0, <2>1
  <2>3. op' = End(o) /\ io' = Tail(io) /\ chain' = Tail(chain)
    BY <1>12 DEF DeleteFailed
  <2> QED
    BY <1>0, <2>1, <2>2, <2>3, EndSets, EndedIs DEF AtTheFile, Statuses
<1>13. CASE AgentRead(o)
  <2>1. io' = io /\ op'[o].pc \notin AtTheFile
    BY <1>0, <1>13, ToSets, EndSets, EndedIs
    DEF AgentRead, AtTheFile, PCs
  <2>2. chain' \in {chain, Append(chain, o)}
    BY <1>13 DEF AgentRead
  <2>3. chain' \in Seq(Ops) /\ (chain # <<>> => chain' # <<>> /\ Head(chain') = Head(chain))
    BY <1>0, <1>a, <2>2
  <2>4. io' \in Seq(Ops \cup {SharedRead, SharedDrop})
    BY <1>0, <2>1
  <2> HIDE DEF Queues
  <2> QED
    BY <1>0, <2>1, <2>3, <2>4 DEF Queues
<1>14. CASE AuthenticationFails(o)
  BY <1>14, <1>0, EndSets, EndedIs DEF AuthenticationFails, AtTheFile
<1>15. CASE Registered(o)
  BY <1>15, <1>0, ToSets, EndSets, EndedIs DEF Registered, AtTheFile, PCs
<1>16. CASE Prepared(o)
  BY <1>16, <1>0, EndSets, EndedIs DEF Prepared, AtTheFile
<1>17. CASE LoginDone(o)
  BY <1>17, <1>0 DEF LoginDone, AtTheFile, OpRecords
<1>18. CASE PollSignsIn(o)
  BY <1>18, <1>0 DEF PollSignsIn, AtTheFile, OpRecords
<1>19. CASE MeRefused(o)
  <2>1. io' = io /\ op'[o].pc \notin AtTheFile
    BY <1>0, <1>19, ToSets, RevokeSets
    DEF MeRefused, AtTheFile, Reject, PCs, Statuses
  <2>2. chain' \in {chain, Append(chain, o)}
    BY <1>19 DEF MeRefused, Reject
  <2>3. chain' \in Seq(Ops) /\ (chain # <<>> => chain' # <<>> /\ Head(chain') = Head(chain))
    BY <1>0, <1>a, <2>2
  <2>4. io' \in Seq(Ops \cup {SharedRead, SharedDrop})
    BY <1>0, <2>1
  <2> HIDE DEF Queues
  <2> QED
    BY <1>0, <2>1, <2>3, <2>4 DEF Queues
<1>20. CASE MeUnavailable(o)
  BY <1>20, <1>0, RevokeSets, EndSets, EndedIs
  DEF MeUnavailable, AtTheFile, Statuses
<1>21. CASE MeTooLate(o)
  <2>1. io' = io /\ op'[o].pc \notin AtTheFile
    BY <1>0, <1>21, RevokeSets, EndSets, EndedIs
    DEF MeTooLate, AtTheFile, Statuses
  <2>2. chain' \in {chain, Append(chain, o)}
    BY <1>21 DEF MeTooLate
  <2>3. chain' \in Seq(Ops) /\ (chain # <<>> => chain' # <<>> /\ Head(chain') = Head(chain))
    BY <1>0, <1>a, <2>2
  <2>4. io' \in Seq(Ops \cup {SharedRead, SharedDrop})
    BY <1>0, <2>1
  <2> HIDE DEF Queues
  <2> QED
    BY <1>0, <2>1, <2>3, <2>4 DEF Queues
<1>22. CASE MeUnusable(o)
  <2>1. io' = io /\ op'[o].pc \notin AtTheFile
    BY <1>0, <1>22, ToSets, RevokeSets
    DEF MeUnusable, AtTheFile, Reject, PCs, Statuses
  <2>2. chain' \in {chain, Append(chain, o)}
    BY <1>22 DEF MeUnusable, Reject
  <2>3. chain' \in Seq(Ops) /\ (chain # <<>> => chain' # <<>> /\ Head(chain') = Head(chain))
    BY <1>0, <1>a, <2>2
  <2>4. io' \in Seq(Ops \cup {SharedRead, SharedDrop})
    BY <1>0, <2>1
  <2> HIDE DEF Queues
  <2> QED
    BY <1>0, <2>1, <2>3, <2>4 DEF Queues
<1>23. CASE MeAccepted(o)
  <2>1. io' = io /\ op'[o].pc \notin AtTheFile
    BY <1>0, <1>23, ToSets, EndSets, EndedIs
    DEF MeAccepted, AtTheFile, PCs
  <2>2. chain' \in {chain, Append(chain, o)}
    BY <1>23 DEF MeAccepted
  <2>3. chain' \in Seq(Ops) /\ (chain # <<>> => chain' # <<>> /\ Head(chain') = Head(chain))
    BY <1>0, <1>a, <2>2
  <2>4. io' \in Seq(Ops \cup {SharedRead, SharedDrop})
    BY <1>0, <2>1
  <2> HIDE DEF Queues
  <2> QED
    BY <1>0, <2>1, <2>3, <2>4 DEF Queues
<1>24. CASE RevokeDone(o)
  BY <1>24, <1>0, EndSets, EndedIs DEF RevokeDone, AtTheFile
<1>25. CASE LogoutDone(o)
  <2>1. io' = io /\ op'[o].pc \notin AtTheFile
    BY <1>0, <1>25, ToSets
    DEF LogoutDone, AtTheFile, PCs
  <2>2. chain' \in {chain, Append(chain, o)}
    BY <1>25 DEF LogoutDone
  <2>3. chain' \in Seq(Ops) /\ (chain # <<>> => chain' # <<>> /\ Head(chain') = Head(chain))
    BY <1>0, <1>a, <2>2
  <2>4. io' \in Seq(Ops \cup {SharedRead, SharedDrop})
    BY <1>0, <2>1
  <2> HIDE DEF Queues
  <2> QED
    BY <1>0, <2>1, <2>3, <2>4 DEF Queues
<1>26. CASE LogoutUnavailable(o)
  BY <1>26, <1>0, EndSets, EndedIs DEF LogoutUnavailable, AtTheFile
<1>27. CASE UseDone(o)
  BY <1>27, <1>0, EndSets, EndedIs DEF UseDone, AtTheFile
<1>28. CASE UseRefused(o)
  BY <1>28, <1>0 DEF UseRefused, AtTheFile
<1>29. CASE ReadTimeout(o)
  BY <1>29, <1>0, EndSets, EndedIs DEF ReadTimeout, AtTheFile
<1> QED
  BY <1>1, <1>2, <1>3, <1>4, <1>5, <1>6, <1>7, <1>8, <1>9, <1>10, <1>11,
     <1>12, <1>13, <1>14, <1>15, <1>16, <1>17, <1>18, <1>19, <1>20, <1>21,
     <1>22, <1>23, <1>24, <1>25, <1>26, <1>27, <1>28, <1>29
  DEF OpStep, Begin, FileStep, Answer

(***************************************************************************)
(* Steps of no single operation.                                           *)
(***************************************************************************)
\* The shared read ends, possibly with the deletion of what it found: the
\* operations that waited for it go on or end, the others stay, and nobody
\* knows the outcome but the latest.
LEMMA ReadStep ==
    ASSUME OpInv, Scalars, ReadDone \/ DropDone
    PROVE  /\ op' \in [Ops -> OpRecords] /\ Scalars'
           /\ generation' = generation /\ closed' = closed
           /\ \A o \in Ops : op[o].pc # "reading" => op'[o] = op[o]
           /\ \A o \in Ops : op[o].pc = "reading" =>
                /\ Fits(op'[o])
                /\ op'[o].gen \in {0, op[o].gen}
                /\ op'[o].pc \in {"agent", "me", "leaving", "using", "done"}
           /\ status' = "checking" =>
                /\ status = "checking"
                /\ ~closed => \A o \in Ops :
                     op[o].pc = "reading" /\ op[o].kind # "use" /\ Latest(o)
                     => /\ op'[o].pc # "done" /\ op'[o].kind = op[o].kind
                        /\ op'[o].gen = op[o].gen
           /\ memory' # memory => \E o \in Ops : op[o].pc = "reading" /\ Latest(o)
<1>0. /\ \A o \in Ops : /\ op[o] \in OpRecords /\ Fits(op[o])
                        /\ op[o].gen \in Nat
      /\ store \in MaybeToken \cup {Damaged} /\ credential \in MaybeToken
      /\ op \in [Ops -> OpRecords]
  BY OpFacts DEF OpInv, OpTypes, Scalars
<1>1. \A o \in Ops : op[o].pc = "reading" =>
        op[o].kind \in Readers \cup {"use"} /\ op[o].after = "none"
  BY <1>0 DEF Fits
<1>2. /\ generation' = generation /\ closed' = closed
      /\ store' \in {store, NoToken} /\ NoToken \in MaybeToken
      /\ UNCHANGED <<pending, issued, settled, revoked, broken>>
  BY EnterpriseSessionAssumption DEF ReadDone, DropDone, NoToken, MaybeToken
<1> DEFINE asks == {o \in Waiting : op[o].kind # "use" /\ Publishes(o)}
<1>3. CASE /\ store # Damaged
           /\ op' = [o \in Ops |-> IF o \in Waiting
                                   THEN AfterRead(op[o], store) ELSE op[o]]
           /\ credential' = IF \E o \in Waiting : Latest(o)
                            THEN store ELSE credential
           /\ status' = IF store = NoToken /\ asks # {}
                        THEN "signed_out" ELSE status
           /\ cleared' \in {generation, cleared}
  <2>0. store \in MaybeToken
    BY <1>0, <1>3
  <2>1. \A o \in Ops : op[o].pc = "reading" => op'[o] = AfterRead(op[o], store)
    BY <1>3 DEF Waiting
  <2>2. \A o \in Ops : op[o].pc = "reading" =>
          /\ op'[o] \in OpRecords /\ Fits(op'[o])
          /\ op'[o].gen \in {0, op[o].gen}
          /\ op'[o].pc \in {"agent", "me", "leaving", "using", "done"}
          /\ op'[o].pc # "done" => op'[o].kind = op[o].kind
                                   /\ op'[o].gen = op[o].gen
          /\ op[o].kind # "use" => (op'[o].pc = "done" <=> store = NoToken)
    BY <1>0, <1>1, <2>0, <2>1, AfterReadIs
  <2>3. \A o \in Ops : op[o].pc # "reading" => op'[o] = op[o]
    BY <1>3 DEF Waiting
  <2>4. op' \in [Ops -> OpRecords]
    BY <1>0, <1>3, <2>2, <2>3
  <2>5. Scalars'
    BY <1>0, <1>2, <1>3 DEF Scalars, Statuses
  <2>6. ASSUME status' = "checking", ~closed, NEW o \in Ops,
               op[o].pc = "reading", op[o].kind # "use", Latest(o)
        PROVE  op'[o].pc # "done"
    <3>1. o \in asks
      BY <2>6 DEF Waiting, Publishes
    <3>2. store # NoToken
      BY <1>3, <2>6, <3>1
    <3> QED
      BY <2>2, <2>6, <3>2
  <2>7. status' = "checking" => status = "checking"
    BY <1>3
  <2>8. memory' # memory => \E o \in Ops : op[o].pc = "reading" /\ Latest(o)
    BY <1>3 DEF memory, Waiting, Publishes
  <2> QED
    BY <1>2, <2>2, <2>3, <2>4, <2>5, <2>6, <2>7, <2>8
<1>4. CASE /\ op' = [o \in Ops |-> IF o \in Waiting THEN Ended ELSE op[o]]
           /\ status' = IF \E o \in Waiting : Publishes(o)
                        THEN "signed_out" ELSE status
           /\ UNCHANGED <<credential, cleared>>
  <2>1. \A o \in Ops : op'[o] = IF op[o].pc = "reading" THEN Ended ELSE op[o]
    BY <1>4 DEF Waiting
  <2>2. op' \in [Ops -> OpRecords]
    BY <1>0, <1>4, <2>1, EndedIs
  <2>3. Scalars'
    BY <1>2, <1>4 DEF Scalars, Statuses
  <2>4. status' = "checking" =>
          /\ status = "checking"
          /\ ~closed => \A o \in Ops : ~(op[o].pc = "reading" /\ Latest(o))
    BY <1>4 DEF Waiting, Publishes
  <2>5. memory' # memory => \E o \in Ops : op[o].pc = "reading" /\ Latest(o)
    BY <1>4 DEF memory, Waiting, Publishes
  <2> QED
    BY <1>2, <2>1, <2>2, <2>3, <2>4, <2>5, EndedIs
<1> QED
  BY <1>3, <1>4 DEF ReadDone, DropDone, ReadersFail

(***************************************************************************)
(* The invariant.                                                          *)
(***************************************************************************)
\* Clients that see "checking" will be answered by the latest operation.
Checked ==
    status = "checking" /\ generation > 0 /\ ~closed
    => \E o \in Ops : Latest(o) /\ Answers(op[o])

\* NoTokenLeaks, in the words of the lemmas.
Kept ==
    \A t \in 1..issued :
        t \in settled \/ \E o \in Ops : HoldsToken(op[o]) /\ op[o].tok = t

SessionInv ==
    /\ Scalars /\ OpInv /\ Queues /\ Front
    /\ PendingIsCurrent /\ Kept /\ Checked

LEMMA InitEstablishes == Init => SessionInv
<1> SUFFICES ASSUME Init PROVE SessionInv
  OBVIOUS
<1> USE EnterpriseSessionAssumption
<1>1. Scalars
  <2>1. /\ store \in {0, 1, Damaged} /\ issued \in {0, 1}
        /\ 1 \in 0..MaxTokens /\ 0 \in 0..MaxTokens
    BY DEF Init, NoToken
  <2>2. settled \in SUBSET (0..MaxTokens)
    BY DEF Init, Tokens
  <2> QED
    BY <2>1, <2>2 DEF Init, Scalars, Statuses, MaybeToken, NoToken
<1>2. OpInv
  BY FreeIs DEF Init, OpInv, OpTypes, Dated
<1>3. PendingIsCurrent /\ Checked
  BY DEF Init, PendingIsCurrent, Checked
<1>4. Kept
  BY DEF Init, Kept, Tokens, NoToken
<1>5. Queues /\ Front
  BY DEF Init, Queues, Front, AtTheFile, Free
<1> QED
  BY <1>1, <1>2, <1>3, <1>4, <1>5 DEF SessionInv

LEMMA OpInvStep ==
    ASSUME OpInv, Scalars, [Next]_vars
    PROVE  OpInv'
<1>0. /\ op \in [Ops -> OpRecords] /\ generation \in Nat
      /\ \A o \in Ops : Fits(op[o]) /\ Dated(op[o]) /\ op[o].gen \in Nat
  BY OpFacts DEF OpInv, OpTypes, Scalars
<1>1. ASSUME NEW p \in Ops, OpStep(p)
      PROVE  OpInv'
  <2>1. /\ op' = [op EXCEPT ![p] = op'[p]] /\ op'[p] \in OpRecords
        /\ Fits(op'[p]) /\ Dated(op[p])'
        /\ generation <= generation' /\ closed' = closed
    BY <1>1, StepIsLocal
  <2>2. generation' \in Nat
    BY <1>1, ScalarsStep DEF Scalars
  <2>3. op' \in [Ops -> OpRecords]
    BY <1>0, <2>1
  <2>4. ASSUME NEW o \in Ops PROVE Fits(op'[o]) /\ Dated(op[o])'
    <3>1. CASE o = p
      BY <2>1, <3>1
    <3>2. CASE o # p
      <4>1. op'[o] = op[o]
        BY <1>0, <2>1, <3>2
      <4> QED
        BY <1>0, <2>1, <2>2, <4>1 DEF Dated
    <3> QED
      BY <3>1, <3>2
  <2> QED
    BY <2>3, <2>4 DEF OpInv, OpTypes
<1>2. CASE ReadDone \/ DropDone
  <2>1. ASSUME NEW o \in Ops PROVE Fits(op'[o]) /\ Dated(op[o])'
    BY <1>0, <1>2, ReadStep DEF Dated
  <2> QED
    BY <1>2, <2>1, ReadStep DEF OpInv, OpTypes
<1>3. CASE PendingEnds
  BY <1>0, <1>3 DEF PendingEnds, OpInv, OpTypes, Dated
<1>4. CASE Close
  BY <1>0, <1>4 DEF Close, OpInv, OpTypes, Dated
<1>5. CASE UNCHANGED vars
  BY <1>0, <1>5 DEF vars, OpInv, OpTypes, Dated
<1>6. CASE DecodeFails
  BY <1>0, <1>6 DEF DecodeFails, OpInv, OpTypes, Dated
<1> QED
  BY <1>1, <1>2, <1>3, <1>4, <1>5, <1>6 DEF Next, OpStep

LEMMA ScalarsAlways ==
    ASSUME OpInv, Scalars, [Next]_vars
    PROVE  Scalars'
<1>1. ASSUME NEW p \in Ops, OpStep(p)
      PROVE  Scalars'
  BY <1>1, ScalarsStep
<1>2. CASE ReadDone \/ DropDone
  BY <1>2, ReadStep
<1>3. CASE PendingEnds
  BY <1>3 DEF PendingEnds, Scalars, Statuses, history
<1>4. CASE Close
  BY <1>4, EnterpriseSessionAssumption
  DEF Close, Scalars, MaybeToken, NoToken, history
<1>5. CASE UNCHANGED vars
  BY <1>5 DEF vars, Scalars
<1>6. CASE DecodeFails
  BY <1>6 DEF DecodeFails, Scalars, memory, history
<1> QED
  BY <1>1, <1>2, <1>3, <1>4, <1>5, <1>6 DEF Next, OpStep

\* One step may put clients into "checking" only together with somebody who
\* answers.
LEMMA CheckedStep ==
    ASSUME OpInv, Scalars, Checked, [Next]_vars
    PROVE  Checked'
<1> SUFFICES ASSUME status' = "checking", generation' > 0, ~closed'
             PROVE  \E o \in Ops : op'[o].gen = generation' /\ Answers(op'[o])
  BY DEF Checked, Latest
<1>0. /\ op \in [Ops -> OpRecords] /\ generation \in Nat
      /\ \A o \in Ops : Fits(op[o]) /\ op[o].gen \in Nat
  BY OpFacts DEF OpInv, OpTypes, Scalars
<1>1. ASSUME NEW p \in Ops, OpStep(p)
      PROVE  \E o \in Ops : op'[o].gen = generation' /\ Answers(op'[o])
  <2>1. closed' = closed /\ op' = [op EXCEPT ![p] = op'[p]]
    BY <1>1, StepIsLocal
  <2>2. \/ Answers(op'[p]) /\ op'[p].gen = generation'
        \/ /\ status = "checking" /\ generation' = generation
           /\ ~(Answers(op[p]) /\ Latest(p))
    BY <1>1, <2>1, CheckingStays
  <2>3. CASE /\ status = "checking" /\ generation' = generation
             /\ ~(Answers(op[p]) /\ Latest(p))
    <3>1. PICK o \in Ops : Latest(o) /\ Answers(op[o])
      BY <2>1, <2>3 DEF Checked
    <3>2. o # p
      BY <2>3, <3>1
    <3>3. op'[o] = op[o]
      BY <1>0, <2>1, <3>2
    <3> QED
      BY <2>3, <3>1, <3>3 DEF Latest
  <2> QED
    BY <2>2, <2>3
<1>2. CASE ReadDone \/ DropDone
  <2>1. /\ status = "checking" /\ generation' = generation /\ ~closed
    BY <1>2, ReadStep
  <2>2. PICK o \in Ops : Latest(o) /\ Answers(op[o])
    BY <2>1 DEF Checked
  <2>3. CASE op[o].pc # "reading"
    BY <1>2, <2>1, <2>2, <2>3, ReadStep DEF Latest
  <2>4. CASE op[o].pc = "reading"
    <3>1. op[o].kind \in {"refresh", "identity", "logout"}
      BY <1>0, <2>2, <2>4 DEF Fits, Readers, Answers
    <3>2. /\ op'[o].pc \notin {"free", "done"} /\ op'[o].kind = op[o].kind
          /\ op'[o].gen = op[o].gen
      BY <1>2, <2>1, <2>2, <2>4, <3>1, ReadStep
    <3> QED
      BY <2>1, <2>2, <3>1, <3>2 DEF Latest, Answers
  <2> QED
    BY <2>3, <2>4
<1>3. CASE PendingEnds
  BY <1>3 DEF PendingEnds
<1>4. CASE Close
  BY <1>4 DEF Close
<1>5. CASE UNCHANGED vars
  BY <1>5 DEF vars, Checked, Latest
<1>6. CASE DecodeFails
  BY <1>6 DEF DecodeFails, Checked, Latest, memory
<1> QED
  BY <1>1, <1>2, <1>3, <1>4, <1>5, <1>6 DEF Next, OpStep

LEMMA KeptStep ==
    ASSUME OpInv, Scalars, Kept, [Next]_vars
    PROVE  Kept'
<1> SUFFICES ASSUME NEW t \in 1..issued'
             PROVE  \/ t \in settled'
                    \/ \E o \in Ops : HoldsToken(op'[o]) /\ op'[o].tok = t
  BY DEF Kept
<1>0. /\ op \in [Ops -> OpRecords] /\ issued \in Nat
      /\ \A o \in Ops : Fits(op[o])
  BY EnterpriseSessionAssumption
  DEF OpInv, OpTypes, Scalars, MaybeToken
<1>1. ASSUME NEW p \in Ops, OpStep(p)
      PROVE  \/ t \in settled'
             \/ \E o \in Ops : HoldsToken(op'[o]) /\ op'[o].tok = t
  <2>1. op' = [op EXCEPT ![p] = op'[p]]
    BY <1>1, StepIsLocal
  <2>2. /\ settled \subseteq settled'
        /\ issued' \in {issued, issued + 1}
        /\ issued' # issued => HoldsToken(op'[p]) /\ op'[p].tok = issued'
        /\ HoldsToken(op[p]) /\ op[p].tok # NoToken
           => \/ op[p].tok \in settled'
              \/ HoldsToken(op'[p]) /\ op'[p].tok = op[p].tok
    BY <1>1, NoStepLeaks
  <2>3. CASE t \notin 1..issued
    <3>1. issued' # issued /\ t = issued'
      BY <1>0, <2>2, <2>3
    <3> QED
      BY <2>2, <3>1
  <2>4. CASE t \in 1..issued
    <3>1. t # NoToken
      BY <1>0, <2>4 DEF NoToken
    <3>2. CASE t \in settled
      BY <2>2, <3>2
    <3>3. CASE \E o \in Ops : HoldsToken(op[o]) /\ op[o].tok = t
      <4>1. PICK o \in Ops : HoldsToken(op[o]) /\ op[o].tok = t
        BY <3>3
      <4>2. CASE o = p
        BY <2>2, <3>1, <4>1, <4>2
      <4>3. CASE o # p
        BY <1>0, <2>1, <4>1, <4>3
      <4> QED
        BY <4>2, <4>3
    <3> QED
      BY <2>4, <3>2, <3>3 DEF Kept
  <2> QED
    BY <2>3, <2>4
<1>2. CASE ReadDone \/ DropDone
  <2>1. issued' = issued /\ settled' = settled
    BY <1>2 DEF ReadDone, DropDone
  <2>2. CASE t \in settled
    BY <2>1, <2>2
  <2>3. CASE \E o \in Ops : HoldsToken(op[o]) /\ op[o].tok = t
    <3>1. PICK o \in Ops : HoldsToken(op[o]) /\ op[o].tok = t
      BY <2>3
    <3>2. op[o].pc # "reading"
      BY <1>0, <3>1 DEF Fits, HoldsToken, SignIns, Readers
    <3> QED
      BY <1>2, <3>1, <3>2, ReadStep
  <2> QED
    BY <2>1, <2>2, <2>3 DEF Kept
<1>3. CASE PendingEnds
  BY <1>3 DEF PendingEnds, Kept, history
<1>4. CASE Close
  BY <1>4 DEF Close, Kept, history
<1>5. CASE UNCHANGED vars
  BY <1>5 DEF vars, Kept
<1>6. CASE DecodeFails
  BY <1>6 DEF DecodeFails, Kept, history
<1> QED
  BY <1>1, <1>2, <1>3, <1>4, <1>5, <1>6 DEF Next, OpStep


LEMMA QueuesStep ==
    ASSUME OpInv, Scalars, Queues, Front, [Next]_vars
    PROVE  Queues' /\ Front'
<1>0. /\ op \in [Ops -> OpRecords] /\ \A o \in Ops : Fits(op[o])
  BY DEF OpInv, OpTypes
<1>1. ASSUME NEW p \in Ops, OpStep(p)
      PROVE  Queues' /\ Front'
  <2>1. op' = [op EXCEPT ![p] = op'[p]]
    BY <1>1, StepIsLocal
  <2>2. /\ Queues'
        /\ op'[p].pc \in AtTheFile => chain' # <<>> /\ Head(chain') = p
        /\ \A o \in Ops \ {p} : op[o].pc \in AtTheFile
              => chain' # <<>> /\ Head(chain') = o
    BY <1>1, QueuesKept
  <2> QED
    BY <1>0, <2>1, <2>2 DEF Front
<1>2. CASE ReadDone \/ DropDone
  <2>1. chain' = chain /\ Queues'
    BY <1>2 DEF ReadDone, DropDone, Queues
  <2>2. \A o \in Ops : op'[o].pc \in AtTheFile => op[o].pc \in AtTheFile
    BY <1>2, ReadStep DEF AtTheFile
  <2> QED
    BY <2>1, <2>2 DEF Front
<1>3. CASE PendingEnds
  BY <1>3 DEF PendingEnds, Queues, Front
<1>4. CASE Close
  BY <1>4 DEF Close, Queues, Front
<1>5. CASE UNCHANGED vars
  BY <1>5 DEF vars, Queues, Front
<1>6. CASE DecodeFails
  <2>1. Append(Tail(io), SharedDrop) \in Seq(Ops \cup {SharedRead, SharedDrop})
    BY <1>6 DEF DecodeFails, Queues
  <2> QED
    BY <1>6, <2>1 DEF DecodeFails, Queues, Front
<1> QED
  BY <1>1, <1>2, <1>3, <1>4, <1>5, <1>6 DEF Next, OpStep

LEMMA NextKeeps == SessionInv /\ [Next]_vars => SessionInv'
<1> SUFFICES ASSUME SessionInv, [Next]_vars PROVE SessionInv'
  OBVIOUS
<1>1. /\ Scalars /\ OpInv /\ PendingIsCurrent /\ Kept /\ Checked
      /\ Queues /\ Front
  BY DEF SessionInv
<1>2. PendingIsCurrent'
  <2>1. ASSUME NEW p \in Ops, OpStep(p)
        PROVE  PendingIsCurrent'
    BY <1>1, <2>1, PendingStep
  <2> QED
    BY <1>1, <2>1
    DEF Next, OpStep, ReadDone, DecodeFails, DropDone, PendingEnds, Close, vars,
        PendingIsCurrent
<1> QED
  BY <1>1, <1>2, ScalarsAlways, OpInvStep, CheckedStep, KeptStep, QueuesStep
  DEF SessionInv

THEOREM SessionInvariant == Spec => []SessionInv
<1>1. Init => SessionInv
  BY InitEstablishes
<1>2. SessionInv /\ [Next]_vars => SessionInv'
  BY NextKeeps
<1> QED
  BY <1>1, <1>2, PTL DEF Spec

(***************************************************************************)
(* The theorems.                                                           *)
(***************************************************************************)
\* The session's variables, its queues and the records of its operations keep
\* their types: no deletion or write is ever served that is not the first of
\* the queue of changes.
THEOREM Typed == Spec => []TypeOK
<1>1. SessionInv => TypeOK
  BY DEF SessionInv, Scalars, Queues, OpInv, OpTypes, TypeOK
<1> QED
  BY <1>1, SessionInvariant, PTL

\* For any number of operations, a DingTalk sign-in that waits belongs to the
\* latest one.
THEOREM WaitingIsCurrent == Spec => []PendingIsCurrent
<1>1. SessionInv => PendingIsCurrent
  BY DEF SessionInv
<1> QED
  BY <1>1, SessionInvariant, PTL

\* For any number of operations and tokens, a token that the gateway issued is
\* held by a sign-in under way, was stored, or its revocation was asked for.
THEOREM TokensDoNotLeak == Spec => []NoTokenLeaks
<1>1. SessionInv => NoTokenLeaks
  BY DEF SessionInv, Kept, HoldsToken, NoTokenLeaks, Carries
<1> QED
  BY <1>1, SessionInvariant, PTL

\* For any number of operations, whoever sees "checking" will be answered by an
\* operation of the latest generation that is still under way.
THEOREM CheckingEnds == Spec => []CheckingIsAnswered
<1>1. SessionInv => CheckingIsAnswered
  BY DEF SessionInv, Checked, Answers, CheckingIsAnswered
<1> QED
  BY <1>1, SessionInvariant, PTL

\* For any number of operations, an answer that comes too late changes neither
\* the snapshot nor the token in memory.
THEOREM LateAnswersAreSilent == Spec => OnlyTheLatestSpeaks
<1> DEFINE Speaks ==
      memory' # memory =>
        \/ generation' # generation
        \/ pending = generation /\ pending' = 0
        \/ \E o \in Ops : Latest(o) /\ op'[o] # op[o]
<1>1. SessionInv /\ [Next]_vars => [Speaks]_vars
  <2> SUFFICES ASSUME SessionInv, Next, memory' # memory PROVE Speaks
    BY DEF vars, memory
  <2>0. OpInv /\ Scalars /\ generation \in Nat
    BY DEF SessionInv, Scalars
  <2>1. ASSUME NEW p \in Ops, OpStep(p) PROVE Speaks
    BY <2>0, <2>1, OnlyTheLatestMoves
  <2>2. CASE ReadDone \/ DropDone
    <3>1. PICK o \in Ops : op[o].pc = "reading" /\ Latest(o)
      BY <2>0, <2>2, ReadStep
    <3>2. op'[o].pc # "reading"
      BY <2>0, <2>2, <3>1, ReadStep
    <3> QED
      BY <3>1, <3>2
  <2>3. CASE PendingEnds
    BY <2>3 DEF PendingEnds
  <2>4. CASE Close
    BY <2>0, <2>4 DEF Close
  <2>5. CASE DecodeFails
    BY <2>5 DEF DecodeFails
  <2> QED
    BY <2>1, <2>2, <2>3, <2>4, <2>5 DEF Next, OpStep
<1> QED
  BY <1>1, SessionInvariant, PTL DEF Spec, OnlyTheLatestSpeaks

(***************************************************************************)
(* Signing out.                                                            *)
(***************************************************************************)
\* An operation that may still speak for its generation.  A poll of a QR code
\* and a request of a manager carry a generation that is not theirs until they
\* become operations.
Own(r) ==
    /\ r.pc \notin {"free", "done"}
    /\ ~(r.kind = "use" /\ r.pc \in {"reading", "using"})
    /\ ~(r.kind = "poll" /\ r.pc \in {"agent", "login"})

\* What a step of o does to the right to speak: a new generation leaves it to
\* o; otherwise o has it only if it had it or takes it over from the DingTalk
\* sign-in that waited, and gives it up when it leaves a sign-in waiting or
\* has removed the session.
Succession(o) ==
    \/ generation' = generation + 1 /\ pending' = 0 /\ cleared' = cleared
    \/ /\ generation' = generation
       /\ Own(op'[o]) /\ op'[o].gen = generation
          => \/ Own(op[o]) /\ Latest(o)
             \/ pending # 0 /\ pending = generation /\ pending' = 0
       /\ \/ pending' \in {0, pending}
          \/ Own(op[o]) /\ Latest(o) /\ ~Own(op'[o])
       /\ \/ cleared' = cleared
          \/ /\ cleared' = generation /\ pending' = pending
             /\ Own(op[o]) /\ Latest(o) /\ ~Own(op'[o])

LEMMA StepSucceeds ==
    ASSUME OpInv, Scalars, NEW o \in Ops, OpStep(o)
    PROVE  Succession(o)
<1> USE DEF OpTypes, Succession, Latest, Own
<1>0. /\ op \in [Ops -> OpRecords] /\ op[o] \in OpRecords
      /\ Fits(op[o]) /\ generation \in Nat /\ op[o].gen \in Nat
      /\ credential \in MaybeToken
  BY OpFacts
<1>1. CASE \E k \in Readers : BeginReader(o, k)
  BY <1>1 DEF BeginReader, BeginGeneration, history
<1>2. CASE \E k \in Passive \cup {"login", "register"} : BeginSignIn(o, k)
  BY <1>2 DEF BeginSignIn, BeginGeneration, history
<1>3. CASE BeginPoll(o)
  BY <1>3, <1>0 DEF BeginPoll, Started, memory, history
<1>4. CASE BeginInvalidate(o)
  BY <1>4 DEF BeginInvalidate, BeginGeneration, history
<1>5. CASE BeginUse(o)
  <2> DEFINE r == Started("use", generation)
  <2>1. "use" \in Kinds
    BY DEF Kinds
  <2>2. r \in OpRecords /\ r.kind = "use" /\ r.gen = generation
        /\ r.after = "none"
    BY <1>0, <2>1, StartedIs
  <2>3. generation' = generation /\ pending' = pending /\ cleared' = cleared
    BY <1>5 DEF BeginUse, history
  <2>4. CASE op' = [op EXCEPT ![o] = AfterRead(r, credential)]
    <3> DEFINE q == AfterRead(r, credential)
    <3>1. /\ Fits(q) /\ q.pc \in {"agent", "me", "leaving", "using", "done"}
          /\ q.pc # "done" => q.kind = "use"
      BY <1>0, <2>2, AfterReadIs
    <3>2. q.pc \in {"using", "done"}
      BY <3>1 DEF Fits, Passive, SignIns
    <3>3. op'[o] = q
      BY <1>0, <2>4
    <3> HIDE DEF q
    <3> QED
      BY <2>3, <3>1, <3>2, <3>3
  <2>5. CASE op' = [op EXCEPT ![o] = [r EXCEPT !.pc = "reading"]]
    BY <1>0, <2>2, <2>3, <2>5 DEF OpRecords
  <2> QED
    BY <1>5, <2>4, <2>5 DEF BeginUse, Reading
<1>6. CASE Callback(o)
  BY <1>6, <1>0 DEF Callback, memory, history
<1>7. CASE StartMutation(o)
  BY <1>7, <1>0, ToSets, RevokeSets DEF StartMutation, PCs, memory, history
<1>8. CASE WriteDone(o)
  BY <1>8, <1>0, ToSets, EndSets, EndedIs DEF WriteDone, Served, PCs
<1>9. CASE WriteFailed(o)
  BY <1>9, <1>0, RevokeSets DEF WriteFailed, Served, Statuses
<1>10. CASE UndoDone(o)
  BY <1>10, <1>0, RevokeSets DEF UndoDone, Served
<1>11. CASE DeleteDone(o)
  BY <1>11, <1>0, EndSets, EndedIs DEF DeleteDone, Served, Publishes
<1>12. CASE DeleteFailed(o)
  BY <1>12, <1>0, EndSets, EndedIs DEF DeleteFailed, Served
<1>13. CASE AgentRead(o)
  BY <1>13, <1>0, ToSets, EndSets, EndedIs
  DEF AgentRead, PCs, Fits, SignIns, Passive, memory, history
<1>14. CASE AuthenticationFails(o)
  BY <1>14, <1>0, EndSets, EndedIs DEF AuthenticationFails, history
<1>15. CASE Registered(o)
  BY <1>15, <1>0, ToSets DEF Registered, PCs, Fits, memory, history
<1>16. CASE Prepared(o)
  BY <1>16, <1>0, EndSets, EndedIs DEF Prepared, Publishes, Fits, memory, history
<1>17. CASE LoginDone(o)
  <2>1. /\ op'[o].kind = op[o].kind /\ op'[o].gen = op[o].gen
        /\ op[o].pc = "login" /\ op[o].kind # "poll" /\ op[o].kind \in SignIns
        /\ generation' = generation /\ pending' = pending /\ cleared' = cleared
    BY <1>0, <1>17 DEF LoginDone, OpRecords, Fits, memory, history
  <2> QED
    BY <2>1 DEF SignIns
<1>18. CASE PollSignsIn(o)
  BY <1>18, <1>0 DEF PollSignsIn, BeginGeneration, history
<1>19. CASE MeRefused(o)
  BY <1>19, <1>0, ToSets, RevokeSets
  DEF MeRefused, Reject, Statuses, PCs, memory, history
<1>20. CASE MeUnavailable(o)
  BY <1>20, <1>0, RevokeSets, EndSets, EndedIs
  DEF MeUnavailable, Statuses, memory, history
<1>21. CASE MeTooLate(o)
  BY <1>21, <1>0, RevokeSets, EndSets, EndedIs DEF MeTooLate, memory, history
<1>22. CASE MeUnusable(o)
  BY <1>22, <1>0, ToSets, RevokeSets
  DEF MeUnusable, Reject, Statuses, PCs, memory, history
<1>23. CASE MeAccepted(o)
  BY <1>23, <1>0, ToSets, EndSets, EndedIs DEF MeAccepted, PCs, memory, history
<1>24. CASE RevokeDone(o)
  BY <1>24, <1>0, EndSets, EndedIs DEF RevokeDone
<1>25. CASE LogoutDone(o)
  BY <1>25, <1>0, ToSets DEF LogoutDone, PCs, memory
<1>26. CASE LogoutUnavailable(o)
  BY <1>26, <1>0, EndSets, EndedIs DEF LogoutUnavailable, history
<1>27. CASE UseDone(o)
  BY <1>27, <1>0, EndSets, EndedIs DEF UseDone, memory, history
<1>28. CASE UseRefused(o)
  BY <1>28 DEF UseRefused, BeginGeneration, history
<1>29. CASE ReadTimeout(o)
  BY <1>29, <1>0, EndSets, EndedIs DEF ReadTimeout, history
<1> QED
  BY <1>1, <1>2, <1>3, <1>4, <1>5, <1>6, <1>7, <1>8, <1>9, <1>10, <1>11,
     <1>12, <1>13, <1>14, <1>15, <1>16, <1>17, <1>18, <1>19, <1>20, <1>21,
     <1>22, <1>23, <1>24, <1>25, <1>26, <1>27, <1>28, <1>29
  DEF OpStep, Begin, FileStep, Answer

\* A sign-in that takes its token out of the file again or revokes it.
Giving(r) == r.kind \in SignIns /\ r.pc \in {"undoing", "revoking"}

\* Whoever gives a token back goes on with it until the gateway is asked.
LEMMA GivingGoesOn ==
    ASSUME OpInv, Scalars, NEW o \in Ops, OpStep(o)
    PROVE  /\ revoked \subseteq revoked'
           /\ Giving(op[o]) =>
                \/ op[o].tok \in revoked'
                \/ Giving(op'[o]) /\ op'[o].tok = op[o].tok
<1> USE DEF OpTypes, Giving
<1>0. /\ op \in [Ops -> OpRecords] /\ op[o] \in OpRecords /\ Fits(op[o])
  BY OpFacts
<1>1. CASE \E k \in Readers : BeginReader(o, k)
  BY <1>1, <1>0 DEF BeginReader, Fresh, history
<1>2. CASE \E k \in Passive \cup {"login", "register"} : BeginSignIn(o, k)
  BY <1>2, <1>0 DEF BeginSignIn, Fresh, history
<1>3. CASE BeginPoll(o)
  BY <1>3, <1>0 DEF BeginPoll, Fresh, history
<1>4. CASE BeginInvalidate(o)
  BY <1>4, <1>0 DEF BeginInvalidate, Fresh, history
<1>5. CASE BeginUse(o)
  BY <1>5, <1>0 DEF BeginUse, Fresh, history
<1>6. CASE Callback(o)
  BY <1>6, <1>0 DEF Callback, Fresh, history
<1>7. CASE StartMutation(o)
  BY <1>7, <1>0 DEF StartMutation, history
<1>8. CASE WriteDone(o)
  BY <1>8, <1>0 DEF WriteDone, Served
<1>9. CASE WriteFailed(o)
  BY <1>9, <1>0 DEF WriteFailed, Served
<1>10. CASE UndoDone(o)
  BY <1>10, <1>0, RevokeSets DEF UndoDone, Served
<1>11. CASE DeleteDone(o)
  BY <1>11, <1>0 DEF DeleteDone, Served
<1>12. CASE DeleteFailed(o)
  BY <1>12, <1>0 DEF DeleteFailed, Served
<1>13. CASE AgentRead(o)
  BY <1>13, <1>0 DEF AgentRead, history
<1>14. CASE AuthenticationFails(o)
  BY <1>14, <1>0 DEF AuthenticationFails, history
<1>15. CASE Registered(o)
  BY <1>15, <1>0 DEF Registered, history
<1>16. CASE Prepared(o)
  BY <1>16, <1>0 DEF Prepared, history
<1>17. CASE LoginDone(o)
  BY <1>17, <1>0 DEF LoginDone, history
<1>18. CASE PollSignsIn(o)
  BY <1>18, <1>0 DEF PollSignsIn, history
<1>19. CASE MeRefused(o)
  BY <1>19, <1>0 DEF MeRefused, history
<1>20. CASE MeUnusable(o)
  BY <1>20, <1>0 DEF MeUnusable, history
<1>21. CASE MeUnavailable(o)
  BY <1>21, <1>0 DEF MeUnavailable, history
<1>22. CASE MeTooLate(o)
  BY <1>22, <1>0 DEF MeTooLate, history
<1>23. CASE MeAccepted(o)
  BY <1>23, <1>0 DEF MeAccepted, history
<1>24. CASE RevokeDone(o)
  BY <1>24, <1>0 DEF RevokeDone
<1>25. CASE LogoutDone(o)
  BY <1>25, <1>0 DEF LogoutDone
<1>26. CASE LogoutUnavailable(o)
  BY <1>26, <1>0 DEF LogoutUnavailable, history
<1>27. CASE UseDone(o)
  BY <1>27, <1>0 DEF UseDone, history
<1>28. CASE UseRefused(o)
  BY <1>28, <1>0 DEF UseRefused, history
<1>29. CASE ReadTimeout(o)
  BY <1>29, <1>0 DEF ReadTimeout, history
<1> QED
  BY <1>1, <1>2, <1>3, <1>4, <1>5, <1>6, <1>7, <1>8, <1>9, <1>10, <1>11,
     <1>12, <1>13, <1>14, <1>15, <1>16, <1>17, <1>18, <1>19, <1>20, <1>21,
     <1>22, <1>23, <1>24, <1>25, <1>26, <1>27, <1>28, <1>29
  DEF OpStep, Begin, FileStep, Answer


\* While no operation may speak for the latest generation, a step changes the
\* token in the file only to delete it, or to write one that is given back.
LEMMA SilentStep ==
    ASSUME OpInv, Scalars, NEW o \in Ops, OpStep(o),
           ~(Own(op[o]) /\ Latest(o)), generation' = generation
    PROVE  /\ credential' = credential
           /\ status' \in {status, "signed_out"}
           /\ broken => broken'
           /\ store' # NoToken =>
                \/ store' = store /\ (op[o].pc = "undoing" => broken')
                \/ /\ Giving(op'[o]) /\ op'[o].tok = store'
                   /\ broken' \/ op'[o].pc = "undoing"
<1> USE DEF OpTypes
<1>0. /\ op \in [Ops -> OpRecords] /\ op[o] \in OpRecords /\ Fits(op[o])
      /\ generation \in Nat /\ generation + 1 # generation
  BY OpFacts
<1>1. CASE \E k \in Readers : BeginReader(o, k)
  BY <1>1, <1>0 DEF BeginReader, BeginGeneration
<1>2. CASE \E k \in Passive \cup {"login", "register"} : BeginSignIn(o, k)
  BY <1>2, <1>0 DEF BeginSignIn, BeginGeneration
<1>3. CASE BeginPoll(o)
  BY <1>3, <1>0 DEF BeginPoll, Fresh, memory, history
<1>4. CASE BeginInvalidate(o)
  BY <1>4, <1>0 DEF BeginInvalidate, BeginGeneration
<1>5. CASE BeginUse(o)
  BY <1>5, <1>0 DEF BeginUse, Fresh, memory, history
<1>6. CASE Callback(o)
  BY <1>6, <1>0 DEF Callback, Fresh, memory, history
<1>7. CASE StartMutation(o)
  BY <1>7, <1>0 DEF StartMutation, memory, history
<1>8. CASE WriteDone(o)
  BY <1>8, <1>0, ToSets DEF WriteDone, Served, Publishes, Own, Giving, Fits, PCs, memory
<1>9. CASE WriteFailed(o)
  BY <1>9, <1>0, RevokeSets DEF WriteFailed, Served, Giving, Fits, Statuses, memory
<1>10. CASE UndoDone(o)
  BY <1>10, <1>0 DEF UndoDone, Served, memory
<1>11. CASE DeleteDone(o)
  BY <1>11, <1>0 DEF DeleteDone, Served, Remember, Published, Publishes, Own, Fits
<1>12. CASE DeleteFailed(o)
  BY <1>12, <1>0 DEF DeleteFailed, Served, Remember, Published, Publishes, Own, Fits
<1>13. CASE AgentRead(o)
  BY <1>13, <1>0 DEF AgentRead, memory, history
<1>14. CASE AuthenticationFails(o)
  BY <1>14, <1>0 DEF AuthenticationFails, Remember, Published, Publishes, Own, Fits, memory, history
<1>15. CASE Registered(o)
  BY <1>15, <1>0 DEF Registered, memory, history
<1>16. CASE Prepared(o)
  BY <1>16, <1>0 DEF Prepared, memory, history
<1>17. CASE LoginDone(o)
  BY <1>17, <1>0 DEF LoginDone, memory, history
<1>18. CASE PollSignsIn(o)
  BY <1>18, <1>0 DEF PollSignsIn, BeginGeneration
<1>19. CASE MeRefused(o)
  BY <1>19, <1>0 DEF MeRefused, memory, history
<1>20. CASE MeUnusable(o)
  BY <1>20, <1>0 DEF MeUnusable, memory, history
<1>21. CASE MeUnavailable(o)
  BY <1>21, <1>0 DEF MeUnavailable, Remember, Published, Publishes, Own, Fits, SignIns, memory, history
<1>22. CASE MeTooLate(o)
  BY <1>22, <1>0 DEF MeTooLate, memory, history
<1>23. CASE MeAccepted(o)
  BY <1>23, <1>0 DEF MeAccepted, Remember, Published, Publishes, Own, Fits, SignIns, memory, history
<1>24. CASE RevokeDone(o)
  BY <1>24, <1>0 DEF RevokeDone, Remember, Published, Publishes, Own, Fits, memory, history
<1>25. CASE LogoutDone(o)
  BY <1>25, <1>0 DEF LogoutDone, memory, history
<1>26. CASE LogoutUnavailable(o)
  BY <1>26, <1>0 DEF LogoutUnavailable, Remember, Published, Publishes, Own, Fits, memory, history
<1>27. CASE UseDone(o)
  BY <1>27, <1>0 DEF UseDone, memory, history
<1>28. CASE UseRefused(o)
  BY <1>28, <1>0 DEF UseRefused, BeginGeneration
<1>29. CASE ReadTimeout(o)
  BY <1>29, <1>0 DEF ReadTimeout, Remember, Published, Publishes, Own, Fits, memory, history
<1> QED
  BY <1>1, <1>2, <1>3, <1>4, <1>5, <1>6, <1>7, <1>8, <1>9, <1>10, <1>11,
     <1>12, <1>13, <1>14, <1>15, <1>16, <1>17, <1>18, <1>19, <1>20, <1>21,
     <1>22, <1>23, <1>24, <1>25, <1>26, <1>27, <1>28, <1>29
  DEF OpStep, Begin, FileStep, Answer

\* The shared read takes nobody the right to speak who keeps on waiting for an
\* answer, and gives it to nobody.  It finds the session removed only for a
\* sign-out that is the latest operation and an empty file.
LEMMA ReadSucceeds ==
    ASSUME OpInv, Scalars, ReadDone \/ DropDone
    PROVE  /\ pending' = pending /\ store' \in {store, NoToken}
           /\ chain' = chain /\ broken' = broken /\ revoked' = revoked
           /\ generation' = generation
           /\ credential' \in {credential, store}
           /\ status' \in {status, "signed_out"}
           /\ \A o \in Ops : Own(op'[o]) =>
                Own(op[o]) /\ op'[o].gen = op[o].gen
           /\ \A o \in Ops : Giving(op[o]) => op'[o] = op[o]
           /\ cleared' # cleared =>
                /\ cleared' = generation /\ status' = "signed_out"
                /\ store = NoToken /\ store' = NoToken /\ credential' = NoToken
                /\ \E o \in Ops : Own(op[o]) /\ Latest(o) /\ ~Own(op'[o])
<1>0. /\ \A o \in Ops : /\ op[o] \in OpRecords /\ Fits(op[o])
                        /\ op[o].gen \in Nat
      /\ store \in MaybeToken \cup {Damaged}
      /\ op \in [Ops -> OpRecords]
  BY OpFacts DEF OpInv, OpTypes, Scalars
<1>1. \A o \in Ops : op[o].pc = "reading" =>
        op[o].kind \in Readers \cup {"use"} /\ op[o].after = "none"
  BY <1>0 DEF Fits
<1>2. /\ pending' = pending /\ store' \in {store, NoToken} /\ chain' = chain
      /\ broken' = broken /\ revoked' = revoked /\ generation' = generation
  BY DEF ReadDone, DropDone
<1> DEFINE asks == {o \in Waiting : op[o].kind # "use" /\ Publishes(o)}
<1>3. CASE /\ store # Damaged
           /\ op' = [o \in Ops |-> IF o \in Waiting
                                   THEN AfterRead(op[o], store) ELSE op[o]]
           /\ credential' = IF \E o \in Waiting : Latest(o)
                            THEN store ELSE credential
           /\ status' = IF store = NoToken /\ asks # {}
                        THEN "signed_out" ELSE status
           /\ cleared' = IF /\ store = NoToken
                            /\ \E o \in asks : op[o].kind = "logout"
                         THEN generation ELSE cleared
  <2>0. store \in MaybeToken
    BY <1>0, <1>3
  <2>1. ASSUME NEW o \in Ops, op[o].pc = "reading"
        PROVE  /\ op'[o] = AfterRead(op[o], store)
               /\ op'[o].pc \in {"agent", "me", "leaving", "using", "done"}
               /\ op'[o].pc # "done" => op'[o].kind = op[o].kind
                                        /\ op'[o].gen = op[o].gen
               /\ Fits(op'[o])
               /\ op[o].kind # "use" => (op'[o].pc = "done" <=> store = NoToken)
    <3>1. op'[o] = AfterRead(op[o], store)
      BY <1>3, <2>1 DEF Waiting
    <3> QED
      BY <1>0, <1>1, <2>0, <2>1, <3>1, AfterReadIs
  <2>2. \A o \in Ops : op[o].pc # "reading" => op'[o] = op[o]
    BY <1>3 DEF Waiting
  <2>3. ASSUME NEW o \in Ops, Own(op'[o])
        PROVE  Own(op[o]) /\ op'[o].gen = op[o].gen
    <3>1. CASE op[o].pc # "reading"
      BY <2>2, <2>3, <3>1
    <3>2. CASE op[o].pc = "reading"
      <4>1. /\ op'[o].pc # "done" /\ op'[o].kind = op[o].kind
            /\ op'[o].gen = op[o].gen
        BY <2>1, <2>3, <3>2 DEF Own
      <4>2. op[o].kind # "use"
        BY <2>1, <2>3, <3>2, <4>1 DEF Own, Fits, Passive, SignIns
      <4> QED
        BY <3>2, <4>1, <4>2 DEF Own
    <3> QED
      BY <3>1, <3>2
  <2>4. ASSUME cleared' # cleared
        PROVE  /\ cleared' = generation /\ status' = "signed_out"
               /\ store = NoToken /\ credential' = NoToken
               /\ \E o \in Ops : Own(op[o]) /\ Latest(o) /\ ~Own(op'[o])
    <3>1. PICK o \in asks : op[o].kind = "logout" /\ store = NoToken
      BY <1>3, <2>4
    <3>2. o \in Ops /\ op[o].pc = "reading" /\ Latest(o) /\ o \in Waiting
      BY <3>1 DEF Waiting, Publishes
    <3>3. op'[o].pc = "done"
      BY <2>1, <3>1, <3>2
    <3>4. Own(op[o]) /\ ~Own(op'[o])
      BY <3>1, <3>2, <3>3 DEF Own
    <3> QED
      BY <1>3, <2>4, <3>1, <3>2, <3>4
  <2>5. \A o \in Ops : Giving(op[o]) => op'[o] = op[o]
    BY <2>2 DEF Giving
  <2> QED
    BY <1>2, <1>3, <2>3, <2>4, <2>5
<1>4. CASE /\ op' = [o \in Ops |-> IF o \in Waiting THEN Ended ELSE op[o]]
           /\ status' = IF \E o \in Waiting : Publishes(o)
                        THEN "signed_out" ELSE status
           /\ UNCHANGED <<credential, cleared>>
  <2>1. \A o \in Ops : op'[o] = IF op[o].pc = "reading" THEN Ended ELSE op[o]
    BY <1>4 DEF Waiting
  <2> QED
    BY <1>2, <1>4, <2>1, EndedIs DEF Own, Giving
<1> QED
  BY <1>3, <1>4 DEF ReadDone, DropDone, ReadersFail

\* At most one operation speaks for the latest generation, none while a
\* DingTalk sign-in waits for its callback.
Alone ==
    /\ \A o, p \in Ops : /\ Own(op[o]) /\ Latest(o)
                         /\ Own(op[p]) /\ Latest(p)
                         => o = p
    /\ pending # 0 => \A o \in Ops : ~(Own(op[o]) /\ Latest(o))
    /\ cleared <= generation

LEMMA AloneStep ==
    ASSUME OpInv, Scalars, PendingIsCurrent, Alone, [Next]_vars
    PROVE  Alone'
<1> DEFINE AloneAfter ==
      /\ \A o, p \in Ops : /\ Own(op'[o]) /\ op'[o].gen = generation'
                           /\ Own(op'[p]) /\ op'[p].gen = generation'
                           => o = p
      /\ pending' # 0 =>
           \A o \in Ops : ~(Own(op'[o]) /\ op'[o].gen = generation')
      /\ cleared' <= generation'
<1> SUFFICES AloneAfter
  BY DEF Alone, Latest, Own
<1>0. /\ op \in [Ops -> OpRecords]
      /\ generation \in Nat /\ cleared \in Nat /\ pending \in Nat
      /\ \A o \in Ops : op[o].gen \in Nat /\ op[o].gen <= generation
  BY OpFacts DEF OpInv, OpTypes, Scalars, Dated
<1>1. ASSUME NEW o \in Ops, OpStep(o)
      PROVE  AloneAfter
  <2>1. /\ op' = [op EXCEPT ![o] = op'[o]] /\ \A p \in Ops \ {o} : op'[p] = op[p]
    BY <1>0, <1>1, StepIsLocal
  <2>2. Succession(o)
    BY <1>1, StepSucceeds
  <2>3. CASE generation' = generation + 1 /\ pending' = 0 /\ cleared' = cleared
    <3>1. \A p \in Ops \ {o} : op'[p].gen # generation'
      BY <1>0, <2>1, <2>3
    <3> QED
      BY <1>0, <2>3, <3>1 DEF Alone, Latest
  <2>4. CASE generation' = generation
    <3>1. /\ Own(op'[o]) /\ op'[o].gen = generation
             => \/ Own(op[o]) /\ Latest(o)
                \/ pending # 0 /\ pending = generation /\ pending' = 0
          /\ \/ pending' \in {0, pending}
             \/ Own(op[o]) /\ Latest(o) /\ ~Own(op'[o])
          /\ \/ cleared' = cleared
             \/ /\ cleared' = generation /\ pending' = pending
                /\ Own(op[o]) /\ Latest(o) /\ ~Own(op'[o])
      BY <1>0, <2>2, <2>4 DEF Succession
    <3>2. ASSUME NEW p \in Ops, NEW q \in Ops,
                 Own(op'[p]), op'[p].gen = generation,
                 Own(op'[q]), op'[q].gen = generation
          PROVE  p = q
      BY <2>1, <3>1, <3>2 DEF Alone, Latest
    <3>3. ASSUME pending' # 0, NEW p \in Ops, Own(op'[p]), op'[p].gen = generation
          PROVE  FALSE
      BY <2>1, <3>1, <3>3 DEF Alone, Latest
    <3> QED
      BY <1>0, <2>4, <3>1, <3>2, <3>3 DEF Alone, Latest
  <2> QED
    BY <2>2, <2>3, <2>4 DEF Succession
<1>2. CASE ReadDone \/ DropDone
  <2>1. /\ pending' = pending /\ generation' = generation
        /\ cleared' \in {cleared, generation}
        /\ \A o \in Ops : Own(op'[o]) => Own(op[o]) /\ op'[o].gen = op[o].gen
    BY <1>2, ReadSucceeds
  <2> QED
    BY <1>0, <2>1 DEF Alone, Latest
<1>3. CASE PendingEnds
  BY <1>3 DEF PendingEnds, Alone, Latest, history
<1>4. CASE Close
  <2>1. \A o \in Ops : op'[o].gen # generation'
    BY <1>0, <1>4 DEF Close
  <2> QED
    BY <1>0, <1>4, <2>1 DEF Close, Alone, Latest, history
<1>5. CASE UNCHANGED vars
  BY <1>5 DEF vars, Alone, Latest
<1>6. CASE DecodeFails
  BY <1>6 DEF DecodeFails, Alone, Latest, history
<1> QED
  BY <1>1, <1>2, <1>3, <1>4, <1>5, <1>6 DEF Next, OpStep

\* Only the deletion for the latest operation removes the session in a step of
\* an operation.
LEMMA RemovalStep ==
    ASSUME NEW o \in Ops, OpStep(o), cleared' # cleared
    PROVE  store' = NoToken /\ credential' = NoToken /\ status' = "signed_out"
<1>1. DeleteDone(o)
  BY DEF OpStep, Begin, FileStep, Answer, history,
     BeginReader, BeginSignIn, BeginPoll, BeginInvalidate, BeginUse, Callback,
     StartMutation, WriteDone, WriteFailed, UndoDone,
     DeleteFailed, AgentRead, AuthenticationFails, Registered,
     Prepared, LoginDone, PollSignsIn, MeRefused,
     MeUnusable, MeUnavailable, MeTooLate, MeAccepted,
     RevokeDone, LogoutDone, LogoutUnavailable, UseDone,
     UseRefused, ReadTimeout
<1> QED
  BY <1>1 DEF DeleteDone, Publishes, Published, Remember

\* What SignOutStands needs of the moments before the queue of changes is
\* empty: a token in the file is being taken out again by the first of the
\* queue, whose sign-in goes on to revoke it.
RemovedStands ==
    Removed =>
        /\ pending = 0 /\ status = "signed_out"
        /\ \A o \in Ops : ~(Own(op[o]) /\ Latest(o))
        /\ store # NoToken /\ ~broken =>
             \E h \in Ops :
                 chain # <<>> /\ Head(chain) = h /\ op[h].pc = "undoing"
        /\ store # NoToken => GivenBack(store)
        /\ credential # NoToken => GivenBack(credential)

LEMMA GivenBackBy ==
    ASSUME NEW t
    PROVE  /\ GivenBack(t) <=>
                \/ t \in revoked
                \/ \E o \in Ops : Giving(op[o]) /\ op[o].tok = t
           /\ GivenBack(t)' <=>
                \/ t \in revoked'
                \/ \E o \in Ops : Giving(op'[o]) /\ op'[o].tok = t
<1>1. GivenBack(t) <=>
        \/ t \in revoked
        \/ \E o \in Ops : Giving(op[o]) /\ op[o].tok = t
  BY DEF GivenBack, Carries, Giving
<1>2. GivenBack(t)' <=>
        \/ t \in revoked'
        \/ \E o \in Ops : Giving(op'[o]) /\ op'[o].tok = t
  BY DEF GivenBack, Carries, Giving
<1> QED
  BY <1>1, <1>2

LEMMA RemovedStep ==
    ASSUME SessionInv, Alone, RemovedStands, [Next]_vars
    PROVE  RemovedStands'
<1> DEFINE Back(t) == \/ t \in revoked'
                      \/ \E o \in Ops : Giving(op'[o]) /\ op'[o].tok = t
<1> SUFFICES ASSUME cleared' = generation', cleared' # 0
             PROVE  /\ pending' = 0 /\ status' = "signed_out"
                    /\ \A p \in Ops :
                          ~(Own(op'[p]) /\ op'[p].gen = generation')
                    /\ store' # NoToken /\ ~broken' =>
                          \E h \in Ops : /\ chain' # <<>> /\ Head(chain') = h
                                         /\ op'[h].pc = "undoing"
                    /\ store' # NoToken => Back(store')
                    /\ credential' # NoToken => Back(credential')
  <2>1. \A t : Back(t) => GivenBack(t)'
    BY GivenBackBy
  <2> HIDE DEF Back
  <2> QED
    BY <2>1 DEF RemovedStands, Removed, Latest, Own
<1>0. /\ Scalars /\ OpInv /\ Queues /\ Front /\ op \in [Ops -> OpRecords]
      /\ generation \in Nat /\ cleared \in Nat /\ cleared <= generation
      /\ pending # 0 => \A o \in Ops : ~(Own(op[o]) /\ Latest(o))
  BY DEF SessionInv, OpInv, OpTypes, Scalars, Alone
<1>a. Removed => /\ pending = 0 /\ status = "signed_out"
                 /\ \A o \in Ops : ~(Own(op[o]) /\ Latest(o))
                 /\ store # NoToken /\ ~broken =>
                      \E h \in Ops : /\ chain # <<>> /\ Head(chain) = h
                                     /\ op[h].pc = "undoing"
                 /\ store # NoToken => GivenBack(store)
                 /\ credential # NoToken => GivenBack(credential)
  BY DEF RemovedStands
<1>1. ASSUME NEW o \in Ops, OpStep(o)
      PROVE  /\ pending' = 0 /\ status' = "signed_out"
             /\ \A p \in Ops : ~(Own(op'[p]) /\ op'[p].gen = generation')
             /\ store' # NoToken /\ ~broken' =>
                   \E h \in Ops : /\ chain' # <<>> /\ Head(chain') = h
                                  /\ op'[h].pc = "undoing"
             /\ store' # NoToken => Back(store')
             /\ credential' # NoToken => Back(credential')
  <2>1. \A p \in Ops \ {o} : op'[p] = op[p]
    BY <1>0, <1>1, StepIsLocal
  <2>2. Succession(o)
    BY <1>0, <1>1, StepSucceeds
  <2>3. /\ generation' = generation
        /\ Own(op'[o]) /\ op'[o].gen = generation
           => \/ Own(op[o]) /\ Latest(o)
              \/ pending # 0 /\ pending = generation /\ pending' = 0
        /\ \/ pending' \in {0, pending}
           \/ Own(op[o]) /\ Latest(o) /\ ~Own(op'[o])
        /\ \/ cleared' = cleared
           \/ /\ cleared' = generation /\ pending' = pending
              /\ Own(op[o]) /\ Latest(o) /\ ~Own(op'[o])
    BY <1>0, <2>2 DEF Succession
  <2>4. \A t : GivenBack(t) => Back(t)
    BY <1>0, <1>1, <2>1, GivenBackBy, GivingGoesOn
  <2>5. CASE cleared' = cleared
    <3>1. Removed
      BY <2>3, <2>5 DEF Removed
    <3>2. ~(Own(op[o]) /\ Latest(o)) /\ pending = 0
      BY <1>a, <3>1
    <3>3. /\ credential' = credential
          /\ status' \in {status, "signed_out"}
          /\ broken => broken'
          /\ store' # NoToken =>
               \/ store' = store /\ (op[o].pc = "undoing" => broken')
               \/ /\ Giving(op'[o]) /\ op'[o].tok = store'
                  /\ broken' \/ op'[o].pc = "undoing"
      BY <1>0, <1>1, <2>3, <3>2, SilentStep
    <3>4. pending' = 0 /\ status' = "signed_out"
      BY <1>a, <2>3, <3>1, <3>2, <3>3
    <3>5. ASSUME NEW p \in Ops
          PROVE  ~(Own(op'[p]) /\ op'[p].gen = generation')
      <4>1. CASE p = o
        BY <2>3, <3>2, <4>1
      <4>2. CASE p # o
        BY <1>a, <2>1, <2>3, <3>1, <4>2 DEF Latest
      <4> QED
        BY <4>1, <4>2
    <3>6. ASSUME store' # NoToken, ~broken'
          PROVE  \E h \in Ops : /\ chain' # <<>> /\ Head(chain') = h
                                /\ op'[h].pc = "undoing"
      <4>1. CASE store' = store /\ op[o].pc # "undoing"
        <5>1. PICK h \in Ops : /\ chain # <<>> /\ Head(chain) = h
                               /\ op[h].pc = "undoing"
          BY <1>a, <3>1, <3>3, <3>6, <4>1
        <5>2. h # o
          BY <4>1, <5>1
        <5>3. chain' # <<>> /\ Head(chain') = h
          BY <1>0, <1>1, <5>1, <5>2, QueuesKept DEF AtTheFile
        <5> QED
          BY <2>1, <5>1, <5>2, <5>3
      <4>2. CASE op'[o].pc = "undoing"
        BY <1>0, <1>1, <4>2, QueuesKept DEF AtTheFile
      <4> QED
        BY <3>3, <3>6, <4>1, <4>2
    <3>7. store' # NoToken => Back(store')
      BY <1>a, <2>4, <3>1, <3>3
    <3>8. credential' # NoToken => Back(credential')
      BY <1>a, <2>4, <3>1, <3>3
    <3> QED
      BY <3>4, <3>5, <3>6, <3>7, <3>8
  <2>6. CASE cleared' # cleared
    <3>1. store' = NoToken /\ credential' = NoToken /\ status' = "signed_out"
      BY <1>1, <2>6, RemovalStep
    <3>2. pending' = 0
      BY <1>0, <2>3, <2>6
    <3>3. \A p \in Ops : ~(Own(op'[p]) /\ op'[p].gen = generation')
      BY <2>1, <2>3, <2>6 DEF Alone, Latest
    <3> QED
      BY <3>1, <3>2, <3>3
  <2> QED
    BY <2>5, <2>6
<1>2. CASE ReadDone \/ DropDone
  <2>1. /\ pending' = pending /\ store' \in {store, NoToken} /\ chain' = chain
        /\ broken' = broken /\ revoked' = revoked
        /\ generation' = generation
        /\ credential' \in {credential, store}
        /\ status' \in {status, "signed_out"}
        /\ \A o \in Ops : Own(op'[o]) => Own(op[o]) /\ op'[o].gen = op[o].gen
        /\ \A o \in Ops : Giving(op[o]) => op'[o] = op[o]
        /\ cleared' # cleared =>
             /\ cleared' = generation /\ status' = "signed_out"
             /\ store = NoToken /\ store' = NoToken /\ credential' = NoToken
             /\ \E o \in Ops : Own(op[o]) /\ Latest(o) /\ ~Own(op'[o])
    BY <1>0, <1>2, ReadSucceeds
  <2>2. \A t : GivenBack(t) => Back(t)
    BY <2>1, GivenBackBy
  <2>3. CASE cleared' = cleared
    <3>1. Removed
      BY <2>1, <2>3 DEF Removed
    <3>2. \A p \in Ops : ~(Own(op'[p]) /\ op'[p].gen = generation')
      BY <1>a, <2>1, <3>1 DEF Latest
    <3>3. ASSUME store' # NoToken, ~broken'
          PROVE  \E h \in Ops : /\ chain' # <<>> /\ Head(chain') = h
                                /\ op'[h].pc = "undoing"
      <4>1. PICK h \in Ops : /\ chain # <<>> /\ Head(chain) = h
                             /\ op[h].pc = "undoing"
        BY <1>a, <2>1, <3>1, <3>3
      <4>2. op'[h] = op[h]
        BY <1>0, <1>2, <4>1, ReadStep
      <4> QED
        BY <2>1, <4>1, <4>2
    <3>4. store' # NoToken => Back(store')
      BY <1>a, <2>1, <2>2, <3>1
    <3>5. credential' # NoToken => Back(credential')
      BY <1>a, <2>1, <2>2, <3>1
    <3> QED
      BY <1>a, <2>1, <3>1, <3>2, <3>3, <3>4, <3>5
  <2>4. CASE cleared' # cleared
    <3>1. PICK o \in Ops : Own(op[o]) /\ Latest(o) /\ ~Own(op'[o])
      BY <2>1, <2>4
    <3>2. pending' = 0
      BY <1>0, <2>1, <3>1
    <3>3. \A p \in Ops : ~(Own(op'[p]) /\ op'[p].gen = generation')
      BY <2>1, <3>1 DEF Alone, Latest
    <3> QED
      BY <2>1, <2>4, <3>2, <3>3
  <2> QED
    BY <2>3, <2>4
<1>3. CASE PendingEnds
  BY <1>a, <1>3 DEF PendingEnds, Removed, history
<1>4. CASE Close
  BY <1>0, <1>4 DEF Close, history
<1>5. CASE UNCHANGED vars
  <2>1. Removed /\ \A t : GivenBack(t) => Back(t)
    BY <1>5, GivenBackBy DEF vars, Removed
  <2> QED
    BY <1>5, <1>a, <2>1 DEF vars, Latest
<1>6. CASE DecodeFails
  <2>1. Removed /\ \A t : GivenBack(t) => Back(t)
    BY <1>6, GivenBackBy DEF DecodeFails, Removed, history
  <2> QED
    BY <1>6, <1>a, <2>1 DEF DecodeFails, memory, history, Latest
<1> QED
  BY <1>1, <1>2, <1>3, <1>4, <1>5, <1>6 DEF Next, OpStep

\* For any number of operations and tokens: once a sign-out, or another
\* operation that removed the session, is the latest, clients stay signed out,
\* the file holds no token when the changes that were under way are over, and
\* memory holds none that is not being given back to the gateway.
THEOREM SignOutWins == Spec => []SignOutStands
<1> DEFINE Inv == SessionInv /\ Alone /\ RemovedStands
<1>1. Init => Inv
  <2>1. Init => Alone
    BY DEF Init, Alone, Free, Own
  <2>2. Init => RemovedStands
    BY DEF Init, RemovedStands, Removed
  <2> QED
    BY <2>1, <2>2, InitEstablishes
<1>2. Inv /\ [Next]_vars => Inv'
  <2> SUFFICES ASSUME Inv, [Next]_vars PROVE Inv'
    OBVIOUS
  <2>1. OpInv /\ Scalars /\ PendingIsCurrent
    BY DEF SessionInv
  <2> QED
    BY <2>1, NextKeeps, AloneStep, RemovedStep
<1>3. Inv => SignOutStands
  BY DEF RemovedStands, SignOutStands
<1> QED
  BY <1>1, <1>2, <1>3, PTL DEF Spec
=============================================================================
