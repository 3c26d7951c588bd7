---------------------- MODULE MCEnterpriseSession -----------------------
(***************************************************************************)
(* EnterpriseSession with a fourth operation where signing in and out is   *)
(* concerned.  The case that SignOutStands is about needs as many: a read  *)
(* that is under way before the write of a sign-in, the sign-in, a         *)
(* sign-out that shares the read, and a request that reads the file        *)
(* between the write and its undoing.                                      *)
(***************************************************************************)
EXTENDS EnterpriseSession

SomeOf(kinds) == \A o \in Ops : op[o].kind \in kinds

\* Callers sign in, sign out and spend the token; the session is not closed.
SignInsAndOuts == ~closed /\ SomeOf({"login", "logout", "use"})

\* The file holds what cannot be decoded, or is about to lose it.
Undecodable == store = Damaged \/ \E i \in DOMAIN io : io[i] = SharedDrop

\* One operation less of the other kinds, and with such a file the kinds that
\* read and write it.
Explored ==
    IF Undecodable
    THEN op[MaxOps].pc = "free" /\ SomeOf({"login", "refresh", "logout", "use"})
    ELSE op[MaxOps].pc = "free" \/ SignInsAndOuts
=============================================================================
