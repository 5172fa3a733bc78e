----------------------------- MODULE S3BackendInv -----------------------------
(***************************************************************************)
(* The inductive invariant of S3Backend, in named parts: every sending of  *)
(* a write is either still on its way or was carried out, and whoever is   *)
(* undisturbed still knows what is at its path.                            *)
(***************************************************************************)
EXTENDS S3Backend

(* The calls of a request on their way.                                     *)
Pending(r) == {w \in writes : w[1] = r}

(* Each sending is on its way or was carried out, and there are only so many. *)
CountOf(r) ==
    /\ IsFiniteSet(Pending(r))
    /\ took[r] + Cardinality(Pending(r)) = attempts[r]
    /\ \A w \in Pending(r) : w[2] <= attempts[r]
    /\ pc[r] \in {"idle", "get", "head"} => attempts[r] = 0
    /\ pc[r] = "write" => attempts[r] < MaxAttempts

CountInv == \A r \in Requests : CountOf(r)

(* What an answer says about the calls that were sent.                      *)
AnswerOf(r) ==
    /\ pc[r] = "get" => ~IsWrite(op[r])
    /\ pc[r] \in {"head", "write", "await", "answered"} => IsWrite(op[r])
    /\ pc[r] = "answered" => took[r] >= 1
    /\ pc[r] = "done" /\ ~IsWrite(op[r]) => attempts[r] = 0
    /\ pc[r] = "done" /\ IsWrite(op[r]) =>
         \/ result[r].code = "ok" /\ took[r] >= 1
         \/ result[r].code \in {"conflict", "notFound"} /\ attempts[r] = 0
         \/ result[r] = Error

AnswerInv == \A r \in Requests : AnswerOf(r)

(* What somebody nobody disturbed knows.                                    *)
AloneOf(r) ==
    LET here == bucket[op[r].path]
    IN  /\ pc[r] \in {"get", "head"} => here = found[r]
        /\ pc[r] \in {"write", "await", "answered"} =>
             Writes(op[r], [x \in Paths |-> found[r]])
        /\ pc[r] = "answered" => here = op[r].body

AloneInv == \A r \in Requests \ disturbed : AloneOf(r)

(* What a cleanup still has to do.                                          *)
SweptInv ==
    cleanup = "deleting" /\ Cleaner \notin disturbed => Present \subseteq listed

(* One listing holds everything there can be.                               *)
OnePage == IsFiniteSet(Paths) /\ Cardinality(Paths) <= PageSize

IInv ==
    /\ TypeOK /\ CountInv /\ AnswerInv
    /\ "POST" \notin HeadFailing => AloneInv
    /\ OnePage => SweptInv
=============================================================================
