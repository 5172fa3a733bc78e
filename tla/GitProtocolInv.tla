--------------------------- MODULE GitProtocolInv ---------------------------
(***************************************************************************)
(* The inductive invariant of GitProtocol, in named parts.  It says what a *)
(* request, a packer and a push on its way know about main: each of them   *)
(* carries a position of main and a claim about the tree there, and the    *)
(* claim stays true because main only grows.                               *)
(***************************************************************************)
EXTENDS GitProtocol

(* Where an attempt has a base commit, and where it has passed the checks.  *)
BasePlaces  == {"fetch", "blob", "build", "connect", "push", "await"}
CheckedPlaces == {"build", "connect", "push", "await"}

(* The base of an attempt is a commit of main no older than the call, and    *)
(* an attempt past the checks is allowed there.                              *)
BaseOf(r) ==
    /\ base[r] \in 0..Len(main)
    /\ began[r] \in 0..Len(main)
    /\ pc[r] \in BasePlaces => base[r] >= 1 /\ base[r] >= began[r]
    /\ pc[r] = "blob" => ~IsWrite(op[r]) /\ BaseTree(r)[op[r].path] # NoFile
    /\ pc[r] \in CheckedPlaces => Writes(op[r], BaseTree(r))

BaseInv == \A r \in Requests : BaseOf(r)

(* A push carries what its operation makes of the commit it names as old,    *)
(* and none is based above the present base of its request.                  *)
PushOf(m) ==
    /\ m.old \in 1..Len(main)
    /\ m.old <= base[m.req]
    /\ Writes(op[m.req], main[m.old].tree)
    /\ m.tree = Effect(op[m.req], main[m.old].tree)
    /\ m.try <= tries[m.req]
    /\ Waits(m) => m.old = base[m.req]

PushInv == \A m \in pushes : PushOf(m)

(* A pipe that is read belongs to the running attempt of its request.        *)
PackerInv ==
    \A k \in packers :
       k.pipe = "open" => pc[k.req] = "push" /\ k.try = tries[k.req]

(* An attempt has no push on its way before its pack is sent.                *)
SentPlaces == {"await", "backoff", "return", "done", "crashed"}

UnsentInv ==
    \A m \in pushes : m.try = tries[m.req] => pc[m.req] \in SentPlaces

(* Before it returns a request has no result.                                *)
ResultInv ==
    \A r \in Requests : Returned(r) <=> result[r] # NoAnswer

(* A success stands in main right above its base; every other definite       *)
(* answer is the one the base calls for.                                     *)
AnswerOf(r) ==
    /\ base[r] >= 1 /\ base[r] >= began[r]
    /\ IF IsWrite(op[r]) /\ result[r].code = "ok"
         THEN /\ base[r] < Len(main)
              /\ main[base[r] + 1].by = r
              /\ main[base[r] + 1].try = tries[r]
         ELSE /\ result[r] = Outcome(op[r], BaseTree(r))
              /\ ~Writes(op[r], BaseTree(r))

AnswerInv == \A r \in Requests : Definite(r) => AnswerOf(r)

(* The whole: every step of GitProtocol preserves it.                        *)
IInv ==
    /\ TypeOK
    /\ LinearHistory
    /\ BaseInv
    /\ PushInv
    /\ PackerInv
    /\ UnsentInv
    /\ ResultInv
    /\ AnswerInv

-----------------------------------------------------------------------------
(* What requests of one server, and pushes nobody waits for, know besides.   *)

(* The writer at work holds writeMtx.                                       *)
MutexOf(r) ==
    LockWrites /\ IsWrite(op[r]) /\ pc[r] \in Working => writeMtx[Server(r)] = r

(* A push that nobody waits for was given up on without an answer.           *)
StrayOf(m) == Waits(m) \/ unheard[m.req] > 0

(* Each push on its way and each commit is one of those without an answer,   *)
(* or the one that is being, or was, answered with success.                  *)
PushesOf(r) == {m \in pushes : m.req = r}
Heard(r)    == pc[r] = "await" \/ (Definite(r) /\ result[r].code = "ok")
Allowed(r)  == unheard[r] + (IF Heard(r) THEN 1 ELSE 0)

SilenceOf(r) ==
    /\ IsFiniteSet(PushesOf(r))
    /\ Cardinality(CommitsOf(r)) + Cardinality(PushesOf(r)) <= Allowed(r)

SharingInv ==
    /\ \A r \in Requests : MutexOf(r) /\ SilenceOf(r)
    /\ \A m \in pushes : StrayOf(m)
=============================================================================
