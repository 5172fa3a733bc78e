------------------------------ MODULE RestStore ------------------------------
(***************************************************************************)
(* What a backend promises to the callers of APIBackend: one tree, on      *)
(* which every answered request is executed once, at one instant between   *)
(* its call and its return, and answered with what it found there.         *)
(*                                                                         *)
(* The promise is weaker in one place, where every backend over a network  *)
(* is: a write the backend lost sight of may be executed all the same      *)
(* (Stray), as long as its caller has no definite answer.                  *)
(***************************************************************************)
EXTENDS RestOperations

CONSTANT Requests

VARIABLES kv,       \* the tree
          op,       \* what each request asks
          status,   \* idle, open (called), done (returned), crashed
          outcome,  \* what its execution found, once it is executed
          answer    \* what its caller got, once it returned

vars == <<kv, op, status, outcome, answer>>

NoAnswer == [code |-> "none", data |-> NoFile]

Init ==
    /\ kv \in Trees
    /\ op \in [Requests -> Operations]
    /\ status = [r \in Requests |-> "idle"]
    /\ outcome = [r \in Requests |-> NoAnswer]
    /\ answer = [r \in Requests |-> NoAnswer]

Call(r) ==
    /\ status[r] = "idle"
    /\ status' = [status EXCEPT ![r] = "open"]
    /\ UNCHANGED <<kv, op, outcome, answer>>

(* The instant at which the request takes effect.                          *)
Execute(r) ==
    /\ status[r] = "open"
    /\ outcome[r] = NoAnswer
    /\ outcome' = [outcome EXCEPT ![r] = Outcome(op[r], kv)]
    /\ kv' = Effect(op[r], kv)
    /\ UNCHANGED <<op, status, answer>>

(* An execution that changed nothing may be dropped and done again.        *)
Forget(r) ==
    /\ status[r] = "open"
    /\ outcome[r] # NoAnswer
    /\ IsWrite(op[r]) => outcome[r].code # "ok"
    /\ outcome' = [outcome EXCEPT ![r] = NoAnswer]
    /\ UNCHANGED <<kv, op, status, answer>>

(* A write takes effect without the backend learning of it.  Never once    *)
(* the request has an outcome, and never after a definite answer.          *)
Stray(r) ==
    /\ \/ status[r] = "open" /\ outcome[r] = NoAnswer
       \/ status[r] = "done" /\ answer[r] = Error
       \/ status[r] = "crashed"
    /\ Writes(op[r], kv)
    /\ kv' = Effect(op[r], kv)
    /\ UNCHANGED <<op, status, outcome, answer>>

(* A request without an outcome can only be answered with an error.        *)
Return(r) ==
    /\ status[r] = "open"
    /\ status' = [status EXCEPT ![r] = "done"]
    /\ answer' = [answer EXCEPT ![r] =
                    IF outcome[r] = NoAnswer THEN Error ELSE outcome[r]]
    /\ UNCHANGED <<kv, op, outcome>>

(* The process serving the requests R stops; their callers get nothing.    *)
Crash(R) ==
    /\ \A r \in R : status[r] = "open"
    /\ status' = [r \in Requests |-> IF r \in R THEN "crashed" ELSE status[r]]
    /\ outcome' = [r \in Requests |-> IF r \in R THEN NoAnswer ELSE outcome[r]]
    /\ UNCHANGED <<kv, op, answer>>

Next ==
    \/ \E r \in Requests :
          Call(r) \/ Execute(r) \/ Forget(r) \/ Stray(r) \/ Return(r)
    \/ \E R \in SUBSET Requests : Crash(R)

Spec == Init /\ [][Next]_vars
=============================================================================
