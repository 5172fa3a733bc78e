------------------------------ MODULE S3Backend ------------------------------
(***************************************************************************)
(* The s3 backend: a write asks HEAD whether there is an object and then    *)
(* sends PUT or DELETE, with nothing to hold the two together.  The bucket  *)
(* does each call atomically.  The SDK sends a call again that got no       *)
(* answer, and a call nobody waits for any more may still be carried out.   *)
(* CleanupPrefix lists once and deletes what it was given.                  *)
(***************************************************************************)
EXTENDS RestOperations, Naturals, FiniteSets

CONSTANTS
    Requests,     \* calls of the backend, each made once
    OpsOf,        \* the operations a request may ask for
    Cleaner,      \* the caller of CleanupPrefix
    MaxAttempts,  \* how often the SDK sends one call
    HeadFailing,  \* the verbs whose HEAD may fail
    PageSize      \* how many keys one listing returns at most

ASSUME BoundAssumption   == MaxAttempts \in Nat \ {0} /\ PageSize \in Nat \ {0}
ASSUME CallerAssumption  ==
    /\ OpsOf \in [Requests -> SUBSET Operations]
    /\ Cleaner \notin Requests

VARIABLES
    bucket,     \* the objects under the prefix
    writes,     \* PutObject and DeleteObject calls not yet carried out
    pc, op, attempts, result,
    cleanup,    \* where CleanupPrefix is
    listed,     \* what it still has to delete
    \* history, read by the properties only
    found,      \* the object at the request's path when it was called
    disturbed,  \* callers during whose call somebody else changed their objects
    took        \* how often a request's write has been carried out

requestVars == <<pc, op, attempts, result>>
cleanupVars == <<cleanup, listed>>
vars == <<bucket, writes, requestVars, cleanupVars, found, disturbed, took>>

NoAnswer == [code |-> "none", data |-> NoFile]
Present  == {p \in Paths : bucket[p] # NoFile}

Init ==
    /\ bucket \in Trees
    /\ writes = {}
    /\ pc = [r \in Requests |-> "idle"]
    /\ op \in {o \in [Requests -> Operations] :
                 \A r \in Requests : o[r] \in OpsOf[r]}
    /\ attempts = [r \in Requests |-> 0]
    /\ result = [r \in Requests |-> NoAnswer]
    /\ cleanup = "idle"
    /\ listed = {}
    /\ found = [r \in Requests |-> NoFile]
    /\ disturbed = {}
    /\ took = [r \in Requests |-> 0]

Goto(r, place) == pc' = [pc EXCEPT ![r] = place]

Finish(r, a) ==
    /\ result' = [result EXCEPT ![r] = a]
    /\ Goto(r, "done")

(* Everybody whose call is under way and who looks at one of the paths,      *)
(* except the one who changes it.                                           *)
Bystanders(who, paths) ==
    {r \in Requests : /\ r # who /\ op[r].path \in paths
                      /\ pc[r] \notin {"idle", "done"}}
        \cup (IF who # Cleaner /\ cleanup = "deleting" THEN {Cleaner} ELSE {})

Call(r) ==
    /\ pc[r] = "idle"
    /\ Goto(r, IF IsWrite(op[r]) THEN "head" ELSE "get")
    /\ found' = [found EXCEPT ![r] = bucket[op[r].path]]
    /\ UNCHANGED <<bucket, writes, op, attempts, result, cleanupVars,
                   disturbed, took>>

(* GET, and its failures.                                                   *)
GetObject(r) ==
    /\ pc[r] = "get"
    /\ LET object == bucket[op[r].path]
       IN  \/ Finish(r, IF object = NoFile THEN NotFound ELSE Ok(object))
           \/ Finish(r, Error)
    /\ UNCHANGED <<bucket, writes, op, attempts, cleanupVars,
                   found, disturbed, took>>

(* Mutant: POST does not look.                                              *)
HeadObjectForPost(r) ==
    /\ pc[r] = "head"
    /\ IF op[r].verb # "POST" /\ bucket[op[r].path] = NoFile
         THEN Finish(r, NotFound)
         ELSE Goto(r, "write") /\ UNCHANGED result
    /\ UNCHANGED <<bucket, writes, op, attempts, cleanupVars,
                   found, disturbed, took>>

(* POST goes on without an object, PUT and DELETE go on with one.           *)
HeadObject(r) ==
    /\ pc[r] = "head"
    /\ LET exists == bucket[op[r].path] # NoFile
           post   == op[r].verb = "POST"
       IN  IF post = exists
             THEN Finish(r, IF post THEN Conflict ELSE NotFound)
             ELSE Goto(r, "write") /\ UNCHANGED result
    /\ UNCHANGED <<bucket, writes, op, attempts, cleanupVars,
                   found, disturbed, took>>

(* HEAD fails for another reason than a missing object: PUT and DELETE      *)
(* report it, POST takes any error for a missing object.                    *)
HeadFails(r) ==
    /\ pc[r] = "head"
    /\ op[r].verb \in HeadFailing
    /\ IF op[r].verb = "POST"
         THEN Goto(r, "write") /\ UNCHANGED result
         ELSE Finish(r, Error)
    /\ UNCHANGED <<bucket, writes, op, attempts, cleanupVars,
                   found, disturbed, took>>

Send(r) ==
    /\ pc[r] = "write"
    /\ attempts' = [attempts EXCEPT ![r] = @ + 1]
    /\ writes' = writes \cup {<<r, attempts[r] + 1>>}
    /\ Goto(r, "await")
    /\ UNCHANGED <<bucket, op, result, cleanupVars, found, disturbed, took>>

(* The bucket carries out a call, whatever it holds by now, and answers if   *)
(* somebody still waits for it.                                             *)
CarryOut(w) ==
    LET r == w[1]
        waits == pc[r] = "await" /\ w[2] = attempts[r]
    IN  /\ writes' = writes \ {w}
        /\ bucket' = [bucket EXCEPT ![op[r].path] = op[r].body]
        /\ disturbed' = disturbed \cup Bystanders(r, {op[r].path})
        /\ took' = [took EXCEPT ![r] = @ + 1]
        /\ pc' = IF waits THEN [pc EXCEPT ![r] = "answered"] ELSE pc
        /\ UNCHANGED <<op, attempts, result, cleanupVars, found>>

AnswerCame(r) ==
    /\ pc[r] = "answered"
    /\ Finish(r, Ok(NoFile))
    /\ UNCHANGED <<bucket, writes, op, attempts, cleanupVars,
                   found, disturbed, took>>

(* Mutant: the call is sent again without end.                              *)
NoAnswerForever(r) ==
    /\ pc[r] \in {"await", "answered"}
    /\ Goto(r, "write")
    /\ UNCHANGED <<bucket, writes, op, attempts, result, cleanupVars,
                   found, disturbed, took>>

(* Mutant: the last error is dropped.                                       *)
NoAnswerOk(r) ==
    /\ pc[r] \in {"await", "answered"}
    /\ IF attempts[r] < MaxAttempts
         THEN Goto(r, "write") /\ UNCHANGED result
         ELSE Finish(r, Ok(NoFile))
    /\ UNCHANGED <<bucket, writes, op, attempts, cleanupVars,
                   found, disturbed, took>>

(* No answer: the SDK sends the call again, and in the end returns an error. *)
(* (After an error it takes for final, or a cancelled context, it does so     *)
(* at once: fewer sendings, and the same answer.)                           *)
NoAnswerCame(r) ==
    /\ pc[r] \in {"await", "answered"}
    /\ IF attempts[r] < MaxAttempts
         THEN Goto(r, "write") /\ UNCHANGED result
         ELSE Finish(r, Error)
    /\ UNCHANGED <<bucket, writes, op, attempts, cleanupVars,
                   found, disturbed, took>>

-----------------------------------------------------------------------------
(* CleanupPrefix.                                                           *)

(* Mutant: the first key of the page is passed over.                        *)
ListObjectsTail ==
    /\ cleanup = "idle"
    /\ \E page \in SUBSET Present :
         /\ Cardinality(page) = PageSize \/ page = Present
         /\ Cardinality(page) <= PageSize
         /\ listed' = IF page = {} THEN {} ELSE page \ {CHOOSE p \in page : TRUE}
    /\ cleanup' = "deleting"
    /\ UNCHANGED <<bucket, writes, requestVars, found, disturbed, took>>

(* One page, in an order of the bucket's own.                               *)
ListObjects ==
    /\ cleanup = "idle"
    /\ \E page \in SUBSET Present :
         /\ Cardinality(page) = PageSize \/ page = Present
         /\ Cardinality(page) <= PageSize
         /\ listed' = page
    /\ cleanup' = "deleting"
    /\ UNCHANGED <<bucket, writes, requestVars, found, disturbed, took>>

DeleteListed ==
    /\ cleanup = "deleting"
    /\ \E p \in listed :
         /\ bucket' = [bucket EXCEPT ![p] = NoFile]
         /\ listed' = listed \ {p}
         /\ disturbed' = disturbed \cup Bystanders(Cleaner, {p})
    /\ UNCHANGED <<writes, requestVars, cleanup, found, took>>

(* Listing or a deletion fails, and the rest is left.                       *)
CleanupFails ==
    /\ cleanup \in {"idle", "deleting"}
    /\ cleanup' = "failed"
    /\ listed' = {}
    /\ UNCHANGED <<bucket, writes, requestVars, found, disturbed, took>>

CleanupReturns ==
    /\ cleanup = "deleting"
    /\ listed = {}
    /\ cleanup' = "done"
    /\ UNCHANGED <<bucket, writes, requestVars, listed, found, disturbed, took>>

Next ==
    \/ \E r \in Requests :
         \/ Call(r) \/ GetObject(r) \/ HeadObject(r) \/ HeadFails(r)
         \/ Send(r) \/ AnswerCame(r) \/ NoAnswerCame(r)
    \/ \E w \in writes : CarryOut(w)
    \/ ListObjects \/ DeleteListed \/ CleanupFails \/ CleanupReturns

Spec == Init /\ [][Next]_vars

-----------------------------------------------------------------------------
(* Properties.                                                              *)

(* Every variable has its type.                                             *)
TypeOK ==
    /\ bucket \in Trees
    /\ writes \subseteq Requests \X (1..MaxAttempts)
    /\ pc \in [Requests -> {"idle", "get", "head", "write", "await", "answered", "done"}]
    /\ op \in [Requests -> Operations]
    /\ attempts \in [Requests -> 0..MaxAttempts]
    /\ result \in [Requests -> Answers \cup {NoAnswer}]
    /\ cleanup \in {"idle", "deleting", "done", "failed"}
    /\ listed \subseteq Paths
    /\ found \in [Requests -> Bodies \cup {NoFile}]
    /\ disturbed \subseteq Requests \cup {Cleaner}
    /\ took \in [Requests -> 0..MaxAttempts]

(* A request during which nobody else changed the object at its path is      *)
(* answered as the map backend would answer it, or with an error, and a      *)
(* success leaves what the map backend would leave: the gap between HEAD     *)
(* and PUT (POST, PUT, DELETE) shows only to requests that meet another      *)
(* write, and so do calls the SDK sent twice.                                *)
AloneIsSequential ==
    [][ \A r \in Requests :
          pc[r] # "done" /\ pc'[r] = "done" /\ r \notin disturbed =>
            /\ result'[r] \in {Error, Outcome(op[r], [x \in Paths |-> found[r]])}
            /\ IsWrite(op[r]) /\ result'[r].code = "ok" =>
                 bucket'[op[r].path] = op[r].body ]_vars

(* Whatever else happens, a refused request never changes the bucket, now or *)
(* later, and one answered with success changed it before it was answered:   *)
(* with retries by the SDK at least once, never more than it was sent.       *)
TookAsAnswered ==
    \A r \in Requests :
       /\ took[r] <= attempts[r]
       /\ pc[r] = "done" =>
            /\ ~IsWrite(op[r]) => took[r] = 0
            /\ IsWrite(op[r]) /\ result[r].code = "ok" => took[r] >= 1
            /\ result[r].code \in {"conflict", "notFound"} =>
                 took[r] = 0 /\ \A w \in writes : w[1] # r

(* CleanupPrefix, when it succeeds and nobody wrote meanwhile, leaves        *)
(* nothing under the prefix ("deletes all objects under the backend's        *)
(* prefix").                                                                 *)
CleanupEmpties ==
    [][ cleanup = "deleting" /\ cleanup' = "done" /\ Cleaner \notin disturbed =>
          Present' = {} ]_vars
=============================================================================
