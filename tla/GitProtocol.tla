----------------------------- MODULE GitProtocol -----------------------------
(***************************************************************************)
(* The gitprotocol backend: servers that keep no copy of the repository    *)
(* and turn every request into git protocol messages to one remote.  A     *)
(* write reads the head of main, builds one commit on top of it in memory, *)
(* and pushes it with the head it read as the old value; the remote        *)
(* accepts the push only if main still is that head.  A refused or broken  *)
(* push is tried again from the start.                                     *)
(*                                                                         *)
(* A server's requests run concurrently.  They share the in-memory object  *)
(* store under storeMtx, hold sessionMtx for reading throughout, and       *)
(* (writes) writeMtx throughout.  A goroutine per push encodes the pack    *)
(* under storeMtx, and one per server empties the store every ten seconds  *)
(* with sessionMtx held for writing.                                       *)
(*                                                                         *)
(* A commit is named by its position in main: the remote compares names,   *)
(* and a name determines the whole history below it.  Paths are top-level  *)
(* file names here (nested ones are the subject of another module).        *)
(***************************************************************************)
EXTENDS RestOperations, Integers, Sequences, FiniteSets

CONSTANTS
    Servers,     \* processes with a backend of their own
    Requests,    \* calls, each made once
    ServerOf,    \* the server a request is sent to
    OpsOf,       \* the operations a request may ask for
    NoOne,       \* no request, no packer
    MaxRetries,  \* attempts after the first before backoff stops the retries
    LockWrites,  \* Backend.lockWrites
    Ticking,     \* the servers that run long enough for a cleanup
    Faults       \* what the environment may do, out of FaultKinds

(* netFail:   a handshake, a fetch or a push breaks with an error           *)
(* lostReply: a push reaches the remote and its answer never comes back     *)
(* leftOpen:  a broken Push returns without closing the pack it was given   *)
(* crash:     a server process stops and a new one takes its place          *)
FaultKinds == {"netFail", "lostReply", "leftOpen", "crash"}

ASSUME RetriesAssumption == MaxRetries \in Nat
ASSUME ConfigAssumption  ==
    /\ ServerOf \in [Requests -> Servers]
    /\ OpsOf \in [Requests -> SUBSET Operations]
    /\ LockWrites \in BOOLEAN
    /\ Ticking \subseteq Servers
    /\ Faults \subseteq FaultKinds
ASSUME NoOneAssumption   ==
    /\ NoOne \notin Requests
    /\ NoOne \notin Requests \X Nat

VARIABLES
    \* the remote
    main,        \* the commits of refs/heads/main, oldest first
    pushes,      \* complete pushes on their way to it
    \* each server
    store,       \* objects held in memory
    storeMtx,    \* the packer that holds it, if any
    writeMtx,    \* the request that holds it, if any
    cleaning,    \* the cleanup waits for sessionMtx
    packers,     \* buildPackfile's goroutines, of all servers
    \* each request
    pc, op, base, tries, result,
    \* history, read by the properties only
    began,       \* how many commits main had when the request was called
    unheard      \* how many of its pushes ended without the caller knowing

remoteVars  == <<main, pushes>>
serverVars  == <<store, storeMtx, writeMtx, cleaning, packers>>
requestVars == <<pc, op, base, tries, result>>
historyVars == <<began, unheard>>
vars == <<remoteVars, serverVars, requestVars, historyVars>>

NoAnswer == [code |-> "none", data |-> NoFile]

Tries    == 0..MaxRetries
Attempts == Requests \X Tries
Pipes    == {"open", "closed", "left"}
Commits  == [tree : Trees, by : Requests \cup {NoOne}, try : Tries]
Pushes   == [req : Requests, try : Tries, old : Nat \ {0}, tree : Trees]
Packers  == [req : Requests, try : Tries, pipe : Pipes]
Objects  == ({"commit"} \X Requests \X Tries) \cup ({"blob"} \X Bodies)

(* Where a request that holds sessionMtx for reading can be, and one that   *)
(* has gone on with its first attempt.                                      *)
Working == {"start", "fetch", "blob", "build", "connect", "push", "await",
            "backoff", "return"}
Inside  == Working \cup {"wlock"}
Places  == Inside \cup {"idle", "rlock", "done", "crashed"}

Server(r)   == ServerOf[r]
Attempt(k)  == <<k.req, k.try>>
HeadTree    == main[Len(main)].tree
BaseTree(r) == main[base[r]].tree
StoreFree(r) == storeMtx[Server(r)] = NoOne

-----------------------------------------------------------------------------
(* Tree and object helpers.                                                 *)

(* Mutant: PUT and DELETE do not check that there is a file.                *)
CheckPostOnly(o, tree) ==
    IF o.verb = "POST" /\ tree[o.path] # NoFile THEN Conflict ELSE NoAnswer

(* updateFile's checks: POST wants no file at the path, PUT and DELETE one. *)
CheckExistence(o, tree) ==
    LET objectExists == tree[o.path] # NoFile
        mustNotExist == o.verb = "POST"
    IN  CASE mustNotExist /\ objectExists -> Conflict
          [] ~mustNotExist /\ ~objectExists -> NotFound
          [] OTHER -> NoAnswer

(* addToTree on a top-level name: the entry is set, or removed for DELETE.  *)
AddToTree(o, tree) == [tree EXCEPT ![o.path] = o.body]

(* The objects an attempt creates; the commit stands for its tree as well.  *)
CommitObject(r) == <<"commit", r, tries[r]>>
NewObjects(r) ==
    {CommitObject(r)}
        \cup (IF op[r].body = NoFile THEN {} ELSE {<<"blob", op[r].body>>})

Init ==
    /\ main \in {<<[tree |-> t, by |-> NoOne, try |-> 0]>> : t \in Trees}
    /\ pushes = {}
    /\ store = [s \in Servers |-> {}]
    /\ storeMtx = [s \in Servers |-> NoOne]
    /\ writeMtx = [s \in Servers |-> NoOne]
    /\ cleaning = [s \in Servers |-> FALSE]
    /\ packers = {}
    /\ pc = [r \in Requests |-> "idle"]
    /\ op \in {o \in [Requests -> Operations] :
                 \A r \in Requests : o[r] \in OpsOf[r]}
    /\ base = [r \in Requests |-> 0]
    /\ tries = [r \in Requests |-> 0]
    /\ result = [r \in Requests |-> NoAnswer]
    /\ began = [r \in Requests |-> 0]
    /\ unheard = [r \in Requests |-> 0]

-----------------------------------------------------------------------------
(* Entering: sessionMtx, then writeMtx for a write.                         *)

Goto(r, place) == pc' = [pc EXCEPT ![r] = place]

(* The deferred unlocks still have to run, in Return.                       *)
Finish(r, a) ==
    /\ result' = [result EXCEPT ![r] = a]
    /\ Goto(r, "return")

Call(r) ==
    /\ pc[r] = "idle"
    /\ Goto(r, "rlock")
    /\ began' = [began EXCEPT ![r] = Len(main)]
    /\ UNCHANGED <<remoteVars, serverVars, op, base, tries, result, unheard>>

(* Mutant: writeMtx is not taken.                                           *)
RLockOnly(r) ==
    /\ pc[r] = "rlock"
    /\ ~cleaning[Server(r)]
    /\ Goto(r, "start")
    /\ UNCHANGED <<remoteVars, serverVars, op, base, tries, result, historyVars>>

(* Go's RWMutex keeps new readers out as soon as a writer waits.            *)
RLock(r) ==
    /\ pc[r] = "rlock"
    /\ ~cleaning[Server(r)]
    /\ Goto(r, IF IsWrite(op[r]) /\ LockWrites THEN "wlock" ELSE "start")
    /\ UNCHANGED <<remoteVars, serverVars, op, base, tries, result, historyVars>>

(* Mutant: writeMtx does not exclude.                                       *)
LockWriteShared(r) ==
    /\ pc[r] = "wlock"
    /\ writeMtx' = [writeMtx EXCEPT ![Server(r)] = r]
    /\ Goto(r, "start")
    /\ UNCHANGED <<remoteVars, store, storeMtx, cleaning, packers,
                   op, base, tries, result, historyVars>>

LockWrite(r) ==
    /\ pc[r] = "wlock"
    /\ writeMtx[Server(r)] = NoOne
    /\ writeMtx' = [writeMtx EXCEPT ![Server(r)] = r]
    /\ Goto(r, "start")
    /\ UNCHANGED <<remoteVars, store, storeMtx, cleaning, packers,
                   op, base, tries, result, historyVars>>

(* Mutant: the unlock of writeMtx is not deferred.                          *)
ReturnLocked(r) ==
    /\ pc[r] = "return"
    /\ Goto(r, "done")
    /\ UNCHANGED <<remoteVars, serverVars, op, base, tries, result, historyVars>>

Return(r) ==
    /\ pc[r] = "return"
    /\ writeMtx' = [writeMtx EXCEPT ![Server(r)] = IF @ = r THEN NoOne ELSE @]
    /\ Goto(r, "done")
    /\ UNCHANGED <<remoteVars, store, storeMtx, cleaning, packers,
                   op, base, tries, result, historyVars>>

-----------------------------------------------------------------------------
(* One attempt, up to the push.                                             *)

(* Mutant: main as the handshake of NewBackendWithAuth saw it.              *)
ReadMainOnce(r) ==
    /\ pc[r] = "start"
    /\ base' = [base EXCEPT ![r] = 1]
    /\ Goto(r, "fetch")
    /\ UNCHANGED <<remoteVars, serverVars, op, tries, result, historyVars>>

(* The handshake shows where main is; the attempt works on that commit.     *)
ReadMain(r) ==
    /\ pc[r] = "start"
    /\ base' = [base EXCEPT ![r] = Len(main)]
    /\ Goto(r, "fetch")
    /\ UNCHANGED <<remoteVars, serverVars, op, tries, result, historyVars>>

(* simpleGET: the tree of the commit, then its entry.                       *)
FetchForGet(r) ==
    /\ pc[r] = "fetch"
    /\ ~IsWrite(op[r])
    /\ StoreFree(r)
    /\ IF BaseTree(r)[op[r].path] = NoFile
         THEN Finish(r, NotFound)
         ELSE Goto(r, "blob") /\ UNCHANGED result
    /\ UNCHANGED <<remoteVars, serverVars, op, base, tries, historyVars>>

(* getObjectByHash: from the store, or fetched into it.                     *)
ReadBlob(r) ==
    /\ pc[r] = "blob"
    /\ StoreFree(r)
    /\ store' = [store EXCEPT
                   ![Server(r)] = @ \cup {<<"blob", BaseTree(r)[op[r].path]>>}]
    /\ Finish(r, Ok(BaseTree(r)[op[r].path]))
    /\ UNCHANGED <<remoteVars, storeMtx, writeMtx, cleaning, packers,
                   op, base, tries, historyVars>>

(* updateFile: the same tree, and the checks a write makes on it.           *)
FetchForUpdate(r) ==
    /\ pc[r] = "fetch"
    /\ IsWrite(op[r])
    /\ StoreFree(r)
    /\ LET refusal == CheckExistence(op[r], BaseTree(r))
       IN  IF refusal # NoAnswer
             THEN Finish(r, refusal)
             ELSE Goto(r, "build") /\ UNCHANGED result
    /\ UNCHANGED <<remoteVars, serverVars, op, base, tries, historyVars>>

(* createBlobHash, addToTree and createCommit only add objects nobody else  *)
(* looks up, so their three turns with storeMtx are one step.               *)
BuildCommit(r) ==
    /\ pc[r] = "build"
    /\ StoreFree(r)
    /\ store' = [store EXCEPT ![Server(r)] = @ \cup NewObjects(r)]
    /\ Goto(r, "connect")
    /\ UNCHANGED <<remoteVars, storeMtx, writeMtx, cleaning, packers,
                   op, base, tries, result, historyVars>>

(* What becomes of an attempt that failed without a definite answer: GET    *)
(* reports it, a write waits and tries again.                               *)
FailAttempt(r) ==
    IF IsWrite(op[r])
      THEN Goto(r, "backoff") /\ UNCHANGED result
      ELSE Finish(r, Error)

(* A handshake fails, or a fetch, which runs with storeMtx held.  A blob     *)
(* that is in the store is not fetched.                                     *)
NetworkFails(r) ==
    /\ "netFail" \in Faults
    /\ \/ pc[r] \in {"start", "connect"}
       \/ pc[r] = "fetch" /\ StoreFree(r)
       \/ /\ pc[r] = "blob" /\ StoreFree(r)
          /\ <<"blob", BaseTree(r)[op[r].path]>> \notin store[Server(r)]
    /\ FailAttempt(r)
    /\ UNCHANGED <<remoteVars, serverVars, op, base, tries, historyVars>>

(* Mutant: backoff without a maximum.                                       *)
RetryForever(r) ==
    /\ pc[r] = "backoff"
    /\ Goto(r, "start")
    /\ UNCHANGED <<remoteVars, serverVars, op, base, tries, result, historyVars>>

(* Mutant: one attempt too many.                                            *)
RetryOnceMore(r) ==
    /\ pc[r] = "backoff"
    /\ tries[r] <= MaxRetries
    /\ tries' = [tries EXCEPT ![r] = @ + 1]
    /\ Goto(r, "start")
    /\ UNCHANGED <<remoteVars, serverVars, op, base, result, historyVars>>

(* Mutant: the last error of the retries taken for a refusal.               *)
GiveUpRefused(r) ==
    /\ pc[r] = "backoff"
    /\ Finish(r, NotFound)
    /\ UNCHANGED <<remoteVars, serverVars, op, base, tries, historyVars>>

(* backoff.Retry: another attempt, or none any more because the time is up  *)
(* or the caller is gone.                                                   *)
Retry(r) ==
    /\ pc[r] = "backoff"
    /\ tries[r] < MaxRetries
    /\ tries' = [tries EXCEPT ![r] = @ + 1]
    /\ Goto(r, "start")
    /\ UNCHANGED <<remoteVars, serverVars, op, base, result, historyVars>>

GiveUp(r) ==
    /\ pc[r] = "backoff"
    /\ Finish(r, Error)
    /\ UNCHANGED <<remoteVars, serverVars, op, base, tries, historyVars>>

-----------------------------------------------------------------------------
(* The push and its pack.                                                   *)

(* buildPackfile starts the goroutine, and Push begins to read its pipe.    *)
OpenPush(r) ==
    /\ pc[r] = "connect"
    /\ packers' = packers
         \cup {[req |-> r, try |-> tries[r], pipe |-> "open"]}
    /\ Goto(r, "push")
    /\ UNCHANGED <<remoteVars, store, storeMtx, writeMtx, cleaning,
                   op, base, tries, result, historyVars>>

PackerLock(k) ==
    /\ k.pipe # "closed"
    /\ storeMtx[Server(k.req)] = NoOne
    /\ storeMtx' = [storeMtx EXCEPT ![Server(k.req)] = Attempt(k)]
    /\ UNCHANGED <<remoteVars, store, writeMtx, cleaning, packers,
                   requestVars, historyVars>>

Unlocked(k) ==
    [storeMtx EXCEPT ![Server(k.req)] = IF @ = Attempt(k) THEN NoOne ELSE @]

(* Mutant: the push names the present head of main as the old value.        *)
SendPackRebased(k) ==
    LET r == k.req IN
    /\ k.pipe = "open"
    /\ storeMtx[Server(r)] = Attempt(k)
    /\ packers' = packers \ {k}
    /\ storeMtx' = Unlocked(k)
    /\ pushes' = pushes \cup
         {[req |-> r, try |-> k.try, old |-> Len(main),
           tree |-> AddToTree(op[r], BaseTree(r))]}
    /\ Goto(r, "await")
    /\ UNCHANGED <<main, store, writeMtx, cleaning,
                   op, base, tries, result, historyVars>>

(* The packer walks the commit and encodes what it found while Push reads;  *)
(* it lets go of storeMtx when all is sent.  A walk that does not find its  *)
(* objects fails the push, for good if the pack cannot be encoded (which    *)
(* GiveUp covers): PackObjectsKept says that it never comes to this.        *)
SendPack(k) ==
    LET r == k.req IN
    /\ k.pipe = "open"
    /\ storeMtx[Server(r)] = Attempt(k)
    /\ packers' = packers \ {k}
    /\ storeMtx' = Unlocked(k)
    /\ IF NewObjects(r) \subseteq store[Server(r)]
         THEN /\ pushes' = pushes \cup
                   {[req |-> r, try |-> k.try, old |-> base[r],
                     tree |-> AddToTree(op[r], BaseTree(r))]}
              /\ Goto(r, "await")
         ELSE Goto(r, "backoff") /\ UNCHANGED pushes
    /\ UNCHANGED <<main, store, writeMtx, cleaning,
                   op, base, tries, result, historyVars>>

(* Push returns an error before it has read the whole pack, and has closed  *)
(* the pipe or left it open.  pushCommit itself never closes it.            *)
PushBreaks(r) ==
    /\ pc[r] = "push"
    /\ "netFail" \in Faults
    /\ \E left \in {"closed"} \cup
                   (IF "leftOpen" \in Faults THEN {"left"} ELSE {}) :
         packers' = {IF Attempt(k) = <<r, tries[r]>>
                       THEN [k EXCEPT !.pipe = left] ELSE k : k \in packers}
    /\ Goto(r, "backoff")
    /\ UNCHANGED <<remoteVars, store, storeMtx, writeMtx, cleaning,
                   op, base, tries, result, historyVars>>

(* Writing to a closed pipe fails at once.  Writing to one that was left    *)
(* open never returns: that packer has no further step.                     *)
PackerExit(k) ==
    /\ k.pipe = "closed"
    /\ storeMtx[Server(k.req)] \in {NoOne, Attempt(k)}
    /\ packers' = packers \ {k}
    /\ storeMtx' = Unlocked(k)
    /\ UNCHANGED <<remoteVars, store, writeMtx, cleaning,
                   requestVars, historyVars>>

-----------------------------------------------------------------------------
(* The remote, which compares and swaps, and its answers.                   *)

(* Mutant: a forced push.                                                   *)
AppliesForced(m) == m.old <= Len(main)

Applies(m) == m.old = Len(main)
Waits(m)   == pc[m.req] = "await" /\ tries[m.req] = m.try

(* The head of main after the remote has dealt with a push.                 *)
Receive(m) ==
    /\ pushes' = pushes \ {m}
    /\ main' = IF Applies(m)
                 THEN Append(main, [tree |-> m.tree, by |-> m.req, try |-> m.try])
                 ELSE main

(* Mutant: the report of an accepted push taken for an error.               *)
PushAcceptedRetried(m) ==
    /\ Waits(m) /\ Applies(m)
    /\ Receive(m)
    /\ Goto(m.req, "backoff")
    /\ UNCHANGED <<serverVars, op, base, tries, result, historyVars>>

PushAccepted(m) ==
    /\ Waits(m) /\ Applies(m)
    /\ Receive(m)
    /\ Finish(m.req, Ok(NoFile))
    /\ UNCHANGED <<serverVars, op, base, tries, historyVars>>

PushRefused(m) ==
    /\ Waits(m) /\ ~Applies(m)
    /\ Receive(m)
    /\ Goto(m.req, "backoff")
    /\ UNCHANGED <<serverVars, op, base, tries, result, historyVars>>

(* Nobody is there to hear the answer, or it gets lost.                     *)
PushUnheard(m) ==
    /\ Waits(m) => "lostReply" \in Faults
    /\ Receive(m)
    /\ UNCHANGED <<serverVars, requestVars, historyVars>>

(* Mutant: no answer taken for success.                                     *)
ReplyLostOk(r) ==
    /\ pc[r] = "await"
    /\ "lostReply" \in Faults
    /\ unheard' = [unheard EXCEPT ![r] = @ + 1]
    /\ Finish(r, Ok(NoFile))
    /\ UNCHANGED <<remoteVars, serverVars, op, base, tries, began>>

(* Push returns without an answer, whether or not the remote has seen or    *)
(* will see it.  A report cut short ("malformed unpack status") is final.   *)
ReplyLost(r) ==
    /\ pc[r] = "await"
    /\ "lostReply" \in Faults
    /\ unheard' = [unheard EXCEPT ![r] = @ + 1]
    /\ \/ Goto(r, "backoff") /\ UNCHANGED result
       \/ Finish(r, Error)
    /\ UNCHANGED <<remoteVars, serverVars, op, base, tries, began>>

-----------------------------------------------------------------------------
(* The cleanup goroutine, and restarts.                                     *)

Tick(s) ==
    /\ s \in Ticking
    /\ ~cleaning[s]
    /\ cleaning' = [cleaning EXCEPT ![s] = TRUE]
    /\ UNCHANGED <<remoteVars, store, storeMtx, writeMtx, packers,
                   requestVars, historyVars>>

Readers(s) == {r \in Requests : Server(r) = s /\ pc[r] \in Inside}

(* Mutant: the cleanup does not wait for the requests of its server.        *)
CleanAnyTime(s) ==
    /\ cleaning[s]
    /\ store' = [store EXCEPT ![s] = {}]
    /\ cleaning' = [cleaning EXCEPT ![s] = FALSE]
    /\ UNCHANGED <<remoteVars, storeMtx, writeMtx, packers,
                   requestVars, historyVars>>

Clean(s) ==
    /\ cleaning[s]
    /\ Readers(s) = {}
    /\ store' = [store EXCEPT ![s] = {}]
    /\ cleaning' = [cleaning EXCEPT ![s] = FALSE]
    /\ UNCHANGED <<remoteVars, storeMtx, writeMtx, packers,
                   requestVars, historyVars>>

(* Nothing of a server outlives it but the pushes it has sent.              *)
Crash(s) ==
    LET lost == {r \in Requests : Server(r) = s /\ pc[r] \in Inside \cup {"rlock"}}
    IN  /\ "crash" \in Faults
        /\ lost # {}
        /\ pc' = [r \in Requests |-> IF r \in lost THEN "crashed" ELSE pc[r]]
        /\ unheard' = [r \in Requests |->
             IF r \in lost /\ (pc[r] = "await" \/ result[r].code = "ok")
               THEN unheard[r] + 1 ELSE unheard[r]]
        /\ result' = [r \in Requests |-> IF r \in lost THEN NoAnswer ELSE result[r]]
        /\ store' = [store EXCEPT ![s] = {}]
        /\ storeMtx' = [storeMtx EXCEPT ![s] = NoOne]
        /\ writeMtx' = [writeMtx EXCEPT ![s] = NoOne]
        /\ cleaning' = [cleaning EXCEPT ![s] = FALSE]
        /\ packers' = {k \in packers : Server(k.req) # s}
        /\ UNCHANGED <<remoteVars, op, base, tries, began>>

Next ==
    \/ \E r \in Requests :
         \/ Call(r) \/ RLock(r) \/ LockWrite(r) \/ Return(r)
         \/ ReadMain(r) \/ FetchForGet(r) \/ ReadBlob(r) \/ FetchForUpdate(r)
         \/ BuildCommit(r) \/ NetworkFails(r) \/ Retry(r) \/ GiveUp(r)
         \/ OpenPush(r) \/ PushBreaks(r) \/ ReplyLost(r)
    \/ \E k \in packers : PackerLock(k) \/ SendPack(k) \/ PackerExit(k)
    \/ \E m \in pushes : PushAccepted(m) \/ PushRefused(m) \/ PushUnheard(m)
    \/ \E s \in Servers : Tick(s) \/ Clean(s) \/ Crash(s)

Spec == Init /\ [][Next]_vars

(* Every network call returns and every timer fires, so a request whose      *)
(* next step waits for nobody takes it; this includes the choice between an  *)
(* answer and an error.  Go's mutexes are starvation-free and its RWMutex    *)
(* lets the readers in that a writer kept waiting, so a step that needs a    *)
(* lock is taken if the lock is free again and again.                        *)
Proceeds(r) ==
    \/ Return(r) \/ ReadMain(r) \/ OpenPush(r) \/ Retry(r) \/ GiveUp(r)
    \/ (pc[r] \in {"start", "connect"} /\ NetworkFails(r))
    \/ \E m \in pushes : m.req = r /\ (PushAccepted(m) \/ PushRefused(m))
    \/ ReplyLost(r)

TakesLock(r) ==
    \/ RLock(r) \/ LockWrite(r) \/ BuildCommit(r)
    \/ FetchForGet(r) \/ FetchForUpdate(r) \/ ReadBlob(r)
    \/ (pc[r] \in {"fetch", "blob"} /\ NetworkFails(r))

PackerStep(r) ==
    \E k \in packers :
       k.req = r /\ (PackerLock(k) \/ SendPack(k) \/ PackerExit(k))

Fairness ==
    /\ \A r \in Requests :
         WF_vars(Proceeds(r)) /\ SF_vars(TakesLock(r)) /\ SF_vars(PackerStep(r))
    /\ \A s \in Servers : WF_vars(Clean(s))

FairSpec == Spec /\ Fairness

-----------------------------------------------------------------------------
(* Properties.                                                              *)

(* Every variable has its type.                                             *)
TypeOK ==
    /\ main \in Seq(Commits) /\ main # <<>>
    /\ pushes \subseteq Pushes
    /\ store \in [Servers -> SUBSET Objects]
    /\ storeMtx \in [Servers -> Attempts \cup {NoOne}]
    /\ writeMtx \in [Servers -> Requests \cup {NoOne}]
    /\ cleaning \in [Servers -> BOOLEAN]
    /\ packers \subseteq Packers
    /\ pc \in [Requests -> Places]
    /\ op \in [Requests -> Operations]
    /\ base \in [Requests -> Nat]
    /\ tries \in [Requests -> Tries]
    /\ result \in [Requests -> Answers \cup {NoAnswer}]
    /\ began \in [Requests -> Nat]
    /\ unheard \in [Requests -> Nat]

(* No update is lost and none is applied blindly: every commit of main is    *)
(* what its operation makes of the tree just below it, and the operation was *)
(* allowed there (POST found no file, PUT and DELETE found one), however     *)
(* many servers push, retry, crash or give up (updateFile, pushCommit).      *)
LinearHistory ==
    \A i \in 2..Len(main) :
       LET c == main[i]  below == main[i - 1].tree
       IN  /\ c.by \in Requests
           /\ Writes(op[c.by], below)
           /\ c.tree = Effect(op[c.by], below)

(* The commits a request has made in main.                                  *)
CommitsOf(r) == {i \in 1..Len(main) : main[i].by = r}

Returned(r) == pc[r] \in {"return", "done"}
Definite(r) == Returned(r) /\ result[r] # Error

(* Answers are linearizable: a request answered with a success or a refusal  *)
(* saw, or made, one commit of main that became the head after the request   *)
(* was called, or was the head then, and the answer is the one that tree     *)
(* calls for.                                                                *)
AnswersLinearizable ==
    \A r \in Requests : Definite(r) =>
       LET o == op[r] IN
       IF IsWrite(o) /\ result[r].code = "ok"
         THEN \E i \in CommitsOf(r) : began[r] < i /\ main[i].try = tries[r]
         ELSE /\ base[r] >= began[r]
              /\ result[r] = Outcome(o, BaseTree(r))

(* A definite answer is final: after it no push of the request that is still *)
(* on its way can be applied, not even one an earlier attempt gave up on     *)
(* (pushCommit's old value, against the retries of POST, PUT and DELETE).    *)
DefiniteIsFinal ==
    \A m \in pushes : Definite(m.req) => ~Applies(m)

(* A request is applied at most once for each push it got no answer to, and  *)
(* once more for the push that was answered: retries alone never apply a     *)
(* write twice, and an answered error means it was not applied at all.       *)
AppliedOncePerSilence ==
    \A r \in Requests :
       LET heard == pc[r] = "await" \/ (Definite(r) /\ result[r].code = "ok")
       IN  Cardinality(CommitsOf(r)) <= unheard[r] + (IF heard THEN 1 ELSE 0)

(* The cleanup never takes away what a running push still has to pack:       *)
(* the objects of an attempt stay in the store from createCommit until the   *)
(* pack is sent (sessionMtx, and storeMtx in buildPackfile).                 *)
PackObjectsKept ==
    \A r \in Requests :
       pc[r] \in {"connect", "push"} => NewObjects(r) \subseteq store[Server(r)]

(* What lockWrites buys: from the moment a write reads main, only another    *)
(* server, or an earlier push of this one that was never answered, can       *)
(* overtake it.  Within one server writes never refuse each other's pushes.  *)
LockKeepsBaseFresh ==
    LockWrites =>
      \A r \in Requests :
         IsWrite(op[r]) /\ pc[r] \in {"fetch", "build", "connect", "push", "await"} =>
           \A i \in (base[r] + 1)..Len(main) :
              LET other == main[i].by IN
              \/ other = r
              \/ Server(other) # Server(r)
              \/ unheard[other] > 0

(* The one way a server stops serving: a packer that nobody reads from holds *)
(* storeMtx.                                                                *)
Wedged(s) == \E k \in packers : k.pipe = "left" /\ storeMtx[s] = Attempt(k)

(* Every call is answered, whatever breaks and however often the cleanup     *)
(* asks for sessionMtx, unless its server crashes or is wedged.              *)
EveryCallReturns ==
    \A r \in Requests :
       pc[r] = "rlock" ~> (pc[r] \in {"done", "crashed"} \/ Wedged(Server(r)))

(* The cleanup gets its turn in spite of requests that hold sessionMtx       *)
(* through all their retries, unless the server is wedged.                   *)
CleanupRuns ==
    \A s \in Servers : cleaning[s] ~> (~cleaning[s] \/ Wedged(s))

-----------------------------------------------------------------------------
(* Refinement of RestStore: the tree is the one at the head of main; a       *)
(* request that reads or is refused executes when it reads main, one that    *)
(* succeeds when its push is accepted.                                       *)
RefusedAtBase(r) == IsWrite(op[r]) => ~Writes(op[r], BaseTree(r))

AbstractStatus ==
    [r \in Requests |-> CASE pc[r] \in {"idle", "done", "crashed"} -> pc[r]
                          [] OTHER -> "open"]

AbstractOutcome ==
    [r \in Requests |->
       CASE pc[r] \in {"fetch", "blob"} /\ RefusedAtBase(r) ->
              Outcome(op[r], BaseTree(r))
         [] Definite(r) -> result[r]
         [] OTHER -> NoAnswer]

AbstractAnswer ==
    [r \in Requests |-> IF pc[r] = "done" THEN result[r] ELSE NoAnswer]

Promise == INSTANCE RestStore
             WITH kv <- HeadTree, status <- AbstractStatus,
                  outcome <- AbstractOutcome, answer <- AbstractAnswer

(* Servers, retries, faults and all, the backend keeps RestStore's promise:  *)
(* each answered request took effect once, at one instant between its call   *)
(* and its return, and an unanswered push is executed late only while its    *)
(* caller has no definite answer.                                            *)
ImplementsRestStore == Promise!Spec
=============================================================================
