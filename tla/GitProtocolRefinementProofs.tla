--------------------- MODULE GitProtocolRefinementProofs ---------------------
(***************************************************************************)
(* GitProtocol implements RestStore, for every value of the constants: each *)
(* step of a server, a packer or the remote is a step of the promise or     *)
(* leaves what its callers can tell as it was.                              *)
(***************************************************************************)
EXTENDS GitProtocolSharingProofs

(* The mapping, request by request.                                          *)
StatusOf(r) ==
    IF pc[r] \in {"idle", "done", "crashed"} THEN pc[r] ELSE "open"

Decided(r) == pc[r] \in {"fetch", "blob"} /\ RefusedAtBase(r)

OutcomeOf(r) ==
    IF Decided(r) THEN Outcome(op[r], BaseTree(r))
    ELSE IF Definite(r) THEN result[r] ELSE NoAnswer

AnswerTo(r) == IF pc[r] = "done" THEN result[r] ELSE NoAnswer

LEMMA Mapping ==
    /\ AbstractStatus = [r \in Requests |-> StatusOf(r)]
    /\ AbstractOutcome = [r \in Requests |-> OutcomeOf(r)]
    /\ AbstractAnswer = [r \in Requests |-> AnswerTo(r)]
<1>1. ASSUME NEW r \in Requests
      PROVE  ~(Decided(r) /\ Definite(r))
  BY DEF Decided, Definite, Returned
<1>2. QED
  BY <1>1 DEF AbstractStatus, StatusOf, AbstractOutcome, OutcomeOf, Decided,
              AbstractAnswer, AnswerTo

LEMMA MappingNext ==
    /\ AbstractStatus' = [r \in Requests |-> StatusOf(r)']
    /\ AbstractOutcome' = [r \in Requests |-> OutcomeOf(r)']
    /\ AbstractAnswer' = [r \in Requests |-> AnswerTo(r)']
<1>1. ASSUME NEW r \in Requests
      PROVE  ~(Decided(r)' /\ Definite(r)')
  BY DEF Decided, Definite, Returned
<1>2. QED
  BY <1>1 DEF AbstractStatus, StatusOf, AbstractOutcome, OutcomeOf, Decided,
              AbstractAnswer, AnswerTo

(* The promise is stated with the same words.                                *)
LEMMA SameWords ==
    /\ Promise!Trees = Trees /\ Promise!Operations = Operations
    /\ Promise!NoAnswer = NoAnswer /\ Promise!Error = Error
    /\ \A o, tree : /\ Promise!IsWrite(o) = IsWrite(o)
                    /\ Promise!Writes(o, tree) = Writes(o, tree)
                    /\ Promise!Outcome(o, tree) = Outcome(o, tree)
                    /\ Promise!Effect(o, tree) = Effect(o, tree)
BY DEF Promise!Trees, Trees, Promise!Operations, Operations, Promise!NoAnswer, NoAnswer,
       Promise!Error, Error, Promise!IsWrite, IsWrite, Promise!Writes, Writes,
       Promise!Outcome, Outcome, Promise!Effect, Effect, Promise!Ok, Ok,
       Promise!NotFound, NotFound, Promise!Conflict, Conflict

Same(r) == /\ StatusOf(r)' = StatusOf(r)
           /\ OutcomeOf(r)' = OutcomeOf(r)
           /\ AnswerTo(r)' = AnswerTo(r)

(* A step nobody can tell.                                                   *)
LEMMA Unseen ==
    ASSUME HeadTree' = HeadTree, op' = op, \A r \in Requests : Same(r)
    PROVE  UNCHANGED Promise!vars
<1>1. /\ AbstractStatus' = AbstractStatus
      /\ AbstractOutcome' = AbstractOutcome
      /\ AbstractAnswer' = AbstractAnswer
  BY Mapping, MappingNext DEF Same
<1>2. QED
  BY <1>1 DEF Promise!vars

(* A step that one request can tell.                                         *)
LEMMA OneSees ==
    ASSUME NEW r \in Requests, \A q \in Requests \ {r} : Same(q)
    PROVE  /\ AbstractStatus' = [AbstractStatus EXCEPT ![r] = StatusOf(r)']
           /\ AbstractOutcome' = [AbstractOutcome EXCEPT ![r] = OutcomeOf(r)']
           /\ AbstractAnswer' = [AbstractAnswer EXCEPT ![r] = AnswerTo(r)']
           /\ AbstractStatus[r] = StatusOf(r)
           /\ AbstractOutcome[r] = OutcomeOf(r)
           /\ AbstractAnswer[r] = AnswerTo(r)
BY Mapping, MappingNext DEF Same

(* A request that did not move is seen as before.                            *)
LEMMA SeenAsBefore ==
    ASSUME IInv, [Next]_vars, NEW q \in Requests,
           pc'[q] = pc[q], result'[q] = result[q], base'[q] = base[q]
    PROVE  Same(q)
<1>1. op' = op
  BY MainGrows DEF IInv
<1>2. pc[q] \in {"fetch", "blob"} => BaseTree(q)' = BaseTree(q)
  BY MainPrefix DEF IInv, BaseInv, BaseOf, BasePlaces, BaseTree
<1>3. QED
  BY <1>1, <1>2 DEF Same, StatusOf, OutcomeOf, AnswerTo, Decided, RefusedAtBase,
                    Definite, Returned

(* The tree a request works on, while it looks at it.                        *)
LEMMA BaseIsATree ==
    ASSUME IInv, NEW q \in Requests
    PROVE  /\ op[q] \in Operations /\ HeadTree \in Trees
           /\ pc[q] \in BasePlaces => BaseTree(q) \in Trees
<1>1. /\ main \in Seq(Commits) /\ Len(main) \in Nat \ {0} /\ op[q] \in Operations
  <2>1. main \in Seq(Commits) /\ main # <<>>
    BY DEF IInv, TypeOK
  <2>2. QED
    BY <2>1 DEF IInv, TypeOK
<1>2. pc[q] \in BasePlaces => base[q] \in 1..Len(main)
  BY <1>1 DEF IInv, BaseInv, BaseOf
<1>3. \A i \in 1..Len(main) : main[i].tree \in Trees
  <2>1. ASSUME NEW i \in 1..Len(main)
        PROVE  main[i].tree \in Trees
    <3>1. main[i] \in Commits
      BY <1>1
    <3>2. QED
      BY <3>1 DEF Commits
  <2>2. QED
    BY <2>1
<1>4. QED
  BY <1>1, <1>2, <1>3 DEF HeadTree, BaseTree

(* What an operation answers, by whether it writes.                          *)
LEMMA Outcomes ==
    ASSUME NEW o \in Operations, NEW tree \in Trees
    PROVE  /\ Outcome(o, tree) # NoAnswer /\ Outcome(o, tree) # Error
           /\ IsWrite(o) => (Writes(o, tree) <=> Outcome(o, tree).code = "ok")
           /\ Writes(o, tree) => IsWrite(o) /\ Outcome(o, tree) = Ok(NoFile)
           /\ ~Writes(o, tree) => Effect(o, tree) = tree
BY DEF Outcome, Writes, Effect, IsWrite, Ok, NotFound, Conflict, Error, NoAnswer,
       Operations

-----------------------------------------------------------------------------
(* A request that was not called has sent nothing.                           *)
Called == \A m \in pushes : pc[m.req] # "idle"

LEMMA CalledStep ==
    ASSUME IInv, Called, [Next]_vars
    PROVE  Called'
<1> USE DEF remoteVars, serverVars, requestVars, historyVars
<1>t. TypeOK /\ \A m \in pushes : m.req \in Requests
  BY DEF IInv, TypeOK, Pushes
<1>1. CASE UNCHANGED vars
  BY <1>1 DEF vars, Called
<1>2. ASSUME NEW r \in Requests, Local(r)
      PROVE  Called'
  <2>1. /\ pushes' = pushes /\ \A q \in Requests \ {r} : pc'[q] = pc[q]
    BY <1>2, <1>t, LocalKeeps
  <2>2. pc'[r] # "idle"
    BY <1>2, <1>t DEF Local, Call, RLock, LockWrite, Return, ReadMain, FetchForGet,
       ReadBlob, FetchForUpdate, BuildCommit, NetworkFails, FailAttempt, Retry, GiveUp,
       OpenPush, PushBreaks, ReplyLost, Goto, Finish, TypeOK
  <2>3. QED
    BY <1>t, <2>1, <2>2 DEF Called
<1>3. ASSUME NEW k \in packers, Packs(k)
      PROVE  Called'
  <2>1. CASE PackerLock(k) \/ PackerExit(k)
    BY <1>3, <1>t, <2>1, PacksKeeps DEF Called
  <2>2. CASE SendPack(k)
    <3>1. k.req \in Requests /\ pc[k.req] = "push"
      BY <1>t, <2>2 DEF SendPack, IInv, PackerInv, TypeOK, Packers
    <3>2. /\ pc'[k.req] \in {"await", "backoff"}
          /\ \A q \in Requests : q # k.req => pc'[q] = pc[q]
          /\ \A n \in pushes' : n \in pushes \/ n.req = k.req
      BY <1>t, <2>2, <3>1 DEF SendPack, Goto, TypeOK
    <3>3. QED
      BY <1>t, <3>2 DEF Called
  <2>3. QED
    BY <1>3, <2>1, <2>2 DEF Packs
<1>4. ASSUME NEW m \in pushes, Receives(m)
      PROVE  Called'
  <2>1. pushes' \subseteq pushes /\ \A q \in Requests : q # m.req => pc'[q] = pc[q]
    BY <1>4, <1>t, ReceivesKeeps
  <2>2. pc'[m.req] # "idle"
    BY <1>4, <1>t DEF Receives, PushAccepted, PushRefused, PushUnheard, Goto, Finish,
       Called, TypeOK
  <2>3. QED
    BY <1>t, <2>1, <2>2 DEF Called
<1>5. ASSUME NEW s \in Servers, Runs(s)
      PROVE  Called'
  BY <1>5, <1>t, RunsKeeps DEF Called
<1>6. QED
  BY <1>1, <1>2, <1>3, <1>4, <1>5, NextIsStep

-----------------------------------------------------------------------------
(* Initial states.                                                           *)
LEMMA RefinesInit == Init => Promise!Init
<1> SUFFICES ASSUME Init
             PROVE  Promise!Init
  OBVIOUS
<1>1. TypeOK /\ HeadTree \in Trees
  <2>1. PICK t \in Trees : main = <<[tree |-> t, by |-> NoOne, try |-> 0]>>
    BY DEF Init
  <2>2. HeadTree = t
    BY <2>1 DEF HeadTree
  <2>3. QED
    BY <2>2, TypeInit
<1>2. ASSUME NEW r \in Requests
      PROVE  StatusOf(r) = "idle" /\ OutcomeOf(r) = NoAnswer /\ AnswerTo(r) = NoAnswer
  BY DEF Init, StatusOf, OutcomeOf, Decided, Definite, Returned, AnswerTo
<1>3. /\ AbstractStatus = [r \in Requests |-> "idle"]
      /\ AbstractOutcome = [r \in Requests |-> NoAnswer]
      /\ AbstractAnswer = [r \in Requests |-> NoAnswer]
  BY <1>2, Mapping
<1>4. QED
  BY <1>1, <1>3, SameWords DEF Promise!Init, TypeOK

-----------------------------------------------------------------------------
(* Steps of a request in its server.                                         *)

(* Between two places without an outcome nobody sees a request move.         *)
LEMMA OpenAsBefore ==
    ASSUME NEW r \in Requests,
           pc[r] \notin {"idle", "done", "crashed"}, pc'[r] \notin {"idle", "done", "crashed"},
           OutcomeOf(r)' = OutcomeOf(r)
    PROVE  Same(r)
BY DEF Same, StatusOf, AnswerTo

LEMMA CallRefines ==
    ASSUME IInv, [Next]_vars, NEW r \in Requests, Call(r)
    PROVE  Promise!Call(r)
<1>1. TypeOK /\ op' = op /\ HeadTree' = HeadTree
  BY DEF IInv, Call, requestVars, remoteVars, HeadTree
<1>2. \A q \in Requests \ {r} : Same(q)
  <2>1. Local(r)
    BY DEF Local
  <2>2. QED
    BY <1>1, <2>1, LocalKeeps, SeenAsBefore
<1>3. /\ StatusOf(r) = "idle" /\ StatusOf(r)' = "open"
      /\ OutcomeOf(r)' = OutcomeOf(r) /\ AnswerTo(r)' = AnswerTo(r)
  BY <1>1 DEF Call, Goto, TypeOK, StatusOf, OutcomeOf, Decided, Definite, Returned, AnswerTo
<1>4. /\ AbstractStatus' = [AbstractStatus EXCEPT ![r] = "open"]
      /\ AbstractOutcome' = AbstractOutcome /\ AbstractAnswer' = AbstractAnswer
      /\ AbstractStatus[r] = "idle"
  <2>1. UNCHANGED <<AbstractOutcome, AbstractAnswer>>
    BY <1>2, <1>3, Mapping, MappingNext DEF Same
  <2>2. QED
    BY <1>2, <1>3, <2>1, OneSees
<1>5. QED
  BY <1>1, <1>4 DEF Promise!Call

LEMMA ReturnRefines ==
    ASSUME IInv, [Next]_vars, NEW r \in Requests, Return(r)
    PROVE  Promise!Return(r)
<1>1. TypeOK /\ op' = op /\ HeadTree' = HeadTree /\ result' = result
      /\ pc[r] = "return" /\ pc'[r] = "done"
  BY DEF IInv, Return, TypeOK, Goto, remoteVars, HeadTree
<1>2. \A q \in Requests \ {r} : Same(q)
  <2>1. Local(r)
    BY DEF Local
  <2>2. QED
    BY <1>1, <2>1, LocalKeeps, SeenAsBefore
<1>3. result[r] # NoAnswer
  BY <1>1 DEF IInv, ResultInv, Returned
<1>4. /\ StatusOf(r) = "open" /\ StatusOf(r)' = "done" /\ OutcomeOf(r)' = OutcomeOf(r)
      /\ AnswerTo(r)' = result[r]
      /\ result[r] = IF OutcomeOf(r) = NoAnswer THEN Error ELSE OutcomeOf(r)
  BY <1>1, <1>3 DEF StatusOf, OutcomeOf, Decided, Definite, Returned, AnswerTo
<1>5. UNCHANGED AbstractOutcome
  BY <1>2, <1>4, Mapping, MappingNext DEF Same
<1>6. /\ AbstractStatus' = [AbstractStatus EXCEPT ![r] = "done"]
      /\ AbstractAnswer' = [AbstractAnswer EXCEPT ![r] =
           IF AbstractOutcome[r] = NoAnswer THEN Error ELSE AbstractOutcome[r]]
      /\ AbstractStatus[r] = "open"
  BY <1>2, <1>4, OneSees
<1>7. QED
  BY <1>1, <1>5, <1>6, SameWords DEF Promise!Return

(* Reading main executes the requests that read or will be refused.          *)
LEMMA ReadMainRefines ==
    ASSUME IInv, [Next]_vars, NEW r \in Requests, ReadMain(r)
    PROVE  Promise!Execute(r) \/ UNCHANGED Promise!vars
<1>1. /\ TypeOK /\ op' = op /\ HeadTree' = HeadTree /\ result' = result
      /\ pc[r] = "start" /\ pc'[r] = "fetch" /\ BaseTree(r)' = HeadTree
  BY DEF IInv, ReadMain, TypeOK, Goto, remoteVars, HeadTree, BaseTree
<1>2. \A q \in Requests \ {r} : Same(q)
  <2>1. Local(r)
    BY DEF Local
  <2>2. QED
    BY <1>1, <2>1, LocalKeeps, SeenAsBefore
<1>3. /\ op[r] \in Operations /\ HeadTree \in Trees
  BY BaseIsATree
<1>4. /\ OutcomeOf(r) = NoAnswer /\ StatusOf(r) = "open" /\ StatusOf(r)' = "open"
      /\ AnswerTo(r)' = AnswerTo(r)
      /\ OutcomeOf(r)' = IF IsWrite(op[r]) => ~Writes(op[r], HeadTree)
                           THEN Outcome(op[r], HeadTree) ELSE NoAnswer
  BY <1>1 DEF StatusOf, OutcomeOf, Decided, RefusedAtBase, Definite, Returned, AnswerTo
<1>5. CASE IsWrite(op[r]) /\ Writes(op[r], HeadTree)
  <2>1. Same(r)
    BY <1>4, <1>5 DEF Same
  <2>2. QED
    BY <1>1, <1>2, <2>1, Unseen
<1>6. CASE ~(IsWrite(op[r]) /\ Writes(op[r], HeadTree))
  <2>1. Effect(op[r], HeadTree) = HeadTree
    BY <1>3, <1>6, Outcomes
  <2>2. UNCHANGED <<AbstractStatus, AbstractAnswer>>
    BY <1>2, <1>4, Mapping, MappingNext DEF Same
  <2>3. /\ AbstractOutcome' = [AbstractOutcome EXCEPT ![r] = Outcome(op[r], HeadTree)]
        /\ AbstractStatus[r] = "open" /\ AbstractOutcome[r] = NoAnswer
    BY <1>2, <1>4, <1>6, OneSees
  <2>4. QED
    BY <1>1, <2>1, <2>2, <2>3, SameWords DEF Promise!Execute
<1>7. QED
  BY <1>5, <1>6

(* A failing network takes back what was read.                               *)
LEMMA NetworkFailsRefines ==
    ASSUME IInv, [Next]_vars, NEW r \in Requests, NetworkFails(r)
    PROVE  Promise!Forget(r) \/ UNCHANGED Promise!vars
<1>1. /\ TypeOK /\ op' = op /\ HeadTree' = HeadTree
      /\ pc[r] \in {"start", "connect", "fetch", "blob"}
      /\ pc'[r] = "backoff" \/ (pc'[r] = "return" /\ result'[r] = Error)
  BY DEF IInv, NetworkFails, FailAttempt, Finish, TypeOK, Goto, remoteVars, HeadTree
<1>2. \A q \in Requests \ {r} : Same(q)
  <2>1. Local(r)
    BY DEF Local
  <2>2. QED
    BY <1>1, <2>1, LocalKeeps, SeenAsBefore
<1>3. /\ StatusOf(r) = "open" /\ StatusOf(r)' = "open"
      /\ AnswerTo(r)' = AnswerTo(r) /\ OutcomeOf(r)' = NoAnswer
  BY <1>1 DEF StatusOf, OutcomeOf, Decided, Definite, Returned, AnswerTo
<1>4. CASE ~Decided(r)
  <2>1. OutcomeOf(r) = NoAnswer
    BY <1>1, <1>4 DEF OutcomeOf, Definite, Returned
  <2>2. Same(r)
    BY <1>3, <2>1 DEF Same
  <2>3. QED
    BY <1>1, <1>2, <2>2, Unseen
<1>5. CASE Decided(r)
  <2>1. OutcomeOf(r) = Outcome(op[r], BaseTree(r))
    BY <1>5 DEF OutcomeOf
  <2>2. op[r] \in Operations /\ BaseTree(r) \in Trees
    BY <1>5, BaseIsATree DEF Decided, BasePlaces
  <2>3. /\ OutcomeOf(r) # NoAnswer
        /\ IsWrite(op[r]) => OutcomeOf(r).code # "ok"
    BY <1>5, <2>1, <2>2, Outcomes DEF Decided, RefusedAtBase
  <2>4. UNCHANGED <<AbstractStatus, AbstractAnswer>>
    BY <1>2, <1>3, Mapping, MappingNext DEF Same
  <2>5. /\ AbstractOutcome' = [AbstractOutcome EXCEPT ![r] = NoAnswer]
        /\ AbstractStatus[r] = "open" /\ AbstractOutcome[r] = OutcomeOf(r)
    BY <1>2, <1>3, OneSees
  <2>6. QED
    BY <1>1, <2>3, <2>4, <2>5, SameWords DEF Promise!Forget
<1>6. QED
  BY <1>4, <1>5

(* The other steps of a request are seen by nobody.                          *)
LEMMA QuietSteps ==
    ASSUME IInv, [Next]_vars, NEW r \in Requests,
           \/ RLock(r) \/ LockWrite(r) \/ FetchForGet(r) \/ ReadBlob(r)
           \/ FetchForUpdate(r) \/ BuildCommit(r) \/ Retry(r) \/ GiveUp(r)
           \/ OpenPush(r) \/ PushBreaks(r) \/ ReplyLost(r)
    PROVE  UNCHANGED Promise!vars
<1>1. TypeOK /\ Local(r)
  BY DEF Local, IInv
<1>2. /\ op' = op /\ HeadTree' = HeadTree
      /\ \A q \in Requests \ {r} : Same(q)
  BY <1>1, LocalKeeps, SeenAsBefore DEF HeadTree
<1>3. Same(r)
  <2>1. CASE RLock(r) \/ LockWrite(r) \/ BuildCommit(r) \/ Retry(r) \/ GiveUp(r)
             \/ OpenPush(r) \/ PushBreaks(r) \/ ReplyLost(r)
    <3>1. /\ pc[r] \in {"rlock", "wlock", "build", "backoff", "connect", "push", "await"}
          /\ \/ pc'[r] \in {"wlock", "start", "connect", "push", "backoff"}
             \/ pc'[r] = "return" /\ result'[r] = Error
      BY <1>1, <2>1 DEF RLock, LockWrite, BuildCommit, Retry, GiveUp, OpenPush, PushBreaks,
                        ReplyLost, Goto, Finish, TypeOK
    <3>2. OutcomeOf(r) = NoAnswer /\ OutcomeOf(r)' = NoAnswer
      BY <3>1 DEF OutcomeOf, Decided, Definite, Returned
    <3>3. QED
      BY <3>1, <3>2, OpenAsBefore
  <2>2. CASE FetchForGet(r) \/ ReadBlob(r) \/ FetchForUpdate(r)
    <3>1. /\ pc[r] \in {"fetch", "blob"} /\ BaseTree(r)' = BaseTree(r)
          /\ pc'[r] \in {"blob", "return", "build"}
      BY <1>1, <2>2 DEF FetchForGet, ReadBlob, FetchForUpdate, Goto, Finish, TypeOK,
                        remoteVars, requestVars, BaseTree
    <3>2. op[r] \in Operations /\ BaseTree(r) \in Trees
      BY <3>1, BaseIsATree DEF BasePlaces
    <3>3. CASE pc'[r] = "build"
      <4>1. IsWrite(op[r]) /\ Writes(op[r], BaseTree(r))
        BY <1>1, <2>2, <3>2, <3>3, ChecksAgree
           DEF FetchForGet, ReadBlob, FetchForUpdate, Goto, Finish, TypeOK
      <4>2. OutcomeOf(r) = NoAnswer /\ OutcomeOf(r)' = NoAnswer
        BY <3>1, <3>3, <4>1 DEF OutcomeOf, Decided, RefusedAtBase, Definite, Returned
      <4>3. QED
        BY <3>1, <4>2, OpenAsBefore
    <3>4. CASE pc'[r] = "blob"
      <4>1. ~IsWrite(op[r])
        BY <1>1, <2>2, <3>4 DEF FetchForGet, ReadBlob, FetchForUpdate, Goto, Finish, TypeOK
      <4>2. OutcomeOf(r)' = OutcomeOf(r)
        BY <1>2, <3>1, <3>4, <4>1 DEF OutcomeOf, Decided, RefusedAtBase
      <4>3. QED
        BY <3>1, <4>2, OpenAsBefore
    <3>5. CASE pc'[r] = "return"
      <4>1. /\ result'[r] = Outcome(op[r], BaseTree(r))
            /\ IsWrite(op[r]) => ~Writes(op[r], BaseTree(r))
        <5>1. CASE FetchForGet(r)
          <6>1. /\ ~IsWrite(op[r]) /\ BaseTree(r)[op[r].path] = NoFile
                /\ result'[r] = NotFound
            BY <1>1, <3>5, <5>1 DEF FetchForGet, Goto, Finish, TypeOK
          <6>2. QED
            BY <6>1 DEF IsWrite, Outcome
        <5>2. CASE ReadBlob(r)
          <6>1. /\ ~IsWrite(op[r]) /\ BaseTree(r)[op[r].path] # NoFile
                /\ result'[r] = Ok(BaseTree(r)[op[r].path])
            BY <1>1, <5>2 DEF ReadBlob, Finish, TypeOK, IInv, BaseInv, BaseOf
          <6>2. QED
            BY <6>1 DEF IsWrite, Outcome
        <5>3. CASE FetchForUpdate(r)
          <6>1. /\ IsWrite(op[r]) /\ CheckExistence(op[r], BaseTree(r)) # NoAnswer
                /\ result'[r] = CheckExistence(op[r], BaseTree(r))
            BY <1>1, <3>5, <5>3 DEF FetchForUpdate, Goto, Finish, TypeOK
          <6>2. QED
            BY <3>2, <6>1, ChecksAgree
        <5>4. QED
          BY <2>2, <5>1, <5>2, <5>3
      <4>2. result'[r] # Error
        BY <3>2, <4>1, Outcomes
      <4>3. OutcomeOf(r)' = OutcomeOf(r)
        BY <3>1, <3>5, <4>1, <4>2 DEF OutcomeOf, Decided, RefusedAtBase, Definite, Returned
      <4>4. QED
        BY <3>1, <4>3, OpenAsBefore
    <3>6. QED
      BY <3>1, <3>3, <3>4, <3>5
  <2>3. QED
    BY <2>1, <2>2
<1>4. QED
  BY <1>2, <1>3, Unseen

-----------------------------------------------------------------------------
(* Steps of packers, of the remote and of servers.                           *)
LEMMA PacksRefine ==
    ASSUME IInv, [Next]_vars, NEW k \in packers, Packs(k)
    PROVE  UNCHANGED Promise!vars
<1>1. TypeOK /\ k.req \in Requests
  BY DEF IInv, TypeOK, Packers
<1>2. /\ op' = op /\ HeadTree' = HeadTree
      /\ \A q \in Requests : q # k.req => Same(q)
  BY <1>1, PacksKeeps, SeenAsBefore DEF HeadTree
<1>3. Same(k.req)
  <2>1. CASE pc' = pc
    BY <1>1, <2>1, PacksKeeps, SeenAsBefore
  <2>2. CASE SendPack(k)
    <3>1. pc[k.req] = "push" /\ pc'[k.req] \in {"await", "backoff"}
      BY <1>1, <2>2 DEF SendPack, IInv, PackerInv, Goto, TypeOK
    <3>2. OutcomeOf(k.req) = NoAnswer /\ OutcomeOf(k.req)' = NoAnswer
      BY <3>1 DEF OutcomeOf, Decided, Definite, Returned
    <3>3. QED
      BY <1>1, <3>1, <3>2, OpenAsBefore
  <2>3. QED
    BY <1>1, <2>1, <2>2, PacksKeeps DEF Packs
<1>4. QED
  BY <1>2, <1>3, Unseen

LEMMA RunsRefine ==
    ASSUME IInv, [Next]_vars, NEW s \in Servers, Runs(s)
    PROVE  (\E R \in SUBSET Requests : Promise!Crash(R)) \/ UNCHANGED Promise!vars
<1>1. TypeOK /\ op' = op /\ HeadTree' = HeadTree /\ base' = base
  BY RunsKeeps DEF IInv, HeadTree
<1>2. CASE Tick(s) \/ Clean(s)
  <2>1. \A q \in Requests : Same(q)
    BY <1>1, <1>2, SeenAsBefore DEF Tick, Clean, requestVars
  <2>2. QED
    BY <1>1, <2>1, Unseen
<1>3. CASE Crash(s)
  <2> DEFINE lost == {r \in Requests : Server(r) = s /\ pc[r] \in Inside \cup {"rlock"}}
  <2>1. /\ pc' = [r \in Requests |-> IF r \in lost THEN "crashed" ELSE pc[r]]
        /\ result' = [r \in Requests |-> IF r \in lost THEN NoAnswer ELSE result[r]]
    BY <1>3 DEF Crash
  <2>2. \A r \in Requests \ lost : Same(r)
    BY <1>1, <2>1, SeenAsBefore
  <2>3. ASSUME NEW r \in lost
        PROVE  /\ StatusOf(r) = "open" /\ StatusOf(r)' = "crashed"
               /\ OutcomeOf(r)' = NoAnswer
               /\ AnswerTo(r)' = NoAnswer /\ AnswerTo(r) = NoAnswer
    <3>1. pc[r] \notin {"idle", "done", "crashed"} /\ pc'[r] = "crashed"
      BY <2>1 DEF Inside, Working
    <3>2. QED
      BY <3>1 DEF StatusOf, OutcomeOf, Decided, Definite, Returned, AnswerTo
  <2>4. /\ \A r \in lost : AbstractStatus[r] = "open"
        /\ AbstractStatus' = [r \in Requests |->
                               IF r \in lost THEN "crashed" ELSE AbstractStatus[r]]
        /\ AbstractOutcome' = [r \in Requests |->
                               IF r \in lost THEN NoAnswer ELSE AbstractOutcome[r]]
        /\ AbstractAnswer' = AbstractAnswer
    BY <2>2, <2>3, Mapping, MappingNext DEF Same
  <2>5. lost \in SUBSET Requests
    OBVIOUS
  <2> HIDE DEF lost
  <2>6. Promise!Crash(lost)
    BY <1>1, <2>4, SameWords DEF Promise!Crash
  <2>7. QED
    BY <2>5, <2>6
<1>4. QED
  BY <1>2, <1>3 DEF Runs

(* What the remote applies is what the map would do with its head.           *)
LEMMA AppliedEffect ==
    ASSUME IInv, NEW m \in pushes, Applies(m)
    PROVE  /\ Writes(op[m.req], HeadTree) /\ m.tree = Effect(op[m.req], HeadTree)
           /\ m.req \in Requests /\ base[m.req] = Len(main)
           /\ Append(main, [tree |-> m.tree, by |-> m.req, try |-> m.try])
                [Len(Append(main, [tree |-> m.tree, by |-> m.req, try |-> m.try]))].tree
                = m.tree
<1>1. PushOf(m) /\ m.req \in Requests /\ m \in Pushes /\ main \in Seq(Commits)
  BY DEF IInv, PushInv, TypeOK, Pushes
<1>2. m.old = Len(main) /\ Len(main) \in Nat
  BY <1>1 DEF Applies
<1>3. m.old <= base[m.req] /\ base[m.req] \in 0..Len(main)
  BY <1>1 DEF PushOf, IInv, BaseInv, BaseOf
<1>4. [tree |-> m.tree, by |-> m.req, try |-> m.try] \in Commits
  BY <1>1 DEF Pushes, Commits
<1>5. /\ Len(Append(main, [tree |-> m.tree, by |-> m.req, try |-> m.try])) = Len(main) + 1
      /\ Append(main, [tree |-> m.tree, by |-> m.req, try |-> m.try])[Len(main) + 1] =
           [tree |-> m.tree, by |-> m.req, try |-> m.try]
  BY <1>1, <1>4, AppendProperties
<1>6. QED
  BY <1>1, <1>2, <1>3, <1>5 DEF PushOf, HeadTree

LEMMA ReceivesRefine ==
    ASSUME IInv, Called, [Next]_vars, NEW m \in pushes, Receives(m)
    PROVE  \/ UNCHANGED Promise!vars
           \/ Promise!Execute(m.req) \/ Promise!Stray(m.req)
<1> DEFINE r == m.req
<1>1. TypeOK /\ r \in Requests /\ op' = op /\ base' = base
  BY ReceivesKeeps DEF IInv, TypeOK, Pushes
<1>2. \A q \in Requests \ {r} : Same(q)
  BY <1>1, ReceivesKeeps, SeenAsBefore
<1>3. ASSUME Applies(m)
      PROVE  /\ HeadTree' = Effect(op[r], HeadTree) /\ Writes(op[r], HeadTree)
             /\ BaseTree(r) = HeadTree
  BY <1>1, <1>3, AppliedEffect, ReceivesKeeps DEF HeadTree, BaseTree
<1>4. ~Applies(m) => HeadTree' = HeadTree
  BY <1>1, ReceivesKeeps DEF HeadTree
<1>5. CASE PushAccepted(m)
  <2>1. /\ Applies(m) /\ pc[r] = "await" /\ pc'[r] = "return" /\ result'[r] = Ok(NoFile)
    BY <1>1, <1>5 DEF PushAccepted, Waits, Finish, Goto, TypeOK
  <2>2. op[r] \in Operations /\ HeadTree \in Trees
    BY <1>1, BaseIsATree
  <2>3. Outcome(op[r], HeadTree) = Ok(NoFile) /\ Ok(NoFile) # Error
    BY <1>3, <2>1, <2>2, Outcomes DEF Ok, Error
  <2>4. /\ StatusOf(r) = "open" /\ StatusOf(r)' = "open"
        /\ OutcomeOf(r) = NoAnswer /\ OutcomeOf(r)' = Outcome(op[r], HeadTree)
        /\ AnswerTo(r)' = AnswerTo(r)
    BY <2>1, <2>3 DEF StatusOf, OutcomeOf, Decided, Definite, Returned, AnswerTo
  <2>5. UNCHANGED <<AbstractStatus, AbstractAnswer>>
    BY <1>2, <2>4, Mapping, MappingNext DEF Same
  <2>6. /\ AbstractOutcome' = [AbstractOutcome EXCEPT ![r] = Outcome(op[r], HeadTree)]
        /\ AbstractStatus[r] = "open" /\ AbstractOutcome[r] = NoAnswer
    BY <1>1, <1>2, <2>4, OneSees
  <2>7. QED
    BY <1>1, <1>3, <2>1, <2>5, <2>6, SameWords DEF Promise!Execute
<1>6. CASE PushRefused(m)
  <2>1. ~Applies(m) /\ pc[r] = "await" /\ pc'[r] = "backoff"
    BY <1>1, <1>6 DEF PushRefused, Waits, Goto, TypeOK
  <2>2. OutcomeOf(r) = NoAnswer /\ OutcomeOf(r)' = NoAnswer
    BY <2>1 DEF OutcomeOf, Decided, Definite, Returned
  <2>3. Same(r)
    BY <1>1, <2>1, <2>2, OpenAsBefore
  <2>4. QED
    BY <1>1, <1>2, <1>4, <2>1, <2>3, Unseen
<1>7. CASE PushUnheard(m)
  <2>1. pc' = pc /\ result' = result
    BY <1>7 DEF PushUnheard, requestVars
  <2>2. \A q \in Requests : Same(q)
    BY <1>1, <2>1, SeenAsBefore
  <2>3. CASE ~Applies(m)
    BY <1>1, <1>4, <2>2, <2>3, Unseen
  <2>4. CASE Applies(m)
    <3>1. ~Decided(r)
      BY <1>3, <2>4 DEF Decided, RefusedAtBase, Writes
    <3>2. ~Definite(r)
      <4>1. base[r] = Len(main) /\ Len(main) \in Nat
        BY <1>1, <2>4, AppliedEffect DEF TypeOK
      <4>2. Definite(r) => AnswerOf(r)
        BY <1>1 DEF IInv, AnswerInv
      <4>3. QED
        BY <1>3, <2>4, <4>1, <4>2 DEF AnswerOf
    <3>3. OutcomeOf(r) = NoAnswer /\ (pc[r] = "done" => AnswerTo(r) = Error)
      BY <3>1, <3>2 DEF OutcomeOf, Definite, Returned, AnswerTo
    <3>4. pc[r] # "idle"
      BY DEF Called
    <3>5. \/ AbstractStatus[r] = "open" /\ AbstractOutcome[r] = NoAnswer
          \/ AbstractStatus[r] = "done" /\ AbstractAnswer[r] = Error
          \/ AbstractStatus[r] = "crashed"
      BY <1>1, <3>3, <3>4, Mapping DEF StatusOf
    <3>6. UNCHANGED <<AbstractStatus, AbstractOutcome, AbstractAnswer>>
      BY <2>2, Mapping, MappingNext DEF Same
    <3>7. QED
      BY <1>1, <1>3, <2>4, <3>5, <3>6, SameWords DEF Promise!Stray
  <2>5. QED
    BY <2>3, <2>4
<1>8. QED
  BY <1>5, <1>6, <1>7 DEF Receives

-----------------------------------------------------------------------------
(* The refinement.                                                           *)
LEMMA RefinesStep ==
    IInv /\ Called /\ [Next]_vars => [Promise!Next]_(Promise!vars)
<1> SUFFICES ASSUME IInv, Called, [Next]_vars
             PROVE  Promise!Next \/ UNCHANGED Promise!vars
  OBVIOUS
<1>1. CASE UNCHANGED vars
  <2>1. /\ op' = op /\ HeadTree' = HeadTree
        /\ \A q \in Requests : pc'[q] = pc[q] /\ result'[q] = result[q] /\ base'[q] = base[q]
    BY <1>1 DEF vars, remoteVars, requestVars, HeadTree
  <2>2. QED
    BY <2>1, SeenAsBefore, Unseen
<1>2. ASSUME NEW r \in Requests, Local(r)
      PROVE  Promise!Next \/ UNCHANGED Promise!vars
  <2>1. CASE Call(r)
    BY <2>1, CallRefines DEF Promise!Next
  <2>2. CASE Return(r)
    BY <2>2, ReturnRefines DEF Promise!Next
  <2>3. CASE ReadMain(r)
    BY <2>3, ReadMainRefines DEF Promise!Next
  <2>4. CASE NetworkFails(r)
    BY <2>4, NetworkFailsRefines DEF Promise!Next
  <2>5. QED
    BY <1>2, <2>1, <2>2, <2>3, <2>4, QuietSteps DEF Local
<1>3. ASSUME NEW k \in packers, Packs(k)
      PROVE  UNCHANGED Promise!vars
  BY <1>3, PacksRefine
<1>4. ASSUME NEW m \in pushes, Receives(m)
      PROVE  Promise!Next \/ UNCHANGED Promise!vars
  <2>1. m.req \in Requests
    BY DEF IInv, TypeOK, Pushes
  <2>2. QED
    BY <1>4, <2>1, ReceivesRefine DEF Promise!Next
<1>5. ASSUME NEW s \in Servers, Runs(s)
      PROVE  Promise!Next \/ UNCHANGED Promise!vars
  BY <1>5, RunsRefine DEF Promise!Next
<1>6. QED
  BY <1>1, <1>2, <1>3, <1>4, <1>5, NextIsStep

(* The backend keeps RestStore's promise: each answered request took effect  *)
(* once, at one instant between its call and its return, and a push nobody   *)
(* heard of is executed late only while its caller has no definite answer.   *)
THEOREM Refinement == Spec => ImplementsRestStore
<1>1. Init => Called
  BY DEF Init, Called
<1>2. IInv /\ Called /\ [Next]_vars => Called'
  BY CalledStep
<1>3. QED
  BY <1>1, <1>2, RefinesInit, RefinesStep, Invariance, PTL
     DEF Spec, ImplementsRestStore, Promise!Spec
=============================================================================
