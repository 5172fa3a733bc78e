---------------------------- MODULE S3BackendProofs ----------------------------
(***************************************************************************)
(* Proofs about S3Backend for every set of requests, paths and bodies, and *)
(* however often the SDK sends a call.                                     *)
(***************************************************************************)
EXTENDS S3BackendInv, FiniteSetTheorems, TLAPS

(* A step of one request; what the bucket does is a step of the one who      *)
(* asked for it.                                                             *)
Step(r) ==
    \/ Call(r) \/ GetObject(r) \/ HeadObject(r) \/ HeadFails(r)
    \/ Send(r) \/ AnswerCame(r) \/ NoAnswerCame(r)
    \/ \E w \in Pending(r) : CarryOut(w)

Cleanup == ListObjects \/ DeleteListed \/ CleanupFails \/ CleanupReturns

LEMMA NextIsStep == TypeOK => (Next <=> (\E r \in Requests : Step(r)) \/ Cleanup)
BY DEF TypeOK, Next, Step, Cleanup, Pending

LEMMA AnswersTyped ==
    /\ Error \in Answers /\ NotFound \in Answers /\ Conflict \in Answers
    /\ \A content \in Bodies \cup {NoFile} : Ok(content) \in Answers
BY DEF Error, Ok, NotFound, Conflict, Answers

(* What a step of a request leaves alone.                                    *)
LEMMA OthersKept ==
    ASSUME TypeOK, NEW r \in Requests, Step(r)
    PROVE  /\ op' = op /\ UNCHANGED cleanupVars
           /\ disturbed \subseteq disturbed'
           /\ \A s \in Requests \ {r} :
                /\ pc'[s] = pc[s] /\ attempts'[s] = attempts[s]
                /\ result'[s] = result[s] /\ found'[s] = found[s]
                /\ took'[s] = took[s] /\ Pending(s)' = Pending(s)
<1> USE DEF TypeOK, requestVars, cleanupVars, Goto, Finish, Pending
<1>1. CASE Call(r) \/ GetObject(r) \/ HeadObject(r) \/ HeadFails(r)
  BY <1>1 DEF Call, GetObject, HeadObject, HeadFails
<1>2. CASE Send(r) \/ AnswerCame(r) \/ NoAnswerCame(r)
  BY <1>2 DEF Send, AnswerCame, NoAnswerCame
<1>3. ASSUME NEW w \in Pending(r), CarryOut(w)
      PROVE  /\ op' = op /\ UNCHANGED cleanupVars
             /\ disturbed \subseteq disturbed'
             /\ \A s \in Requests \ {r} :
                  /\ pc'[s] = pc[s] /\ attempts'[s] = attempts[s]
                  /\ result'[s] = result[s] /\ found'[s] = found[s]
                  /\ took'[s] = took[s] /\ Pending(s)' = Pending(s)
  BY <1>3 DEF CarryOut
<1>4. QED
  BY <1>1, <1>2, <1>3 DEF Step

LEMMA CleanupKept ==
    ASSUME Cleanup
    PROVE  /\ UNCHANGED <<writes, requestVars, found, took>>
           /\ disturbed \subseteq disturbed'
BY DEF Cleanup, ListObjects, DeleteListed, CleanupFails, CleanupReturns, requestVars

-----------------------------------------------------------------------------
(* Counting.                                                                 *)

(* A sending that is new, and one that was carried out.                      *)
LEMMA Sent ==
    ASSUME TypeOK, NEW r \in Requests, CountOf(r), Send(r)
    PROVE  CountOf(r)' /\ attempts'[r] \in 1..MaxAttempts
<1> DEFINE w == <<r, attempts[r] + 1>>
<1>1. /\ pc[r] = "write" /\ pc'[r] = "await" /\ took' = took
      /\ attempts'[r] = attempts[r] + 1 /\ writes' = writes \cup {w}
  BY DEF Send, Goto, TypeOK
<1>2. attempts[r] \in Nat /\ took[r] \in Nat /\ MaxAttempts \in Nat /\ attempts[r] < MaxAttempts
  BY <1>1, BoundAssumption DEF CountOf, TypeOK
<1>3. Pending(r)' = Pending(r) \cup {w}
  BY <1>1 DEF Pending
<1>4. w \notin Pending(r)
  BY <1>2 DEF CountOf
<1>5. IsFiniteSet(Pending(r)) /\ Cardinality(Pending(r)) \in Nat
  BY FS_CardinalityType DEF CountOf
<1>6. IsFiniteSet(Pending(r)') /\ Cardinality(Pending(r)') = Cardinality(Pending(r)) + 1
  <2>1. /\ IsFiniteSet(Pending(r) \cup {w})
        /\ Cardinality(Pending(r) \cup {w}) = Cardinality(Pending(r)) + 1
    BY <1>4, <1>5, FS_AddElement
  <2>2. QED
    BY <1>3, <2>1
<1>7. \A v \in Pending(r)' : v[2] <= attempts'[r]
  <2>1. \A v \in Pending(r) : v[2] <= attempts[r] /\ v[2] \in Nat
    BY <1>2 DEF CountOf, Pending, TypeOK
  <2>2. QED
    BY <1>1, <1>2, <1>3, <2>1
<1>8. took'[r] + Cardinality(Pending(r)') = attempts'[r]
  BY <1>1, <1>2, <1>5, <1>6 DEF CountOf
<1>9. QED
  BY <1>1, <1>2, <1>6, <1>7, <1>8 DEF CountOf

LEMMA CarriedOut ==
    ASSUME TypeOK, NEW r \in Requests, CountOf(r), NEW w \in Pending(r), CarryOut(w)
    PROVE  CountOf(r)' /\ took'[r] = took[r] + 1 /\ took'[r] \in 1..MaxAttempts
<1>1. /\ w \in writes /\ w[1] = r
      /\ writes' = writes \ {w} /\ took'[r] = took[r] + 1 /\ attempts' = attempts
      /\ pc'[r] = pc[r] \/ pc'[r] = "answered"
  BY DEF CarryOut, Pending, TypeOK
<1>2. attempts[r] \in 0..MaxAttempts /\ took[r] \in Nat /\ MaxAttempts \in Nat
  BY BoundAssumption DEF TypeOK
<1>3. Pending(r)' = Pending(r) \ {w}
  BY <1>1 DEF Pending
<1>4. IsFiniteSet(Pending(r)) /\ Cardinality(Pending(r)) \in Nat
  BY FS_CardinalityType DEF CountOf
<1>5. IsFiniteSet(Pending(r)') /\ Cardinality(Pending(r)') = Cardinality(Pending(r)) - 1
  BY <1>3, <1>4, FS_RemoveElement
<1>6. Cardinality(Pending(r)') \in Nat
  BY <1>5, FS_CardinalityType
<1>7. took'[r] + Cardinality(Pending(r)') = attempts'[r]
  BY <1>1, <1>2, <1>4, <1>5 DEF CountOf
<1>8. took'[r] \in 1..MaxAttempts
  BY <1>1, <1>2, <1>6, <1>7
<1>9. \A v \in Pending(r)' : v[2] <= attempts'[r]
  BY <1>1, <1>3 DEF CountOf
<1>10. QED
  BY <1>1, <1>5, <1>7, <1>8, <1>9 DEF CountOf

LEMMA CountStep ==
    ASSUME TypeOK, CountInv, [Next]_vars
    PROVE  CountInv'
<1> USE DEF requestVars, Goto, Finish
<1>1. ASSUME NEW r \in Requests, pc'[r] = pc[r], attempts'[r] = attempts[r],
             took'[r] = took[r], Pending(r)' = Pending(r)
      PROVE  CountOf(r)'
  BY <1>1 DEF CountInv, CountOf
<1>2. CASE UNCHANGED vars \/ Cleanup
  <2>1. UNCHANGED <<writes, pc, attempts, took>>
    BY <1>2, CleanupKept DEF vars
  <2>2. QED
    BY <1>1, <2>1 DEF CountInv, Pending
<1>3. ASSUME NEW r \in Requests, Step(r)
      PROVE  CountOf(r)'
  <2>1. CountOf(r)
    BY DEF CountInv
  <2>2. CASE Send(r)
    BY <2>1, <2>2, Sent
  <2>3. CASE \E w \in Pending(r) : CarryOut(w)
    BY <2>1, <2>3, CarriedOut
  <2>4. CASE Call(r) \/ GetObject(r) \/ HeadObject(r) \/ HeadFails(r)
             \/ AnswerCame(r) \/ NoAnswerCame(r)
    <3>1. /\ UNCHANGED <<writes, attempts, took>>
          /\ \/ pc[r] \in {"idle", "get", "head"}
             \/ pc[r] = "answered" /\ pc'[r] = "done"
             \/ NoAnswerCame(r)
      BY <2>4 DEF Call, GetObject, HeadObject, HeadFails, AnswerCame, NoAnswerCame, TypeOK
    <3>2. Pending(r)' = Pending(r)
      BY <3>1 DEF Pending
    <3>3. pc'[r] \in {"idle", "get", "head"} => attempts[r] = 0
      BY <2>1, <2>4 DEF Call, GetObject, HeadObject, HeadFails, AnswerCame,
                        NoAnswerCame, CountOf, TypeOK
    <3>4. pc'[r] = "write" => attempts[r] < MaxAttempts
      <4>1. 0 < MaxAttempts
        BY BoundAssumption
      <4>2. CASE NoAnswerCame(r)
        BY <4>2 DEF NoAnswerCame, TypeOK
      <4>3. CASE pc[r] \in {"idle", "get", "head"}
        BY <2>1, <4>1, <4>3 DEF CountOf
      <4>4. QED
        BY <3>1, <4>2, <4>3
    <3>5. QED
      BY <2>1, <3>1, <3>2, <3>3, <3>4 DEF CountOf
  <2>5. QED
    BY <1>3, <2>2, <2>3, <2>4 DEF Step
<1>4. ASSUME NEW r \in Requests, Step(r)
      PROVE  CountInv'
  BY <1>1, <1>3, <1>4, OthersKept DEF CountInv
<1>5. QED
  BY <1>2, <1>4, NextIsStep

-----------------------------------------------------------------------------
(* Type correctness.                                                         *)
LEMMA TypeStep ==
    ASSUME TypeOK, CountInv, [Next]_vars
    PROVE  TypeOK'
<1> USE DEF requestVars, cleanupVars, Goto, Finish
<1>1. CASE UNCHANGED vars
  BY <1>1 DEF vars, TypeOK
<1>2. CASE ListObjects \/ CleanupFails \/ CleanupReturns
  <2>1. listed' \subseteq Paths
    BY <1>2 DEF ListObjects, CleanupFails, CleanupReturns, Present, TypeOK
  <2>2. QED
    BY <1>2, <2>1 DEF ListObjects, CleanupFails, CleanupReturns, TypeOK
<1>3. CASE DeleteListed
  <2>1. PICK p \in listed :
          /\ bucket' = [bucket EXCEPT ![p] = NoFile] /\ listed' = listed \ {p}
          /\ disturbed' = disturbed \cup Bystanders(Cleaner, {p})
    BY <1>3 DEF DeleteListed
  <2>2. bucket' \in Trees
    BY <2>1 DEF Trees, TypeOK
  <2>3. Bystanders(Cleaner, {p}) \subseteq Requests \cup {Cleaner}
    BY DEF Bystanders
  <2>4. QED
    BY <1>3, <2>1, <2>2, <2>3 DEF DeleteListed, TypeOK
<1>4. ASSUME NEW r \in Requests, Step(r)
      PROVE  TypeOK'
  <2>0. /\ op[r] \in Operations /\ op[r].path \in Paths /\ op[r].body \in Bodies \cup {NoFile}
        /\ bucket[op[r].path] \in Bodies \cup {NoFile}
    BY DEF TypeOK, Operations, Trees
  <2>1. CASE Call(r)
    BY <2>0, <2>1 DEF Call, TypeOK
  <2>2. CASE GetObject(r) \/ HeadObject(r) \/ HeadFails(r) \/ AnswerCame(r) \/ NoAnswerCame(r)
    <3>1. /\ UNCHANGED <<bucket, writes, op, attempts, cleanupVars, found, disturbed, took>>
          /\ \/ pc' = [pc EXCEPT ![r] = "write"] /\ result' = result
             \/ /\ pc' = [pc EXCEPT ![r] = "done"]
                /\ \E a \in Answers : result' = [result EXCEPT ![r] = a]
      BY <2>0, <2>2, AnswersTyped DEF GetObject, HeadObject, HeadFails, AnswerCame, NoAnswerCame
    <3>2. QED
      BY <3>1 DEF TypeOK
  <2>3. CASE Send(r)
    <3>1. /\ attempts' = [attempts EXCEPT ![r] = attempts[r] + 1]
          /\ writes' = writes \cup {<<r, attempts[r] + 1>>}
          /\ pc' = [pc EXCEPT ![r] = "await"]
          /\ UNCHANGED <<bucket, op, result, cleanupVars, found, disturbed, took>>
      BY <2>3 DEF Send, TypeOK
    <3>2. attempts[r] + 1 \in 1..MaxAttempts
      <4>1. attempts'[r] \in 1..MaxAttempts
        BY <2>3, Sent DEF CountInv
      <4>2. QED
        BY <3>1, <4>1 DEF TypeOK
    <3>3. attempts' \in [Requests -> 0..MaxAttempts]
      BY <3>1, <3>2 DEF TypeOK
    <3>4. QED
      BY <3>1, <3>2, <3>3 DEF TypeOK
  <2>4. ASSUME NEW w \in Pending(r), CarryOut(w)
        PROVE  TypeOK'
    <3>1. w[1] = r /\ took'[r] \in 1..MaxAttempts /\ took' = [took EXCEPT ![r] = took[r] + 1]
      BY <2>4, CarriedOut DEF CountInv, CarryOut, Pending, TypeOK
    <3>2. took' \in [Requests -> 0..MaxAttempts]
      BY <3>1 DEF TypeOK
    <3>3. bucket' \in Trees
      BY <2>0, <2>4, <3>1 DEF CarryOut, TypeOK, Trees
    <3>4. /\ writes' \subseteq writes
          /\ pc' = pc \/ pc' = [pc EXCEPT ![r] = "answered"]
          /\ disturbed' = disturbed \cup Bystanders(r, {op[r].path})
          /\ UNCHANGED <<op, attempts, result, cleanupVars, found>>
      BY <2>4, <3>1 DEF CarryOut
    <3>5. Bystanders(r, {op[r].path}) \subseteq Requests \cup {Cleaner}
      BY DEF Bystanders
    <3>6. QED
      BY <3>2, <3>3, <3>4, <3>5 DEF TypeOK
  <2>5. QED
    BY <1>4, <2>1, <2>2, <2>3, <2>4 DEF Step
<1>5. QED
  BY <1>1, <1>2, <1>3, <1>4, NextIsStep DEF Cleanup

-----------------------------------------------------------------------------
(* Answers.                                                                  *)
LEMMA AnswerStep ==
    ASSUME TypeOK, CountInv, AnswerInv, [Next]_vars
    PROVE  AnswerInv'
<1> USE DEF requestVars, Goto, Finish
<1>1. ASSUME NEW r \in Requests, pc'[r] = pc[r], attempts'[r] = attempts[r],
             took'[r] = took[r], result'[r] = result[r], op' = op
      PROVE  AnswerOf(r)'
  BY <1>1 DEF AnswerInv, AnswerOf, IsWrite
<1>2. CASE UNCHANGED vars \/ Cleanup
  BY <1>1, <1>2, CleanupKept DEF vars, AnswerInv
<1>3. ASSUME NEW r \in Requests, Step(r)
      PROVE  AnswerOf(r)'
  <2>1. AnswerOf(r) /\ CountOf(r) /\ op' = op
    BY <1>3, OthersKept DEF AnswerInv, CountInv
  <2>n. took[r] \in Nat
    BY DEF TypeOK
  <2>2. CASE Call(r)
    BY <2>1, <2>2 DEF Call, AnswerOf, IsWrite, TypeOK
  <2>3. CASE GetObject(r)
    BY <2>1, <2>3 DEF GetObject, AnswerOf, CountOf, IsWrite, TypeOK
  <2>4. CASE HeadObject(r)
    BY <2>1, <2>4 DEF HeadObject, AnswerOf, CountOf, IsWrite, TypeOK, Conflict, NotFound
  <2>5. CASE HeadFails(r) \/ NoAnswerCame(r)
    <3>1. /\ pc[r] \in {"head", "await", "answered"} /\ IsWrite(op[r])
          /\ pc'[r] = "write" \/ (pc'[r] = "done" /\ result'[r] = Error)
      BY <2>1, <2>5 DEF HeadFails, NoAnswerCame, AnswerOf, TypeOK
    <3>2. QED
      BY <2>1, <3>1 DEF AnswerOf, IsWrite
  <2>6. CASE Send(r)
    BY <2>1, <2>6 DEF Send, AnswerOf, IsWrite, TypeOK
  <2>7. CASE AnswerCame(r)
    BY <2>1, <2>7 DEF AnswerCame, AnswerOf, Ok, TypeOK
  <2>8. ASSUME NEW w \in Pending(r), CarryOut(w)
        PROVE  AnswerOf(r)'
    <3>1. /\ took'[r] >= 1 /\ UNCHANGED <<attempts, result>>
          /\ pc'[r] = pc[r] \/ (pc[r] = "await" /\ pc'[r] = "answered")
      BY <2>1, <2>8, CarriedOut DEF CarryOut, Pending, TypeOK
    <3>2. attempts[r] # 0
      <4>1. Cardinality(Pending(r)) \in Nat /\ Cardinality(Pending(r)) # 0
        BY <2>1, <2>8, FS_CardinalityType, FS_EmptySet DEF CountOf
      <4>2. QED
        BY <2>1, <2>n, <4>1 DEF CountOf
    <3>3. QED
      BY <2>1, <3>1, <3>2 DEF AnswerOf, IsWrite
  <2>9. QED
    BY <1>3, <2>2, <2>3, <2>4, <2>5, <2>6, <2>7, <2>8 DEF Step
<1>4. QED
  BY <1>1, <1>2, <1>3, NextIsStep, OthersKept DEF AnswerInv

-----------------------------------------------------------------------------
(* Whoever is undisturbed.                                                   *)

(* A change of an object disturbs everybody else who is at its path.         *)
LEMMA OnlyBystanders ==
    ASSUME TypeOK, NEW paths, NEW who, NEW s \in Requests,
           s # who, op[s].path \in paths, pc[s] \notin {"idle", "done"}
    PROVE  s \in Bystanders(who, paths)
BY DEF Bystanders

(* Those whose place and object stay as they were know what they knew.       *)
LEMMA StillAlone ==
    ASSUME NEW s \in Requests, AloneOf(s), op' = op,
           pc'[s] = pc[s], found'[s] = found[s],
           pc[s] \in {"idle", "done"} \/ bucket'[op[s].path] = bucket[op[s].path]
    PROVE  AloneOf(s)'
BY DEF AloneOf, Writes, Outcome, IsWrite

LEMMA AloneStep ==
    ASSUME TypeOK, CountInv, AnswerInv, "POST" \notin HeadFailing,
           AloneInv, [Next]_vars
    PROVE  AloneInv'
<1> USE DEF requestVars, cleanupVars, Goto, Finish
<1>1. CASE UNCHANGED vars
  <2>1. ASSUME NEW s \in Requests, AloneOf(s)
        PROVE  AloneOf(s)'
    BY <1>1, <2>1, StillAlone DEF vars
  <2>2. QED
    BY <1>1, <2>1 DEF vars, AloneInv
<1>2. ASSUME NEW s \in Requests, s \notin disturbed', Cleanup
      PROVE  AloneOf(s)'
  <2>1. /\ AloneOf(s) /\ op' = op /\ pc' = pc /\ found' = found
    BY <1>2, CleanupKept DEF AloneInv
  <2>2. CASE ListObjects \/ CleanupFails \/ CleanupReturns
    <3>1. bucket' = bucket
      BY <2>2 DEF ListObjects, CleanupFails, CleanupReturns
    <3>2. QED
      BY <2>1, <3>1, StillAlone
  <2>3. CASE DeleteListed
    <3>1. PICK x \in listed :
            /\ bucket' = [bucket EXCEPT ![x] = NoFile]
            /\ disturbed' = disturbed \cup Bystanders(Cleaner, {x})
      BY <2>3 DEF DeleteListed
    <3>2. pc[s] \in {"idle", "done"} \/ op[s].path # x
      <4>1. s # Cleaner
        BY CallerAssumption
      <4>2. QED
        BY <1>2, <3>1, <4>1, OnlyBystanders
    <3>3. op[s].path \in Paths
      BY DEF TypeOK, Operations
    <3>4. pc[s] \in {"idle", "done"} \/ bucket'[op[s].path] = bucket[op[s].path]
      BY <3>1, <3>2, <3>3 DEF TypeOK, Trees
    <3>5. QED
      BY <2>1, <3>4, StillAlone
  <2>4. QED
    BY <1>2, <2>2, <2>3 DEF Cleanup
<1>3. ASSUME NEW r \in Requests, Step(r), NEW s \in Requests \ {r}, s \notin disturbed'
      PROVE  AloneOf(s)'
  <2>1. /\ AloneOf(s) /\ op' = op /\ pc'[s] = pc[s] /\ found'[s] = found[s]
    BY <1>3, OthersKept DEF AloneInv
  <2>2. CASE bucket' = bucket
    BY <2>1, <2>2, StillAlone
  <2>3. ASSUME NEW w \in Pending(r), CarryOut(w)
        PROVE  AloneOf(s)'
    <3>1. /\ bucket' = [bucket EXCEPT ![op[r].path] = op[r].body]
          /\ disturbed' = disturbed \cup Bystanders(r, {op[r].path})
      BY <2>3 DEF CarryOut, Pending
    <3>2. pc[s] \in {"idle", "done"} \/ op[s].path # op[r].path
      BY <1>3, <3>1, OnlyBystanders
    <3>3. op[s].path \in Paths
      BY DEF TypeOK, Operations
    <3>4. pc[s] \in {"idle", "done"} \/ bucket'[op[s].path] = bucket[op[s].path]
      BY <3>1, <3>2, <3>3 DEF TypeOK, Trees
    <3>5. QED
      BY <2>1, <3>4, StillAlone
  <2>4. QED
    BY <1>3, <2>2, <2>3
       DEF Step, Call, GetObject, HeadObject, HeadFails, Send, AnswerCame, NoAnswerCame
<1>4. ASSUME NEW r \in Requests, Step(r), r \notin disturbed'
      PROVE  AloneOf(r)'
  <2>1. /\ AloneOf(r) /\ AnswerOf(r) /\ CountOf(r) /\ op' = op
    BY <1>4, OthersKept DEF AloneInv, AnswerInv, CountInv
  <2>2. /\ op[r] \in Operations /\ op[r].path \in Paths
        /\ op[r].verb \in {"GET", "POST", "PUT", "DELETE"}
    BY DEF TypeOK, Operations
  <2>3. CASE Call(r)
    <3>1. found'[r] = bucket'[op[r].path] /\ pc'[r] \in {"get", "head"}
      BY <2>3 DEF Call, TypeOK
    <3>2. QED
      BY <2>1, <3>1 DEF AloneOf
  <2>4. CASE GetObject(r) \/ AnswerCame(r)
    <3>1. pc'[r] = "done"
      BY <2>4 DEF GetObject, AnswerCame, TypeOK
    <3>2. QED
      BY <3>1 DEF AloneOf
  <2>5. CASE HeadObject(r)
    <3>1. /\ pc[r] = "head" /\ bucket[op[r].path] = found[r] /\ found' = found
          /\ \/ pc'[r] = "done"
             \/ /\ pc'[r] = "write"
                /\ (op[r].verb = "POST") # (bucket[op[r].path] # NoFile)
      BY <2>1, <2>5 DEF HeadObject, AloneOf, TypeOK
    <3>2. CASE pc'[r] = "done"
      BY <3>2 DEF AloneOf
    <3>3. CASE pc'[r] = "write"
      <4>1. IsWrite(op[r]) /\ (op[r].verb = "POST") # (found[r] # NoFile)
        BY <2>1, <3>1, <3>3 DEF AnswerOf
      <4>2. Writes(op[r], [x \in Paths |-> found[r]])
        BY <2>2, <4>1 DEF Writes, Outcome, IsWrite, Ok
      <4>3. QED
        BY <2>1, <3>1, <3>3, <4>2 DEF AloneOf, Writes, Outcome, IsWrite
    <3>4. QED
      BY <3>1, <3>2, <3>3
  <2>6. CASE HeadFails(r)
    <3>1. pc'[r] = "done"
      BY <2>6 DEF HeadFails, TypeOK
    <3>2. QED
      BY <3>1 DEF AloneOf
  <2>7. CASE Send(r) \/ NoAnswerCame(r)
    <3>1. /\ pc[r] \in {"write", "await", "answered"} /\ found' = found
          /\ pc'[r] \in {"write", "await", "done"}
      BY <2>7 DEF Send, NoAnswerCame, TypeOK
    <3>2. QED
      BY <2>1, <3>1 DEF AloneOf, Writes, Outcome, IsWrite
  <2>8. ASSUME NEW w \in Pending(r), CarryOut(w)
        PROVE  AloneOf(r)'
    <3>1. /\ bucket' = [bucket EXCEPT ![op[r].path] = op[r].body]
          /\ found' = found /\ w \in writes
          /\ pc'[r] = pc[r] \/ (pc[r] = "await" /\ pc'[r] = "answered")
      BY <2>8 DEF CarryOut, Pending, TypeOK
    <3>2. bucket'[op[r].path] = op[r].body
      BY <2>2, <3>1 DEF TypeOK, Trees
    <3>3. pc[r] \notin {"get", "head"}
      <4>1. Cardinality(Pending(r)) \in Nat /\ Cardinality(Pending(r)) # 0
        BY <2>1, <2>8, FS_CardinalityType, FS_EmptySet DEF CountOf
      <4>2. took[r] \in Nat
        BY DEF TypeOK
      <4>3. QED
        BY <2>1, <4>1, <4>2 DEF CountOf
    <3>4. QED
      BY <2>1, <3>1, <3>2, <3>3 DEF AloneOf, Writes, Outcome, IsWrite
  <2>9. QED
    BY <1>4, <2>3, <2>4, <2>5, <2>6, <2>7, <2>8 DEF Step
<1>5. QED
  BY <1>1, <1>2, <1>3, <1>4, NextIsStep DEF AloneInv

-----------------------------------------------------------------------------
(* The cleanup.                                                              *)
LEMMA SweptStep ==
    ASSUME TypeOK, OnePage, SweptInv, [Next]_vars
    PROVE  SweptInv'
<1> USE DEF requestVars, cleanupVars, Goto, Finish
<1>1. CASE UNCHANGED vars
  BY <1>1 DEF vars, SweptInv, Present
<1>2. CASE ListObjects
  <2>1. PICK page \in SUBSET Present :
          /\ Cardinality(page) = PageSize \/ page = Present
          /\ listed' = page
    BY <1>2 DEF ListObjects
  <2>2. page = Present
    <3>1. SUFFICES ASSUME Cardinality(page) = PageSize
                   PROVE  page = Present
      BY <2>1
    <3>2. page \in SUBSET Paths /\ Present \subseteq Paths
      BY DEF Present
    <3>3. Cardinality(page) <= Cardinality(Paths) /\ Cardinality(Paths) \in Nat
      BY <3>2, FS_Subset, FS_CardinalityType DEF OnePage
    <3>4. Cardinality(page) = Cardinality(Paths)
      BY <3>1, <3>3, BoundAssumption DEF OnePage
    <3>5. Paths = page
      BY <3>2, <3>4, FS_Subset DEF OnePage
    <3>6. QED
      BY <3>2, <3>5
  <2>3. Present' = Present
    BY <1>2 DEF ListObjects, Present
  <2>4. QED
    BY <2>1, <2>2, <2>3 DEF SweptInv
<1>3. CASE DeleteListed
  <2>1. PICK x \in listed :
          /\ bucket' = [bucket EXCEPT ![x] = NoFile] /\ listed' = listed \ {x}
          /\ disturbed' = disturbed \cup Bystanders(Cleaner, {x})
          /\ cleanup' = cleanup
    BY <1>3 DEF DeleteListed
  <2>2. Present' \subseteq Present \ {x}
    BY <2>1 DEF Present, TypeOK, Trees
  <2>3. QED
    BY <2>1, <2>2 DEF SweptInv
<1>4. CASE CleanupFails \/ CleanupReturns
  BY <1>4 DEF CleanupFails, CleanupReturns, SweptInv
<1>5. ASSUME NEW r \in Requests, Step(r)
      PROVE  SweptInv'
  <2>1. CASE bucket' = bucket
    <3>1. UNCHANGED <<cleanup, listed>> /\ disturbed \subseteq disturbed'
      BY <1>5, OthersKept
    <3>2. QED
      BY <2>1, <3>1 DEF SweptInv, Present
  <2>2. ASSUME NEW w \in Pending(r), CarryOut(w)
        PROVE  SweptInv'
    <3>1. /\ disturbed' = disturbed \cup Bystanders(r, {op[r].path})
          /\ cleanup' = cleanup
      BY <2>2 DEF CarryOut, Pending
    <3>2. cleanup = "deleting" => Cleaner \in disturbed'
      BY <3>1, CallerAssumption DEF Bystanders
    <3>3. QED
      BY <3>1, <3>2 DEF SweptInv
  <2>3. QED
    BY <1>5, <2>1, <2>2
       DEF Step, Call, GetObject, HeadObject, HeadFails, Send, AnswerCame, NoAnswerCame
<1>6. QED
  BY <1>1, <1>2, <1>3, <1>4, <1>5, NextIsStep DEF Cleanup

-----------------------------------------------------------------------------
(* The invariant.                                                            *)
LEMMA InvInit == Init => IInv
<1> SUFFICES ASSUME Init
             PROVE  IInv
  OBVIOUS
<1>1. TypeOK
  <2>1. op \in [Requests -> Operations]
    BY DEF Init
  <2>2. QED
    BY <2>1, BoundAssumption DEF Init, TypeOK
<1>2. CountInv
  <2>1. ASSUME NEW r \in Requests
        PROVE  CountOf(r)
    <3>1. Pending(r) = {}
      BY DEF Init, Pending
    <3>2. IsFiniteSet(Pending(r)) /\ Cardinality(Pending(r)) = 0
      BY <3>1, FS_EmptySet
    <3>3. pc[r] = "idle" /\ took[r] = 0 /\ attempts[r] = 0
      BY DEF Init
    <3>4. QED
      BY <3>1, <3>2, <3>3 DEF CountOf
  <2>2. QED
    BY <2>1 DEF CountInv
<1>3. AnswerInv /\ AloneInv /\ SweptInv
  BY DEF Init, AnswerInv, AnswerOf, AloneInv, AloneOf, SweptInv
<1>4. QED
  BY <1>1, <1>2, <1>3 DEF IInv

LEMMA InvStep == IInv /\ [Next]_vars => IInv'
<1> SUFFICES ASSUME IInv, [Next]_vars
             PROVE  IInv'
  OBVIOUS
<1>1. TypeOK' /\ CountInv' /\ AnswerInv'
  BY TypeStep, CountStep, AnswerStep DEF IInv
<1>2. "POST" \notin HeadFailing => AloneInv'
  BY AloneStep DEF IInv
<1>3. OnePage => SweptInv'
  BY SweptStep DEF IInv
<1>4. QED
  BY <1>1, <1>2, <1>3 DEF IInv, OnePage

(* Every sending is on its way or was carried out, whatever the SDK retries,  *)
(* and an undisturbed request still knows the object at its path.             *)
THEOREM Invariance == Spec => []IInv
BY InvInit, InvStep, PTL DEF Spec

(* Every variable keeps its type.                                            *)
THEOREM TypeCorrect == Spec => []TypeOK
<1>1. IInv => TypeOK
  BY DEF IInv
<1>2. QED
  BY <1>1, Invariance, PTL

(* A refused request never changes the bucket, not even later, a write        *)
(* answered with success changed it before, and no write is carried out more  *)
(* often than it was sent.                                                    *)
THEOREM TookAsAnsweredHolds == Spec => []TookAsAnswered
<1>1. ASSUME IInv, NEW r \in Requests
      PROVE  /\ took[r] <= attempts[r]
             /\ attempts[r] = 0 => took[r] = 0 /\ \A w \in writes : w[1] # r
  <2>1. CountOf(r) /\ took[r] \in Nat /\ attempts[r] \in Nat
    BY <1>1 DEF IInv, CountInv, TypeOK
  <2>2. Cardinality(Pending(r)) \in Nat
    BY <2>1, FS_CardinalityType DEF CountOf
  <2>3. attempts[r] = 0 => Pending(r) = {}
    BY <2>1, <2>2, FS_EmptySet DEF CountOf
  <2>4. QED
    BY <2>1, <2>2, <2>3 DEF CountOf, Pending
<1>2. IInv => TookAsAnswered
  <2>1. ASSUME IInv, NEW r \in Requests, pc[r] = "done"
        PROVE  \/ ~IsWrite(op[r]) /\ attempts[r] = 0
               \/ IsWrite(op[r]) /\ took[r] >= 1 /\ result[r].code = "ok"
               \/ result[r].code \in {"conflict", "notFound"} /\ attempts[r] = 0
               \/ result[r].code = "error"
    <3>1. AnswerOf(r)
      BY <2>1 DEF IInv, AnswerInv
    <3>2. result[r] = Error => result[r].code = "error"
      BY DEF Error
    <3>3. QED
      BY <2>1, <3>1, <3>2 DEF AnswerOf
  <2>2. ASSUME IInv, NEW r \in Requests, pc[r] = "done"
        PROVE  ~IsWrite(op[r]) => attempts[r] = 0
    <3>1. AnswerOf(r)
      BY <2>2 DEF IInv, AnswerInv
    <3>2. QED
      BY <2>2, <3>1 DEF AnswerOf
  <2>3. QED
    BY <1>1, <2>1, <2>2 DEF TookAsAnswered
<1>3. QED
  BY <1>2, Invariance, PTL

(* When POST reports a failing HEAD like the others, a request nobody         *)
(* disturbed is answered as the map backend answers it, or with an error, and *)
(* a success leaves what the map backend leaves: the gap between HEAD and the *)
(* write shows to others only, and so does a call the SDK sent twice.         *)
THEOREM AloneIsServedAsAlone ==
    ASSUME "POST" \notin HeadFailing
    PROVE  Spec => AloneIsSequential
<1>1. ASSUME IInv, [Next]_vars, NEW r \in Requests,
             pc[r] # "done", pc'[r] = "done", r \notin disturbed
      PROVE  /\ result'[r] \in {Error, Outcome(op[r], [x \in Paths |-> found[r]])}
             /\ IsWrite(op[r]) /\ result'[r].code = "ok" =>
                  bucket'[op[r].path] = op[r].body
  <2> USE DEF Goto, Finish
  <2>1. /\ AloneOf(r) /\ AnswerOf(r) /\ TypeOK
    BY <1>1 DEF IInv, AloneInv, AnswerInv
  <2>2. /\ op[r].path \in Paths
        /\ op[r].verb \in {"GET", "POST", "PUT", "DELETE"}
    BY <2>1 DEF TypeOK, Operations
  <2>3. /\ UNCHANGED bucket
        /\ GetObject(r) \/ HeadObject(r) \/ HeadFails(r) \/ AnswerCame(r) \/ NoAnswerCame(r)
    <3>1. (\E s \in Requests : Step(s)) /\ ~Cleanup
      BY <1>1, <2>1, NextIsStep, CleanupKept DEF vars, requestVars
    <3>2. Step(r)
      BY <1>1, <2>1, <3>1, OthersKept
    <3>3. ~Call(r) /\ ~Send(r) /\ \A w \in Pending(r) : ~CarryOut(w)
      BY <1>1, <2>1 DEF Call, Send, CarryOut, TypeOK
    <3>4. QED
      BY <3>2, <3>3 DEF Step, GetObject, HeadObject, HeadFails, AnswerCame, NoAnswerCame
  <2>4. CASE GetObject(r)
    <3>1. pc[r] = "get" /\ ~IsWrite(op[r]) /\ bucket[op[r].path] = found[r]
      BY <2>1, <2>4 DEF GetObject, AloneOf, AnswerOf
    <3>2. result'[r] \in {Error, IF found[r] = NoFile THEN NotFound ELSE Ok(found[r])}
      BY <2>1, <2>4, <3>1 DEF GetObject, TypeOK
    <3>3. QED
      BY <2>2, <3>1, <3>2 DEF Outcome, IsWrite
  <2>5. CASE HeadObject(r)
    <3>1. pc[r] = "head" /\ IsWrite(op[r]) /\ bucket[op[r].path] = found[r]
      BY <2>1, <2>5 DEF HeadObject, AloneOf, AnswerOf
    <3>2. /\ (op[r].verb = "POST") = (found[r] # NoFile)
          /\ result'[r] = IF op[r].verb = "POST" THEN Conflict ELSE NotFound
      BY <1>1, <2>1, <2>5, <3>1 DEF HeadObject, TypeOK
    <3>3. QED
      BY <2>2, <3>1, <3>2 DEF Outcome, IsWrite, Conflict, NotFound
  <2>6. CASE HeadFails(r) \/ NoAnswerCame(r)
    <3>1. result'[r] = Error
      BY <1>1, <2>1, <2>6 DEF HeadFails, NoAnswerCame, TypeOK
    <3>2. QED
      BY <3>1 DEF Error
  <2>7. CASE AnswerCame(r)
    <3>1. /\ pc[r] = "answered" /\ result'[r] = Ok(NoFile)
          /\ IsWrite(op[r]) /\ bucket[op[r].path] = op[r].body
          /\ Writes(op[r], [x \in Paths |-> found[r]])
      BY <2>1, <2>7 DEF AnswerCame, AloneOf, AnswerOf, TypeOK
    <3>2. Outcome(op[r], [x \in Paths |-> found[r]]) = Ok(NoFile)
      BY <2>2, <3>1 DEF Writes, Outcome, IsWrite, Ok, Conflict, NotFound
    <3>3. QED
      BY <2>3, <3>1, <3>2
  <2>8. QED
    BY <2>3, <2>4, <2>5, <2>6, <2>7
<1>2. IInv /\ [Next]_vars =>
        [ \A r \in Requests :
            pc[r] # "done" /\ pc'[r] = "done" /\ r \notin disturbed =>
              /\ result'[r] \in {Error, Outcome(op[r], [x \in Paths |-> found[r]])}
              /\ IsWrite(op[r]) /\ result'[r].code = "ok" =>
                   bucket'[op[r].path] = op[r].body ]_vars
  BY <1>1
<1>3. QED
  BY <1>2, Invariance, PTL DEF Spec, AloneIsSequential

(* When one listing holds every key there can be, a cleanup that succeeds     *)
(* while nobody writes leaves nothing under the prefix.                       *)
THEOREM CleanupSweeps ==
    ASSUME OnePage
    PROVE  Spec => CleanupEmpties
<1>1. IInv /\ [Next]_vars =>
        [ cleanup = "deleting" /\ cleanup' = "done" /\ Cleaner \notin disturbed =>
            Present' = {} ]_vars
  <2>1. SUFFICES ASSUME IInv, [Next]_vars, cleanup = "deleting", cleanup' = "done",
                        Cleaner \notin disturbed
                 PROVE  Present' = {}
    OBVIOUS
  <2>2. CleanupReturns
    <3>1. Cleanup
      BY <2>1, NextIsStep, OthersKept DEF vars, cleanupVars, IInv
    <3>2. QED
      BY <2>1, <3>1 DEF Cleanup, ListObjects, DeleteListed, CleanupFails
  <2>3. QED
    BY <2>1, <2>2 DEF CleanupReturns, IInv, SweptInv, Present
<1>2. QED
  BY <1>1, Invariance, PTL DEF Spec, CleanupEmpties
=============================================================================
