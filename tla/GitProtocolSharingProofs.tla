---------------------- MODULE GitProtocolSharingProofs ----------------------
(***************************************************************************)
(* Proofs about what the requests of GitProtocol share: the object store,  *)
(* the mutexes of a server, and a remote that may apply what nobody waits  *)
(* for any more.  As before for every value of the constants.              *)
(***************************************************************************)
EXTENDS GitProtocolProofs, FiniteSetTheorems

(* The steps of a request in its server.                                     *)
Local(r) ==
    \/ Call(r) \/ RLock(r) \/ LockWrite(r) \/ Return(r)
    \/ ReadMain(r) \/ FetchForGet(r) \/ ReadBlob(r) \/ FetchForUpdate(r)
    \/ BuildCommit(r) \/ NetworkFails(r) \/ Retry(r) \/ GiveUp(r)
    \/ OpenPush(r) \/ PushBreaks(r) \/ ReplyLost(r)

Packs(k)    == PackerLock(k) \/ SendPack(k) \/ PackerExit(k)
Receives(m) == PushAccepted(m) \/ PushRefused(m) \/ PushUnheard(m)
Runs(s)     == Tick(s) \/ Clean(s) \/ Crash(s)

LEMMA NextIsStep ==
    Next <=> \/ \E r \in Requests : Local(r)
             \/ \E k \in packers : Packs(k)
             \/ \E m \in pushes : Receives(m)
             \/ \E s \in Servers : Runs(s)
BY DEF Next, Local, Packs, Receives, Runs

(* A step of one request in its server leaves the other requests alone.      *)
LEMMA LocalKeeps ==
    ASSUME TypeOK, NEW r \in Requests, Local(r)
    PROVE  /\ UNCHANGED <<main, pushes, op>>
           /\ \A q \in Requests \ {r} :
                /\ pc'[q] = pc[q] /\ result'[q] = result[q]
                /\ unheard'[q] = unheard[q] /\ tries'[q] = tries[q]
                /\ base'[q] = base[q] /\ began'[q] = began[q]
           /\ \A q \in Requests : unheard'[q] >= unheard[q]
           /\ ReplyLost(r) \/ unheard' = unheard
<1> USE DEF remoteVars, serverVars, requestVars, historyVars, Goto, Finish,
            FailAttempt, TypeOK
<1>1. CASE ReplyLost(r)
  <2>1. \A q \in Requests : unheard[q] \in Nat /\ unheard'[q] \in {unheard[q], unheard[q] + 1}
    BY <1>1 DEF ReplyLost
  <2>2. ASSUME NEW q \in Requests
        PROVE  unheard'[q] >= unheard[q]
    <3>1. unheard[q] \in Nat /\ (unheard'[q] = unheard[q] \/ unheard'[q] = unheard[q] + 1)
      BY <2>1
    <3>2. QED
      BY <3>1
  <2>3. QED
    BY <1>1, <2>2 DEF ReplyLost
<1>2. CASE Call(r) \/ RLock(r) \/ LockWrite(r) \/ Return(r)
           \/ ReadMain(r) \/ FetchForGet(r) \/ ReadBlob(r) \/ FetchForUpdate(r)
  BY <1>2 DEF Call, RLock, LockWrite, Return, ReadMain, FetchForGet, ReadBlob,
              FetchForUpdate
<1>3. CASE BuildCommit(r) \/ NetworkFails(r) \/ Retry(r) \/ GiveUp(r)
           \/ OpenPush(r) \/ PushBreaks(r)
  BY <1>3 DEF BuildCommit, NetworkFails, Retry, GiveUp, OpenPush, PushBreaks
<1>4. QED
  BY <1>1, <1>2, <1>3 DEF Local

(* What the packers, the remote and a server leave alone.                    *)
LEMMA PacksKeeps ==
    ASSUME TypeOK, NEW k \in packers, Packs(k)
    PROVE  /\ UNCHANGED <<main, op, base, tries, result, began, unheard, store, writeMtx>>
           /\ \A q \in Requests : q # k.req => pc'[q] = pc[q]
           /\ k.req \in Requests
           /\ PackerLock(k) \/ PackerExit(k) => UNCHANGED <<pushes, pc>>
BY DEF Packs, PackerLock, SendPack, PackerExit, requestVars, historyVars,
       remoteVars, Goto, TypeOK, Packers

LEMMA ReceivesKeeps ==
    ASSUME TypeOK, NEW m \in pushes, Receives(m)
    PROVE  /\ UNCHANGED <<serverVars, op, base, tries, began, unheard>>
           /\ m.req \in Requests /\ pushes' = pushes \ {m}
           /\ main' = IF Applies(m)
                        THEN Append(main, [tree |-> m.tree, by |-> m.req, try |-> m.try])
                        ELSE main
           /\ \A q \in Requests :
                q # m.req => pc'[q] = pc[q] /\ result'[q] = result[q]
BY DEF Receives, PushAccepted, PushRefused, PushUnheard, Receive, requestVars,
       historyVars, Goto, Finish, TypeOK, Pushes

LEMMA RunsKeeps ==
    ASSUME TypeOK, NEW s \in Servers, Runs(s)
    PROVE  /\ UNCHANGED <<main, pushes, op, base, tries, began>>
           /\ \A q \in Requests : unheard'[q] >= unheard[q]
           /\ \A q \in Requests :
                \/ pc'[q] = pc[q] /\ result'[q] = result[q] /\ unheard'[q] = unheard[q]
                \/ Crash(s) /\ pc'[q] = "crashed" /\ Server(q) = s
<1> USE DEF remoteVars, requestVars, historyVars, TypeOK
<1>1. CASE Tick(s) \/ Clean(s)
  BY <1>1 DEF Tick, Clean
<1>2. CASE Crash(s)
  <2>1. \A q \in Requests : unheard[q] \in Nat /\ unheard'[q] \in {unheard[q], unheard[q] + 1}
    BY <1>2 DEF Crash
  <2>2. ASSUME NEW q \in Requests
        PROVE  unheard'[q] >= unheard[q]
    <3>1. unheard[q] \in Nat /\ (unheard'[q] = unheard[q] \/ unheard'[q] = unheard[q] + 1)
      BY <2>1
    <3>2. QED
      BY <3>1
  <2>3. QED
    BY <1>2, <2>2 DEF Crash
<1>3. QED
  BY <1>1, <1>2 DEF Runs

-----------------------------------------------------------------------------
(* The objects of an attempt.                                                *)
LEMMA PackStep ==
    ASSUME TypeOK, PackObjectsKept, [Next]_vars
    PROVE  PackObjectsKept'
<1> USE DEF remoteVars, serverVars, requestVars, historyVars
<1>k. ASSUME NEW q \in Requests, pc'[q] \in {"connect", "push"} => pc[q] \in {"connect", "push"},
             store[Server(q)] \subseteq store'[Server(q)],
             tries'[q] = tries[q], op' = op, pc'[q] \in {"connect", "push"}
      PROVE  NewObjects(q)' \subseteq store'[Server(q)]
  BY <1>k DEF PackObjectsKept, NewObjects, CommitObject
<1>s. \A q \in Requests : Server(q) \in Servers
  BY ConfigAssumption DEF Server
<1>1. CASE UNCHANGED vars
  BY <1>1, <1>k DEF vars, PackObjectsKept
<1>2. ASSUME NEW r \in Requests, Local(r)
      PROVE  PackObjectsKept'
  <2>1. \A q \in Servers : store[q] \subseteq store'[q]
    BY <1>2 DEF Local, Call, RLock, LockWrite, Return, ReadMain, FetchForGet, ReadBlob,
         FetchForUpdate, BuildCommit, NetworkFails, Retry, GiveUp, OpenPush, PushBreaks,
         ReplyLost, TypeOK
  <2>2. ASSUME NEW q \in Requests \ {r}, pc'[q] \in {"connect", "push"}
        PROVE  NewObjects(q)' \subseteq store'[Server(q)]
    BY <1>2, <1>k, <1>s, <2>1, <2>2, LocalKeeps
  <2>3. ASSUME pc'[r] \in {"connect", "push"}
        PROVE  NewObjects(r)' \subseteq store'[Server(r)]
    <3>1. CASE BuildCommit(r)
      <4>1. /\ NewObjects(r) \subseteq store'[Server(r)]
            /\ tries' = tries /\ op' = op
        BY <3>1, <1>s DEF BuildCommit, TypeOK
      <4>2. QED
        BY <4>1 DEF NewObjects, CommitObject
    <3>2. CASE OpenPush(r)
      BY <3>2, <2>3, <1>k DEF OpenPush
    <3>3. pc'[r] \in {"connect", "push"} => BuildCommit(r) \/ OpenPush(r)
      BY <1>2 DEF Local, Call, RLock, LockWrite, Return, ReadMain, FetchForGet,
         ReadBlob, FetchForUpdate, NetworkFails, FailAttempt, Retry, GiveUp, PushBreaks,
         ReplyLost, Goto, Finish, TypeOK
    <3>4. QED
      BY <2>3, <3>1, <3>2, <3>3
  <2>4. QED
    BY <2>2, <2>3 DEF PackObjectsKept
<1>3. ASSUME NEW k \in packers, Packs(k)
      PROVE  PackObjectsKept'
  <2>1. \A q \in Requests : pc'[q] \in {"connect", "push"} => pc'[q] = pc[q]
    BY <1>3, PacksKeeps DEF Packs, SendPack, Goto, TypeOK
  <2>2. QED
    BY <1>3, <1>k, <2>1, PacksKeeps DEF PackObjectsKept
<1>4. ASSUME NEW m \in pushes, Receives(m)
      PROVE  PackObjectsKept'
  <2>1. \A q \in Requests : pc'[q] \in {"connect", "push"} => pc'[q] = pc[q]
    BY <1>4, ReceivesKeeps
       DEF Receives, PushAccepted, PushRefused, PushUnheard, Goto, Finish, TypeOK
  <2>2. QED
    BY <1>4, <1>k, <2>1, ReceivesKeeps DEF PackObjectsKept
<1>5. ASSUME NEW s \in Servers, Runs(s)
      PROVE  PackObjectsKept'
  <2>1. ASSUME NEW q \in Requests, pc'[q] \in {"connect", "push"}
        PROVE  pc'[q] = pc[q] /\ store'[Server(q)] = store[Server(q)]
    <3>1. CASE Tick(s)
      BY <3>1 DEF Tick
    <3>2. CASE Clean(s)
      <4>1. pc' = pc /\ q \notin Readers(s)
        BY <3>2 DEF Clean
      <4>2. Server(q) # s
        BY <2>1, <4>1 DEF Readers, Inside, Working
      <4>3. QED
        BY <1>s, <3>2, <4>1, <4>2 DEF Clean, TypeOK
    <3>3. CASE Crash(s)
      <4>1. pc'[q] = pc[q] /\ Server(q) # s
        BY <2>1, <3>3 DEF Crash, Inside, Working
      <4>2. QED
        BY <1>s, <3>3, <4>1 DEF Crash, TypeOK
    <3>4. QED
      BY <1>5, <3>1, <3>2, <3>3 DEF Runs
  <2>2. QED
    BY <1>5, <1>k, <2>1, RunsKeeps DEF PackObjectsKept
<1>6. QED
  BY <1>1, <1>2, <1>3, <1>4, <1>5, NextIsStep

(* The cleanup never takes away what a push still has to pack.               *)
THEOREM PackedObjectsStay == Spec => []PackObjectsKept
<1>1. Init => PackObjectsKept
  BY DEF Init, PackObjectsKept
<1>2. IInv /\ PackObjectsKept /\ [Next]_vars => PackObjectsKept'
  BY PackStep DEF IInv
<1>3. QED
  BY <1>1, <1>2, Invariance, PTL DEF Spec

-----------------------------------------------------------------------------
(* writeMtx.                                                                 *)
LEMMA MutexStep ==
    ASSUME IInv, TypeOK, [Next]_vars, NEW q \in Requests, MutexOf(q)
    PROVE  MutexOf(q)'
<1> USE DEF remoteVars, serverVars, requestVars, historyVars
<1>s. Server(q) \in Servers
  BY ConfigAssumption DEF Server
<1>k. ASSUME pc'[q] \in Working => pc[q] \in Working, op' = op,
             writeMtx[Server(q)] = q => writeMtx'[Server(q)] = q
      PROVE  MutexOf(q)'
  BY <1>k DEF MutexOf, IsWrite
<1>1. CASE UNCHANGED vars
  BY <1>1, <1>k DEF vars
<1>2. ASSUME NEW r \in Requests, Local(r)
      PROVE  MutexOf(q)'
  <2>1. CASE RLock(r)
    <3>1. /\ writeMtx' = writeMtx /\ op' = op
          /\ pc'[q] = pc[q] \/ ~(IsWrite(op[q]) /\ LockWrites) \/ pc'[q] = "wlock"
      BY <2>1 DEF RLock, Goto, TypeOK
    <3>2. QED
      BY <3>1 DEF MutexOf, IsWrite, Working
  <2>2. CASE LockWrite(r)
    <3>1. /\ writeMtx[Server(r)] = NoOne
          /\ writeMtx' = [writeMtx EXCEPT ![Server(r)] = r]
          /\ op' = op /\ (q # r => pc'[q] = pc[q])
      BY <2>2 DEF LockWrite, Goto, TypeOK
    <3>2. q # NoOne
      BY NoOneAssumption
    <3>3. CASE q = r
      <4>1. writeMtx'[Server(q)] = q
        BY <1>s, <3>1, <3>3 DEF TypeOK
      <4>2. QED
        BY <4>1 DEF MutexOf
    <3>4. CASE q # r
      <4>1. writeMtx[Server(q)] = q => writeMtx'[Server(q)] = q
        BY <1>s, <3>1, <3>2 DEF TypeOK
      <4>2. QED
        BY <1>k, <3>1, <3>4, <4>1
    <3>5. QED
      BY <3>3, <3>4
  <2>3. CASE Return(r)
    <3>1. /\ writeMtx' = [writeMtx EXCEPT ![Server(r)] = IF @ = r THEN NoOne ELSE @]
          /\ op' = op /\ (q # r => pc'[q] = pc[q]) /\ (q = r => pc'[q] = "done")
      BY <2>3 DEF Return, Goto, TypeOK
    <3>2. CASE q = r
      BY <3>1, <3>2 DEF MutexOf, Working
    <3>3. CASE q # r
      <4>1. writeMtx[Server(q)] = q => writeMtx'[Server(q)] = q
        BY <1>s, <3>1, <3>3 DEF TypeOK
      <4>2. QED
        BY <1>k, <3>1, <3>3, <4>1
    <3>4. QED
      BY <3>2, <3>3
  <2>4. CASE Call(r) \/ ReadMain(r) \/ FetchForGet(r) \/ ReadBlob(r) \/ FetchForUpdate(r)
             \/ BuildCommit(r) \/ NetworkFails(r) \/ Retry(r) \/ GiveUp(r)
             \/ OpenPush(r) \/ PushBreaks(r) \/ ReplyLost(r)
    <3>1. writeMtx' = writeMtx /\ op' = op
      BY <2>4 DEF Call, ReadMain, FetchForGet, ReadBlob, FetchForUpdate, BuildCommit,
         NetworkFails, Retry, GiveUp, OpenPush, PushBreaks, ReplyLost
    <3>2. pc'[q] \in Working => pc[q] \in Working
      BY <2>4 DEF Call, ReadMain, FetchForGet, ReadBlob, FetchForUpdate, BuildCommit,
         NetworkFails, FailAttempt, Retry, GiveUp, OpenPush, PushBreaks, ReplyLost,
         Goto, Finish, Working, TypeOK
    <3>3. QED
      BY <1>k, <3>1, <3>2
  <2>5. QED
    BY <1>2, <2>1, <2>2, <2>3, <2>4 DEF Local
<1>3. ASSUME NEW k \in packers, Packs(k)
      PROVE  MutexOf(q)'
  <2>1. writeMtx' = writeMtx /\ op' = op /\ (pc'[q] = pc[q] \/ SendPack(k))
    BY <1>3, PacksKeeps DEF Packs
  <2>2. SendPack(k) => pc'[q] = pc[q] \/ pc[q] = "push"
    BY <1>3 DEF SendPack, IInv, PackerInv, TypeOK, Goto
  <2>3. QED
    BY <1>k, <2>1, <2>2 DEF Working
<1>4. ASSUME NEW m \in pushes, Receives(m)
      PROVE  MutexOf(q)'
  <2>1. writeMtx' = writeMtx /\ op' = op /\ (pc'[q] = pc[q] \/ pc[q] = "await")
    BY <1>4, ReceivesKeeps
       DEF Receives, PushAccepted, PushRefused, PushUnheard, Waits, Goto, Finish, TypeOK
  <2>2. QED
    BY <1>k, <2>1 DEF Working
<1>5. ASSUME NEW s \in Servers, Runs(s)
      PROVE  MutexOf(q)'
  <2>1. CASE Tick(s) \/ Clean(s)
    BY <1>k, <2>1 DEF Tick, Clean
  <2>2. CASE Crash(s) /\ Server(q) = s
    <3>1. pc'[q] \notin Working
      BY <2>2 DEF Crash, Inside, Working
    <3>2. QED
      BY <3>1 DEF MutexOf
  <2>3. CASE Crash(s) /\ Server(q) # s
    BY <1>k, <1>s, <2>3 DEF Crash, TypeOK
  <2>4. QED
    BY <1>5, <2>1, <2>2, <2>3 DEF Runs
<1>6. QED
  BY <1>1, <1>2, <1>3, <1>4, <1>5, NextIsStep

-----------------------------------------------------------------------------
(* Pushes nobody waits for.                                                  *)

(* Only one push on its way can be the one its request waits for.            *)
LEMMA OneWaits ==
    ASSUME IInv, NEW m \in pushes, NEW n \in pushes,
           Waits(m), Waits(n), m.req = n.req
    PROVE  m = n
<1>1. m \in Pushes /\ n \in Pushes
  BY DEF IInv, TypeOK
<1>2. PushOf(m) /\ PushOf(n)
  BY DEF IInv, PushInv
<1>3. m.try = n.try /\ m.old = n.old /\ m.tree = n.tree
  BY <1>2 DEF PushOf, Waits
<1>4. \A x \in Pushes :
        x = [req |-> x.req, try |-> x.try, old |-> x.old, tree |-> x.tree]
  BY DEF Pushes
<1>5. QED
  BY <1>1, <1>3, <1>4

LEMMA StrayStep ==
    ASSUME IInv, [Next]_vars, \A m \in pushes : StrayOf(m), NEW n \in pushes'
    PROVE  StrayOf(n)'
<1> USE DEF remoteVars, serverVars, requestVars, historyVars
<1>t. /\ TypeOK /\ pushes \subseteq Pushes
      /\ \A q \in Requests : unheard[q] \in Nat
  BY DEF IInv, TypeOK
<1>r. n \in pushes => n.req \in Requests
  BY <1>t DEF Pushes
<1>k. ASSUME n \in pushes, unheard'[n.req] \in Nat, unheard'[n.req] >= unheard[n.req],
             Waits(n) => Waits(n)' \/ unheard'[n.req] > 0
      PROVE  StrayOf(n)'
  BY <1>k, <1>t, <1>r DEF StrayOf
<1>1. CASE UNCHANGED vars
  BY <1>1 DEF vars, StrayOf, Waits
<1>2. ASSUME NEW r \in Requests, Local(r)
      PROVE  StrayOf(n)'
  <2>1. /\ n \in pushes /\ unheard'[n.req] >= unheard[n.req]
    BY <1>2, <1>r, <1>t, LocalKeeps
  <2>2. unheard'[n.req] \in Nat
    <3>1. CASE ReplyLost(r)
      BY <3>1, <1>r, <2>1 DEF ReplyLost, IInv, TypeOK
    <3>2. CASE unheard' = unheard
      BY <1>t, <1>r, <2>1, <3>2
    <3>3. QED
      BY <1>2, <1>t, <3>1, <3>2, LocalKeeps
  <2>3. ASSUME Waits(n)
        PROVE  Waits(n)' \/ unheard'[n.req] > 0
    <3>1. CASE n.req # r
      BY <1>2, <1>r, <1>t, <2>1, <2>3, <3>1, LocalKeeps DEF Waits
    <3>2. CASE n.req = r
      <4>1. pc[r] = "await"
        BY <2>3, <3>2 DEF Waits
      <4>2. ReplyLost(r)
        BY <1>2, <4>1 DEF Local, Call, RLock, LockWrite, Return, ReadMain, FetchForGet,
           ReadBlob, FetchForUpdate, BuildCommit, NetworkFails, Retry, GiveUp, OpenPush,
           PushBreaks
      <4>3. unheard'[r] = unheard[r] + 1 /\ unheard[r] \in Nat
        BY <1>t, <4>2 DEF ReplyLost, TypeOK
      <4>4. QED
        BY <3>2, <4>3
    <3>3. QED
      BY <3>1, <3>2
  <2>4. QED
    BY <1>k, <2>1, <2>2, <2>3
<1>3. ASSUME NEW k \in packers, Packs(k)
      PROVE  StrayOf(n)'
  <2>1. CASE PackerLock(k) \/ PackerExit(k)
    <3>1. UNCHANGED <<pushes, pc, tries, unheard>>
      BY <1>3, <1>t, <2>1, PacksKeeps
    <3>2. QED
      BY <3>1 DEF StrayOf, Waits
  <2>2. CASE SendPack(k)
    <3>1. k.req \in Requests /\ pc[k.req] = "push" /\ k.try = tries[k.req]
      BY <2>2, <1>t DEF SendPack, IInv, PackerInv, TypeOK, Packers
    <3>2. /\ tries' = tries /\ unheard' = unheard
          /\ \/ n \in pushes
             \/ n.req = k.req /\ n.try = k.try /\ pc' = [pc EXCEPT ![k.req] = "await"]
          /\ \A q \in Requests : q # k.req => pc'[q] = pc[q]
      BY <2>2, <1>t DEF SendPack, Goto, TypeOK
    <3>3. CASE n \in pushes
      <4>1. Waits(n) => n.req # k.req
        BY <3>1 DEF Waits
      <4>2. Waits(n) => Waits(n)'
        BY <1>r, <3>2, <3>3, <4>1 DEF Waits
      <4>3. QED
        BY <1>k, <1>r, <1>t, <3>2, <3>3, <4>2
    <3>4. CASE n \notin pushes
      BY <1>t, <3>1, <3>2, <3>4 DEF StrayOf, Waits, TypeOK
    <3>5. QED
      BY <3>3, <3>4
  <2>3. QED
    BY <1>3, <2>1, <2>2 DEF Packs
<1>4. ASSUME NEW m \in pushes, Receives(m)
      PROVE  StrayOf(n)'
  <2>1. n \in pushes /\ n # m /\ tries' = tries /\ unheard' = unheard
    BY <1>4, <1>t, ReceivesKeeps
  <2>2. Waits(n) => Waits(n)'
    <3>1. CASE PushUnheard(m)
      BY <2>1, <3>1 DEF PushUnheard, Waits
    <3>2. CASE PushAccepted(m) \/ PushRefused(m)
      <4>1. Waits(m)
        BY <3>2 DEF PushAccepted, PushRefused
      <4>2. Waits(n) => n.req # m.req
        BY <2>1, <4>1, OneWaits
      <4>3. QED
        BY <1>4, <1>t, <1>r, <2>1, <4>2, ReceivesKeeps DEF Waits
    <3>3. QED
      BY <1>4, <3>1, <3>2 DEF Receives
  <2>3. QED
    BY <1>k, <1>t, <1>r, <2>1, <2>2
<1>5. ASSUME NEW s \in Servers, Runs(s)
      PROVE  StrayOf(n)'
  <2>1. /\ n \in pushes /\ tries' = tries /\ unheard'[n.req] >= unheard[n.req]
    BY <1>5, <1>r, <1>t, RunsKeeps
  <2>2. unheard'[n.req] \in Nat
    <3>1. CASE unheard' = unheard
      BY <1>t, <1>r, <2>1, <3>1
    <3>2. CASE Crash(s)
      BY <1>t, <1>r, <2>1, <3>2 DEF Crash
    <3>3. QED
      BY <1>5, <3>1, <3>2 DEF Runs, Tick, Clean
  <2>3. ASSUME Waits(n)
        PROVE  Waits(n)' \/ unheard'[n.req] > 0
    <3>1. CASE pc'[n.req] = pc[n.req]
      BY <2>1, <2>3, <3>1 DEF Waits
    <3>2. CASE pc'[n.req] # pc[n.req]
      <4>1. Crash(s) /\ pc[n.req] = "await"
        BY <1>5, <1>t, <1>r, <2>1, <2>3, <3>2, RunsKeeps DEF Waits
      <4>2. unheard'[n.req] = unheard[n.req] + 1
        BY <1>r, <2>1, <3>2, <4>1 DEF Crash
      <4>3. QED
        BY <1>t, <1>r, <2>1, <4>2
    <3>3. QED
      BY <3>1, <3>2
  <2>4. QED
    BY <1>k, <2>1, <2>2, <2>3
<1>6. QED
  BY <1>1, <1>2, <1>3, <1>4, <1>5, NextIsStep

-----------------------------------------------------------------------------
(* Counting.                                                                 *)

(* The commits of a request after a step of the remote.                      *)
LEMMA CommitsGrow ==
    ASSUME TypeOK, [Next]_vars, NEW r \in Requests
    PROVE  /\ IsFiniteSet(CommitsOf(r)) /\ IsFiniteSet(CommitsOf(r)')
           /\ Cardinality(CommitsOf(r)) \in Nat /\ Cardinality(CommitsOf(r)') \in Nat
           /\ Cardinality(CommitsOf(r)') <= Cardinality(CommitsOf(r)) + 1
           /\ \A m \in pushes :
                main' = Append(main, [tree |-> m.tree, by |-> m.req, try |-> m.try])
                  /\ m.req # r => CommitsOf(r)' = CommitsOf(r)
<1>1. /\ Len(main) \in Nat /\ Len(main') \in Nat
      /\ \A i \in 1..Len(main) : main'[i] = main[i]
  BY MainPrefix
<1>2. IsFiniteSet(1..Len(main)) /\ IsFiniteSet(1..Len(main'))
  BY <1>1, FS_Interval
<1>3. CommitsOf(r) \in SUBSET (1..Len(main)) /\ CommitsOf(r)' \in SUBSET (1..Len(main'))
  BY DEF CommitsOf
<1>4. IsFiniteSet(CommitsOf(r)) /\ IsFiniteSet(CommitsOf(r)')
  BY <1>2, <1>3, FS_Subset
<1>5. Cardinality(CommitsOf(r)) \in Nat /\ Cardinality(CommitsOf(r)') \in Nat
  BY <1>4, FS_CardinalityType
<1>6. ASSUME NEW m \in pushes,
             main' = Append(main, [tree |-> m.tree, by |-> m.req, try |-> m.try])
      PROVE  CommitsOf(r)' =
               IF m.req = r THEN CommitsOf(r) \cup {Len(main) + 1} ELSE CommitsOf(r)
  <2> DEFINE c == [tree |-> m.tree, by |-> m.req, try |-> m.try]
  <2>1. c \in Commits /\ main \in Seq(Commits)
    BY DEF TypeOK, Pushes, Commits
  <2>2. Len(main') = Len(main) + 1 /\ main'[Len(main) + 1] = c
    BY <1>6, <2>1, AppendProperties
  <2>3. ASSUME NEW i \in 1..Len(main')
        PROVE  i \in 1..Len(main) \/ i = Len(main) + 1
    BY <1>1, <2>2
  <2>4. c.by = m.req
    OBVIOUS
  <2>5. Len(main) + 1 \in 1..Len(main') /\ \A i \in 1..Len(main) : i \in 1..Len(main')
    BY <1>1, <2>2
  <2>6. QED
    BY <1>1, <2>2, <2>3, <2>4, <2>5 DEF CommitsOf
<1>7. CASE main' = main
  <2>1. CommitsOf(r)' = CommitsOf(r)
    BY <1>7 DEF CommitsOf
  <2>2. \A m \in pushes :
          main' # Append(main, [tree |-> m.tree, by |-> m.req, try |-> m.try])
    <3>1. ASSUME NEW m \in pushes
          PROVE  /\ [tree |-> m.tree, by |-> m.req, try |-> m.try] \in Commits
                 /\ main \in Seq(Commits)
      BY DEF TypeOK, Pushes, Commits
    <3>2. ASSUME NEW m \in pushes
          PROVE  Len(Append(main, [tree |-> m.tree, by |-> m.req, try |-> m.try])) =
                   Len(main) + 1
      BY <3>1, AppendProperties
    <3>3. QED
      BY <1>1, <1>7, <3>2
  <2>3. QED
    BY <1>4, <1>5, <2>1, <2>2
<1>8. CASE main' # main
  <2>1. PICK m \in pushes :
          main' = Append(main, [tree |-> m.tree, by |-> m.req, try |-> m.try])
    BY <1>8, MainGrows
  <2>2. Cardinality(CommitsOf(r) \cup {Len(main) + 1})
           \in {Cardinality(CommitsOf(r)), Cardinality(CommitsOf(r)) + 1}
    BY <1>4, FS_AddElement
  <2>3. Cardinality(CommitsOf(r)') <= Cardinality(CommitsOf(r)) + 1
    <3>1. Cardinality(CommitsOf(r)')
             \in {Cardinality(CommitsOf(r)), Cardinality(CommitsOf(r)) + 1}
      BY <1>6, <2>1, <2>2
    <3>2. QED
      BY <1>5, <3>1
  <2>4. QED
    BY <1>4, <1>5, <1>6, <2>3
<1>9. QED
  BY <1>7, <1>8

LEMMA SilenceStep ==
    ASSUME IInv, [Next]_vars, NEW q \in Requests, SilenceOf(q)
    PROVE  SilenceOf(q)'
<1> USE DEF remoteVars, serverVars, requestVars, historyVars
<1> DEFINE commits == Cardinality(CommitsOf(q))
           sent == Cardinality(PushesOf(q))
<1>t. TypeOK /\ unheard[q] \in Nat /\ Allowed(q) \in Nat
  BY DEF IInv, TypeOK, Allowed
<1>n. /\ IsFiniteSet(PushesOf(q)) /\ commits \in Nat /\ sent \in Nat
      /\ commits + sent <= Allowed(q)
  BY <1>t, CommitsGrow, FS_CardinalityType DEF SilenceOf
<1>k. ASSUME main' = main, pushes' = pushes, Allowed(q)' \in Nat, Allowed(q)' >= Allowed(q)
      PROVE  SilenceOf(q)'
  <2>1. CommitsOf(q)' = CommitsOf(q) /\ PushesOf(q)' = PushesOf(q)
    BY <1>k DEF CommitsOf, PushesOf
  <2>2. QED
    BY <1>k, <1>t, <1>n, <2>1 DEF SilenceOf
<1>h. ASSUME pc'[q] = pc[q], result'[q] = result[q], unheard'[q] = unheard[q]
      PROVE  Allowed(q)' = Allowed(q)
  BY <1>h DEF Allowed, Heard, Definite, Returned
<1>1. CASE UNCHANGED vars
  BY <1>1, <1>k, <1>h, <1>t DEF vars
<1>2. ASSUME NEW r \in Requests, Local(r)
      PROVE  SilenceOf(q)'
  <2>1. main' = main /\ pushes' = pushes
    BY <1>2, <1>t, LocalKeeps
  <2>2. CASE r # q
    BY <1>2, <1>t, <1>k, <1>h, <2>1, <2>2, LocalKeeps
  <2>3. CASE r = q
    <3>1. CASE ReplyLost(q)
      <4>1. unheard'[q] = unheard[q] + 1
        BY <1>t, <3>1 DEF ReplyLost, IInv, TypeOK
      <4>2. Allowed(q)' \in Nat /\ Allowed(q)' >= Allowed(q)
        BY <1>t, <4>1 DEF Allowed
      <4>3. QED
        BY <1>k, <2>1, <4>2
    <3>2. CASE ~ReplyLost(q)
      <4>1. unheard' = unheard
        BY <1>2, <1>t, <2>3, <3>2, LocalKeeps
      <4>2. Heard(q) => Heard(q)'
        <5>1. ASSUME Heard(q)
              PROVE  Return(q)
          <6>1. pc[q] \in {"await", "return", "done"}
            BY <5>1 DEF Heard, Definite, Returned
          <6>2. QED
            BY <1>2, <2>3, <3>2, <6>1
               DEF Local, Call, RLock, LockWrite, ReadMain, FetchForGet, ReadBlob,
                   FetchForUpdate, BuildCommit, NetworkFails, Retry, GiveUp, OpenPush,
                   PushBreaks
        <5>2. Return(q) => result' = result /\ pc[q] = "return" /\ pc'[q] = "done"
          BY <1>t DEF Return, Goto, TypeOK
        <5>3. QED
          BY <5>1, <5>2 DEF Heard, Definite, Returned
      <4>3. Allowed(q)' \in Nat /\ Allowed(q)' >= Allowed(q)
        BY <1>t, <4>1, <4>2 DEF Allowed
      <4>4. QED
        BY <1>k, <2>1, <4>3
    <3>3. QED
      BY <3>1, <3>2
  <2>4. QED
    BY <2>2, <2>3
<1>3. ASSUME NEW k \in packers, Packs(k)
      PROVE  SilenceOf(q)'
  <2>1. CASE PackerLock(k) \/ PackerExit(k)
    BY <1>3, <1>t, <1>k, <1>h, <2>1, PacksKeeps
  <2>2. CASE SendPack(k) /\ k.req # q
    <3>1. PushesOf(q)' = PushesOf(q)
      BY <2>2 DEF SendPack, PushesOf
    <3>2. CommitsOf(q)' = CommitsOf(q) /\ Allowed(q)' = Allowed(q)
      BY <1>3, <1>t, <1>h, <2>2, PacksKeeps DEF CommitsOf
    <3>3. QED
      BY <1>t, <1>n, <3>1, <3>2 DEF SilenceOf
  <2>3. CASE SendPack(k) /\ k.req = q
    <3> DEFINE new == [req |-> q, try |-> k.try, old |-> base[q],
                       tree |-> AddToTree(op[q], BaseTree(q))]
    <3>1. /\ pc[q] = "push" /\ unheard' = unheard /\ CommitsOf(q)' = CommitsOf(q)
      BY <1>3, <1>t, <2>3, PacksKeeps DEF SendPack, IInv, PackerInv, CommitsOf
    <3>2. ~Heard(q)
      BY <3>1 DEF Heard, Definite, Returned
    <3>3. CASE pushes' = pushes
      <4>1. PushesOf(q)' = PushesOf(q)
        BY <3>3 DEF PushesOf
      <4>2. Allowed(q)' \in Nat /\ Allowed(q)' >= Allowed(q)
        BY <1>t, <3>1, <3>2 DEF Allowed
      <4>3. QED
        BY <1>t, <1>n, <3>1, <4>1, <4>2 DEF SilenceOf
    <3>4. CASE pushes' = pushes \cup {new} /\ Goto(q, "await")
      <4>1. PushesOf(q)' = PushesOf(q) \cup {new}
        BY <3>4 DEF PushesOf
      <4>2. /\ IsFiniteSet(PushesOf(q) \cup {new})
            /\ Cardinality(PushesOf(q) \cup {new}) \in {sent, sent + 1}
        BY <1>n, FS_AddElement
      <4>3. Heard(q)'
        BY <1>t, <3>4 DEF Heard, Goto, TypeOK
      <4>4. Allowed(q)' = Allowed(q) + 1
        BY <1>t, <3>1, <3>2, <4>3 DEF Allowed
      <4>5. QED
        BY <1>t, <1>n, <3>1, <4>1, <4>2, <4>4 DEF SilenceOf
    <3>5. QED
      BY <2>3, <3>3, <3>4 DEF SendPack
  <2>4. QED
    BY <1>3, <2>1, <2>2, <2>3 DEF Packs
<1>4. ASSUME NEW m \in pushes, Receives(m)
      PROVE  SilenceOf(q)'
  <2>1. /\ pushes' = pushes \ {m} /\ unheard' = unheard
        /\ \/ main' = main
           \/ main' = Append(main, [tree |-> m.tree, by |-> m.req, try |-> m.try])
    BY <1>4, <1>t, ReceivesKeeps
  <2>2. CASE m.req # q
    <3>1. CommitsOf(q)' = CommitsOf(q)
      BY <1>t, <2>1, <2>2, CommitsGrow DEF CommitsOf
    <3>2. PushesOf(q)' = PushesOf(q) /\ Allowed(q)' = Allowed(q)
      BY <1>4, <1>t, <1>h, <2>1, <2>2, ReceivesKeeps DEF PushesOf
    <3>3. QED
      BY <1>t, <1>n, <3>1, <3>2 DEF SilenceOf
  <2>3. CASE m.req = q
    <3>1. m \in PushesOf(q) /\ PushesOf(q)' = PushesOf(q) \ {m}
      BY <2>1, <2>3 DEF PushesOf
    <3>2. IsFiniteSet(PushesOf(q)') /\ Cardinality(PushesOf(q)') = sent - 1
      <4>1. /\ IsFiniteSet(PushesOf(q) \ {m})
            /\ Cardinality(PushesOf(q) \ {m}) = sent - 1
        BY <1>n, <3>1, FS_RemoveElement
      <4>2. QED
        BY <3>1, <4>1
    <3>3. Cardinality(CommitsOf(q)') \in Nat /\ Cardinality(CommitsOf(q)') <= commits + 1
      BY <1>t, CommitsGrow
    <3>4. CASE PushAccepted(m) \/ PushUnheard(m)
      <4>1. Heard(q) => Heard(q)'
        <5>1. CASE PushAccepted(m)
          <6>1. pc'[q] = "return" /\ result'[q] = Ok(NoFile)
            BY <1>t, <2>3, <5>1 DEF PushAccepted, Finish, Goto, TypeOK
          <6>2. QED
            BY <6>1 DEF Heard, Definite, Returned, Ok, Error
        <5>2. CASE PushUnheard(m)
          BY <5>2 DEF PushUnheard, Heard, Definite, Returned
        <5>3. QED
          BY <3>4, <5>1, <5>2
      <4>2. Allowed(q)' \in Nat /\ Allowed(q)' >= Allowed(q)
        BY <1>t, <2>1, <4>1 DEF Allowed
      <4>3. QED
        BY <1>t, <1>n, <3>2, <3>3, <4>2 DEF SilenceOf
    <3>5. CASE PushRefused(m)
      <4>1. CommitsOf(q)' = CommitsOf(q)
        BY <3>5 DEF PushRefused, Receive, CommitsOf
      <4>2. Allowed(q)' \in Nat /\ Allowed(q)' >= Allowed(q) - 1
        BY <1>t, <2>1 DEF Allowed
      <4>3. QED
        BY <1>t, <1>n, <3>2, <4>1, <4>2 DEF SilenceOf
    <3>6. QED
      BY <1>4, <3>4, <3>5 DEF Receives
  <2>4. QED
    BY <2>2, <2>3
<1>5. ASSUME NEW s \in Servers, Runs(s)
      PROVE  SilenceOf(q)'
  <2>1. main' = main /\ pushes' = pushes
    BY <1>5, <1>t, RunsKeeps
  <2>2. CASE pc'[q] = pc[q] /\ result'[q] = result[q] /\ unheard'[q] = unheard[q]
    BY <1>k, <1>h, <1>t, <2>1, <2>2
  <2>3. CASE ~(pc'[q] = pc[q] /\ result'[q] = result[q] /\ unheard'[q] = unheard[q])
    <3>1. Crash(s)
      BY <1>5, <1>t, <2>3, RunsKeeps
    <3>2. /\ pc'[q] = "crashed"
          /\ unheard'[q] = IF pc[q] = "await" \/ result[q].code = "ok"
                             THEN unheard[q] + 1 ELSE unheard[q]
      BY <1>t, <2>3, <3>1 DEF Crash, IInv, TypeOK
    <3>3. Allowed(q)' \in Nat /\ Allowed(q)' >= Allowed(q)
      BY <1>t, <3>2 DEF Allowed, Heard, Definite, Returned
    <3>4. QED
      BY <1>k, <2>1, <3>3
  <2>4. QED
    BY <2>2, <2>3
<1>6. QED
  BY <1>1, <1>2, <1>3, <1>4, <1>5, NextIsStep

-----------------------------------------------------------------------------
(* The theorems.                                                             *)

(* What a request knows of its server's mutex and of its own pushes holds in *)
(* every state the servers can reach.                                        *)
THEOREM Sharing == Spec => []SharingInv
<1>1. Init => SharingInv
  <2> SUFFICES ASSUME Init
               PROVE  SharingInv
    OBVIOUS
  <2>1. TypeOK /\ \A r \in Requests : pc[r] = "idle" /\ unheard[r] = 0
    BY TypeInit DEF Init
  <2>2. ASSUME NEW r \in Requests
        PROVE  MutexOf(r)
    BY <2>1 DEF MutexOf, Working
  <2>3. ASSUME NEW r \in Requests
        PROVE  SilenceOf(r)
    <3>1. CommitsOf(r) = {}
      <4>1. PICK t \in Trees : main = <<[tree |-> t, by |-> NoOne, try |-> 0]>>
        BY DEF Init
      <4>2. Len(main) = 1 /\ main[1].by = NoOne
        BY <4>1
      <4>3. QED
        BY <4>2, NoOneAssumption DEF CommitsOf
    <3>2. PushesOf(r) = {} /\ Allowed(r) = 0
      BY <2>1 DEF Init, PushesOf, Allowed, Heard, Definite, Returned
    <3>3. QED
      BY <3>1, <3>2, FS_EmptySet DEF SilenceOf
  <2>4. pushes = {}
    BY DEF Init
  <2>5. QED
    BY <2>2, <2>3, <2>4 DEF SharingInv
<1>2. IInv /\ SharingInv /\ [Next]_vars => SharingInv'
  <2> SUFFICES ASSUME IInv, SharingInv, [Next]_vars
               PROVE  SharingInv'
    OBVIOUS
  <2>1. \A r \in Requests : MutexOf(r)'
    BY MutexStep DEF SharingInv, IInv
  <2>2. \A r \in Requests : SilenceOf(r)'
    BY SilenceStep DEF SharingInv
  <2>3. \A m \in pushes' : StrayOf(m)'
    BY StrayStep DEF SharingInv
  <2>4. QED
    BY <2>1, <2>2, <2>3 DEF SharingInv
<1>3. QED
  BY <1>1, <1>2, Invariance, PTL DEF Spec

(* A request is applied at most once for each push it got no answer to, and  *)
(* once more for the push that was answered with success.                    *)
THEOREM RetriesApplyOnce == Spec => []AppliedOncePerSilence
<1>1. IInv /\ SharingInv => AppliedOncePerSilence
  <2> SUFFICES ASSUME IInv, SharingInv, NEW r \in Requests
               PROVE  Cardinality(CommitsOf(r)) <= Allowed(r)
    BY DEF AppliedOncePerSilence, Allowed, Heard
  <2>1. SilenceOf(r)
    BY DEF SharingInv
  <2>2. IsFiniteSet(CommitsOf(r))
    <3>1. Len(main) \in Nat
      BY DEF IInv, TypeOK
    <3>2. IsFiniteSet(1..Len(main)) /\ CommitsOf(r) \in SUBSET (1..Len(main))
      BY <3>1, FS_Interval DEF CommitsOf
    <3>3. QED
      BY <3>2, FS_Subset
  <2>3. Cardinality(CommitsOf(r)) \in Nat /\ Cardinality(PushesOf(r)) \in Nat
    BY <2>1, <2>2, FS_CardinalityType DEF SilenceOf
  <2>4. Allowed(r) \in Nat
    BY DEF IInv, TypeOK, Allowed
  <2>5. QED
    BY <2>1, <2>3, <2>4 DEF SilenceOf
<1>2. QED
  BY <1>1, Invariance, Sharing, PTL

-----------------------------------------------------------------------------
(* What lockWrites buys.                                                     *)

WriterPlaces == {"fetch", "build", "connect", "push", "await"}

(* Whoever overtook a writer at work.                                        *)
Excused(q, other) == other = q \/ Server(other) # Server(q) \/ unheard[other] > 0

FreshOf(q) ==
    LockWrites /\ IsWrite(op[q]) /\ pc[q] \in WriterPlaces =>
      \A i \in (base[q] + 1)..Len(main) : Excused(q, main[i].by)

LEMMA FreshStep ==
    ASSUME IInv, SharingInv, SharingInv', [Next]_vars, NEW q \in Requests, FreshOf(q)
    PROVE  FreshOf(q)'
<1> USE DEF remoteVars, serverVars, requestVars, historyVars
<1>t. /\ TypeOK /\ LinearHistory /\ MutexOf(q) /\ op' = op
      /\ Len(main) \in Nat /\ Len(main') \in Nat /\ base[q] \in Nat
      /\ base[q] <= Len(main)
      /\ pc[q] \in BasePlaces => base[q] >= 1
  BY MainGrows, MainPrefix DEF IInv, SharingInv, BaseInv, BaseOf, TypeOK
<1>p. WriterPlaces \subseteq BasePlaces /\ WriterPlaces \subseteq Working
  BY DEF WriterPlaces, BasePlaces, Working
<1>u. ASSUME NEW r \in Requests
      PROVE  unheard[r] \in Nat /\ unheard'[r] \in Nat /\ unheard'[r] >= unheard[r]
  <2>1. TypeOK' /\ unheard[r] \in Nat
    BY <1>t, TypeStep DEF TypeOK
  <2>2. unheard'[r] \in Nat
    BY <2>1 DEF TypeOK
  <2>3. unheard'[r] >= unheard[r]
    <3>1. CASE UNCHANGED unheard
      BY <2>1, <3>1
    <3>2. CASE \E x \in Requests : Local(x)
      BY <1>t, <3>2, LocalKeeps
    <3>3. CASE \E s \in Servers : Runs(s)
      BY <1>t, <3>3, RunsKeeps
    <3>4. QED
      BY <1>t, <3>1, <3>2, <3>3, NextIsStep, PacksKeeps, ReceivesKeeps DEF vars
  <2>4. QED
    BY <2>1, <2>2, <2>3
<1>c. ASSUME NEW i \in 2..Len(main)
      PROVE  main[i].by \in Requests /\ main'[i] = main[i]
  BY <1>t, <1>c, MainPrefix DEF LinearHistory
<1>1. ASSUME base'[q] = base[q], pc'[q] \in WriterPlaces => pc[q] \in WriterPlaces,
             main' = main
      PROVE  FreshOf(q)'
  <2> SUFFICES ASSUME LockWrites, IsWrite(op[q]), pc'[q] \in WriterPlaces,
                      NEW i \in (base[q] + 1)..Len(main)
               PROVE  Excused(q, main[i].by)'
    BY <1>t, <1>1 DEF FreshOf
  <2>1. pc[q] \in WriterPlaces /\ base[q] >= 1
    BY <1>1, <1>t, <1>p
  <2>2. Excused(q, main[i].by)
    BY <2>1 DEF FreshOf
  <2>3. main[i].by \in Requests /\ main'[i] = main[i]
    BY <1>c, <1>t, <2>1
  <2>4. QED
    BY <1>u, <2>2, <2>3 DEF Excused, Server
<1>2. CASE UNCHANGED vars
  BY <1>1, <1>2 DEF vars
<1>3. ASSUME NEW r \in Requests, Local(r)
      PROVE  FreshOf(q)'
  <2>1. main' = main /\ (r # q => base'[q] = base[q] /\ pc'[q] = pc[q])
    BY <1>3, <1>t, LocalKeeps
  <2>2. CASE r # q
    BY <1>1, <2>1, <2>2
  <2>3. CASE r = q /\ ReadMain(q)
    <3>1. base'[q] = Len(main)
      BY <1>t, <2>3 DEF ReadMain, TypeOK
    <3>2. QED
      BY <1>t, <2>1, <3>1 DEF FreshOf
  <2>4. CASE r = q /\ ~ReadMain(q)
    <3>1. base' = base
      BY <1>3, <2>4 DEF Local, Call, RLock, LockWrite, Return, FetchForGet, ReadBlob,
         FetchForUpdate, BuildCommit, NetworkFails, Retry, GiveUp, OpenPush, PushBreaks,
         ReplyLost
    <3>2. pc'[q] \in WriterPlaces => pc[q] \in WriterPlaces
      BY <1>3, <1>t, <2>4 DEF Local, Call, RLock, LockWrite, Return, FetchForGet, ReadBlob,
         FetchForUpdate, BuildCommit, NetworkFails, FailAttempt, Retry, GiveUp, OpenPush,
         PushBreaks, ReplyLost, Goto, Finish, WriterPlaces, TypeOK
    <3>3. QED
      BY <1>1, <2>1, <3>1, <3>2
  <2>5. QED
    BY <2>2, <2>3, <2>4
<1>4. ASSUME NEW k \in packers, Packs(k)
      PROVE  FreshOf(q)'
  <2>1. /\ main' = main /\ base' = base /\ k.req \in Requests
        /\ pc'[q] = pc[q] \/ (q = k.req /\ SendPack(k))
    BY <1>4, <1>t, PacksKeeps DEF Packs
  <2>2. q = k.req /\ SendPack(k) => pc[q] = "push"
    BY <1>t DEF SendPack, IInv, PackerInv
  <2>3. QED
    BY <1>1, <2>1, <2>2 DEF WriterPlaces
<1>5. ASSUME NEW m \in pushes, Receives(m)
      PROVE  FreshOf(q)'
  <2>1. /\ m.req \in Requests /\ base' = base /\ unheard' = unheard
        /\ pc'[q] \in WriterPlaces => pc'[q] = pc[q]
    BY <1>5, <1>t, ReceivesKeeps
       DEF Receives, PushAccepted, PushRefused, PushUnheard, Goto, Finish, TypeOK, WriterPlaces
  <2>2. CASE main' = main
    BY <1>1, <2>1, <2>2
  <2>3. CASE main' # main
    <3> DEFINE c == [tree |-> m.tree, by |-> m.req, try |-> m.try]
    <3>1. main' = Append(main, c) /\ c.by = m.req
      BY <1>5, <1>t, <2>3, ReceivesKeeps
    <3>2. c \in Commits /\ main \in Seq(Commits)
      BY <1>t DEF TypeOK, Pushes, Commits
    <3>3. Len(main') = Len(main) + 1 /\ main'[Len(main) + 1] = c
      BY <3>1, <3>2, AppendProperties
    <3>4. SUFFICES ASSUME LockWrites, IsWrite(op[q]), pc'[q] \in WriterPlaces,
                          NEW i \in (base[q] + 1)..Len(main')
                   PROVE  Excused(q, main[i].by)'
      BY <1>t, <2>1 DEF FreshOf
    <3>5. pc[q] \in WriterPlaces /\ base[q] >= 1
      BY <1>t, <1>p, <2>1, <3>4
    <3>6. CASE i \in (base[q] + 1)..Len(main)
      <4>1. Excused(q, main[i].by)
        BY <3>4, <3>5, <3>6 DEF FreshOf
      <4>2. main[i].by \in Requests /\ main'[i] = main[i]
        BY <1>c, <1>t, <3>5, <3>6
      <4>3. QED
        BY <2>1, <4>1, <4>2 DEF Excused, Server
    <3>7. CASE i = Len(main) + 1
      <4>1. main'[i].by = m.req
        BY <3>1, <3>3, <3>7
      <4>2. ASSUME m.req # q, Server(m.req) = Server(q)
            PROVE  unheard[m.req] > 0
        <5>1. writeMtx[Server(q)] = q
          BY <1>t, <1>p, <3>4, <3>5 DEF MutexOf
        <5>2. IsWrite(op[m.req])
          BY DEF IInv, PushInv, PushOf, Writes
        <5>3. ~Waits(m)
          BY <2>1, <3>4, <4>2, <5>1, <5>2 DEF SharingInv, MutexOf, Waits, Working
        <5>4. QED
          BY <5>3 DEF SharingInv, StrayOf
      <4>3. QED
        BY <2>1, <4>1, <4>2 DEF Excused, Server
    <3>8. QED
      BY <1>t, <3>3, <3>4, <3>6, <3>7
  <2>4. QED
    BY <2>2, <2>3
<1>6. ASSUME NEW s \in Servers, Runs(s)
      PROVE  FreshOf(q)'
  <2>1. main' = main /\ base' = base /\ (pc'[q] = pc[q] \/ pc'[q] = "crashed")
    BY <1>6, <1>t, RunsKeeps
  <2>2. QED
    BY <1>1, <2>1 DEF WriterPlaces
<1>7. QED
  BY <1>2, <1>3, <1>4, <1>5, <1>6, NextIsStep

(* With lockWrites, from the moment a write reads main, only another server, *)
(* or an earlier push that was never answered, can overtake it.              *)
THEOREM LockedWritesKeepTheirBase == Spec => []LockKeepsBaseFresh
<1> DEFINE Fresh == \A r \in Requests : FreshOf(r)
<1>1. Init => Fresh
  BY DEF Init, FreshOf, WriterPlaces
<1>2. IInv /\ SharingInv /\ SharingInv' /\ Fresh /\ [Next]_vars => Fresh'
  BY FreshStep
<1>3. Fresh => LockKeepsBaseFresh
  BY DEF LockKeepsBaseFresh, FreshOf, Excused, WriterPlaces
<1> HIDE DEF Fresh
<1>4. QED
  BY <1>1, <1>2, <1>3, Invariance, Sharing, PTL DEF Spec
=============================================================================
