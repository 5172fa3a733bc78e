-------------------------- MODULE GitProtocolProofs --------------------------
(***************************************************************************)
(* Proofs about GitProtocol for every number of servers, requests, paths,  *)
(* bodies and retries, every choice of faults, with and without lockWrites.*)
(***************************************************************************)
EXTENDS GitProtocolInv, SequenceTheorems, TLAPS

(* A write allowed by updateFile's checks is one the map backend would do,   *)
(* and the tree it builds is the one the map would become.                   *)
LEMMA ChecksAgree ==
    ASSUME NEW o \in Operations, NEW tree \in Trees, IsWrite(o)
    PROVE  /\ CheckExistence(o, tree) = NoAnswer <=> Writes(o, tree)
           /\ Writes(o, tree) => AddToTree(o, tree) = Effect(o, tree)
           /\ CheckExistence(o, tree) # NoAnswer =>
                /\ CheckExistence(o, tree) = Outcome(o, tree)
                /\ CheckExistence(o, tree) \in Answers
                /\ CheckExistence(o, tree) # Error
                /\ CheckExistence(o, tree).code # "ok"
BY DEF CheckExistence, NoAnswer, Writes, IsWrite, Outcome, Operations, Ok,
       NotFound, Conflict, Error, AddToTree, Effect, Answers, Trees

LEMMA EffectType ==
    ASSUME NEW o \in Operations, NEW tree \in Trees
    PROVE  AddToTree(o, tree) \in Trees /\ Effect(o, tree) \in Trees
BY DEF AddToTree, Effect, Operations, Trees

(* Main only grows, and nobody's operation changes.                          *)
LEMMA MainGrows ==
    ASSUME TypeOK, [Next]_vars
    PROVE  /\ op' = op
           /\ \/ main' = main
              \/ \E m \in pushes :
                   /\ Applies(m)
                   /\ main' = Append(main,
                        [tree |-> m.tree, by |-> m.req, try |-> m.try])
<1> USE DEF remoteVars, serverVars, requestVars, historyVars
<1>1. CASE UNCHANGED vars
  BY <1>1 DEF vars
<1>2. ASSUME NEW r \in Requests,
             \/ Call(r) \/ RLock(r) \/ LockWrite(r) \/ Return(r)
             \/ ReadMain(r) \/ FetchForGet(r) \/ ReadBlob(r) \/ FetchForUpdate(r)
             \/ BuildCommit(r) \/ NetworkFails(r) \/ Retry(r) \/ GiveUp(r)
             \/ OpenPush(r) \/ PushBreaks(r) \/ ReplyLost(r)
      PROVE  op' = op /\ main' = main
  BY <1>2 DEF Call, RLock, LockWrite, Return, ReadMain, FetchForGet, ReadBlob,
              FetchForUpdate, BuildCommit, NetworkFails, Retry, GiveUp,
              OpenPush, PushBreaks, ReplyLost
<1>3. ASSUME NEW k \in packers, PackerLock(k) \/ SendPack(k) \/ PackerExit(k)
      PROVE  op' = op /\ main' = main
  BY <1>3 DEF PackerLock, SendPack, PackerExit
<1>4. ASSUME NEW m \in pushes, PushAccepted(m) \/ PushRefused(m) \/ PushUnheard(m)
      PROVE  /\ op' = op
             /\ \/ main' = main
                \/ /\ Applies(m)
                   /\ main' = Append(main,
                        [tree |-> m.tree, by |-> m.req, try |-> m.try])
  BY <1>4 DEF PushAccepted, PushRefused, PushUnheard, Receive
<1>5. ASSUME NEW s \in Servers, Tick(s) \/ Clean(s) \/ Crash(s)
      PROVE  op' = op /\ main' = main
  BY <1>5 DEF Tick, Clean, Crash
<1>6. QED
  BY <1>1, <1>2, <1>3, <1>4, <1>5 DEF Next

(* Main keeps its commits at their places when it grows.                     *)
LEMMA MainPrefix ==
    ASSUME TypeOK, [Next]_vars
    PROVE  /\ Len(main) \in Nat \ {0}
           /\ Len(main') \in Nat
           /\ Len(main') >= Len(main)
           /\ \A i \in 1..Len(main) : main'[i] = main[i]
<1>1. main \in Seq(Commits) /\ main # <<>> /\ pushes \subseteq Pushes
  BY DEF TypeOK
<1>2. Len(main) \in Nat \ {0}
  BY <1>1
<1>3. CASE main' = main
  BY <1>2, <1>3
<1>4. ASSUME NEW m \in pushes,
             main' = Append(main, [tree |-> m.tree, by |-> m.req, try |-> m.try])
      PROVE  /\ Len(main') = Len(main) + 1
             /\ \A i \in 1..Len(main) : main'[i] = main[i]
  <2>1. [tree |-> m.tree, by |-> m.req, try |-> m.try] \in Commits
    BY <1>1 DEF Pushes, Commits
  <2>2. QED
    BY <1>1, <1>4, <2>1, AppendProperties
<1>5. CASE main' # main
  <2>1. PICK m \in pushes :
          main' = Append(main, [tree |-> m.tree, by |-> m.req, try |-> m.try])
    BY <1>5, MainGrows
  <2>2. Len(main') = Len(main) + 1 /\ \A i \in 1..Len(main) : main'[i] = main[i]
    BY <1>4, <2>1
  <2>3. QED
    BY <1>2, <2>2
<1>6. QED
  BY <1>3, <1>5

-----------------------------------------------------------------------------
(* Type correctness.                                                         *)
LEMMA TypeInit == Init => TypeOK
<1> SUFFICES ASSUME Init PROVE TypeOK
  OBVIOUS
<1>1. PICK t \in Trees : main = <<[tree |-> t, by |-> NoOne, try |-> 0]>>
  BY DEF Init
<1>2. [tree |-> t, by |-> NoOne, try |-> 0] \in Commits
  BY RetriesAssumption DEF Commits, Tries
<1>3. main \in Seq(Commits) /\ main # <<>>
  BY <1>1, <1>2
<1>4. 0 \in Tries
  BY RetriesAssumption DEF Tries
<1>5. op \in [Requests -> Operations]
  BY DEF Init
<1>6. QED
  BY <1>3, <1>4, <1>5 DEF Init, TypeOK, Places

LEMMA TypeStep == IInv /\ [Next]_vars => TypeOK'
<1> SUFFICES ASSUME IInv, [Next]_vars PROVE TypeOK'
  OBVIOUS
<1> USE DEF remoteVars, serverVars, requestVars, historyVars
<1>t. TypeOK
  BY DEF IInv
<1>n. 0 \in Tries /\ Tries \subseteq Nat
  BY RetriesAssumption DEF Tries
<1>l. Len(main) \in Nat \ {0}
  BY <1>t, MainPrefix
<1>c. ServerOf \in [Requests -> Servers]
  BY ConfigAssumption
<1>a. /\ NotFound \in Answers /\ Error \in Answers /\ Ok(NoFile) \in Answers
      /\ \A b \in Bodies : Ok(b) \in Answers
  BY DEF NotFound, Error, Ok, Answers
<1>b. ASSUME NEW r \in Requests, pc[r] \in BasePlaces
      PROVE  /\ base[r] \in 1..Len(main)
             /\ BaseTree(r) \in Trees
             /\ op[r] \in Operations
  <2>1. base[r] \in 1..Len(main)
    BY <1>b, <1>l DEF IInv, BaseInv, BaseOf
  <2>2. main[base[r]] \in Commits
    BY <1>t, <2>1 DEF TypeOK
  <2>3. QED
    BY <1>t, <2>1, <2>2 DEF BaseTree, Commits, TypeOK
<1>1. CASE UNCHANGED vars
  BY <1>t, <1>1 DEF vars, TypeOK
<1>2. ASSUME NEW r \in Requests, Call(r) \/ RLock(r)
      PROVE  TypeOK'
  BY <1>t, <1>l, <1>2 DEF Call, RLock, Goto, TypeOK, Places, Inside, Working
<1>3. ASSUME NEW r \in Requests, LockWrite(r) \/ Return(r)
      PROVE  TypeOK'
  BY <1>t, <1>c, <1>3 DEF LockWrite, Return, Goto, Server, TypeOK, Places, Inside, Working
<1>4. ASSUME NEW r \in Requests, ReadMain(r)
      PROVE  TypeOK'
  BY <1>t, <1>l, <1>4 DEF ReadMain, Goto, TypeOK, Places, Inside, Working
<1>5. ASSUME NEW r \in Requests, FetchForGet(r)
      PROVE  TypeOK'
  BY <1>t, <1>a, <1>5 DEF FetchForGet, Goto, Finish, TypeOK, Places, Inside, Working
<1>6. ASSUME NEW r \in Requests, ReadBlob(r)
      PROVE  TypeOK'
  <2>1. /\ BaseTree(r) \in Trees
        /\ op[r] \in Operations
        /\ BaseTree(r)[op[r].path] # NoFile
    BY <1>6, <1>b DEF ReadBlob, BasePlaces, IInv, BaseInv, BaseOf
  <2>2. BaseTree(r)[op[r].path] \in Bodies
    BY <2>1 DEF Trees, Operations
  <2>3. <<"blob", BaseTree(r)[op[r].path]>> \in Objects
    BY <2>2 DEF Objects
  <2>4. QED
    BY <1>t, <1>a, <1>c, <1>6, <2>2, <2>3
       DEF ReadBlob, Goto, Finish, Server, TypeOK, Places, Inside, Working
<1>7. ASSUME NEW r \in Requests, FetchForUpdate(r)
      PROVE  TypeOK'
  <2>1. BaseTree(r) \in Trees /\ op[r] \in Operations /\ IsWrite(op[r])
    BY <1>7, <1>b DEF FetchForUpdate, BasePlaces
  <2>2. CheckExistence(op[r], BaseTree(r)) # NoAnswer =>
          CheckExistence(op[r], BaseTree(r)) \in Answers
    BY <2>1, ChecksAgree
  <2>3. QED
    BY <1>t, <1>7, <2>2
       DEF FetchForUpdate, Goto, Finish, TypeOK, Places, Inside, Working
<1>8. ASSUME NEW r \in Requests, BuildCommit(r)
      PROVE  TypeOK'
  <2>1. NewObjects(r) \subseteq Objects
    BY <1>t DEF NewObjects, CommitObject, Objects, TypeOK, Operations
  <2>2. QED
    BY <1>t, <1>c, <1>8, <2>1
       DEF BuildCommit, Goto, Server, TypeOK, Places, Inside, Working
<1>9. ASSUME NEW r \in Requests, NetworkFails(r) \/ GiveUp(r)
      PROVE  TypeOK'
  BY <1>t, <1>a, <1>9
     DEF NetworkFails, FailAttempt, GiveUp, Goto, Finish, TypeOK, Places, Inside, Working
<1>10. ASSUME NEW r \in Requests, Retry(r)
       PROVE  TypeOK'
  <2>1. tries[r] + 1 \in Tries
    BY <1>t, <1>10, RetriesAssumption DEF Retry, TypeOK, Tries
  <2>2. QED
    BY <1>t, <1>10, <2>1 DEF Retry, Goto, TypeOK, Places, Inside, Working
<1>11. ASSUME NEW r \in Requests, OpenPush(r)
       PROVE  TypeOK'
  BY <1>t, <1>11 DEF OpenPush, Goto, TypeOK, Places, Inside, Working, Packers, Pipes
<1>12. ASSUME NEW r \in Requests, PushBreaks(r)
       PROVE  TypeOK'
  <2>1. PICK left \in Pipes :
          packers' = {IF Attempt(k) = <<r, tries[r]>>
                        THEN [k EXCEPT !.pipe = left] ELSE k : k \in packers}
    BY <1>12 DEF PushBreaks, Pipes
  <2>2. packers' \subseteq Packers
    <3>1. \A k \in packers : k \in Packers /\ [k EXCEPT !.pipe = left] \in Packers
      BY <1>t DEF TypeOK, Packers
    <3>2. ASSUME NEW j \in packers' PROVE j \in Packers
      <4>1. PICK k \in packers :
              j = IF Attempt(k) = <<r, tries[r]>>
                    THEN [k EXCEPT !.pipe = left] ELSE k
        BY <2>1
      <4>2. QED
        BY <3>1, <4>1
    <3>3. QED
      BY <3>2
  <2>3. QED
    BY <1>t, <1>12, <2>2 DEF PushBreaks, Goto, TypeOK, Places, Inside, Working
<1>13. ASSUME NEW r \in Requests, ReplyLost(r)
       PROVE  TypeOK'
  <2>1. unheard' \in [Requests -> Nat]
    BY <1>t, <1>13 DEF ReplyLost, TypeOK
  <2>2. /\ pc' \in [Requests -> Places]
        /\ result' \in [Requests -> Answers \cup {NoAnswer}]
    BY <1>t, <1>a, <1>13 DEF ReplyLost, Goto, Finish, TypeOK, Places, Inside, Working
  <2>3. QED
    BY <1>t, <1>13, <2>1, <2>2 DEF ReplyLost, TypeOK
<1>14. ASSUME NEW k \in packers, PackerLock(k) \/ SendPack(k) \/ PackerExit(k)
       PROVE  TypeOK'
  <2>1. k.req \in Requests /\ k.try \in Tries /\ Attempt(k) \in Attempts
    BY <1>t DEF TypeOK, Packers, Attempt, Attempts
  <2>2. Unlocked(k) \in [Servers -> Attempts \cup {NoOne}]
    BY <1>t DEF TypeOK, Unlocked
  <2>3. CASE PackerLock(k)
    BY <1>t, <1>c, <2>1, <2>3 DEF PackerLock, Server, TypeOK
  <2>4. CASE PackerExit(k)
    BY <1>t, <2>1, <2>2, <2>4 DEF PackerExit, TypeOK
  <2>5. CASE SendPack(k)
    <3> DEFINE r == k.req
               m == [req |-> r, try |-> k.try, old |-> base[r],
                     tree |-> AddToTree(op[r], BaseTree(r))]
    <3>1. pc[r] = "push"
      BY <2>5 DEF SendPack, IInv, PackerInv
    <3>2. base[r] \in 1..Len(main) /\ BaseTree(r) \in Trees /\ op[r] \in Operations
      BY <1>b, <2>1, <3>1 DEF BasePlaces
    <3>3. m \in Pushes
      BY <2>1, <3>2, EffectType DEF Pushes
    <3>4. pushes' \subseteq Pushes
      BY <1>t, <2>5, <3>3 DEF SendPack, TypeOK
    <3>5. pc' \in [Requests -> Places]
      BY <1>t, <2>1, <2>5 DEF SendPack, Goto, TypeOK, Places, Inside, Working
    <3>6. QED
      BY <1>t, <2>1, <2>2, <2>5, <3>4, <3>5 DEF SendPack, TypeOK
  <2>6. QED
    BY <1>14, <2>3, <2>4, <2>5
<1>15. ASSUME NEW m \in pushes, PushAccepted(m) \/ PushRefused(m) \/ PushUnheard(m)
       PROVE  TypeOK'
  <2>1. m \in Pushes
    BY <1>t DEF TypeOK
  <2>2. [tree |-> m.tree, by |-> m.req, try |-> m.try] \in Commits
    BY <2>1 DEF Pushes, Commits
  <2>3. Receive(m)
    BY <1>15 DEF PushAccepted, PushRefused, PushUnheard
  <2>4. main' \in Seq(Commits) /\ main' # <<>> /\ pushes' \subseteq Pushes
    BY <1>t, <2>2, <2>3, AppendProperties DEF Receive, TypeOK
  <2>5. m.req \in Requests
    BY <2>1 DEF Pushes
  <2>6. QED
    BY <1>t, <1>a, <1>15, <2>4, <2>5
       DEF PushAccepted, PushRefused, PushUnheard, Goto, Finish, TypeOK,
           Places, Inside, Working
<1>16. ASSUME NEW s \in Servers, Tick(s) \/ Clean(s)
       PROVE  TypeOK'
  BY <1>t, <1>16 DEF Tick, Clean, TypeOK
<1>17. ASSUME NEW s \in Servers, Crash(s)
       PROVE  TypeOK'
  BY <1>t, <1>17 DEF Crash, TypeOK, Places
<1>18. QED
  BY <1>1, <1>2, <1>3, <1>4, <1>5, <1>6, <1>7, <1>8, <1>9, <1>10, <1>11, <1>12,
     <1>13, <1>14, <1>15, <1>16, <1>17 DEF Next

-----------------------------------------------------------------------------
(* The history: what the remote appends is what the push claims.             *)
LEMMA LinearStep == IInv /\ [Next]_vars => LinearHistory'
<1> SUFFICES ASSUME IInv, [Next]_vars PROVE LinearHistory'
  OBVIOUS
<1>t. TypeOK /\ LinearHistory /\ op' = op
  BY MainGrows DEF IInv
<1>1. CASE main' = main
  BY <1>t, <1>1 DEF LinearHistory
<1>2. CASE main' # main
  <2>1. PICK m \in pushes :
          /\ Applies(m)
          /\ main' = Append(main, [tree |-> m.tree, by |-> m.req, try |-> m.try])
    BY <1>t, <1>2, MainGrows
  <2> DEFINE c == [tree |-> m.tree, by |-> m.req, try |-> m.try]
  <2>2. m \in Pushes /\ m.req \in Requests
    BY <1>t DEF TypeOK, Pushes
  <2>3. c \in Commits
    BY <2>2 DEF Pushes, Commits
  <2>4. /\ Len(main') = Len(main) + 1
        /\ main'[Len(main) + 1] = c
        /\ \A i \in 1..Len(main) : main'[i] = main[i]
    BY <1>t, <2>1, <2>3, AppendProperties DEF TypeOK
  <2>5. /\ Len(main) \in Nat \ {0}
        /\ m.old = Len(main)
    BY <1>t, <2>1, MainPrefix DEF Applies
  <2>6. /\ Writes(op[m.req], main[Len(main)].tree)
        /\ m.tree = Effect(op[m.req], main[Len(main)].tree)
    BY <2>5 DEF IInv, PushInv, PushOf
  <2>7. ASSUME NEW i \in 2..Len(main')
        PROVE  /\ main'[i].by \in Requests
               /\ Writes(op[main'[i].by], main'[i - 1].tree)
               /\ main'[i].tree = Effect(op[main'[i].by], main'[i - 1].tree)
    <3>1. CASE i = Len(main) + 1
      BY <2>2, <2>4, <2>5, <2>6, <3>1
    <3>2. CASE i \in 2..Len(main)
      <4>1. main'[i] = main[i] /\ main'[i - 1] = main[i - 1]
        BY <2>4, <2>5, <3>2
      <4>2. QED
        BY <1>t, <3>2, <4>1 DEF LinearHistory
    <3>3. QED
      BY <2>4, <2>5, <2>7, <3>1, <3>2
  <2>8. QED
    BY <1>t, <2>7 DEF LinearHistory
<1>3. QED
  BY <1>1, <1>2

-----------------------------------------------------------------------------
(* The bases.                                                                *)

(* A commit that was a base stays the same commit.                           *)
LEMMA TreeKept ==
    ASSUME TypeOK, [Next]_vars, NEW i \in 1..Len(main)
    PROVE  i \in 1..Len(main') /\ main'[i] = main[i]
BY MainPrefix

(* A request that does not move on to a new claim keeps the one it has.      *)
LEMMA BaseKept ==
    ASSUME IInv, [Next]_vars, NEW q \in Requests,
           base'[q] = base[q],
           began'[q] = began[q],
           pc'[q] \in BasePlaces => pc[q] \in BasePlaces,
           pc'[q] = "blob" => pc[q] = "blob",
           pc'[q] \in CheckedPlaces => pc[q] \in CheckedPlaces
    PROVE  BaseOf(q)'
<1>1. /\ op' = op
      /\ Len(main) \in Nat /\ Len(main') \in Nat /\ Len(main') >= Len(main)
      /\ \A i \in 1..Len(main) : main'[i] = main[i]
  BY MainGrows, MainPrefix DEF IInv
<1>2. BaseOf(q)
  BY DEF IInv, BaseInv
<1>3. CheckedPlaces \subseteq BasePlaces /\ "blob" \in BasePlaces
  BY DEF CheckedPlaces, BasePlaces
<1>4. /\ base'[q] \in 0..Len(main')
      /\ began'[q] \in 0..Len(main')
      /\ pc'[q] \in BasePlaces => base'[q] >= 1 /\ base'[q] >= began'[q]
  BY <1>1, <1>2 DEF BaseOf
<1>5. pc'[q] \in BasePlaces => BaseTree(q)' = BaseTree(q)
  BY <1>1, <1>2 DEF BaseOf, BaseTree
<1>6. QED
  BY <1>1, <1>2, <1>3, <1>4, <1>5 DEF BaseOf

LEMMA BaseStep == IInv /\ [Next]_vars => BaseInv'
<1> SUFFICES ASSUME IInv, [Next]_vars, NEW q \in Requests PROVE BaseOf(q)'
  BY DEF BaseInv
<1> USE DEF remoteVars, serverVars, requestVars, historyVars
<1>t. TypeOK /\ BaseOf(q)
  BY DEF IInv, BaseInv
<1>p. /\ pc \in [Requests -> Places]
      /\ base \in [Requests -> Nat]
      /\ began \in [Requests -> Nat]
  BY <1>t DEF TypeOK
<1>l. Len(main) \in Nat \ {0}
  BY <1>t, MainPrefix
<1>1. CASE UNCHANGED vars
  BY <1>1, BaseKept DEF vars
<1>2. ASSUME NEW r \in Requests,
             \/ RLock(r) \/ LockWrite(r) \/ Return(r) \/ ReadBlob(r)
             \/ BuildCommit(r) \/ NetworkFails(r) \/ Retry(r) \/ GiveUp(r)
             \/ OpenPush(r) \/ PushBreaks(r) \/ ReplyLost(r)
      PROVE  BaseOf(q)'
  <2>1. base' = base /\ began' = began
    BY <1>2 DEF RLock, LockWrite, Return, ReadBlob, BuildCommit, NetworkFails,
                Retry, GiveUp, OpenPush, PushBreaks, ReplyLost
  <2>2. \/ pc'[q] = pc[q]
        \/ pc'[q] \notin BasePlaces
        \/ pc[q] = "build" /\ pc'[q] = "connect"
        \/ pc[q] = "connect" /\ pc'[q] = "push"
    BY <1>2, <1>p DEF RLock, LockWrite, Return, ReadBlob, BuildCommit,
         NetworkFails, FailAttempt, Retry, GiveUp, OpenPush, PushBreaks,
         ReplyLost, Goto, Finish, BasePlaces
  <2>3. QED
    BY <2>1, <2>2, BaseKept DEF BasePlaces, CheckedPlaces
<1>3. ASSUME NEW r \in Requests, Call(r)
      PROVE  BaseOf(q)'
  <2>1. CASE q = r
    BY <1>t, <1>p, <1>l, <1>3, <2>1
       DEF Call, Goto, BaseOf, BasePlaces, CheckedPlaces
  <2>2. CASE q # r
    BY <1>p, <1>3, <2>2, BaseKept DEF Call, Goto
  <2>3. QED
    BY <2>1, <2>2
<1>4. ASSUME NEW r \in Requests, ReadMain(r)
      PROVE  BaseOf(q)'
  <2>1. CASE q = r
    BY <1>t, <1>p, <1>l, <1>4, <2>1
       DEF ReadMain, Goto, BaseOf, BasePlaces, CheckedPlaces
  <2>2. CASE q # r
    BY <1>p, <1>4, <2>2, BaseKept DEF ReadMain, Goto
  <2>3. QED
    BY <2>1, <2>2
<1>5. ASSUME NEW r \in Requests, FetchForGet(r)
      PROVE  BaseOf(q)'
  <2>1. CASE q = r /\ BaseTree(r)[op[r].path] # NoFile
    BY <1>t, <1>p, <1>5, <2>1
       DEF FetchForGet, Goto, BaseOf, BaseTree, BasePlaces, CheckedPlaces
  <2>2. CASE q = r /\ BaseTree(r)[op[r].path] = NoFile
    BY <1>p, <1>5, <2>2, BaseKept
       DEF FetchForGet, Finish, Goto, BasePlaces, CheckedPlaces
  <2>3. CASE q # r
    BY <1>p, <1>5, <2>3, BaseKept DEF FetchForGet, Finish, Goto
  <2>4. QED
    BY <2>1, <2>2, <2>3
<1>6. ASSUME NEW r \in Requests, FetchForUpdate(r)
      PROVE  BaseOf(q)'
  <2> DEFINE refusal == CheckExistence(op[r], BaseTree(r))
  <2>1. CASE q = r /\ refusal = NoAnswer
    <3>1. base[r] \in 1..Len(main) /\ main[base[r]] \in Commits
      BY <1>t, <1>l, <1>6, <2>1 DEF FetchForUpdate, BaseOf, BasePlaces, TypeOK
    <3>2. /\ BaseTree(r) \in Trees
          /\ op[r] \in Operations
          /\ IsWrite(op[r])
      BY <1>t, <1>6, <3>1 DEF FetchForUpdate, BaseTree, Commits, TypeOK
    <3>3. Writes(op[r], BaseTree(r))
      BY <2>1, <3>2, ChecksAgree
    <3>4. /\ main' = main /\ base' = base /\ op' = op /\ began' = began
          /\ pc'[q] = "build"
      BY <1>p, <1>6, <2>1 DEF FetchForUpdate, Goto
    <3>5. BaseTree(q)' = BaseTree(q)
      BY <3>4 DEF BaseTree
    <3>6. base[q] >= 1 /\ base[q] >= began[q]
      BY <1>t, <1>6, <2>1 DEF FetchForUpdate, BaseOf, BasePlaces
    <3>7. QED
      BY <1>t, <2>1, <3>3, <3>4, <3>5, <3>6 DEF BaseOf
  <2>2. CASE q = r /\ refusal # NoAnswer
    BY <1>p, <1>6, <2>2, BaseKept
       DEF FetchForUpdate, Finish, Goto, BasePlaces, CheckedPlaces
  <2>3. CASE q # r
    BY <1>p, <1>6, <2>3, BaseKept DEF FetchForUpdate, Finish, Goto
  <2>4. QED
    BY <2>1, <2>2, <2>3
<1>7. ASSUME NEW k \in packers, PackerLock(k) \/ SendPack(k) \/ PackerExit(k)
      PROVE  BaseOf(q)'
  <2>1. base' = base /\ began' = began
    BY <1>7 DEF PackerLock, SendPack, PackerExit
  <2>2. \/ pc'[q] = pc[q]
        \/ pc'[q] = "backoff"
        \/ pc[q] = "push" /\ pc'[q] = "await"
    BY <1>7, <1>p DEF PackerLock, SendPack, PackerExit, Goto, IInv, PackerInv
  <2>3. QED
    BY <2>1, <2>2, BaseKept DEF BasePlaces, CheckedPlaces
<1>8. ASSUME NEW m \in pushes, PushAccepted(m) \/ PushRefused(m) \/ PushUnheard(m)
      PROVE  BaseOf(q)'
  <2>1. base' = base /\ began' = began
    BY <1>8 DEF PushAccepted, PushRefused, PushUnheard
  <2>2. pc'[q] = pc[q] \/ pc'[q] \in {"backoff", "return"}
    BY <1>8, <1>p DEF PushAccepted, PushRefused, PushUnheard, Goto, Finish
  <2>3. QED
    BY <2>1, <2>2, BaseKept DEF BasePlaces, CheckedPlaces
<1>9. ASSUME NEW s \in Servers, Tick(s) \/ Clean(s) \/ Crash(s)
      PROVE  BaseOf(q)'
  <2>1. base' = base /\ began' = began
    BY <1>9 DEF Tick, Clean, Crash
  <2>2. pc'[q] = pc[q] \/ pc'[q] = "crashed"
    BY <1>9, <1>p DEF Tick, Clean, Crash
  <2>3. QED
    BY <2>1, <2>2, BaseKept DEF BasePlaces, CheckedPlaces
<1>10. QED
  BY <1>1, <1>2, <1>3, <1>4, <1>5, <1>6, <1>7, <1>8, <1>9 DEF Next

-----------------------------------------------------------------------------
(* The pushes, the packers and the results.                                  *)

(* A push on its way keeps its claim while its request moves up.             *)
LEMMA PushKept ==
    ASSUME IInv, [Next]_vars, NEW m \in pushes,
           base'[m.req] \in Nat, base'[m.req] >= base[m.req],
           tries'[m.req] >= tries[m.req], tries'[m.req] \in Nat,
           Waits(m)' => Waits(m) /\ base'[m.req] = base[m.req]
    PROVE  PushOf(m)'
<1>1. /\ op' = op
      /\ Len(main) \in Nat /\ Len(main') \in Nat /\ Len(main') >= Len(main)
      /\ \A i \in 1..Len(main) : main'[i] = main[i]
  BY MainGrows, MainPrefix DEF IInv
<1>2. PushOf(m)
  BY DEF IInv, PushInv
<1>3. m.req \in Requests /\ base[m.req] \in Nat /\ tries[m.req] \in Nat /\ m.try \in Nat
  BY RetriesAssumption DEF IInv, TypeOK, Pushes, Tries
<1>4. main'[m.old] = main[m.old]
  BY <1>1, <1>2 DEF PushOf
<1>5. QED
  BY <1>1, <1>2, <1>3, <1>4 DEF PushOf

LEMMA PushStep == IInv /\ [Next]_vars => PushInv'
<1> SUFFICES ASSUME IInv, [Next]_vars, NEW m \in pushes' PROVE PushOf(m)'
  BY DEF PushInv
<1> USE DEF remoteVars, serverVars, requestVars, historyVars
<1>t. TypeOK /\ PushInv /\ UnsentInv /\ BaseInv
  BY DEF IInv
<1>p. /\ pc \in [Requests -> Places]
      /\ base \in [Requests -> Nat]
      /\ tries \in [Requests -> Tries]
      /\ Tries \subseteq Nat
      /\ pushes \subseteq Pushes
  BY <1>t, RetriesAssumption DEF TypeOK, Tries
<1>l. Len(main) \in Nat \ {0} /\ \A q \in Requests : base[q] <= Len(main)
  BY <1>t, MainPrefix DEF BaseInv, BaseOf
<1>r. m \in pushes =>
        m.req \in Requests /\ base[m.req] \in Nat /\ tries[m.req] \in Nat
  BY <1>p DEF Pushes
<1>1. CASE UNCHANGED vars
  BY <1>r, <1>1, PushKept DEF vars, Waits
<1>2. ASSUME NEW r \in Requests,
             \/ Call(r) \/ RLock(r) \/ LockWrite(r) \/ Return(r)
             \/ FetchForGet(r) \/ ReadBlob(r) \/ FetchForUpdate(r)
             \/ BuildCommit(r) \/ NetworkFails(r) \/ GiveUp(r)
             \/ OpenPush(r) \/ PushBreaks(r) \/ ReplyLost(r)
      PROVE  PushOf(m)'
  <2>1. base' = base /\ tries' = tries /\ pushes' = pushes
    BY <1>2 DEF Call, RLock, LockWrite, Return, FetchForGet, ReadBlob,
         FetchForUpdate, BuildCommit, NetworkFails, GiveUp, OpenPush, PushBreaks,
         ReplyLost
  <2>2. \A q \in Requests : pc'[q] = "await" => pc[q] = "await"
    BY <1>2, <1>p DEF Call, RLock, LockWrite, Return, FetchForGet, ReadBlob,
         FetchForUpdate, BuildCommit, NetworkFails, FailAttempt, GiveUp, OpenPush,
         PushBreaks, ReplyLost, Goto, Finish
  <2>3. QED
    BY <1>r, <2>1, <2>2, PushKept DEF Waits
<1>3. ASSUME NEW r \in Requests, ReadMain(r)
      PROVE  PushOf(m)'
  <2>1. tries' = tries /\ pushes' = pushes
    BY <1>3 DEF ReadMain
  <2>2. base'[m.req] \in Nat /\ base'[m.req] >= base[m.req]
    BY <1>3, <1>p, <1>l, <1>r, <2>1 DEF ReadMain
  <2>3. Waits(m)' => Waits(m) /\ base'[m.req] = base[m.req]
    BY <1>3, <1>p, <1>r, <2>1 DEF ReadMain, Goto, Waits
  <2>4. QED
    BY <1>r, <2>1, <2>2, <2>3, PushKept
<1>4. ASSUME NEW r \in Requests, Retry(r)
      PROVE  PushOf(m)'
  <2>1. base' = base /\ pushes' = pushes
    BY <1>4 DEF Retry
  <2>2. tries'[m.req] \in Nat /\ tries'[m.req] >= tries[m.req]
    BY <1>4, <1>p, <1>r, <2>1 DEF Retry
  <2>3. Waits(m)' => Waits(m)
    BY <1>4, <1>p, <1>r, <2>1 DEF Retry, Goto, Waits
  <2>4. QED
    BY <1>r, <2>1, <2>2, <2>3, PushKept
<1>5. ASSUME NEW k \in packers, PackerLock(k) \/ PackerExit(k)
      PROVE  PushOf(m)'
  BY <1>r, <1>5, PushKept DEF PackerLock, PackerExit, Waits
<1>6. ASSUME NEW k \in packers, SendPack(k)
      PROVE  PushOf(m)'
  <2> DEFINE r == k.req
             new == [req |-> r, try |-> k.try, old |-> base[r],
                     tree |-> AddToTree(op[r], BaseTree(r))]
  <2>1. r \in Requests /\ pc[r] = "push" /\ k.try = tries[r]
    BY <1>6, <1>t DEF SendPack, IInv, PackerInv, TypeOK, Packers
  <2>2. /\ base' = base /\ tries' = tries /\ op' = op /\ main' = main
        /\ pushes' \subseteq pushes \cup {new}
    BY <1>6 DEF SendPack
  <2>3. CASE m \in pushes
    <3>1. Waits(m)' => Waits(m)
      BY <1>6, <1>t, <1>p, <1>r, <2>1, <2>2, <2>3
         DEF SendPack, Goto, Waits, UnsentInv, SentPlaces
    <3>2. QED
      BY <1>r, <2>2, <2>3, <3>1, PushKept
  <2>4. CASE m = new
    <3>1. base[r] \in 1..Len(main) /\ Writes(op[r], BaseTree(r))
      BY <1>t, <1>l, <1>p, <2>1
         DEF BaseInv, BaseOf, BasePlaces, CheckedPlaces
    <3>2. main[base[r]] \in Commits
      BY <1>t, <3>1 DEF TypeOK
    <3>3. BaseTree(r) \in Trees /\ op[r] \in Operations
      BY <1>t, <2>1, <3>2 DEF BaseTree, Commits, TypeOK
    <3>4. AddToTree(op[r], BaseTree(r)) = Effect(op[r], BaseTree(r))
      BY <3>1, <3>3, ChecksAgree DEF Writes
    <3>5. /\ m.req = r /\ m.try = tries[r] /\ m.old = base[r]
          /\ m.tree = AddToTree(op[r], BaseTree(r))
      BY <2>1, <2>4
    <3>6. BaseTree(r) = main[base[r]].tree /\ tries[r] \in Nat
      BY <1>p, <2>1 DEF BaseTree
    <3>7. QED
      BY <2>2, <3>1, <3>4, <3>5, <3>6 DEF PushOf
  <2>5. QED
    BY <2>2, <2>3, <2>4
<1>7. ASSUME NEW n \in pushes, PushAccepted(n) \/ PushRefused(n) \/ PushUnheard(n)
      PROVE  PushOf(m)'
  <2>1. base' = base /\ tries' = tries /\ m \in pushes
    BY <1>7 DEF PushAccepted, PushRefused, PushUnheard, Receive
  <2>2. Waits(m)' => Waits(m)
    BY <1>7, <1>p, <1>r, <2>1
       DEF PushAccepted, PushRefused, PushUnheard, Goto, Finish, Waits
  <2>3. QED
    BY <1>r, <2>1, <2>2, PushKept
<1>8. ASSUME NEW s \in Servers, Tick(s) \/ Clean(s) \/ Crash(s)
      PROVE  PushOf(m)'
  <2>1. base' = base /\ tries' = tries /\ pushes' = pushes
    BY <1>8 DEF Tick, Clean, Crash
  <2>2. Waits(m)' => Waits(m)
    BY <1>8, <1>p, <1>r, <2>1 DEF Tick, Clean, Crash, Waits
  <2>3. QED
    BY <1>r, <2>1, <2>2, PushKept
<1>9. QED
  BY <1>1, <1>2, <1>3, <1>4, <1>5, <1>6, <1>7, <1>8 DEF Next

LEMMA PackerInvStep == IInv /\ [Next]_vars => PackerInv'
<1> SUFFICES ASSUME IInv, [Next]_vars PROVE PackerInv'
  OBVIOUS
<1> USE DEF remoteVars, serverVars, requestVars, historyVars
<1>t. /\ PackerInv
      /\ packers \subseteq Packers
      /\ pc \in [Requests -> Places]
      /\ tries \in [Requests -> Tries]
  BY DEF IInv, TypeOK
<1>r. \A k \in packers : k.req \in Requests
  BY <1>t DEF Packers
<1>1. CASE UNCHANGED vars
  BY <1>t, <1>1 DEF vars, PackerInv
<1>2. ASSUME NEW r \in Requests,
             \/ Call(r) \/ RLock(r) \/ LockWrite(r) \/ Return(r)
             \/ ReadMain(r) \/ FetchForGet(r) \/ ReadBlob(r) \/ FetchForUpdate(r)
             \/ BuildCommit(r) \/ NetworkFails(r) \/ Retry(r) \/ GiveUp(r)
             \/ ReplyLost(r)
      PROVE  PackerInv'
  <2>1. /\ packers' = packers
        /\ \A q \in Requests : pc[q] = "push" => pc'[q] = "push" /\ tries'[q] = tries[q]
    BY <1>2, <1>t DEF Call, RLock, LockWrite, Return, ReadMain, FetchForGet,
         ReadBlob, FetchForUpdate, BuildCommit, NetworkFails, FailAttempt, Retry,
         GiveUp, ReplyLost, Goto, Finish
  <2>2. QED
    BY <1>t, <1>r, <2>1 DEF PackerInv
<1>3. ASSUME NEW r \in Requests, OpenPush(r)
      PROVE  PackerInv'
  BY <1>t, <1>r, <1>3 DEF OpenPush, Goto, PackerInv
<1>4. ASSUME NEW r \in Requests, PushBreaks(r)
      PROVE  PackerInv'
  <2>1. PICK left \in {"closed", "left"} :
          packers' = {IF Attempt(k) = <<r, tries[r]>>
                        THEN [k EXCEPT !.pipe = left] ELSE k : k \in packers}
    BY <1>4 DEF PushBreaks
  <2>2. ASSUME NEW j \in packers', j.pipe = "open"
        PROVE  pc'[j.req] = "push" /\ j.try = tries'[j.req]
    <3>1. PICK k \in packers :
            j = IF Attempt(k) = <<r, tries[r]>>
                  THEN [k EXCEPT !.pipe = left] ELSE k
      BY <2>1
    <3>2. [k EXCEPT !.pipe = left].pipe = left
      BY <1>t DEF Packers
    <3>3. j = k /\ Attempt(k) # <<r, tries[r]>>
      BY <2>1, <2>2, <3>1, <3>2
    <3>4. pc[k.req] = "push" /\ k.try = tries[k.req]
      BY <1>t, <2>2, <3>3 DEF PackerInv
    <3>5. k.req # r
      BY <3>3, <3>4 DEF Attempt
    <3>6. QED
      BY <1>4, <1>t, <1>r, <3>3, <3>4, <3>5 DEF PushBreaks, Goto
  <2>3. QED
    BY <2>2 DEF PackerInv
<1>5. ASSUME NEW k \in packers, PackerLock(k) \/ PackerExit(k)
      PROVE  PackerInv'
  BY <1>t, <1>5 DEF PackerLock, PackerExit, PackerInv
<1>6. ASSUME NEW k \in packers, SendPack(k)
      PROVE  PackerInv'
  <2>1. /\ packers' = packers \ {k} /\ tries' = tries
        /\ \A q \in Requests : q # k.req => pc'[q] = pc[q]
    BY <1>6, <1>t, <1>r DEF SendPack, Goto
  <2>2. k.pipe = "open" /\ k.try = tries[k.req]
    BY <1>6, <1>t DEF SendPack, PackerInv
  <2>3. ASSUME NEW j \in packers', j.pipe = "open"
        PROVE  pc'[j.req] = "push" /\ j.try = tries'[j.req]
    <3>1. j \in packers /\ j # k /\ pc[j.req] = "push" /\ j.try = tries[j.req]
      BY <1>t, <2>1, <2>3 DEF PackerInv
    <3>2. j.req # k.req
      <4>1. \A x \in Packers : x = [req |-> x.req, try |-> x.try, pipe |-> x.pipe]
        BY DEF Packers
      <4>2. QED
        BY <1>t, <2>2, <2>3, <3>1, <4>1
    <3>3. QED
      BY <1>r, <2>1, <3>1, <3>2
  <2>4. QED
    BY <2>3 DEF PackerInv
<1>7. ASSUME NEW m \in pushes, PushAccepted(m) \/ PushRefused(m) \/ PushUnheard(m)
      PROVE  PackerInv'
  <2>1. /\ packers' = packers /\ tries' = tries
        /\ \A q \in Requests : pc[q] = "push" => pc'[q] = "push"
    BY <1>7, <1>t DEF PushAccepted, PushRefused, PushUnheard, Waits, Goto, Finish
  <2>2. QED
    BY <1>t, <1>r, <2>1 DEF PackerInv
<1>8. ASSUME NEW s \in Servers, Tick(s) \/ Clean(s)
      PROVE  PackerInv'
  BY <1>t, <1>8 DEF Tick, Clean, PackerInv
<1>9. ASSUME NEW s \in Servers, Crash(s)
      PROVE  PackerInv'
  BY <1>t, <1>r, <1>9 DEF Crash, PackerInv
<1>10. QED
  BY <1>1, <1>2, <1>3, <1>4, <1>5, <1>6, <1>7, <1>8, <1>9 DEF Next

(* A push that is on its way has left its attempt past the packing.          *)
LEMMA UnsentStep == IInv /\ [Next]_vars => UnsentInv'
<1> SUFFICES ASSUME IInv, [Next]_vars, NEW m \in pushes',
                    m.try = tries'[m.req]
             PROVE  pc'[m.req] \in SentPlaces
  BY DEF UnsentInv
<1> USE DEF remoteVars, serverVars, requestVars, historyVars
<1>t. /\ UnsentInv /\ PushInv
      /\ pushes \subseteq Pushes
      /\ packers \subseteq Packers
      /\ pc \in [Requests -> Places]
      /\ tries \in [Requests -> Tries]
      /\ Tries \subseteq Nat
  BY RetriesAssumption DEF IInv, TypeOK, Tries
<1>r. m \in pushes => m.req \in Requests /\ m.try \in Nat /\ m.try <= tries[m.req]
  BY <1>t DEF Pushes, PushInv, PushOf
<1>1. CASE UNCHANGED vars
  BY <1>t, <1>1 DEF vars, UnsentInv
<1>2. ASSUME NEW r \in Requests,
             \/ Call(r) \/ RLock(r) \/ LockWrite(r) \/ Return(r)
             \/ ReadMain(r) \/ FetchForGet(r) \/ ReadBlob(r) \/ FetchForUpdate(r)
             \/ BuildCommit(r) \/ NetworkFails(r) \/ GiveUp(r)
             \/ OpenPush(r) \/ PushBreaks(r) \/ ReplyLost(r)
      PROVE  pc'[m.req] \in SentPlaces
  <2>1. pushes' = pushes /\ tries' = tries
    BY <1>2 DEF Call, RLock, LockWrite, Return, ReadMain, FetchForGet, ReadBlob,
         FetchForUpdate, BuildCommit, NetworkFails, GiveUp, OpenPush, PushBreaks,
         ReplyLost
  <2>2. \A q \in Requests : pc[q] \in SentPlaces => pc'[q] \in SentPlaces
    BY <1>2, <1>t DEF Call, RLock, LockWrite, Return, ReadMain, FetchForGet,
         ReadBlob, FetchForUpdate, BuildCommit, NetworkFails, FailAttempt, GiveUp,
         OpenPush, PushBreaks, ReplyLost, Goto, Finish, SentPlaces
  <2>3. QED
    BY <1>t, <1>r, <2>1, <2>2 DEF UnsentInv
<1>3. ASSUME NEW r \in Requests, Retry(r)
      PROVE  pc'[m.req] \in SentPlaces
  <2>1. m \in pushes /\ tries' = [tries EXCEPT ![r] = @ + 1] /\ tries[r] \in Nat
    BY <1>t, <1>3 DEF Retry
  <2>2. m.req # r
    BY <1>t, <1>r, <2>1
  <2>3. QED
    BY <1>t, <1>r, <1>3, <2>1, <2>2 DEF Retry, Goto, UnsentInv
<1>4. ASSUME NEW k \in packers, PackerLock(k) \/ SendPack(k) \/ PackerExit(k)
      PROVE  pc'[m.req] \in SentPlaces
  <2>1. /\ tries' = tries /\ k.req \in Requests
        /\ pc'[k.req] \in SentPlaces \/ pc' = pc
        /\ \A q \in Requests : q # k.req => pc'[q] = pc[q]
        /\ m \in pushes \/ (m.req = k.req /\ pc'[k.req] \in SentPlaces)
    BY <1>4, <1>t DEF PackerLock, SendPack, PackerExit, Goto, SentPlaces, Packers
  <2>2. QED
    BY <1>t, <1>r, <2>1 DEF UnsentInv
<1>5. ASSUME NEW n \in pushes, PushAccepted(n) \/ PushRefused(n) \/ PushUnheard(n)
      PROVE  pc'[m.req] \in SentPlaces
  <2>1. m \in pushes /\ tries' = tries
    BY <1>5 DEF PushAccepted, PushRefused, PushUnheard, Receive
  <2>2. \A q \in Requests : pc[q] \in SentPlaces => pc'[q] \in SentPlaces
    BY <1>5, <1>t DEF PushAccepted, PushRefused, PushUnheard, Goto, Finish, SentPlaces
  <2>3. QED
    BY <1>t, <1>r, <2>1, <2>2 DEF UnsentInv
<1>6. ASSUME NEW s \in Servers, Tick(s) \/ Clean(s) \/ Crash(s)
      PROVE  pc'[m.req] \in SentPlaces
  BY <1>t, <1>r, <1>6 DEF Tick, Clean, Crash, UnsentInv, SentPlaces
<1>7. QED
  BY <1>1, <1>2, <1>3, <1>4, <1>5, <1>6 DEF Next

(* Results are set by Finish and taken away by a crash, nowhere else.        *)
LEMMA ResultStep == IInv /\ [Next]_vars => ResultInv'
<1> SUFFICES ASSUME IInv, [Next]_vars PROVE ResultInv'
  OBVIOUS
<1> USE DEF remoteVars, serverVars, requestVars, historyVars
<1>t. /\ ResultInv
      /\ pc \in [Requests -> Places]
      /\ result \in [Requests -> Answers \cup {NoAnswer}]
      /\ packers \subseteq Packers
      /\ pushes \subseteq Pushes
  BY DEF IInv, TypeOK
<1>a. /\ NotFound # NoAnswer /\ Error # NoAnswer
      /\ \A b : Ok(b) # NoAnswer
  BY DEF NotFound, Error, Ok, NoAnswer
<1>1. CASE UNCHANGED vars
  BY <1>t, <1>1 DEF vars, ResultInv, Returned
<1>2. ASSUME NEW r \in Requests,
             \/ Call(r) \/ RLock(r) \/ LockWrite(r) \/ Return(r)
             \/ ReadMain(r) \/ FetchForGet(r) \/ ReadBlob(r)
             \/ BuildCommit(r) \/ Retry(r) \/ GiveUp(r)
             \/ OpenPush(r) \/ PushBreaks(r)
      PROVE  ResultInv'
  BY <1>t, <1>a, <1>2 DEF Call, RLock, LockWrite, Return, ReadMain, FetchForGet,
       ReadBlob, BuildCommit, Retry, GiveUp, OpenPush, PushBreaks, Goto, Finish,
       ResultInv, Returned
<1>3. ASSUME NEW r \in Requests, FetchForUpdate(r)
      PROVE  ResultInv'
  BY <1>t, <1>3 DEF FetchForUpdate, Goto, Finish, ResultInv, Returned
<1>4. ASSUME NEW r \in Requests, NetworkFails(r)
      PROVE  ResultInv'
  BY <1>t, <1>a, <1>4 DEF NetworkFails, FailAttempt, Goto, Finish, ResultInv, Returned
<1>5. ASSUME NEW r \in Requests, ReplyLost(r)
      PROVE  ResultInv'
  BY <1>t, <1>a, <1>5 DEF ReplyLost, Goto, Finish, ResultInv, Returned
<1>6. ASSUME NEW k \in packers, PackerLock(k) \/ SendPack(k) \/ PackerExit(k)
      PROVE  ResultInv'
  <2>1. k.pipe = "open" => pc[k.req] = "push"
    BY DEF IInv, PackerInv
  <2>2. QED
    BY <1>t, <1>6, <2>1 DEF PackerLock, SendPack, PackerExit, Goto, ResultInv, Returned
<1>7. ASSUME NEW m \in pushes, PushAccepted(m) \/ PushRefused(m) \/ PushUnheard(m)
      PROVE  ResultInv'
  <2>1. m.req \in Requests
    BY <1>t DEF Pushes
  <2>2. QED
    BY <1>t, <1>a, <1>7, <2>1 DEF PushAccepted, PushRefused, PushUnheard, Waits,
         Goto, Finish, ResultInv, Returned
<1>8. ASSUME NEW s \in Servers, Tick(s) \/ Clean(s)
      PROVE  ResultInv'
  BY <1>t, <1>8 DEF Tick, Clean, ResultInv, Returned
<1>9. ASSUME NEW s \in Servers, Crash(s)
      PROVE  ResultInv'
  BY <1>t, <1>9 DEF Crash, ResultInv, Returned
<1>10. QED
  BY <1>1, <1>2, <1>3, <1>4, <1>5, <1>6, <1>7, <1>8, <1>9 DEF Next

-----------------------------------------------------------------------------
(* The answers.                                                              *)

(* A definite answer stays justified as main grows.                          *)
LEMMA AnswerKept ==
    ASSUME IInv, [Next]_vars, NEW q \in Requests, Definite(q),
           base'[q] = base[q], began'[q] = began[q],
           tries'[q] = tries[q], result'[q] = result[q]
    PROVE  AnswerOf(q)'
<1>1. /\ op' = op
      /\ Len(main) \in Nat /\ Len(main') \in Nat /\ Len(main') >= Len(main)
      /\ \A i \in 1..Len(main) : main'[i] = main[i]
  BY MainGrows, MainPrefix DEF IInv
<1>2. AnswerOf(q) /\ base[q] \in 0..Len(main)
  BY DEF IInv, AnswerInv, BaseInv, BaseOf
<1>3. main'[base[q]] = main[base[q]]
  BY <1>1, <1>2 DEF AnswerOf
<1>4. BaseTree(q)' = BaseTree(q)
  BY <1>3 DEF BaseTree
<1>5. base[q] < Len(main) =>
        base[q] < Len(main') /\ main'[base[q] + 1] = main[base[q] + 1]
  BY <1>1, <1>2
<1>6. QED
  BY <1>1, <1>2, <1>4, <1>5 DEF AnswerOf

LEMMA AnswerStep == IInv /\ [Next]_vars => AnswerInv'
<1> SUFFICES ASSUME IInv, [Next]_vars, NEW q \in Requests, Definite(q)'
             PROVE  AnswerOf(q)'
  BY DEF AnswerInv
<1> USE DEF remoteVars, serverVars, requestVars, historyVars
<1>t. /\ TypeOK /\ BaseOf(q)
      /\ pc \in [Requests -> Places]
      /\ result \in [Requests -> Answers \cup {NoAnswer}]
      /\ packers \subseteq Packers
      /\ pushes \subseteq Pushes
      /\ base \in [Requests -> Nat] /\ tries \in [Requests -> Tries]
      /\ began \in [Requests -> Nat]
  BY DEF IInv, TypeOK, BaseInv
<1>l. Len(main) \in Nat \ {0}
  BY <1>t, MainPrefix
<1>b. pc[q] \in BasePlaces =>
        /\ base[q] \in 1..Len(main) /\ base[q] >= began[q]
        /\ BaseTree(q) \in Trees /\ op[q] \in Operations
  <2>1. pc[q] \in BasePlaces =>
          base[q] \in 1..Len(main) /\ base[q] >= began[q]
    BY <1>t, <1>l DEF BaseOf
  <2>2. base[q] \in 1..Len(main) => main[base[q]] \in Commits
    BY <1>t DEF TypeOK
  <2>3. QED
    BY <1>t, <2>1, <2>2 DEF BaseTree, Commits, TypeOK
<1>1. CASE UNCHANGED vars
  BY <1>1, AnswerKept DEF vars, Definite, Returned
<1>2. ASSUME NEW r \in Requests,
             \/ Call(r) \/ RLock(r) \/ LockWrite(r) \/ Return(r)
             \/ ReadMain(r) \/ BuildCommit(r) \/ Retry(r) \/ GiveUp(r)
             \/ OpenPush(r) \/ PushBreaks(r)
      PROVE  AnswerOf(q)'
  <2>1. /\ Definite(q)
        /\ base'[q] = base[q] /\ began'[q] = began[q]
        /\ tries'[q] = tries[q] /\ result'[q] = result[q]
    BY <1>2, <1>t DEF Call, RLock, LockWrite, Return, ReadMain, BuildCommit, Retry,
         GiveUp, OpenPush, PushBreaks, Goto, Finish, Definite, Returned
  <2>2. QED
    BY <2>1, AnswerKept
<1>3. ASSUME NEW r \in Requests, NetworkFails(r) \/ ReplyLost(r)
      PROVE  AnswerOf(q)'
  <2>1. /\ Definite(q)
        /\ base'[q] = base[q] /\ began'[q] = began[q]
        /\ tries'[q] = tries[q] /\ result'[q] = result[q]
    BY <1>3, <1>t DEF NetworkFails, FailAttempt, ReplyLost, Goto, Finish,
                      Definite, Returned
  <2>2. QED
    BY <2>1, AnswerKept
<1>4. ASSUME NEW r \in Requests, FetchForGet(r)
      PROVE  AnswerOf(q)'
  <2>1. CASE q = r
    <3>1. /\ pc[q] = "fetch" /\ ~IsWrite(op[q])
          /\ BaseTree(q)[op[q].path] = NoFile
          /\ result'[q] = NotFound
      BY <1>4, <1>t, <2>1 DEF FetchForGet, Goto, Finish, Definite, Returned
    <3>2. main' = main /\ base' = base /\ op' = op /\ began' = began
      BY <1>4 DEF FetchForGet
    <3>3. NotFound = Outcome(op[q], BaseTree(q))
      BY <3>1 DEF Outcome, IsWrite
    <3>4. QED
      BY <1>b, <3>1, <3>2, <3>3 DEF AnswerOf, BaseTree, BasePlaces, Writes
  <2>2. CASE q # r
    BY <1>4, <1>t, <2>2, AnswerKept DEF FetchForGet, Goto, Finish, Definite, Returned
  <2>3. QED
    BY <2>1, <2>2
<1>5. ASSUME NEW r \in Requests, ReadBlob(r)
      PROVE  AnswerOf(q)'
  <2>1. CASE q = r
    <3>1. /\ pc[q] = "blob" /\ ~IsWrite(op[q])
          /\ BaseTree(q)[op[q].path] # NoFile
          /\ result'[q] = Ok(BaseTree(q)[op[q].path])
      BY <1>5, <1>t, <2>1 DEF ReadBlob, Finish, BaseOf
    <3>2. main' = main /\ base' = base /\ op' = op /\ began' = began
      BY <1>5 DEF ReadBlob
    <3>3. Ok(BaseTree(q)[op[q].path]) = Outcome(op[q], BaseTree(q))
      BY <3>1 DEF Outcome, IsWrite
    <3>4. QED
      BY <1>b, <3>1, <3>2, <3>3 DEF AnswerOf, BaseTree, BasePlaces, Writes
  <2>2. CASE q # r
    BY <1>5, <1>t, <2>2, AnswerKept DEF ReadBlob, Goto, Finish, Definite, Returned
  <2>3. QED
    BY <2>1, <2>2
<1>6. ASSUME NEW r \in Requests, FetchForUpdate(r)
      PROVE  AnswerOf(q)'
  <2> DEFINE refusal == CheckExistence(op[q], BaseTree(q))
  <2>1. CASE q = r
    <3>1. /\ pc[q] = "fetch" /\ IsWrite(op[q])
          /\ refusal # NoAnswer /\ result'[q] = refusal
      BY <1>6, <1>t, <2>1 DEF FetchForUpdate, Goto, Finish, Definite, Returned
    <3>2. main' = main /\ base' = base /\ op' = op /\ began' = began
      BY <1>6 DEF FetchForUpdate
    <3>3. pc[q] \in BasePlaces
      BY <3>1 DEF BasePlaces
    <3>4. /\ refusal = Outcome(op[q], BaseTree(q))
          /\ refusal.code # "ok"
          /\ ~Writes(op[q], BaseTree(q))
      BY <1>b, <3>1, <3>3, ChecksAgree
    <3>5. QED
      BY <1>b, <3>1, <3>2, <3>3, <3>4 DEF AnswerOf, BaseTree
  <2>2. CASE q # r
    BY <1>6, <1>t, <2>2, AnswerKept DEF FetchForUpdate, Goto, Finish, Definite, Returned
  <2>3. QED
    BY <2>1, <2>2
<1>7. ASSUME NEW k \in packers, PackerLock(k) \/ SendPack(k) \/ PackerExit(k)
      PROVE  AnswerOf(q)'
  <2>1. /\ Definite(q)
        /\ base'[q] = base[q] /\ began'[q] = began[q]
        /\ tries'[q] = tries[q] /\ result'[q] = result[q]
    BY <1>7, <1>t DEF PackerLock, SendPack, PackerExit, Goto, Definite, Returned
  <2>2. QED
    BY <2>1, AnswerKept
<1>8. ASSUME NEW m \in pushes, PushAccepted(m)
      PROVE  AnswerOf(q)'
  <2>1. CASE q = m.req
    <3> DEFINE c == [tree |-> m.tree, by |-> m.req, try |-> m.try]
    <3>1. /\ pc[q] = "await" /\ m.try = tries[q] /\ m.old = Len(main)
          /\ m.old = base[q]
          /\ Writes(op[q], main[m.old].tree)
      BY <1>8, <2>1 DEF PushAccepted, Waits, Applies, IInv, PushInv, PushOf
    <3>2. /\ main' = Append(main, c)
          /\ base' = base /\ op' = op /\ began' = began /\ tries' = tries
          /\ result'[q] = Ok(NoFile)
      BY <1>8, <1>t, <2>1 DEF PushAccepted, Receive, Finish
    <3>3. c \in Commits
      BY <1>t DEF Pushes, Commits
    <3>4. /\ Len(main') = Len(main) + 1
          /\ main'[Len(main) + 1] = c
      BY <1>t, <3>2, <3>3, AppendProperties DEF TypeOK
    <3>5. base[q] >= 1 /\ base[q] >= began[q]
      BY <1>b, <3>1 DEF BasePlaces
    <3>6. /\ IsWrite(op[q])' /\ result'[q].code = "ok"
          /\ (base[q] < Len(main))'
          /\ main'[base'[q] + 1].by = q
          /\ main'[base'[q] + 1].try = tries'[q]
      BY <1>l, <2>1, <3>1, <3>2, <3>4 DEF Writes, Ok
    <3>7. QED
      BY <3>2, <3>5, <3>6 DEF AnswerOf
  <2>2. CASE q # m.req
    BY <1>8, <1>t, <2>2, AnswerKept DEF PushAccepted, Finish, Goto, Definite, Returned
  <2>3. QED
    BY <2>1, <2>2
<1>9. ASSUME NEW m \in pushes, PushRefused(m) \/ PushUnheard(m)
      PROVE  AnswerOf(q)'
  <2>1. /\ Definite(q)
        /\ base'[q] = base[q] /\ began'[q] = began[q]
        /\ tries'[q] = tries[q] /\ result'[q] = result[q]
    BY <1>9, <1>t DEF PushRefused, PushUnheard, Goto, Definite, Returned
  <2>2. QED
    BY <2>1, AnswerKept
<1>10. ASSUME NEW s \in Servers, Tick(s) \/ Clean(s) \/ Crash(s)
       PROVE  AnswerOf(q)'
  <2>1. /\ Definite(q)
        /\ base'[q] = base[q] /\ began'[q] = began[q]
        /\ tries'[q] = tries[q] /\ result'[q] = result[q]
    BY <1>10, <1>t DEF Tick, Clean, Crash, Definite, Returned, Inside, Working
  <2>2. QED
    BY <2>1, AnswerKept
<1>11. QED
  BY <1>1, <1>2, <1>3, <1>4, <1>5, <1>6, <1>7, <1>8, <1>9, <1>10 DEF Next

-----------------------------------------------------------------------------
(* The invariant.                                                            *)
LEMMA InvInit == Init => IInv
<1> SUFFICES ASSUME Init PROVE IInv
  OBVIOUS
<1>1. TypeOK
  BY TypeInit
<1>2. PICK t \in Trees : main = <<[tree |-> t, by |-> NoOne, try |-> 0]>>
  BY DEF Init
<1>3. Len(main) = 1
  BY <1>2
<1>4. LinearHistory
  BY <1>3 DEF LinearHistory
<1>5. BaseInv
  BY <1>3 DEF Init, BaseInv, BaseOf, BasePlaces, CheckedPlaces
<1>6. PushInv /\ PackerInv /\ UnsentInv
  BY DEF Init, PushInv, PackerInv, UnsentInv
<1>7. ResultInv /\ AnswerInv
  BY DEF Init, ResultInv, AnswerInv, Definite, Returned
<1>8. QED
  BY <1>1, <1>4, <1>5, <1>6, <1>7 DEF IInv

(* The invariant of GitProtocol is inductive, so it holds in every state the *)
(* servers can reach, for every number of servers, requests and retries and  *)
(* every choice of faults.                                                   *)
THEOREM Invariance == Spec => []IInv
<1>1. Init => IInv
  BY InvInit
<1>2. IInv /\ [Next]_vars => IInv'
  BY TypeStep, LinearStep, BaseStep, PushStep, PackerInvStep, UnsentStep,
     ResultStep, AnswerStep DEF IInv
<1>3. QED
  BY <1>1, <1>2, PTL DEF Spec

(* Every variable keeps its type.                                            *)
THEOREM TypeCorrect == Spec => []TypeOK
<1>1. IInv => TypeOK
  BY DEF IInv
<1>2. QED
  BY <1>1, Invariance, PTL

(* No update is lost: every commit of main is what its operation makes of    *)
(* the tree below it, and the operation was allowed there.                   *)
THEOREM NoLostUpdate == Spec => []LinearHistory
<1>1. IInv => LinearHistory
  BY DEF IInv
<1>2. QED
  BY <1>1, Invariance, PTL

(* After a definite answer no push of the request can be applied any more:   *)
(* a success has moved main past all of them, and a refusal was read on a    *)
(* tree that none of them was built on.                                      *)
THEOREM DefiniteAnswersAreFinal == Spec => []DefiniteIsFinal
<1>1. IInv => DefiniteIsFinal
  <2> SUFFICES ASSUME IInv, NEW m \in pushes, Definite(m.req), Applies(m)
               PROVE  FALSE
    BY DEF DefiniteIsFinal
  <2>1. PushOf(m) /\ m.req \in Requests
    BY DEF IInv, PushInv, TypeOK, Pushes
  <2>2. AnswerOf(m.req) /\ BaseOf(m.req)
    BY <2>1 DEF IInv, AnswerInv, BaseInv
  <2>3. Len(main) \in Nat /\ base[m.req] \in Nat
    BY <2>1 DEF IInv, TypeOK
  <2>4. m.old = Len(main) /\ m.old <= base[m.req] /\ base[m.req] <= Len(main)
    BY <2>1, <2>2, <2>3 DEF Applies, PushOf, BaseOf
  <2>5. base[m.req] = Len(main)
    BY <2>3, <2>4
  <2>6. Writes(op[m.req], BaseTree(m.req))
    BY <2>1, <2>4, <2>5 DEF PushOf, BaseTree
  <2>7. QED
    BY <2>2, <2>3, <2>5, <2>6 DEF AnswerOf
<1>2. QED
  BY <1>1, Invariance, PTL

(* Each definite answer is right for one commit that was the head of main,   *)
(* or became it, between the call and the answer: answers are linearizable.  *)
THEOREM Linearizability == Spec => []AnswersLinearizable
<1>1. IInv => AnswersLinearizable
  <2> SUFFICES ASSUME IInv, NEW r \in Requests, Definite(r)
               PROVE  IF IsWrite(op[r]) /\ result[r].code = "ok"
                        THEN \E i \in CommitsOf(r) :
                               began[r] < i /\ main[i].try = tries[r]
                        ELSE /\ base[r] >= began[r]
                             /\ result[r] = Outcome(op[r], BaseTree(r))
    BY DEF AnswersLinearizable
  <2>1. AnswerOf(r) /\ base[r] \in Nat /\ began[r] \in Nat /\ Len(main) \in Nat
    BY DEF IInv, AnswerInv, TypeOK
  <2>2. CASE IsWrite(op[r]) /\ result[r].code = "ok"
    <3>1. base[r] + 1 \in CommitsOf(r)
      BY <2>1, <2>2 DEF AnswerOf, CommitsOf
    <3>2. began[r] < base[r] + 1 /\ main[base[r] + 1].try = tries[r]
      BY <2>1, <2>2 DEF AnswerOf
    <3>3. QED
      BY <2>2, <3>1, <3>2
  <2>3. CASE ~(IsWrite(op[r]) /\ result[r].code = "ok")
    BY <2>1, <2>3 DEF AnswerOf
  <2>4. QED
    BY <2>2, <2>3
<1>2. QED
  BY <1>1, Invariance, PTL
=============================================================================
