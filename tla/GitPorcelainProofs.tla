------------------------- MODULE GitPorcelainProofs -------------------------
(***************************************************************************)
(* Proofs about GitPorcelain for every number of clones, requests, paths   *)
(* and bodies, every mix of operations, and every directory structure.     *)
(***************************************************************************)
EXTENDS GitPorcelainInv, SequenceTheorems, TLAPS

(* A step of one request.                                                    *)
Step(r) ==
    \/ Call(r)
    \/ PullUpToDate(r) \/ PullFastForward(r) \/ PullBreaks(r)
    \/ PullRefused(r) \/ PullFails(r)
    \/ Stat(r) \/ ReadFile(r) \/ FileCallFails(r)
    \/ WriteBegins(r) \/ WriteEnds(r) \/ WriteBreaks(r) \/ Remove(r)
    \/ Add(r) \/ CommitIndex(r) \/ NothingToCommit(r) \/ GitFails(r)
    \/ PushSends(r) \/ PushUpToDate(r) \/ PushRejected(r)
    \/ PushLands(r) \/ PushOvertaken(r) \/ PushFails(r) \/ PushUnheard(r)

LEMMA NextIsStep == Next <=> \E r \in Requests : Step(r)
BY DEF Next, Step

-----------------------------------------------------------------------------
(* What a step leaves alone.                                                 *)

(* A step of a request is about itself and its clone.                        *)
LEMMA OthersKept ==
    ASSUME TypeOK, NEW r \in Requests, Step(r)
    PROVE  /\ op' = op
           /\ muddled \subseteq muddled'
           /\ muddled' \subseteq muddled \cup {CloneOf[r]}
           /\ late' \subseteq late \cup {r}
           /\ \A s \in Requests \ {r} :
                /\ pc'[s] = pc[s] /\ result'[s] = result[s]
                /\ sent'[s] = sent[s] /\ began'[s] = began[s]
           /\ \A k \in Clones \ {CloneOf[r]} :
                /\ local'[k] = local[k] /\ index'[k] = index[k] /\ work'[k] = work[k]
<1> USE DEF cloneVars, history, Goto, Finish, Answer, Proceed, Put, TypeOK
<1>1. CASE Call(r)
  BY <1>1 DEF Call
<1>2. CASE PullUpToDate(r) \/ PullRefused(r) \/ PullFails(r)
  BY <1>2 DEF PullUpToDate, PullRefused, PullFails
<1>3. CASE PullFastForward(r) \/ PullBreaks(r)
  BY <1>3 DEF PullFastForward, PullBreaks
<1>4. CASE Stat(r) \/ ReadFile(r) \/ FileCallFails(r)
  BY <1>4 DEF Stat, ReadFile, FileCallFails
<1>5. CASE WriteBegins(r) \/ WriteEnds(r) \/ WriteBreaks(r) \/ Remove(r)
  BY <1>5 DEF WriteBegins, WriteEnds, WriteBreaks, Remove
<1>6. CASE Add(r) \/ CommitIndex(r) \/ NothingToCommit(r) \/ GitFails(r)
  BY <1>6 DEF Add, CommitIndex, NothingToCommit, GitFails
<1>7. CASE PushSends(r) \/ PushUpToDate(r) \/ PushRejected(r)
  BY <1>7 DEF PushSends, PushUpToDate, PushRejected
<1>8. CASE PushLands(r) \/ PushOvertaken(r) \/ PushFails(r) \/ PushUnheard(r)
  BY <1>8 DEF PushLands, PushOvertaken, PushFails, PushUnheard
<1>9. QED
  BY <1>1, <1>2, <1>3, <1>4, <1>5, <1>6, <1>7, <1>8 DEF Step

(* Only a commit adds to the commits, only a push that lands moves main,     *)
(* and only a commit or a pull moves local main.                             *)
LEMMA RepositoryKept ==
    ASSUME TypeOK, NEW r \in Requests, Step(r)
    PROVE  /\ CommitIndex(r) \/ commits' = commits
           /\ PushLands(r) \/ PushUnheard(r) \/ main' = main
           /\ CommitIndex(r) \/ PullFastForward(r) \/ local' = local
<1> USE DEF cloneVars, history, Goto, Finish, Answer, Proceed, Put, TypeOK
<1>1. CASE Call(r)
  BY <1>1 DEF Call
<1>2. CASE PullUpToDate(r) \/ PullRefused(r) \/ PullFails(r)
  BY <1>2 DEF PullUpToDate, PullRefused, PullFails
<1>3. CASE PullFastForward(r) \/ PullBreaks(r)
  BY <1>3 DEF PullFastForward, PullBreaks
<1>4. CASE Stat(r) \/ ReadFile(r) \/ FileCallFails(r)
  BY <1>4 DEF Stat, ReadFile, FileCallFails
<1>5. CASE WriteBegins(r) \/ WriteEnds(r) \/ WriteBreaks(r) \/ Remove(r)
  BY <1>5 DEF WriteBegins, WriteEnds, WriteBreaks, Remove
<1>6. CASE Add(r) \/ CommitIndex(r) \/ NothingToCommit(r) \/ GitFails(r)
  BY <1>6 DEF Add, CommitIndex, NothingToCommit, GitFails
<1>7. CASE PushSends(r) \/ PushUpToDate(r) \/ PushRejected(r)
  BY <1>7 DEF PushSends, PushUpToDate, PushRejected
<1>8. CASE PushLands(r) \/ PushOvertaken(r) \/ PushFails(r) \/ PushUnheard(r)
  BY <1>8 DEF PushLands, PushOvertaken, PushFails, PushUnheard
<1>9. QED
  BY <1>1, <1>2, <1>3, <1>4, <1>5, <1>6, <1>7, <1>8 DEF Step

(* A new commit.                                                             *)
LEMMA CommitAppends ==
    ASSUME TypeOK, NEW r \in Requests, CommitIndex(r)
    PROVE  /\ commits' \in Seq(Commit)
           /\ \A d \in DOMAIN commits : commits'[d] = commits[d]
           /\ \E c \in Nat :
                /\ c = Len(commits) + 1
                /\ DOMAIN commits' = DOMAIN commits \cup {c}
                /\ c \notin DOMAIN commits
                /\ commits'[c].past = History(local[CloneOf[r]])
                /\ commits'[c].tree = index[CloneOf[r]]
                /\ commits'[c].by = r
                /\ local'[CloneOf[r]] = c
<1> DEFINE k == CloneOf[r]
           new == [past |-> History(local[k]), tree |-> index[k], by |-> r]
<1>1. k \in Clones
  BY PorcelainAssumption
<1>2. local[k] \in DOMAIN commits /\ DOMAIN commits = 1..Len(commits)
  BY <1>1 DEF TypeOK
<1>3. commits[local[k]] \in Commit /\ local[k] \in Nat /\ Len(commits) \in Nat
  BY <1>2 DEF TypeOK
<1>4. new \in Commit
  BY <1>1, <1>3 DEF History, Commit, TypeOK
<1>5. commits' = Append(commits, new) /\ local'[k] = Len(commits) + 1
  BY <1>1 DEF CommitIndex, TypeOK
<1>6. commits \in Seq(Commit)
  BY DEF TypeOK
<1>7. /\ commits' \in Seq(Commit)
      /\ Len(commits') = Len(commits) + 1
      /\ commits'[Len(commits) + 1] = new
      /\ \A i \in 1..Len(commits) : commits'[i] = commits[i]
  BY <1>4, <1>5, <1>6, AppendProperties
<1>8. DOMAIN commits' = 1..(Len(commits) + 1)
  BY <1>7
<1>9. QED
  BY <1>2, <1>3, <1>5, <1>7, <1>8

(* Commits stay as they are.                                                 *)
LEMMA CommitsKept ==
    ASSUME TypeOK, [Next]_vars
    PROVE  /\ commits' \in Seq(Commit)
           /\ DOMAIN commits \subseteq DOMAIN commits'
           /\ \A c \in DOMAIN commits :
                commits'[c] = commits[c] /\ History(c)' = History(c)
<1>1. CASE commits' = commits
  BY <1>1 DEF TypeOK, History
<1>2. ASSUME NEW r \in Requests, CommitIndex(r)
      PROVE  /\ commits' \in Seq(Commit)
             /\ DOMAIN commits \subseteq DOMAIN commits'
             /\ \A c \in DOMAIN commits :
                  commits'[c] = commits[c] /\ History(c)' = History(c)
  BY <1>2, CommitAppends DEF History
<1>3. QED
  BY <1>1, <1>2, NextIsStep, RepositoryKept DEF vars

-----------------------------------------------------------------------------
(* Type correctness.                                                         *)
LEMMA TypeInit == Init => TypeOK
<1> SUFFICES ASSUME Init PROVE TypeOK
  OBVIOUS
<1>1. PICK tree \in Trees : commits = <<[past |-> {}, tree |-> tree, by |-> NoFile]>>
  BY DEF Init
<1>2. [past |-> {}, tree |-> tree, by |-> NoFile] \in Commit
  BY DEF Commit
<1>3. commits \in Seq(Commit) /\ DOMAIN commits = {1} /\ commits[1].tree = tree
  BY <1>1, <1>2
<1>4. QED
  BY <1>3 DEF Init, TypeOK, NoPush

LEMMA AnswersTyped ==
    /\ Error \in Answers
    /\ \A content \in Bodies \cup {NoFile} : Ok(content) \in Answers
    /\ \A o \in Operations, tree \in Trees :
         Refusal(o, tree) \in {NoAnswer, Conflict, NotFound}
    /\ Conflict \in Answers /\ NotFound \in Answers
BY DEF Error, Ok, NotFound, Conflict, Answers, Refusal, NoAnswer

LEMMA UpdatedTyped ==
    ASSUME TypeOK, NEW k \in Clones
    PROVE  Updated(k, index[k]) \in Trees /\ Updated(k, work[k]) \in Trees
<1>1. main \in DOMAIN commits /\ index[k] \in Trees /\ work[k] \in Trees
  BY DEF TypeOK
<1>2. commits[main] \in Commit
  BY <1>1 DEF TypeOK
<1>3. QED
  BY <1>1, <1>2 DEF Updated, Commit, Trees

(* What a fast-forward that breaks off does to the files and the index of    *)
(* its clone: only paths that nobody has changed are touched.                *)
LEMMA BrokenPull ==
    ASSUME TypeOK, NEW r \in Requests, PullBreaks(r)
    PROVE  LET k == CloneOf[r]
           IN  /\ index' \in [Clones -> Trees] /\ work' \in [Clones -> Trees]
               /\ \A x \in Paths :
                    \/ work'[k][x] = work[k][x] /\ index'[k][x] = index[k][x]
                    \/ /\ index[k][x] = commits[local[k]].tree[x]
                       /\ work[k][x] \in {commits[local[k]].tree[x], NoFile}
<1> DEFINE k == CloneOf[r]
<1>1. k \in Clones
  BY PorcelainAssumption
<1>2. \A x \in Moved(k) : /\ index[k][x] = commits[local[k]].tree[x]
                          /\ work[k][x] \in {commits[local[k]].tree[x], NoFile}
  BY DEF PullBreaks, Moved, Mergeable
<1>3. CASE /\ work' = [work EXCEPT ![k] = Updated(k, work[k])]
           /\ index' = [index EXCEPT ![k] = Updated(k, index[k])]
  <2>1. index' \in [Clones -> Trees] /\ work' \in [Clones -> Trees]
    BY <1>1, <1>3, UpdatedTyped DEF TypeOK
  <2>2. \A x \in Paths \ Moved(k) :
           work'[k][x] = work[k][x] /\ index'[k][x] = index[k][x]
    BY <1>1, <1>3 DEF Updated, TypeOK
  <2>3. QED
    BY <1>2, <2>1, <2>2
<1>4. ASSUME NEW left \in [Moved(k) -> Bodies \cup {NoFile}], index' = index,
             work' = [work EXCEPT ![k] =
                [x \in Paths |-> IF x \in Moved(k) THEN left[x] ELSE work[k][x]]]
      PROVE  /\ index' \in [Clones -> Trees] /\ work' \in [Clones -> Trees]
             /\ \A x \in Paths \ Moved(k) :
                  work'[k][x] = work[k][x] /\ index'[k][x] = index[k][x]
  BY <1>1, <1>4 DEF TypeOK, Trees
<1>5. QED
  BY <1>2, <1>3, <1>4 DEF PullBreaks

LEMMA TypeStep ==
    ASSUME TypeOK, [Next]_vars
    PROVE  TypeOK'
<1> USE DEF cloneVars, history, Goto, Finish, Answer, Proceed, Put
<1>1. CASE UNCHANGED vars
  BY <1>1 DEF vars, TypeOK
<1>2. ASSUME NEW r \in Requests, Step(r)
      PROVE  TypeOK'
  <2> DEFINE k == CloneOf[r]
  <2>k. k \in Clones /\ Torn \in Bodies
    BY PorcelainAssumption
  <2>o. op[r] \in Operations /\ op[r].path \in Paths /\ op[r].body \in Bodies \cup {NoFile}
    BY DEF TypeOK, Operations
  <2>t. /\ \A c \in DOMAIN commits : commits[c] \in Commit /\ commits[c].tree \in Trees
        /\ index[k] \in Trees /\ work[k] \in Trees
        /\ work[k][op[r].path] \in Bodies \cup {NoFile}
    <3>1. /\ commits \in Seq(Commit)
          /\ index \in [Clones -> Trees] /\ work \in [Clones -> Trees]
      BY DEF TypeOK
    <3>2. \A c \in DOMAIN commits : commits[c] \in Commit
      BY <3>1
    <3>3. index[k] \in Trees /\ work[k] \in Trees
      BY <2>k, <3>1
    <3>4. QED
      BY <2>o, <3>2, <3>3 DEF Commit, Trees
  <2>a. ASSUME NEW a \in Answers, Answer(r, a)
        PROVE  TypeOK'
    BY <2>a DEF TypeOK
  <2>1. CASE Call(r)
    <3>1. /\ pc' = [pc EXCEPT ![r] = "pull"]
          /\ began' = [began EXCEPT ![r] = main]
          /\ UNCHANGED <<commits, main, cloneVars, op, result, sent>>
      BY <2>1 DEF Call
    <3>2. late' \subseteq Requests /\ muddled' \subseteq Clones /\ clashed' \subseteq Requests
      <4> DEFINE here == {s \in Open : CloneOf[s] = CloneOf[r]}
                 same == {s \in here : op[s].path = op[r].path}
      <4>1. same \subseteq Requests
        BY DEF Open
      <4>2. /\ late' = late \/ late' = late \cup {r}
            /\ muddled' = muddled \/ muddled' = muddled \cup {k}
            /\ clashed' = clashed \/ clashed' = clashed \cup same \cup {r}
        BY <2>1 DEF Call
      <4>3. QED
        BY <2>k, <4>1, <4>2 DEF TypeOK
    <3>3. QED
      BY <3>1, <3>2 DEF TypeOK
  <2>2. CASE PullUpToDate(r)
    BY <2>2 DEF PullUpToDate, TypeOK
  <2>3. CASE PullFastForward(r)
    <3>1. /\ index' = [index EXCEPT ![k] = Updated(k, index[k])]
          /\ work' = [work EXCEPT ![k] = Updated(k, work[k])]
          /\ local' = [local EXCEPT ![k] = main]
          /\ pc' = [pc EXCEPT ![r] = "stat"]
          /\ UNCHANGED <<commits, main, op, result, sent, history>>
      BY <2>3, <2>k DEF PullFastForward, TypeOK
    <3>2. QED
      BY <3>1, <2>k, UpdatedTyped DEF TypeOK
  <2>4. CASE PullRefused(r) \/ PullFails(r) \/ FileCallFails(r) \/ NothingToCommit(r)
             \/ PushRejected(r) \/ PushFails(r)
    <3>1. Answer(r, Error)
      BY <2>4 DEF PullRefused, PullFails, FileCallFails, NothingToCommit,
                  PushRejected, PushFails
    <3>2. QED
      BY <2>a, <3>1, AnswersTyped
  <2>5. CASE Stat(r)
    <3> DEFINE refusal == Refusal(op[r], work[k])
    <3>1. CASE refusal # NoAnswer
      <4>1. Answer(r, refusal)
        BY <2>5, <3>1 DEF Stat
      <4>2. QED
        BY <2>a, <2>o, <2>t, <3>1, <4>1, AnswersTyped
    <3>2. CASE refusal = NoAnswer
      BY <2>5, <3>2 DEF Stat, TypeOK
    <3>3. QED
      BY <3>1, <3>2
  <2>6. CASE ReadFile(r)
    <3>1. \E a \in Answers : Answer(r, a)
      BY <2>6, <2>t, AnswersTyped DEF ReadFile
    <3>2. QED
      BY <2>a, <3>1
  <2>7. CASE WriteBegins(r) \/ WriteEnds(r) \/ Remove(r)
    <3>1. PICK content \in Bodies \cup {NoFile} :
            work' = [work EXCEPT ![k][op[r].path] = content] \/ work' = work
      BY <2>7, <2>o, <2>k DEF WriteBegins, WriteEnds, Remove
    <3>2. [work[k] EXCEPT ![op[r].path] = content] \in Trees
      BY <2>t, <2>o DEF Trees
    <3>3. work' \in [Clones -> Trees]
      BY <2>k, <3>1, <3>2 DEF TypeOK
    <3>4. QED
      BY <2>7, <3>3, AnswersTyped DEF WriteBegins, WriteEnds, Remove, TypeOK
  <2>8. CASE WriteBreaks(r) \/ PullBreaks(r) \/ GitFails(r)
    <3>1. /\ pc' = [pc EXCEPT ![r] = "done"] /\ result' = [result EXCEPT ![r] = Error]
          /\ muddled' = muddled \cup {k}
          /\ UNCHANGED <<commits, main, local, op, sent, began, late, clashed>>
      BY <2>8 DEF WriteBreaks, PullBreaks, GitFails
    <3>2. index' \in [Clones -> Trees] /\ work' \in [Clones -> Trees]
      BY <2>8, BrokenPull DEF WriteBreaks, GitFails, TypeOK
    <3>3. QED
      BY <2>k, <3>1, <3>2, AnswersTyped DEF TypeOK
  <2>9. CASE Add(r)
    BY <2>9, <2>k, <2>t DEF Add, TypeOK
  <2>10. CASE CommitIndex(r)
    <3>1. /\ commits' \in Seq(Commit)
          /\ DOMAIN commits \subseteq DOMAIN commits'
          /\ Len(commits) + 1 \in DOMAIN commits'
      BY <2>10, CommitAppends
    <3>2. /\ local' = [local EXCEPT ![k] = Len(commits) + 1]
          /\ pc' = [pc EXCEPT ![r] = "push"]
          /\ UNCHANGED <<main, index, work, op, result, sent, history>>
      BY <2>10 DEF CommitIndex
    <3>3. local' \in [Clones -> DOMAIN commits']
      BY <2>k, <3>1, <3>2 DEF TypeOK
    <3>4. sent' \in [Requests -> [old : DOMAIN commits', new : DOMAIN commits'] \cup {NoPush}]
      BY <3>1, <3>2 DEF TypeOK
    <3>5. QED
      BY <3>1, <3>2, <3>3, <3>4 DEF TypeOK
  <2>11. CASE PushSends(r)
    BY <2>11, <2>k DEF PushSends, TypeOK
  <2>12. CASE PushUpToDate(r)
    BY <2>12, <2>a, AnswersTyped DEF PushUpToDate
  <2>13. CASE PushLands(r) \/ PushOvertaken(r) \/ PushUnheard(r)
    <3>1. sent[r] \in [old : DOMAIN commits, new : DOMAIN commits] \cup {NoPush}
      BY DEF TypeOK
    <3>2. main' \in DOMAIN commits
      BY <2>13, <3>1 DEF PushLands, PushOvertaken, PushUnheard, Lands, TypeOK
    <3>3. CASE PushLands(r)
      BY <3>2, <3>3, AnswersTyped DEF PushLands, TypeOK
    <3>4. CASE PushOvertaken(r)
      BY <3>2, <3>4, AnswersTyped DEF PushOvertaken, TypeOK
    <3>5. CASE PushUnheard(r)
      BY <3>2, <3>5 DEF PushUnheard, TypeOK
    <3>6. QED
      BY <2>13, <3>3, <3>4, <3>5
  <2>14. QED
    BY <1>2, <2>1, <2>2, <2>3, <2>4, <2>5, <2>6, <2>7, <2>8, <2>9, <2>10,
       <2>11, <2>12, <2>13 DEF Step
<1>3. QED
  BY <1>1, <1>2, NextIsStep

-----------------------------------------------------------------------------
(* Commits form lines.                                                       *)

(* What is below a commit of the line is older, and has its own history in   *)
(* the commit's; two commits of the line are one above the other.            *)
LEMMA LineBelow ==
    ASSUME TypeOK, LineInv, NEW c \in DOMAIN commits
    PROVE  /\ c \in Nat /\ c \notin commits[c].past
           /\ \A d \in History(c) :
                /\ d \in DOMAIN commits
                /\ d # c => d < c
                /\ History(d) \subseteq History(c)
           /\ \A d, e \in History(c) : d \in History(e) \/ e \in History(d)
<1>1. /\ DOMAIN commits = 1..Len(commits) /\ Len(commits) \in Nat
      /\ c \in 1..Len(commits)
  BY DEF TypeOK
<1>2. LineOf(c)
  BY DEF LineInv
<1>3. \A d \in commits[c].past : d \in 1..Len(commits) /\ d < c
  BY <1>1, <1>2 DEF LineOf
<1>4. c \notin commits[c].past
  BY <1>1, <1>3
<1>5. \A d \in History(c) : History(d) \subseteq History(c)
  BY <1>2 DEF LineOf, History
<1>6. \A d, e \in History(c) : d \in History(e) \/ e \in History(d)
  BY <1>2 DEF LineOf, History
<1>7. QED
  BY <1>1, <1>3, <1>4, <1>5, <1>6 DEF History

(* A commit of the line with the same history is the same commit.            *)
LEMMA SameHistory ==
    ASSUME TypeOK, LineInv, NEW c \in DOMAIN commits, NEW d \in DOMAIN commits,
           History(c) = History(d)
    PROVE  c = d
<1>1. c \in History(d) /\ d \in History(c)
  BY DEF History
<1>2. c \in Nat /\ d \in Nat
  BY LineBelow
<1>3. (c # d => c < d) /\ (d # c => d < c)
  BY <1>1, LineBelow
<1>4. QED
  BY <1>2, <1>3

LEMMA LineStep ==
    ASSUME TypeOK, LineInv, [Next]_vars
    PROVE  LineInv'
<1>1. CASE commits' = commits
  BY <1>1 DEF LineInv, LineOf, History
<1>2. ASSUME NEW r \in Requests, CommitIndex(r)
      PROVE  LineInv'
  <2> DEFINE k == CloneOf[r]
  <2>1. k \in Clones /\ local[k] \in DOMAIN commits
    BY PorcelainAssumption DEF TypeOK
  <2>2. PICK c \in Nat :
           /\ c = Len(commits) + 1
           /\ DOMAIN commits' = DOMAIN commits \cup {c} /\ c \notin DOMAIN commits
           /\ \A d \in DOMAIN commits : commits'[d] = commits[d]
           /\ commits'[c].past = History(local[k])
    BY <1>2, CommitAppends
  <2>3. DOMAIN commits = 1..Len(commits) /\ Len(commits) \in Nat
    BY DEF TypeOK
  <2>4. ASSUME NEW d \in DOMAIN commits
        PROVE  LineOf(d)'
    <3>1. LineOf(d) /\ \A e \in commits[d].past : e \in DOMAIN commits
      BY LineBelow DEF LineInv, History
    <3>2. QED
      BY <2>2, <3>1 DEF LineOf, History
  <2>5. LineOf(c)'
    <3>1. /\ \A d \in History(local[k]) :
                d \in DOMAIN commits /\ History(d) \subseteq History(local[k])
          /\ \A d, e \in History(local[k]) : d \in History(e) \/ e \in History(d)
      BY <2>1, LineBelow
    <3>2. History(local[k]) \subseteq 1..(c - 1)
      BY <2>2, <2>3, <3>1
    <3>3. QED
      BY <2>2, <3>1, <3>2 DEF LineOf, History
  <2>6. QED
    BY <2>2, <2>4, <2>5 DEF LineInv
<1>3. QED
  BY <1>1, <1>2, NextIsStep, RepositoryKept DEF vars

(* Main and local main only grow.                                            *)
LEMMA MainKept ==
    ASSUME TypeOK, LineInv, PushInv, [Next]_vars
    PROVE  /\ main' = main \/ main \in commits'[main'].past
           /\ History(main) \subseteq History(main)'
           /\ main' \in DOMAIN commits
<1>1. main \in DOMAIN commits
  BY DEF TypeOK
<1>2. CASE main' = main
  BY <1>1, <1>2, CommitsKept
<1>3. ASSUME NEW r \in Requests, PushLands(r) \/ PushUnheard(r)
      PROVE  /\ main' = main \/ main \in commits'[main'].past
             /\ History(main) \subseteq History(main)'
             /\ main' \in DOMAIN commits
  <2>1. sent[r].old = main /\ main' = sent[r].new /\ sent[r] # NoPush /\ commits' = commits
    BY <1>3 DEF PushLands, PushUnheard, Lands
  <2>2. main' \in DOMAIN commits /\ main \in commits[main'].past
    BY <2>1 DEF TypeOK, PushInv, PushOf
  <2>3. History(main) \subseteq History(main')
    BY <2>2, LineBelow DEF History
  <2>4. QED
    BY <2>1, <2>2, <2>3 DEF History
<1>4. QED
  BY <1>1, <1>2, <1>3, NextIsStep, RepositoryKept DEF vars

LEMMA LocalKept ==
    ASSUME TypeOK, LineInv, [Next]_vars, NEW k \in Clones
    PROVE  History(local[k]) \subseteq History(local[k])'
<1>1. local[k] \in DOMAIN commits /\ main \in DOMAIN commits
  BY DEF TypeOK
<1>2. CASE local'[k] = local[k]
  BY <1>1, <1>2, CommitsKept
<1>3. ASSUME NEW r \in Requests, CloneOf[r] = k, CommitIndex(r)
      PROVE  History(local[k]) \subseteq History(local[k])'
  <2>1. k \in Clones /\ commits'[local'[k]].past = History(local[k])
    BY <1>3, CommitAppends
  <2>2. QED
    BY <2>1 DEF History
<1>4. ASSUME NEW r \in Requests, CloneOf[r] = k, PullFastForward(r)
      PROVE  History(local[k]) \subseteq History(local[k])'
  <2>1. local'[k] = main /\ local[k] \in History(main) /\ commits' = commits
    BY <1>4 DEF PullFastForward, Behind, TypeOK
  <2>2. QED
    BY <1>1, <2>1, LineBelow DEF History
<1>5. QED
  BY <1>2, <1>3, <1>4, NextIsStep, RepositoryKept, OthersKept DEF vars, cloneVars

-----------------------------------------------------------------------------
(* What a success is worth.                                                  *)

LEMMA VerbStep ==
    ASSUME TypeOK, VerbInv, [Next]_vars
    PROVE  VerbInv'
<1> USE DEF Goto, Finish, Answer, Proceed, VerbOf
<1>1. CASE UNCHANGED vars
  BY <1>1 DEF vars, VerbInv
<1>2. ASSUME NEW r \in Requests, Step(r)
      PROVE  VerbOf(r)'
  <2>0. VerbOf(r) /\ op' = op /\ op[r] \in Operations
    BY <1>2, OthersKept DEF VerbInv, TypeOK
  <2>v. op[r].verb \in {"GET", "POST", "PUT", "DELETE"}
    BY <2>0 DEF Operations
  <2>1. CASE pc'[r] \in {"idle", "pull", "stat", "done"}
    BY <2>1
  <2>2. CASE pc'[r] = pc[r]
    BY <2>0, <2>2 DEF IsWrite
  <2>3. CASE Stat(r)
    <3>1. CASE Refusal(op[r], work[CloneOf[r]]) # NoAnswer
      BY <2>1, <2>3, <3>1 DEF Stat, TypeOK
    <3>2. CASE Refusal(op[r], work[CloneOf[r]]) = NoAnswer
      <4>1. pc' = [pc EXCEPT ![r] = CASE op[r].verb = "GET" -> "read"
                                      [] op[r].verb = "DELETE" -> "remove"
                                      [] OTHER -> "write"]
        BY <2>3, <3>2 DEF Stat
      <4>2. CASE op[r].verb = "GET"
        BY <2>0, <4>1, <4>2 DEF TypeOK
      <4>3. CASE op[r].verb = "DELETE"
        BY <2>0, <4>1, <4>3 DEF TypeOK
      <4>4. CASE op[r].verb \in {"POST", "PUT"}
        BY <2>0, <4>1, <4>4 DEF TypeOK
      <4>5. QED
        BY <2>v, <4>2, <4>3, <4>4
    <3>3. QED
      BY <3>1, <3>2
  <2>4. CASE WriteBegins(r) \/ WriteEnds(r) \/ Remove(r)
    BY <2>0, <2>4 DEF WriteBegins, WriteEnds, Remove, IsWrite, TypeOK
  <2>5. CASE Add(r) \/ CommitIndex(r) \/ PushSends(r)
    BY <2>0, <2>5 DEF Add, CommitIndex, PushSends, IsWrite, TypeOK
  <2>6. CASE Call(r) \/ PullUpToDate(r) \/ PullFastForward(r) \/ PullRefused(r) \/ PullFails(r)
    BY <2>1, <2>6 DEF Call, PullUpToDate, PullFastForward, PullRefused, PullFails, TypeOK
  <2>7. CASE ReadFile(r) \/ FileCallFails(r) \/ WriteBreaks(r) \/ NothingToCommit(r)
             \/ GitFails(r) \/ PullBreaks(r)
    BY <2>1, <2>7 DEF ReadFile, FileCallFails, WriteBreaks, NothingToCommit,
                      GitFails, PullBreaks, TypeOK
  <2>8. CASE PushUpToDate(r) \/ PushRejected(r) \/ PushLands(r) \/ PushOvertaken(r)
             \/ PushFails(r) \/ PushUnheard(r)
    BY <2>1, <2>2, <2>8 DEF PushUpToDate, PushRejected, PushLands, PushOvertaken,
                            PushFails, PushUnheard, TypeOK
  <2>9. QED
    BY <1>2, <2>3, <2>4, <2>5, <2>6, <2>7, <2>8 DEF Step
<1>3. QED
  BY <1>1, <1>2, NextIsStep, OthersKept DEF VerbInv, IsWrite

LEMMA MadeKept ==
    ASSUME TypeOK, LineInv, [Next]_vars, NEW r \in Requests,
           NEW c \in DOMAIN commits, NEW d \in Nat,
           History(c) \subseteq History(d)', Made(r, c)
    PROVE  Made(r, d)'
<1>1. PICK e \in History(c) : commits[e].by = r
  BY DEF Made
<1>2. commits'[e].by = r /\ e \in History(d)'
  BY <1>1, LineBelow, CommitsKept
<1>3. QED
  BY <1>2 DEF Made

LEMMA PushStep ==
    ASSUME TypeOK, LineInv, PushInv, [Next]_vars
    PROVE  PushInv'
<1> USE DEF cloneVars, history, Goto, Finish, Answer, Proceed
<1>d. DOMAIN commits \subseteq Nat
  BY DEF TypeOK
<1>1. ASSUME NEW r \in Requests
      PROVE  /\ local[CloneOf[r]] \in DOMAIN commits
             /\ History(local[CloneOf[r]]) \subseteq History(local[CloneOf[r]])'
             /\ local'[CloneOf[r]] \in Nat
             /\ sent[r] # NoPush => sent[r].new \in DOMAIN commits
             /\ sent[r] # NoPush /\ sent'[r] = sent[r] =>
                  sent'[r].old \in commits'[sent'[r].new].past
  <2>1. CloneOf[r] \in Clones /\ TypeOK'
    BY PorcelainAssumption, TypeStep
  <2>2. local[CloneOf[r]] \in DOMAIN commits /\ local'[CloneOf[r]] \in DOMAIN commits'
    BY <2>1 DEF TypeOK
  <2>3. DOMAIN commits' \subseteq Nat
    BY <2>1 DEF TypeOK
  <2>4. sent[r] # NoPush => sent[r].new \in DOMAIN commits
    BY DEF TypeOK
  <2>5. QED
    BY <2>1, <2>2, <2>3, <2>4, LocalKept, CommitsKept DEF PushInv, PushOf
<1>2. ASSUME NEW r \in Requests, pc'[r] = pc[r], sent'[r] = sent[r]
      PROVE  PushOf(r)'
  <2>1. PushOf(r)
    BY DEF PushInv
  <2>2. pc[r] = "push" => Made(r, local[CloneOf[r]])'
    BY <1>1, <2>1, MadeKept DEF PushOf
  <2>3. pc[r] = "sent" => Made(r, sent[r].new)'
    <3>1. CASE pc[r] = "sent"
      <4>1. sent[r] # NoPush /\ Made(r, sent[r].new) /\ sent[r].new \in DOMAIN commits
        BY <1>1, <2>1, <3>1 DEF PushOf
      <4>2. History(sent[r].new) \subseteq History(sent[r].new)'
        BY <1>2, <4>1, CommitsKept DEF History
      <4>3. QED
        BY <1>d, <1>2, <4>1, <4>2, MadeKept
    <3>2. QED
      BY <3>1
  <2>4. QED
    BY <1>1, <1>2, <2>1, <2>2, <2>3 DEF PushOf
<1>3. ASSUME NEW r \in Requests, Step(r)
      PROVE  PushOf(r)'
  <2>0. PushOf(r)
    BY DEF PushInv
  <2>1. CASE pc'[r] \notin {"push", "sent"} /\ sent'[r] \in {sent[r], NoPush}
    BY <1>1, <2>1 DEF PushOf
  <2>2. CASE CommitIndex(r)
    <3>1. pc'[r] = "push" /\ sent'[r] = sent[r]
      BY <2>2 DEF CommitIndex, TypeOK
    <3>2. commits'[local'[CloneOf[r]]].by = r
      BY <2>2, CommitAppends
    <3>3. Made(r, local[CloneOf[r]])'
      BY <3>2 DEF Made, History
    <3>4. QED
      BY <1>1, <3>1, <3>3 DEF PushOf
  <2>3. CASE PushSends(r)
    <3> DEFINE head == local[CloneOf[r]]
    <3>1. /\ pc[r] = "push" /\ main # head /\ main \in History(head)
          /\ pc'[r] = "sent" /\ sent'[r] = [old |-> main, new |-> head]
          /\ commits' = commits /\ local' = local
      BY <2>3 DEF PushSends, TypeOK
    <3>2. main \in commits[head].past /\ Made(r, head)
      BY <2>0, <3>1 DEF History, PushOf
    <3>3. Made(r, sent[r].new)'
      BY <3>1, <3>2 DEF Made, History
    <3>4. head # 0
      BY <1>1 DEF TypeOK
    <3>5. QED
      BY <3>1, <3>2, <3>3, <3>4 DEF PushOf, NoPush
  <2>4. CASE Call(r) \/ PullUpToDate(r) \/ PullFastForward(r) \/ PullRefused(r) \/ PullFails(r)
    BY <2>1, <2>4 DEF Call, PullUpToDate, PullFastForward, PullRefused, PullFails, TypeOK
  <2>5. CASE Stat(r)
    <3>1. sent' = sent /\ pc'[r] \in {"done", "read", "remove", "write"}
      <4>1. CASE Refusal(op[r], work[CloneOf[r]]) # NoAnswer
        BY <2>5, <4>1 DEF Stat, TypeOK
      <4>2. CASE Refusal(op[r], work[CloneOf[r]]) = NoAnswer
        BY <2>5, <4>2 DEF Stat, TypeOK
      <4>3. QED
        BY <4>1, <4>2
    <3>2. QED
      BY <2>1, <3>1
  <2>6. CASE ReadFile(r) \/ FileCallFails(r) \/ WriteBegins(r) \/ WriteEnds(r)
             \/ WriteBreaks(r) \/ Remove(r)
    BY <2>1, <2>6 DEF ReadFile, FileCallFails, WriteBegins, WriteEnds, WriteBreaks,
                      Remove, Put, TypeOK
  <2>7. CASE Add(r) \/ NothingToCommit(r) \/ GitFails(r) \/ PullBreaks(r)
    BY <2>1, <2>7 DEF Add, NothingToCommit, GitFails, PullBreaks, TypeOK
  <2>8. CASE PushUpToDate(r) \/ PushRejected(r) \/ PushFails(r)
    BY <2>1, <2>8 DEF PushUpToDate, PushRejected, PushFails, TypeOK
  <2>9. CASE PushLands(r) \/ PushOvertaken(r) \/ PushUnheard(r)
    BY <2>1, <2>9 DEF PushLands, PushOvertaken, PushUnheard, TypeOK
  <2>10. QED
    BY <1>3, <2>2, <2>3, <2>4, <2>5, <2>6, <2>7, <2>8, <2>9 DEF Step
<1>4. CASE UNCHANGED vars
  BY <1>2, <1>4 DEF vars, PushInv
<1>5. ASSUME NEW r \in Requests, Step(r)
      PROVE  PushInv'
  BY <1>2, <1>3, <1>5, OthersKept DEF PushInv
<1>6. QED
  BY <1>4, <1>5, NextIsStep

(* A success of a write has a commit of its own below main.                  *)
Published(r) ==
    pc[r] = "done" /\ IsWrite(op[r]) /\ result[r].code = "ok" => Made(r, main)

LEMMA SuccessStep ==
    ASSUME TypeOK, LineInv, PushInv, VerbInv, SuccessIsPublished, [Next]_vars
    PROVE  SuccessIsPublished'
<1> USE DEF cloneVars, history, Goto, Finish, Answer, Proceed
<1>p. \A r \in Requests : Published(r)
  BY DEF SuccessIsPublished, Published, Made
<1>m. main \in DOMAIN commits /\ main' \in Nat /\ History(main) \subseteq History(main)'
  BY MainKept DEF TypeOK
<1>1. ASSUME NEW r \in Requests, pc'[r] = pc[r], result'[r] = result[r], op' = op
      PROVE  Published(r)'
  BY <1>p, <1>m, <1>1, MadeKept DEF Published, IsWrite
<1>2. ASSUME NEW r \in Requests, Step(r)
      PROVE  Published(r)'
  <2>0. op' = op
    BY <1>2, OthersKept
  <2>1. CASE pc'[r] # "done"
    BY <2>1 DEF Published
  <2>2. CASE result'[r] = Error
    BY <2>2 DEF Published, Error
  <2>3. CASE Stat(r)
    <3> DEFINE refusal == Refusal(op[r], work[CloneOf[r]])
    <3>1. CASE refusal # NoAnswer
      <4>1. result'[r] = refusal
        BY <2>3, <3>1 DEF Stat, TypeOK
      <4>2. refusal \in {Conflict, NotFound}
        BY <3>1 DEF Refusal
      <4>3. QED
        BY <4>1, <4>2 DEF Published, Conflict, NotFound
    <3>2. CASE refusal = NoAnswer
      BY <2>1, <2>3, <3>2 DEF Stat, TypeOK
    <3>3. QED
      BY <3>1, <3>2
  <2>4. CASE ReadFile(r)
    <3>1. op[r].verb = "GET"
      BY <2>4 DEF ReadFile, VerbInv, VerbOf
    <3>2. QED
      BY <2>0, <3>1 DEF Published, IsWrite
  <2>5. CASE PushUpToDate(r)
    <3>1. Made(r, main) /\ commits' = commits /\ main' = main
      BY <2>5 DEF PushUpToDate, PushInv, PushOf
    <3>2. QED
      BY <3>1 DEF Published, Made, History
  <2>6. CASE PushLands(r)
    <3>1. Made(r, sent[r].new) /\ commits' = commits /\ main' = sent[r].new
      BY <2>6 DEF PushLands, PushInv, PushOf
    <3>2. QED
      BY <3>1 DEF Published, Made, History
  <2>7. CASE PushUnheard(r)
    BY <1>1, <2>0, <2>7 DEF PushUnheard
  <2>8. CASE PullRefused(r) \/ PullFails(r) \/ FileCallFails(r) \/ WriteBreaks(r)
             \/ NothingToCommit(r) \/ GitFails(r) \/ PullBreaks(r) \/ PushRejected(r)
             \/ PushOvertaken(r) \/ PushFails(r)
    BY <2>2, <2>8 DEF PullRefused, PullFails, FileCallFails, WriteBreaks, NothingToCommit,
                      GitFails, PullBreaks, PushRejected, PushOvertaken, PushFails, TypeOK
  <2>9. CASE Call(r) \/ PullUpToDate(r) \/ PullFastForward(r)
             \/ WriteBegins(r) \/ WriteEnds(r)
    BY <2>1, <2>9 DEF Call, PullUpToDate, PullFastForward, WriteBegins, WriteEnds, TypeOK
  <2>10. CASE Remove(r)
    BY <2>1, <2>2, <2>10 DEF Remove, TypeOK
  <2>11. CASE Add(r) \/ CommitIndex(r) \/ PushSends(r)
    BY <2>1, <2>11 DEF Add, CommitIndex, PushSends, TypeOK
  <2>12. QED
    BY <1>2, <2>3, <2>4, <2>5, <2>6, <2>7, <2>8, <2>9, <2>10, <2>11 DEF Step
<1>3. \A r \in Requests : Published(r)'
  BY <1>1, <1>2, NextIsStep, OthersKept DEF vars
<1>4. QED
  BY <1>3 DEF SuccessIsPublished, Published, Made

-----------------------------------------------------------------------------
(* A clone that has diverged.                                                *)

(* It stays so: main and local main only grow, and what is below one commit  *)
(* is a line.                                                                *)
LEMMA DivergedKept ==
    ASSUME TypeOK, LineInv, PushInv, [Next]_vars, NEW k \in Clones, Diverged(k)
    PROVE  Diverged(k)'
<1>1. TypeOK' /\ LineInv'
  BY TypeStep, LineStep
<1>2. /\ main \in DOMAIN commits /\ local[k] \in DOMAIN commits
      /\ main' \in DOMAIN commits' /\ local'[k] \in DOMAIN commits'
  BY <1>1 DEF TypeOK
<1>3. /\ History(main)' = commits'[main'].past \cup {main'}
      /\ main \in History(main)' /\ local[k] \in History(local[k])'
  BY MainKept, LocalKept DEF History
<1>4. ASSUME NEW c \in DOMAIN commits', main \in History(c)', local[k] \in History(c)'
      PROVE  FALSE
  <2>1. \A d, e \in History(c)' : d \in (commits'[e].past \cup {e})
                                  \/ e \in (commits'[d].past \cup {d})
    BY <1>1 DEF LineInv, LineOf, History
  <2>2. commits'[main] = commits[main] /\ commits'[local[k]] = commits[local[k]]
    BY <1>2, CommitsKept
  <2>3. main \in History(local[k]) \/ local[k] \in History(main)
    BY <1>4, <2>1, <2>2 DEF History
  <2>4. QED
    BY <2>3 DEF Diverged
<1>5. main' \notin History(local[k])'
  <2> SUFFICES ASSUME main' \in History(local[k])' PROVE FALSE
    OBVIOUS
  <2>1. History(main)' \subseteq History(local[k])'
    BY <1>1, <1>2 DEF LineInv, LineOf, History
  <2>2. QED
    BY <1>2, <1>3, <1>4, <2>1 DEF History
<1>6. local'[k] \notin History(main)'
  <2> SUFFICES ASSUME local'[k] \in History(main)' PROVE FALSE
    OBVIOUS
  <2>1. History(local[k])' \subseteq History(main)'
    BY <1>1, <1>2 DEF LineInv, LineOf, History
  <2>2. QED
    BY <1>2, <1>3, <1>4, <2>1 DEF History
<1>7. QED
  BY <1>5, <1>6 DEF Diverged

LEMMA LateStep ==
    ASSUME TypeOK, LineInv, PushInv, LateInv, [Next]_vars
    PROVE  LateInv'
<1> USE DEF cloneVars, history, Goto, Finish, Answer, Proceed
<1>k. \A r \in Requests : CloneOf[r] \in Clones
  BY PorcelainAssumption
<1>1. ASSUME NEW r \in late, r \in Requests, pc'[r] = pc[r], result'[r] = result[r]
      PROVE  LateOf(r)'
  BY <1>k, <1>1, DivergedKept DEF LateInv, LateOf
<1>2. ASSUME NEW r \in Requests, Call(r), r \in late'
      PROVE  LateOf(r)'
  <2>1. /\ pc[r] = "idle" /\ pc'[r] = "pull"
        /\ UNCHANGED <<commits, main, local>>
        /\ late' = late \/ Diverged(CloneOf[r])
    BY <1>2 DEF Call, TypeOK
  <2>2. Diverged(CloneOf[r])
    BY <1>2, <2>1 DEF LateInv, LateOf
  <2>3. QED
    BY <1>k, <2>1, <2>2, DivergedKept DEF LateOf
<1>3. ASSUME NEW r \in Requests, Step(r), ~Call(r), r \in late
      PROVE  LateOf(r)'
  <2>1. /\ Diverged(CloneOf[r]) /\ pc[r] \in {"pull", "done"}
        /\ pc[r] = "done" => result[r] = Error
    BY <1>3 DEF LateInv, LateOf
  <2>2. ~PullUpToDate(r) /\ ~PullFastForward(r)
    BY <2>1 DEF PullUpToDate, PullFastForward, Behind, Diverged
  <2>3. CASE PullRefused(r) \/ PullFails(r) \/ PullBreaks(r)
    <3>1. pc'[r] = "done" /\ result'[r] = Error
      BY <2>3 DEF PullRefused, PullFails, PullBreaks, TypeOK
    <3>2. QED
      BY <1>k, <2>1, <3>1, DivergedKept DEF LateOf
  <2>4. CASE PushUnheard(r)
    BY <1>1, <1>3, <2>4 DEF PushUnheard
  <2>5. QED
    BY <1>3, <2>1, <2>2, <2>3, <2>4 DEF Step, Stat, ReadFile, FileCallFails,
       WriteBegins, WriteEnds, WriteBreaks, Remove, Add, CommitIndex, NothingToCommit,
       GitFails, PushSends, PushUpToDate, PushRejected, PushLands, PushOvertaken,
       PushFails
<1>4. ASSUME NEW r \in Requests, Step(r)
      PROVE  LateInv'
  <2>1. \/ Call(r)
        \/ late' = late
    BY <1>4 DEF Step, PullUpToDate, PullFastForward, PullBreaks, PullRefused, PullFails, Stat,
       ReadFile, FileCallFails, WriteBegins, WriteEnds, WriteBreaks, Remove, Add,
       CommitIndex, NothingToCommit, GitFails, PushSends, PushUpToDate,
       PushRejected, PushLands, PushOvertaken, PushFails, PushUnheard
  <2>2. ASSUME NEW s \in late'
        PROVE  LateOf(s)'
    <3>1. s \in Requests /\ (s # r => s \in late)
      BY <1>4, OthersKept DEF TypeOK
    <3>2. CASE s # r
      BY <1>1, <1>4, <3>1, <3>2, OthersKept
    <3>3. CASE s = r
      BY <1>2, <1>3, <1>4, <2>1, <2>2, <3>3
    <3>4. QED
      BY <3>2, <3>3
  <2>3. QED
    BY <2>2 DEF LateInv
<1>5. CASE UNCHANGED vars
  BY <1>5 DEF vars, LateInv, LateOf, Diverged, History
<1>6. QED
  BY <1>4, <1>5, NextIsStep

-----------------------------------------------------------------------------
(* How new the clone is that a request works on.                             *)

LEMMA BeganStep ==
    ASSUME TypeOK, LineInv, PushInv, BeganInv, [Next]_vars
    PROVE  BeganInv'
<1> USE DEF cloneVars, history, Goto, Finish, Answer, Proceed
<1>1. ASSUME NEW r \in Requests
      PROVE  /\ CloneOf[r] \in Clones /\ BeganOf(r)
             /\ History(main) \subseteq History(main)'
             /\ History(local[CloneOf[r]]) \subseteq History(local[CloneOf[r]])'
  BY PorcelainAssumption, MainKept, LocalKept DEF BeganInv
<1>2. ASSUME NEW r \in Requests, began'[r] = began[r], pc'[r] \in Pulled => pc[r] \in Pulled
      PROVE  BeganOf(r)'
  BY <1>1, <1>2 DEF BeganOf
<1>3. ASSUME NEW r \in Requests, Step(r)
      PROVE  BeganOf(r)'
  <2>1. CASE Call(r)
    <3>1. began'[r] = main /\ main' = main /\ pc'[r] = "pull"
      BY <2>1 DEF Call, TypeOK
    <3>2. QED
      BY <3>1 DEF BeganOf, Pulled, History
  <2>2. CASE PullUpToDate(r)
    <3>1. /\ main \in History(local[CloneOf[r]]) /\ began' = began
          /\ UNCHANGED <<commits, main, local>>
      BY <2>2 DEF PullUpToDate
    <3>2. History(main) \subseteq History(local[CloneOf[r]])
      BY <1>1, <3>1, LineBelow DEF TypeOK
    <3>3. began'[r] \in History(main)' /\ began'[r] \in History(local[CloneOf[r]])'
      BY <1>1, <3>1, <3>2 DEF BeganOf, History
    <3>4. QED
      BY <3>3 DEF BeganOf
  <2>3. CASE PullFastForward(r)
    <3>1. /\ local'[CloneOf[r]] = main /\ began' = began
          /\ UNCHANGED <<commits, main>>
      BY <1>1, <2>3 DEF PullFastForward, TypeOK
    <3>2. began'[r] \in History(main)' /\ began'[r] \in History(local[CloneOf[r]])'
      BY <1>1, <3>1 DEF BeganOf, History
    <3>3. QED
      BY <3>2 DEF BeganOf
  <2>4. CASE PullRefused(r) \/ PullFails(r) \/ ReadFile(r) \/ FileCallFails(r)
             \/ WriteBreaks(r) \/ PullBreaks(r) \/ NothingToCommit(r) \/ GitFails(r)
             \/ PushUpToDate(r) \/ PushRejected(r) \/ PushLands(r)
             \/ PushOvertaken(r) \/ PushFails(r)
    <3>1. pc'[r] = "done" /\ began' = began
      BY <2>4 DEF PullRefused, PullFails, ReadFile, FileCallFails, WriteBreaks,
                  PullBreaks, NothingToCommit, GitFails, PushUpToDate, PushRejected,
                  PushLands, PushOvertaken, PushFails, TypeOK
    <3>2. QED
      BY <1>2, <3>1 DEF Pulled
  <2>5. CASE Stat(r)
    <3>1. pc[r] \in Pulled
      BY <2>5 DEF Stat, Pulled
    <3>2. began' = began
      BY <2>5 DEF Stat
    <3>3. QED
      BY <1>2, <3>1, <3>2
  <2>6. CASE WriteBegins(r) \/ WriteEnds(r) \/ Remove(r) \/ Add(r) \/ CommitIndex(r)
             \/ PushSends(r)
    <3>1. pc[r] \in Pulled /\ began' = began
      BY <2>6 DEF WriteBegins, WriteEnds, Remove, Add, CommitIndex, PushSends, Pulled
    <3>2. QED
      BY <1>2, <3>1
  <2>7. CASE PushUnheard(r)
    BY <1>2, <2>7 DEF PushUnheard
  <2>8. QED
    BY <1>3, <2>1, <2>2, <2>3, <2>4, <2>5, <2>6, <2>7 DEF Step
<1>4. CASE UNCHANGED vars
  BY <1>2, <1>4 DEF vars, BeganInv
<1>5. QED
  BY <1>2, <1>3, <1>4, NextIsStep, OthersKept DEF BeganInv

-----------------------------------------------------------------------------
(* A clone that nobody muddled.                                              *)

(* A step of a request that is not a call is one of a request under way, or  *)
(* an unheard push, which does not touch the clone.                          *)
LEMMA StepIsOpen ==
    ASSUME TypeOK, NEW r \in Requests, Step(r), ~Call(r)
    PROVE  /\ r \in Open \/ PushUnheard(r)
           /\ Open' \subseteq Open
<1> USE DEF cloneVars, history, Goto, Finish, Answer, Proceed
<1>1. CASE PushUnheard(r)
  BY <1>1 DEF PushUnheard, Open
<1>2. CASE ~PushUnheard(r)
  <2>1. r \in Open
    BY <1>2 DEF Step, Open, PullUpToDate, PullFastForward, PullBreaks, PullRefused, PullFails, Stat,
       ReadFile, FileCallFails, WriteBegins, WriteEnds, WriteBreaks, Remove, Add,
       CommitIndex, NothingToCommit, GitFails, PushSends, PushUpToDate,
       PushRejected, PushLands, PushOvertaken, PushFails
  <2>2. Open' \subseteq Open
    BY <2>1, OthersKept DEF Open
  <2>3. QED
    BY <2>1, <2>2
<1>3. QED
  BY <1>1, <1>2

LEMMA TurnsStep ==
    ASSUME TypeOK, TurnsInv, [Next]_vars
    PROVE  TurnsInv'
<1>1. CASE UNCHANGED vars
  BY <1>1 DEF vars, history, TurnsInv, Open
<1>2. ASSUME NEW r \in Requests, Call(r)
      PROVE  TurnsInv'
  <2> DEFINE here == {s \in Open : CloneOf[s] = CloneOf[r]}
  <2>1. /\ muddled' = IF here = {} THEN muddled ELSE muddled \cup {CloneOf[r]}
        /\ pc' = [pc EXCEPT ![r] = "pull"]
    BY <1>2 DEF Call, Goto
  <2>2. Open' \subseteq Open \cup {r}
    BY <2>1 DEF Open, TypeOK
  <2>3. CASE here = {}
    BY <2>1, <2>2, <2>3 DEF TurnsInv
  <2>4. CASE here # {}
    BY <2>1, <2>2, <2>4 DEF TurnsInv
  <2>5. QED
    BY <2>3, <2>4
<1>3. ASSUME NEW r \in Requests, Step(r), ~Call(r)
      PROVE  TurnsInv'
  BY <1>3, StepIsOpen, OthersKept DEF TurnsInv
<1>4. QED
  BY <1>1, <1>2, <1>3, NextIsStep

(* Where Stat lets an operation through, it changes what it should.          *)
LEMMA NoRefusal ==
    ASSUME NEW o \in Operations, NEW tree \in Trees, Refusal(o, tree) = NoAnswer
    PROVE  /\ o.path \in Paths /\ o.path \notin Directories
           /\ o.verb = "GET" => Outcome(o, tree) = Ok(tree[o.path])
           /\ IsWrite(o) => /\ Writes(o, tree)
                            /\ Outcome(o, tree) = Ok(NoFile)
                            /\ Effect(o, tree) = [tree EXCEPT ![o.path] = o.body]
<1>1. o.path \in Paths /\ o.verb \in {"GET", "POST", "PUT", "DELETE"}
  BY DEF Operations
<1>2. NoAnswer # Conflict /\ NoAnswer # NotFound
  BY DEF NoAnswer, Conflict, NotFound
<1>3. CASE o.verb = "POST"
  BY <1>1, <1>2, <1>3 DEF Refusal, Outcome, IsWrite, Writes, Effect, Ok
<1>4. CASE o.verb # "POST"
  BY <1>1, <1>2, <1>4 DEF Refusal, Outcome, IsWrite, Writes, Effect, Ok
<1>5. QED
  BY <1>3, <1>4

(* The clone of a request under way is clean unless the request changes it.  *)
LEMMA OwnTree ==
    ASSUME TypeOK, TurnsInv, CleanInv, NEW r \in Open, CloneOf[r] \notin muddled,
           pc[r] \notin Changing
    PROVE  /\ index[CloneOf[r]] = HeadTree(CloneOf[r])
           /\ work[CloneOf[r]] = HeadTree(CloneOf[r])
<1>1. r \in Requests /\ CloneOf[r] \in Clones
  BY PorcelainAssumption DEF Open
<1>2. \A s \in Requests : CloneOf[s] = CloneOf[r] => pc[s] \notin Changing
  <2> SUFFICES ASSUME NEW s \in Requests, CloneOf[s] = CloneOf[r], pc[s] \in Changing
               PROVE  FALSE
    OBVIOUS
  <2>1. s \in Open
    BY DEF Open, Changing
  <2>2. s = r
    BY <2>1 DEF TurnsInv
  <2>3. QED
    BY <2>2
<1>3. QED
  BY <1>1, <1>2 DEF CleanInv, CleanOf

(* The request that steps leaves its clone as the invariant says.            *)
LEMMA OwnStep ==
    ASSUME TypeOK, LineInv, VerbInv, BeganInv, TurnsInv, CleanInv, CheckedInv,
           [Next]_vars,
           NEW r \in Open, Step(r), CloneOf[r] \notin muddled'
    PROVE  /\ pc'[r] \notin Changing =>
                /\ index'[CloneOf[r]] = HeadTree(CloneOf[r])'
                /\ work'[CloneOf[r]] = HeadTree(CloneOf[r])'
           /\ CheckedOf(r)'
<1> USE DEF cloneVars, history, Goto, Finish, Answer, Proceed, Put
<1> DEFINE k == CloneOf[r]
           o == op[r]
<1>1. /\ r \in Requests /\ k \in Clones /\ k \notin muddled
      /\ o \in Operations /\ o.path \in Paths /\ op'[r] = o
  BY PorcelainAssumption, OthersKept DEF Open, Operations, TypeOK
<1>2. /\ index[k] \in Trees /\ work[k] \in Trees /\ HeadTree(k) \in Trees
      /\ local[k] \in DOMAIN commits /\ main \in DOMAIN commits
      /\ commits[main].tree \in Trees
  <2>1. local[k] \in DOMAIN commits /\ main \in DOMAIN commits
    BY <1>1 DEF TypeOK
  <2>2. commits[local[k]] \in Commit /\ commits[main] \in Commit
    BY <2>1 DEF TypeOK
  <2>3. QED
    BY <1>1, <2>1, <2>2 DEF TypeOK, Commit, HeadTree
<1>3. CheckedOf(r) /\ VerbOf(r) /\ BeganOf(r)
  BY <1>1 DEF CheckedInv, VerbInv, BeganInv
<1>4. pc[r] \notin Changing => index[k] = HeadTree(k) /\ work[k] = HeadTree(k)
  BY <1>1, OwnTree
<1>e. ASSUME pc[r] \notin Changing, pc'[r] \in {"done", "stat", "pull"},
             UNCHANGED <<commits, cloneVars>>
      PROVE  /\ pc'[r] \notin Changing =>
                  index'[k] = HeadTree(k)' /\ work'[k] = HeadTree(k)'
             /\ CheckedOf(r)'
  BY <1>4, <1>e DEF HeadTree, CheckedOf, Changing
<1>5. CASE PullUpToDate(r) \/ PullRefused(r) \/ PullFails(r) \/ ReadFile(r)
           \/ FileCallFails(r) \/ PushUpToDate(r) \/ PushRejected(r)
           \/ PushLands(r) \/ PushOvertaken(r) \/ PushFails(r)
  <2>1. /\ pc[r] \notin Changing /\ pc'[r] \in {"done", "stat", "pull"}
        /\ UNCHANGED <<commits, cloneVars>>
    BY <1>1, <1>5 DEF PullUpToDate, PullRefused, PullFails, ReadFile, FileCallFails,
       PushUpToDate, PushRejected, PushLands, PushOvertaken, PushFails, Changing, TypeOK
  <2>2. QED
    BY <1>e, <2>1
<1>6. CASE PullFastForward(r)
  <2> DEFINE mine == HeadTree(k)
             theirs == commits[main].tree
  <2>1. /\ pc[r] = "pull" /\ pc'[r] = "stat" /\ commits' = commits
        /\ local'[k] = main
        /\ index'[k] = Updated(k, index[k]) /\ work'[k] = Updated(k, work[k])
    BY <1>1, <1>6 DEF PullFastForward, HeadTree, TypeOK
  <2>2. index[k] = mine /\ work[k] = mine
    BY <1>4, <2>1 DEF Changing
  <2>3. Updated(k, mine) = theirs
    BY <1>2, <2>2 DEF Updated, Moved, HeadTree, Trees
  <2>4. HeadTree(k)' = theirs
    BY <2>1 DEF HeadTree
  <2>5. QED
    BY <2>1, <2>2, <2>3, <2>4 DEF CheckedOf
<1>7. CASE Stat(r)
  <2>1. pc[r] = "stat" /\ work[k] = HeadTree(k)
    BY <1>4, <1>7 DEF Stat, Changing
  <2>2. CASE Refusal(o, work[k]) # NoAnswer
    <3>1. pc'[r] = "done" /\ UNCHANGED <<commits, cloneVars>>
      BY <1>1, <1>7, <2>2 DEF Stat, TypeOK
    <3>2. QED
      BY <1>e, <2>1, <3>1 DEF Changing
  <2>3. CASE Refusal(o, work[k]) = NoAnswer
    <3>1. pc'[r] \in {"read", "remove", "write"} /\ UNCHANGED <<commits, cloneVars>>
      BY <1>1, <1>7, <2>3 DEF Stat, TypeOK
    <3>2. Refusal(o, HeadTree(k)) = NoAnswer /\ HeadTree(k)' = HeadTree(k)
      BY <2>1, <2>3, <3>1 DEF HeadTree
    <3>3. Refusal(op[r], HeadTree(k))' = NoAnswer
      BY <1>1, <3>2 DEF Refusal
    <3>4. CheckedOf(r)'
      BY <3>1, <3>3 DEF CheckedOf
    <3>5. QED
      BY <1>4, <2>1, <3>1, <3>2, <3>4 DEF Changing
  <2>4. QED
    BY <2>2, <2>3
<1>8. CASE WriteBegins(r) \/ WriteEnds(r) \/ Remove(r) \/ Add(r)
  <2>0. local' = local /\ commits' = commits
    BY <1>8 DEF WriteBegins, WriteEnds, Remove, Add
  <2>1. HeadTree(k)' = HeadTree(k)
    BY <2>0 DEF HeadTree
  <2>2. /\ Refusal(op[r], HeadTree(k))' = Refusal(o, HeadTree(k))
        /\ pc[r] \in {"write", "fill", "remove", "add"}
        /\ Refusal(o, HeadTree(k)) = NoAnswer
    BY <1>1, <1>3, <1>8, <2>1 DEF Refusal, CheckedOf, WriteBegins, WriteEnds, Remove, Add
  <2>3. CASE WriteBegins(r)
    <3>1. /\ pc[r] = "write" /\ pc'[r] = "fill" /\ index' = index
          /\ work'[k] = [work[k] EXCEPT ![o.path] = Torn]
      BY <1>1, <2>3 DEF WriteBegins, TypeOK
    <3>2. QED
      BY <1>1, <1>4, <2>1, <2>2, <3>1 DEF CheckedOf, Changing
  <2>4. CASE WriteEnds(r)
    <3>1. /\ pc[r] = "fill" /\ pc'[r] = "add" /\ index' = index
          /\ work'[k] = [work[k] EXCEPT ![o.path] = o.body]
      BY <1>1, <2>4 DEF WriteEnds, TypeOK
    <3>2. index[k] = HeadTree(k) /\ work[k] = [HeadTree(k) EXCEPT ![o.path] = Torn]
      BY <1>3, <3>1 DEF CheckedOf
    <3>3. work'[k] = [HeadTree(k) EXCEPT ![o.path] = o.body]
      BY <1>1, <1>2, <3>1, <3>2 DEF Trees
    <3>4. QED
      BY <1>1, <2>1, <2>2, <3>1, <3>2, <3>3 DEF CheckedOf, Changing
  <2>5. CASE Remove(r)
    <3>1. pc[r] = "remove" /\ index' = index /\ o.verb = "DELETE"
      BY <1>3, <2>5 DEF Remove, VerbOf
    <3>2. o.body = NoFile
      BY <1>1, <3>1 DEF Operations
    <3>3. CASE work[k][o.path] = NoFile
      <4>1. pc'[r] = "done" /\ UNCHANGED <<commits, cloneVars>>
        BY <1>1, <2>5, <3>3 DEF Remove, TypeOK
      <4>2. QED
        BY <1>e, <3>1, <4>1 DEF Changing
    <3>4. CASE work[k][o.path] # NoFile
      <4>1. pc'[r] = "add" /\ work'[k] = [work[k] EXCEPT ![o.path] = o.body]
        BY <1>1, <2>5, <3>2, <3>4 DEF Remove, TypeOK
      <4>2. QED
        BY <1>1, <1>4, <2>1, <2>2, <3>1, <4>1 DEF CheckedOf, Changing
    <3>5. QED
      BY <3>3, <3>4
  <2>6. CASE Add(r)
    <3>1. /\ pc[r] = "add" /\ pc'[r] = "commit" /\ work' = work
          /\ index'[k] = work[k]
      BY <1>1, <2>6 DEF Add, TypeOK
    <3>2. work[k] = [HeadTree(k) EXCEPT ![o.path] = o.body]
      BY <1>3, <3>1 DEF CheckedOf
    <3>3. QED
      BY <1>1, <2>1, <2>2, <3>1, <3>2 DEF CheckedOf, Changing
  <2>7. QED
    BY <1>8, <2>3, <2>4, <2>5, <2>6
<1>9. CASE CommitIndex(r)
  <2>1. /\ pc[r] = "commit" /\ pc'[r] = "push" /\ index' = index /\ work' = work
        /\ began' = began
    BY <1>1, <1>9 DEF CommitIndex, TypeOK
  <2>2. index[k] = work[k] /\ Refusal(o, HeadTree(k)) = NoAnswer
    BY <1>3, <2>1 DEF CheckedOf
  <2>3. /\ commits'[local'[k]].tree = index[k]
        /\ commits'[local'[k]].past = History(local[k])
        /\ commits'[local[k]] = commits[local[k]]
    BY <1>1, <1>2, <1>9, CommitAppends
  <2>4. HeadTree(k)' = index[k]
    BY <2>3 DEF HeadTree
  <2>5. \E d \in History(local[k])' :
           began'[r] \in History(d)' /\ Refusal(op'[r], commits'[d].tree) = NoAnswer
    <3>1. local[k] \in History(local[k])'
      BY <2>3 DEF History
    <3>2. began'[r] \in History(local[k])
      BY <1>3, <2>1 DEF BeganOf, Pulled
    <3>3. began'[r] \in commits'[local[k]].past \cup {local[k]}
      BY <2>3, <3>2 DEF History
    <3>4. Refusal(op'[r], commits'[local[k]].tree) = NoAnswer
      BY <1>1, <2>2, <2>3 DEF HeadTree
    <3>5. QED
      BY <3>1, <3>3, <3>4 DEF History
  <2>6. CheckedOf(r)'
    BY <2>1, <2>5 DEF CheckedOf, Refusal
  <2>7. QED
    BY <2>1, <2>2, <2>4, <2>6
<1>10. CASE NothingToCommit(r)
  <2>1. /\ pc[r] = "commit" /\ pc'[r] = "done" /\ UNCHANGED <<commits, cloneVars>>
        /\ index[k] = HeadTree(k)
    BY <1>1, <1>10 DEF NothingToCommit, HeadTree, TypeOK
  <2>2. work[k] = index[k]
    BY <1>3, <2>1 DEF CheckedOf
  <2>3. QED
    BY <2>1, <2>2 DEF HeadTree, CheckedOf
<1>11. CASE PushSends(r)
  <2>1. /\ pc[r] = "push" /\ pc'[r] = "sent" /\ UNCHANGED <<commits, cloneVars>>
        /\ began' = began
    BY <1>1, <1>11 DEF PushSends, TypeOK
  <2>2. \E d \in History(local[k]) :
           began[r] \in History(d) /\ Refusal(o, commits[d].tree) = NoAnswer
    BY <1>3, <2>1 DEF CheckedOf
  <2>3. CheckedOf(r)'
    BY <1>1, <2>1, <2>2 DEF CheckedOf, History, Refusal
  <2>4. QED
    BY <1>4, <2>1, <2>3 DEF HeadTree, Changing
<1>12. /\ ~Call(r) /\ ~PushUnheard(r)
       /\ ~WriteBreaks(r) /\ ~PullBreaks(r) /\ ~GitFails(r)
  <2>1. ~Call(r) /\ ~PushUnheard(r)
    BY DEF Open, Call, PushUnheard
  <2>2. ~WriteBreaks(r) /\ ~PullBreaks(r) /\ ~GitFails(r)
    BY DEF WriteBreaks, PullBreaks, GitFails
  <2>3. QED
    BY <2>1, <2>2
<1>13. QED
  BY <1>5, <1>6, <1>7, <1>8, <1>9, <1>10, <1>11, <1>12 DEF Step

(* The clones nobody muddled, after a step of anybody.                       *)
LEMMA CleanStep ==
    ASSUME TypeOK, LineInv, VerbInv, BeganInv, TurnsInv, CleanInv, CheckedInv,
           [Next]_vars
    PROVE  CleanInv' /\ CheckedInv'
<1>c. \A r \in Requests : CloneOf[r] \in Clones
  BY PorcelainAssumption
<1>h. ASSUME NEW k \in Clones
      PROVE  /\ local'[k] = local[k] => HeadTree(k)' = HeadTree(k)
             /\ \A d \in History(local[k]) :
                  History(d)' = History(d) /\ commits'[d].tree = commits[d].tree
             /\ History(local[k]) \subseteq History(local[k])'
  <2>1. local[k] \in DOMAIN commits
    BY DEF TypeOK
  <2>2. \A d \in History(local[k]) : d \in DOMAIN commits
    BY <2>1, LineBelow
  <2>3. QED
    BY <2>1, <2>2, CommitsKept, LocalKept DEF HeadTree
(* A clone whose files, and a request of it whose place, are as before.      *)
<1>1. ASSUME NEW k \in Clones, CleanOf(k),
             local'[k] = local[k], index'[k] = index[k], work'[k] = work[k],
             \A r \in Requests :
                CloneOf[r] = k /\ pc[r] \in Changing => pc'[r] \in Changing
      PROVE  CleanOf(k)'
  BY <1>1, <1>h DEF CleanOf
<1>2. ASSUME NEW r \in Requests, CheckedOf(r),
             local'[CloneOf[r]] = local[CloneOf[r]], index'[CloneOf[r]] = index[CloneOf[r]],
             work'[CloneOf[r]] = work[CloneOf[r]],
             pc'[r] = pc[r], op'[r] = op[r], began'[r] = began[r]
      PROVE  CheckedOf(r)'
  <2> DEFINE k == CloneOf[r]
  <2>1. /\ HeadTree(k)' = HeadTree(k)
        /\ \A d \in History(local[k]) :
             History(d)' = History(d) /\ commits'[d].tree = commits[d].tree
        /\ History(local[k]) \subseteq History(local[k])'
    BY <1>c, <1>h, <1>2
  <2>2. Refusal(op[r], HeadTree(k))' = Refusal(op[r], HeadTree(k))
    BY <1>2, <2>1 DEF Refusal
  <2>3. ASSUME pc[r] \in {"push", "sent"}
        PROVE  \E d \in History(local[k])' :
                  began'[r] \in History(d)' /\ Refusal(op'[r], commits'[d].tree) = NoAnswer
    <3>1. PICK d \in History(local[k]) :
                  began[r] \in History(d) /\ Refusal(op[r], commits[d].tree) = NoAnswer
      BY <1>2, <2>3 DEF CheckedOf
    <3>2. d \in History(local[k])' /\ began'[r] \in History(d)'
      BY <1>2, <2>1, <3>1
    <3>3. Refusal(op'[r], commits'[d].tree) = NoAnswer
      BY <1>2, <2>1, <3>1
    <3>4. QED
      BY <3>2, <3>3
  <2>4. pc'[r] \in {"push", "sent"} =>
          (\E d \in History(local[k]) :
             began[r] \in History(d) /\ Refusal(op[r], commits[d].tree) = NoAnswer)'
    BY <1>2, <2>3 DEF Refusal
  <2>5. QED
    BY <1>2, <2>1, <2>2, <2>4 DEF CheckedOf
<1>3. ASSUME UNCHANGED vars
      PROVE  CleanInv' /\ CheckedInv'
  BY <1>c, <1>1, <1>2, <1>3 DEF vars, cloneVars, history, CleanInv, CheckedInv
<1>4. ASSUME NEW r \in Requests, Call(r)
      PROVE  CleanInv' /\ CheckedInv'
  <2>1. /\ pc[r] = "idle" /\ pc'[r] = "pull" /\ op' = op
        /\ local' = local /\ index' = index /\ work' = work
        /\ muddled \subseteq muddled'
    BY <1>4, OthersKept DEF Call, Goto, cloneVars, Step, TypeOK
  <2>2. \A s \in Requests \ {r} : pc'[s] = pc[s] /\ began'[s] = began[s]
    BY <1>4, OthersKept DEF Step
  <2>3. CheckedOf(r)'
    BY <2>1 DEF CheckedOf
  <2>4. \A s \in Requests : pc[s] \in Changing => pc'[s] \in Changing
    BY <2>1, <2>2 DEF Changing
  <2>5. QED
    BY <1>c, <1>1, <1>2, <2>1, <2>2, <2>3, <2>4 DEF CleanInv, CheckedInv
<1>5. ASSUME NEW r \in Requests, Step(r), ~Call(r)
      PROVE  CleanInv' /\ CheckedInv'
  <2>0. /\ op' = op /\ muddled \subseteq muddled'
        /\ \A s \in Requests \ {r} : pc'[s] = pc[s] /\ began'[s] = began[s]
        /\ \A k \in Clones \ {CloneOf[r]} :
              local'[k] = local[k] /\ index'[k] = index[k] /\ work'[k] = work[k]
    BY <1>5, OthersKept
  <2>1. CASE PushUnheard(r)
    BY <1>c, <1>1, <1>2, <2>0, <2>1 DEF PushUnheard, cloneVars, history, CleanInv, CheckedInv
  <2>2. CASE ~PushUnheard(r)
    <3>0. r \in Open
      BY <1>5, <2>2, StepIsOpen
    <3>1. ASSUME NEW k \in Clones, k \notin muddled', k # CloneOf[r]
          PROVE  CleanOf(k)'
      BY <1>1, <2>0, <3>1 DEF CleanInv
    <3>2. ASSUME NEW s \in Requests, CloneOf[s] \notin muddled', CloneOf[s] # CloneOf[r]
          PROVE  CheckedOf(s)'
      BY <1>c, <1>2, <2>0, <3>2 DEF CheckedInv
    <3>3. ASSUME CloneOf[r] \notin muddled'
          PROVE  /\ CleanOf(CloneOf[r])'
                 /\ \A s \in Requests : CloneOf[s] = CloneOf[r] => CheckedOf(s)'
      <4>1. \A s \in Requests \ {r} :
              CloneOf[s] = CloneOf[r] => pc'[s] \in {"idle", "done"}
        BY <2>0, <3>0, <3>3 DEF TurnsInv, Open
      <4>2. CleanOf(CloneOf[r])'
        BY <1>5, <3>0, <3>3, OwnStep DEF CleanOf
      <4>3. \A s \in Requests \ {r} : CloneOf[s] = CloneOf[r] => CheckedOf(s)'
        BY <4>1 DEF CheckedOf
      <4>4. CheckedOf(r)'
        BY <1>5, <3>0, <3>3, OwnStep
      <4>5. QED
        BY <4>2, <4>3, <4>4
    <3>4. QED
      BY <1>c, <3>1, <3>2, <3>3 DEF CleanInv, CheckedInv
  <2>3. QED
    BY <2>1, <2>2
<1>6. QED
  BY <1>3, <1>4, <1>5, NextIsStep

LEMMA EffectStep ==
    ASSUME TypeOK, LineInv, VerbInv, CheckedInv, EffectInv, [Next]_vars
    PROVE  EffectInv'
<1>0. op' = op /\ muddled \subseteq muddled'
  BY NextIsStep, OthersKept DEF vars, history
<1>1. ASSUME NEW c \in DOMAIN commits,
             commits[c].by # NoFile /\ CloneOf[commits[c].by] \notin muddled'
      PROVE  EffectOf(c)'
  <2> DEFINE o == op[commits[c].by]
  <2>1. PICK d \in commits[c].past :
           /\ commits[c].past = History(d)
           /\ o.path \notin Directories
           /\ Writes(o, commits[d].tree)
           /\ commits[c].tree = Effect(o, commits[d].tree)
    BY <1>0, <1>1 DEF EffectInv, EffectOf
  <2>2. d \in DOMAIN commits
    BY LineBelow DEF History
  <2>3. /\ commits'[c] = commits[c] /\ commits'[d] = commits[d]
        /\ History(d)' = History(d)
    BY <2>2, CommitsKept
  <2>4. /\ d \in commits'[c].past
        /\ commits'[c].past = History(d)'
        /\ op'[commits'[c].by].path \notin Directories
        /\ Writes(op'[commits'[c].by], commits'[d].tree)
        /\ commits'[c].tree = Effect(op'[commits'[c].by], commits'[d].tree)
    BY <1>0, <2>1, <2>3
  <2>5. QED
    BY <2>4 DEF EffectOf, Writes, Effect
<1>2. CASE commits' = commits
  BY <1>1, <1>2 DEF EffectInv
<1>3. ASSUME NEW r \in Requests, CommitIndex(r)
      PROVE  EffectInv'
  <2> DEFINE k == CloneOf[r]
             o == op[r]
  <2>1. /\ k \in Clones /\ local[k] \in DOMAIN commits /\ o \in Operations
        /\ HeadTree(k) \in Trees
    <3>1. k \in Clones /\ local[k] \in DOMAIN commits
      BY PorcelainAssumption DEF TypeOK
    <3>2. commits[local[k]] \in Commit
      BY <3>1 DEF TypeOK
    <3>3. QED
      BY <3>1, <3>2 DEF HeadTree, Commit, TypeOK
  <2>2. PICK c \in Nat :
           /\ DOMAIN commits' = DOMAIN commits \cup {c}
           /\ \A d \in DOMAIN commits : commits'[d] = commits[d]
           /\ commits'[c].past = History(local[k])
           /\ commits'[c].tree = index[k]
           /\ commits'[c].by = r
    BY <1>3, CommitAppends
  <2>3. ASSUME k \notin muddled'
        PROVE  EffectOf(c)'
    <3>1. pc[r] = "commit" /\ CheckedOf(r) /\ VerbOf(r)
      BY <1>0, <1>3, <2>3 DEF CommitIndex, CheckedInv, VerbInv
    <3>2. /\ Refusal(o, HeadTree(k)) = NoAnswer /\ IsWrite(o)
          /\ index[k] = [HeadTree(k) EXCEPT ![o.path] = o.body]
      BY <3>1 DEF CheckedOf, VerbOf
    <3>3. /\ o.path \notin Directories /\ Writes(o, HeadTree(k))
          /\ index[k] = Effect(o, HeadTree(k))
      BY <2>1, <3>2, NoRefusal
    <3>4. commits'[local[k]] = commits[local[k]] /\ commits'[local[k]].tree = HeadTree(k)
      BY <2>1, <2>2 DEF HeadTree
    <3>5. /\ local[k] \in commits'[c].past
          /\ commits'[c].past = commits'[local[k]].past \cup {local[k]}
      BY <2>2, <3>4 DEF History
    <3>6. /\ op'[commits'[c].by].path \notin Directories
          /\ Writes(op'[commits'[c].by], commits'[local[k]].tree)
          /\ commits'[c].tree = Effect(op'[commits'[c].by], commits'[local[k]].tree)
      BY <1>0, <2>2, <3>3, <3>4
    <3>7. QED
      BY <3>5, <3>6 DEF EffectOf, History, Writes, Effect
  <2>4. ASSUME NEW d \in DOMAIN commits',
               commits'[d].by # NoFile /\ CloneOf[commits'[d].by] \notin muddled'
        PROVE  EffectOf(d)'
    <3>1. CASE d = c
      BY <2>2, <2>3, <2>4, <3>1
    <3>2. CASE d # c
      BY <1>1, <2>2, <2>4, <3>2
    <3>3. QED
      BY <3>1, <3>2
  <2>5. QED
    BY <2>4 DEF EffectInv
<1>4. QED
  BY <1>2, <1>3, NextIsStep, RepositoryKept DEF vars

-----------------------------------------------------------------------------
(* Where a body is.                                                          *)

LEMMA ClashStep ==
    ASSUME TypeOK, ClashInv, [Next]_vars
    PROVE  ClashInv' /\ clashed \subseteq clashed'
<1>1. CASE UNCHANGED vars
  BY <1>1 DEF vars, history, ClashInv, Open
<1>2. ASSUME NEW r \in Requests, Call(r)
      PROVE  ClashInv' /\ clashed \subseteq clashed'
  <2> DEFINE here == {s \in Open : CloneOf[s] = CloneOf[r]}
             same == {s \in here : op[s].path = op[r].path}
  <2>1. /\ clashed' = IF same = {} THEN clashed ELSE clashed \cup same \cup {r}
        /\ pc' = [pc EXCEPT ![r] = "pull"] /\ op' = op
    BY <1>2 DEF Call, Goto
  <2>2. Open' \subseteq Open \cup {r}
    BY <2>1 DEF Open, TypeOK
  <2>3. CASE same = {}
    BY <2>1, <2>2, <2>3 DEF ClashInv
  <2>4. CASE same # {}
    BY <2>1, <2>2, <2>4 DEF ClashInv
  <2>5. QED
    BY <2>3, <2>4
<1>3. ASSUME NEW r \in Requests, Step(r), ~Call(r)
      PROVE  ClashInv' /\ clashed \subseteq clashed'
  <2>1. clashed' = clashed
    BY <1>3 DEF Step, PullUpToDate, PullFastForward, PullBreaks, PullRefused, PullFails, Stat,
       ReadFile, FileCallFails, WriteBegins, WriteEnds, WriteBreaks, Remove, Add,
       CommitIndex, NothingToCommit, GitFails, PushSends, PushUpToDate,
       PushRejected, PushLands, PushOvertaken, PushFails, PushUnheard,
       Answer, Proceed, history
  <2>2. QED
    BY <1>3, <2>1, StepIsOpen, OthersKept DEF ClashInv
<1>4. QED
  BY <1>1, <1>2, <1>3, NextIsStep

LEMMA HeldKept ==
    ASSUME TypeOK, LineInv, [Next]_vars, NEW r \in Requests, op' = op,
           began'[r] = began[r],
           NEW c \in DOMAIN commits, NEW d \in Nat,
           History(c) \subseteq History(d)', Held(r, c)
    PROVE  Held(r, d)'
<1>1. PICK e \in History(c) :
        began[r] \in History(e) /\ commits[e].tree[op[r].path] = op[r].body
  BY DEF Held
<1>2. e \in DOMAIN commits
  BY LineBelow
<1>3. /\ began'[r] \in History(e)' /\ e \in History(d)'
      /\ commits'[e].tree[op'[r].path] = op'[r].body
  BY <1>1, <1>2, CommitsKept
<1>4. QED
  BY <1>3 DEF Held

(* What a step of a request can do to one file of its clone.                 *)
LEMMA FileStep ==
    ASSUME TypeOK, NEW s \in Requests, Step(s), NEW x \in Paths
    PROVE  LET k == CloneOf[s]
               mine == HeadTree(k)[x]
           IN  \/ work'[k][x] = work[k][x] /\ index'[k][x] = index[k][x]
               \/ work'[k][x] = work[k][x] /\ index'[k][x] = work[k][x]
               \/ index[k][x] = mine /\ work[k][x] \in {mine, NoFile}
               \/ x = op[s].path /\ s \in Open
<1> USE DEF cloneVars, Answer, Proceed, Put
<1> DEFINE k == CloneOf[s]
<1>k. k \in Clones
  BY PorcelainAssumption
<1>1. CASE WriteBegins(s) \/ WriteEnds(s) \/ Remove(s)
  <2>1. s \in Open
    BY <1>1 DEF WriteBegins, WriteEnds, Remove, Open
  <2>2. CASE x # op[s].path
    <3>1. index' = index
      BY <1>1 DEF WriteBegins, WriteEnds, Remove
    <3>2. work[k] \in Trees
      BY <1>k DEF TypeOK
    <3>3. work'[k][x] = work[k][x]
      BY <1>1, <1>k, <2>2, <3>2 DEF WriteBegins, WriteEnds, Remove, TypeOK, Trees
    <3>4. QED
      BY <3>1, <3>3
  <2>3. QED
    BY <2>1, <2>2
<1>2. CASE Add(s)
  BY <1>2, <1>k DEF Add, TypeOK
<1>3. CASE PullFastForward(s)
  <2>1. /\ index'[k] = Updated(k, index[k]) /\ work'[k] = Updated(k, work[k])
        /\ Mergeable(k, x)
    BY <1>3, <1>k DEF PullFastForward, TypeOK
  <2>2. CASE x \in Moved(k)
    BY <2>1, <2>2 DEF Mergeable, Moved, HeadTree
  <2>3. CASE x \notin Moved(k)
    BY <2>1, <2>3 DEF Updated
  <2>4. QED
    BY <2>2, <2>3
<1>4. CASE PullBreaks(s)
  BY <1>4, BrokenPull DEF HeadTree
<1>5. CASE ~(\/ WriteBegins(s) \/ WriteEnds(s) \/ Remove(s) \/ Add(s)
             \/ PullFastForward(s) \/ PullBreaks(s))
  <2>1. work' = work /\ index' = index
    BY <1>5 DEF Step, Call, PullUpToDate, PullRefused, PullFails, Stat, ReadFile,
       FileCallFails, WriteBreaks, CommitIndex, NothingToCommit, GitFails, PushSends,
       PushUpToDate, PushRejected, PushLands, PushOvertaken, PushFails, PushUnheard
  <2>2. QED
    BY <2>1
<1>6. QED
  BY <1>1, <1>2, <1>3, <1>4, <1>5

LEMMA BodyStep ==
    ASSUME TypeOK, LineInv, PushInv, VerbInv, BeganInv, ClashInv, BodyInv,
           [Next]_vars
    PROVE  BodyInv'
<1> USE DEF cloneVars, history, Goto, Finish, Answer, Proceed
<1> DEFINE Post(r) == r \notin clashed /\ op[r].verb \in {"POST", "PUT"}
<1>0. op' = op /\ clashed \subseteq clashed'
  BY NextIsStep, OthersKept, ClashStep DEF vars
<1>1. ASSUME NEW r \in Requests
      PROVE  /\ CloneOf[r] \in Clones
             /\ local[CloneOf[r]] \in DOMAIN commits /\ local'[CloneOf[r]] \in Nat
             /\ main \in DOMAIN commits /\ main' \in Nat
             /\ History(local[CloneOf[r]]) \subseteq History(local[CloneOf[r]])'
             /\ History(main) \subseteq History(main)'
             /\ op[r].path \in Paths
             /\ op[r].verb \in {"POST", "PUT"} => op[r].body # NoFile
  <2>1. CloneOf[r] \in Clones /\ TypeOK' /\ op[r] \in Operations
    BY PorcelainAssumption, TypeStep DEF TypeOK
  <2>2. local'[CloneOf[r]] \in DOMAIN commits' /\ main' \in DOMAIN commits'
    BY <2>1 DEF TypeOK
  <2>3. DOMAIN commits' \subseteq Nat
    BY <2>1 DEF TypeOK
  <2>4. local[CloneOf[r]] \in DOMAIN commits /\ main \in DOMAIN commits
    BY <2>1 DEF TypeOK
  <2>5. op[r].path \in Paths /\ (op[r].verb \in {"POST", "PUT"} => op[r].body # NoFile)
    BY <2>1, NoFileAssumption DEF Operations
  <2>6. QED
    BY <2>1, <2>2, <2>3, <2>4, <2>5, LocalKept, MainKept
(* Held below local main, main or a push, it stays there.                    *)
<1>2. ASSUME NEW r \in Requests, began'[r] = began[r]
      PROVE  /\ Held(r, local[CloneOf[r]]) => Held(r, local[CloneOf[r]])'
             /\ Held(r, main) => Held(r, main)'
             /\ pc[r] = "sent" /\ Held(r, sent[r].new) /\ sent'[r] = sent[r] =>
                  Held(r, sent[r].new)'
  <2>1. /\ Held(r, local[CloneOf[r]]) => Held(r, local[CloneOf[r]])'
        /\ Held(r, main) => Held(r, main)'
    BY <1>0, <1>1, <1>2, HeldKept
  <2>2. ASSUME pc[r] = "sent", Held(r, sent[r].new), sent'[r] = sent[r]
        PROVE  Held(r, sent[r].new)'
    <3>1. sent[r].new \in DOMAIN commits
      BY <2>2 DEF TypeOK, PushInv, PushOf
    <3>2. History(sent[r].new) \subseteq History(sent[r].new)' /\ sent'[r].new \in Nat
      BY <2>2, <3>1, CommitsKept DEF History, TypeOK
    <3>3. QED
      BY <1>0, <1>2, <2>2, <3>1, <3>2, HeldKept
  <2>3. QED
    BY <2>1, <2>2
<1>3. ASSUME NEW r \in Requests, Post(r), BodyOf(r), pc'[r] = pc[r],
             result'[r] = result[r], sent'[r] = sent[r], began'[r] = began[r],
             LET k == CloneOf[r]
                 x == op[r].path
                 mine == HeadTree(k)[x]
             IN  \/ work'[k][x] = work[k][x] /\ index'[k][x] = index[k][x]
                 \/ work'[k][x] = work[k][x] /\ index'[k][x] = work[k][x]
                 \/ index[k][x] = mine /\ work[k][x] \in {mine, NoFile}
      PROVE  BodyOf(r)'
  <2> DEFINE k == CloneOf[r]
             x == op[r].path
             b == op[r].body
  <2>1. CASE pc[r] \in {"add", "commit"}
    <3>1. CASE Held(r, local[k])
      BY <1>2, <1>3, <2>1, <3>1 DEF BodyOf
    <3>2. CASE ~Held(r, local[k])
      <4>1. work[k][x] = b /\ (pc[r] = "commit" => index[k][x] = b)
        BY <1>3, <2>1, <3>2 DEF BodyOf
      <4>2. CASE HeadTree(k)[x] = b
        <5>1. pc[r] \in Pulled
          BY <2>1 DEF Pulled
        <5>2. began[r] \in History(local[k])
          BY <5>1 DEF BeganInv, BeganOf
        <5>3. QED
          BY <3>2, <4>2, <5>2 DEF Held, HeadTree, History
      <4>3. CASE HeadTree(k)[x] # b
        <5>1. work'[k][x] = b /\ (pc[r] = "commit" => index'[k][x] = b)
          BY <1>1, <1>3, <4>1, <4>3
        <5>2. QED
          BY <1>0, <1>3, <2>1, <5>1 DEF BodyOf
      <4>4. QED
        BY <4>2, <4>3
    <3>3. QED
      BY <3>1, <3>2
  <2>2. CASE pc[r] \notin {"add", "commit"}
    BY <1>2, <1>3, <2>2 DEF BodyOf
  <2>3. QED
    BY <2>1, <2>2
<1>4. CASE UNCHANGED vars
  BY <1>0, <1>3, <1>4 DEF vars, BodyInv
(* A step of another request.                                                *)
<1>5. ASSUME NEW s \in Requests, Step(s), NEW r \in Requests, r # s, Post(r)
      PROVE  BodyOf(r)'
  <2> DEFINE k == CloneOf[r]
             x == op[r].path
  <2>1. /\ BodyOf(r) /\ pc'[r] = pc[r] /\ result'[r] = result[r]
        /\ sent'[r] = sent[r] /\ began'[r] = began[r]
    BY <1>5, OthersKept DEF BodyInv
  <2>2. CASE k # CloneOf[s]
    <3>1. work'[k] = work[k] /\ index'[k] = index[k]
      BY <1>1, <1>5, <2>2, OthersKept
    <3>2. QED
      BY <1>3, <1>5, <2>1, <3>1
  <2>3. CASE k = CloneOf[s] /\ (x # op[s].path \/ s \notin Open)
    BY <1>1, <1>3, <1>5, <2>1, <2>3, FileStep
  <2>4. CASE k = CloneOf[s] /\ x = op[s].path /\ s \in Open
    <3>1. r \notin Open
      BY <1>5, <2>4 DEF ClashInv
    <3>2. pc[r] \in {"idle", "done"}
      BY <3>1 DEF Open
    <3>3. QED
      BY <1>2, <2>1, <3>2 DEF BodyOf
  <2>5. QED
    BY <2>2, <2>3, <2>4
(* A step of the request itself.                                             *)
<1>6. ASSUME NEW r \in Requests, Step(r), Post(r)
      PROVE  BodyOf(r)'
  <2> DEFINE k == CloneOf[r]
             x == op[r].path
             b == op[r].body
  <2>0. BodyOf(r) /\ BeganOf(r) /\ (~Call(r) => began'[r] = began[r])
    <3>1. BodyOf(r) /\ BeganOf(r)
      BY <1>6 DEF BodyInv, BeganInv
    <3>2. ~Call(r) => began' = began
      BY <1>6 DEF Step, PullUpToDate, PullFastForward, PullBreaks, PullRefused, PullFails, Stat,
         ReadFile, FileCallFails, WriteBegins, WriteEnds, WriteBreaks, Remove, Add,
         CommitIndex, NothingToCommit, GitFails, PushSends, PushUpToDate,
         PushRejected, PushLands, PushOvertaken, PushFails, PushUnheard
    <3>3. QED
      BY <3>1, <3>2
  <2>1. CASE pc'[r] \in {"idle", "pull", "stat", "read", "write", "fill", "remove"}
    BY <2>1 DEF BodyOf
  <2>2. CASE pc'[r] = "done" /\ result'[r].code # "ok"
    BY <2>2 DEF BodyOf
  <2>3. CASE WriteEnds(r)
    <3>1. pc'[r] = "add" /\ work'[k] = [work[k] EXCEPT ![x] = b]
      BY <1>1, <2>3 DEF WriteEnds, Put, TypeOK
    <3>2. work[k] \in Trees
      BY <1>1 DEF TypeOK
    <3>3. work'[k][x] = b
      BY <1>1, <3>1, <3>2 DEF Trees
    <3>4. QED
      BY <1>0, <3>1, <3>3 DEF BodyOf
  <2>4. CASE Add(r)
    <3>1. /\ pc[r] = "add" /\ pc'[r] = "commit" /\ work' = work /\ index'[k] = work[k]
      BY <1>1, <2>4 DEF Add, TypeOK
    <3>2. ~Call(r)
      BY <3>1 DEF Call
    <3>3. work[k][x] = b \/ Held(r, local[k])
      BY <2>0, <3>1 DEF BodyOf
    <3>4. QED
      BY <1>0, <1>2, <2>0, <3>1, <3>2, <3>3 DEF BodyOf
  <2>5. CASE CommitIndex(r)
    <3>1. pc[r] = "commit" /\ pc'[r] = "push" /\ began' = began
      BY <1>1, <2>5 DEF CommitIndex, TypeOK
    <3>2. CASE Held(r, local[k])
      BY <1>2, <3>1, <3>2 DEF BodyOf
    <3>3. CASE index[k][x] = b
      <4>1. began[r] \in History(local[k])
        BY <2>0, <3>1 DEF BeganOf, Pulled
      <4>2. /\ commits'[local'[k]].tree = index[k]
            /\ commits'[local'[k]].past = History(local[k])
        BY <2>5, CommitAppends
      <4>3. began'[r] \in History(local[k])' /\ local'[k] \in History(local[k])'
        BY <3>1, <4>1, <4>2 DEF History
      <4>4. commits'[local'[k]].tree[op'[r].path] = op'[r].body
        BY <1>0, <3>3, <4>2
      <4>5. Held(r, local[k])'
        BY <4>3, <4>4 DEF Held
      <4>6. QED
        BY <3>1, <4>5 DEF BodyOf
    <3>4. QED
      BY <2>0, <3>1, <3>2, <3>3 DEF BodyOf
  <2>6. CASE PushSends(r)
    <3>1. /\ pc[r] = "push" /\ pc'[r] = "sent" /\ began' = began
          /\ sent'[r].new = local[k] /\ local' = local
      BY <1>1, <2>6 DEF PushSends, TypeOK
    <3>2. Held(r, local[k])'
      BY <1>2, <2>0, <3>1 DEF BodyOf
    <3>3. Held(r, sent[r].new)'
      BY <3>1, <3>2 DEF Held
    <3>4. QED
      BY <3>1, <3>3 DEF BodyOf
  <2>7. CASE PushUpToDate(r)
    <3>1. /\ pc[r] = "push" /\ pc'[r] = "done" /\ main = local[k]
          /\ UNCHANGED <<main, local, began>>
      BY <1>1, <2>7 DEF PushUpToDate, TypeOK
    <3>2. Held(r, local[k])'
      BY <1>2, <2>0, <3>1 DEF BodyOf
    <3>3. Held(r, main)'
      BY <3>1, <3>2 DEF Held
    <3>4. QED
      BY <3>1, <3>3 DEF BodyOf
  <2>8. CASE PushLands(r)
    <3>1. /\ pc[r] = "sent" /\ pc'[r] = "done" /\ main' = sent[r].new
          /\ UNCHANGED <<commits, began, op>>
      BY <1>1, <2>8 DEF PushLands, TypeOK
    <3>2. Held(r, sent[r].new)
      BY <2>0, <3>1 DEF BodyOf
    <3>3. Held(r, main)'
      BY <3>1, <3>2 DEF Held, History
    <3>4. QED
      BY <3>1, <3>3 DEF BodyOf
  <2>9. CASE PushUnheard(r)
    <3>1. pc' = pc /\ result' = result /\ pc[r] = "done" /\ began' = began
      BY <2>9 DEF PushUnheard
    <3>2. QED
      BY <1>2, <2>0, <3>1 DEF BodyOf
  <2>10. CASE Call(r) \/ PullUpToDate(r) \/ PullFastForward(r) \/ WriteBegins(r)
    BY <2>1, <2>10 DEF Call, PullUpToDate, PullFastForward, WriteBegins, TypeOK
  <2>11. CASE Stat(r) \/ ReadFile(r) \/ Remove(r)
    <3>1. op[r].verb \in {"POST", "PUT"} /\ op[r] \in Operations
      BY <1>6 DEF TypeOK
    <3>2. CASE Stat(r)
      <4> DEFINE refusal == Refusal(op[r], work[k])
      <4>1. CASE refusal = NoAnswer
        <5>1. pc'[r] \in {"read", "remove", "write"}
          BY <3>2, <4>1 DEF Stat, TypeOK
        <5>2. QED
          BY <2>1, <5>1
      <4>2. CASE refusal # NoAnswer
        <5>1. pc'[r] = "done" /\ result'[r] = refusal
          BY <3>2, <4>2 DEF Stat, TypeOK
        <5>2. refusal \in {Conflict, NotFound}
          BY <4>2 DEF Refusal
        <5>3. QED
          BY <2>2, <5>1, <5>2 DEF Conflict, NotFound
      <4>3. QED
        BY <4>1, <4>2
    <3>3. ~ReadFile(r) /\ ~Remove(r)
      BY <3>1 DEF VerbInv, VerbOf, ReadFile, Remove
    <3>4. QED
      BY <2>11, <3>2, <3>3
  <2>12. CASE PullRefused(r) \/ PullFails(r) \/ FileCallFails(r) \/ WriteBreaks(r)
              \/ NothingToCommit(r) \/ GitFails(r) \/ PullBreaks(r) \/ PushRejected(r)
              \/ PushOvertaken(r) \/ PushFails(r)
    <3>1. pc'[r] = "done" /\ result'[r] = Error
      BY <2>12 DEF PullRefused, PullFails, FileCallFails, WriteBreaks, NothingToCommit,
         GitFails, PullBreaks, PushRejected, PushOvertaken, PushFails, TypeOK
    <3>2. QED
      BY <2>2, <3>1 DEF Error
  <2>13. QED
    BY <1>6, <2>3, <2>4, <2>5, <2>6, <2>7, <2>8, <2>9, <2>10, <2>11, <2>12 DEF Step
<1>7. QED
  BY <1>0, <1>4, <1>5, <1>6, NextIsStep DEF BodyInv

-----------------------------------------------------------------------------
(* The inductive invariant.                                                  *)

LEMMA InvInit == Init => IInv
<1> SUFFICES ASSUME Init PROVE IInv
  OBVIOUS
<1>1. TypeOK
  BY TypeInit
<1>2. PICK tree \in Trees : commits = <<[past |-> {}, tree |-> tree, by |-> NoFile]>>
  BY DEF Init
<1>3. /\ DOMAIN commits = {1} /\ commits[1].past = {} /\ commits[1].tree = tree
      /\ commits[1].by = NoFile
  BY <1>2
<1>4. /\ main = 1 /\ \A k \in Clones : local[k] = 1
      /\ \A r \in Requests : pc[r] = "idle" /\ sent[r] = NoPush /\ began[r] = 1
      /\ late = {}
  BY DEF Init
<1>5. \A k \in Clones : index[k] = tree /\ work[k] = tree
  BY <1>3 DEF Init
<1>6. LineInv
  BY <1>3 DEF LineInv, LineOf
<1>7. PushInv /\ VerbInv /\ SuccessIsPublished /\ LateInv
  BY <1>4 DEF PushInv, PushOf, VerbInv, VerbOf, SuccessIsPublished, LateInv
<1>8. BeganInv
  BY <1>4 DEF BeganInv, BeganOf, Pulled, History
<1>9. TurnsInv /\ CheckedInv
  BY <1>4 DEF TurnsInv, Open, CheckedInv, CheckedOf
<1>10. CleanInv
  BY <1>3, <1>4, <1>5 DEF CleanInv, CleanOf, HeadTree
<1>11. EffectInv
  BY <1>3 DEF EffectInv
<1>12. ClashInv /\ BodyInv
  BY <1>4 DEF ClashInv, Open, BodyInv, BodyOf
<1>13. QED
  BY <1>1, <1>6, <1>7, <1>8, <1>9, <1>10, <1>11, <1>12 DEF IInv

LEMMA InvStep == IInv /\ [Next]_vars => IInv'
<1> SUFFICES ASSUME IInv, [Next]_vars PROVE IInv'
  OBVIOUS
<1> USE DEF IInv
<1>1. TypeOK' /\ LineInv' /\ PushInv' /\ VerbInv'
  BY TypeStep, LineStep, PushStep, VerbStep
<1>2. SuccessIsPublished' /\ LateInv' /\ BeganInv'
  BY SuccessStep, LateStep, BeganStep
<1>3. TurnsInv' /\ CleanInv' /\ CheckedInv' /\ EffectInv'
  BY TurnsStep, CleanStep, EffectStep
<1>4. ClashInv' /\ BodyInv'
  BY ClashStep, BodyStep
<1>5. QED
  BY <1>1, <1>2, <1>3, <1>4

(* The inductive invariant holds in every reachable state.                   *)
THEOREM Invariance == Spec => []IInv
BY InvInit, InvStep, PTL DEF Spec

-----------------------------------------------------------------------------
(* What follows.                                                             *)

(* Every variable keeps its type.                                            *)
THEOREM TypeCorrect == Spec => []TypeOK
<1>1. IInv => TypeOK
  BY DEF IInv
<1>2. QED
  BY <1>1, Invariance, PTL

(* However requests get in one another's way in a clone, a write that        *)
(* answered with success has a commit of its own on the remote.              *)
THEOREM SuccessHasACommit == Spec => []SuccessIsPublished
<1>1. IInv => SuccessIsPublished
  BY DEF IInv
<1>2. QED
  BY <1>1, Invariance, PTL

(* The body of a POST or PUT that answered with success has been on the      *)
(* remote's main since the call, if nobody else of its clone used its path.  *)
THEOREM SuccessHasItsBody == Spec => []BodyIsPublished
<1>1. IInv => BodyIsPublished
  <2> SUFFICES ASSUME IInv, NEW r \in Requests \ clashed,
                      pc[r] = "done", result[r].code = "ok",
                      op[r].verb \in {"POST", "PUT"}
               PROVE  Held(r, main)
    BY DEF BodyIsPublished, Held
  <2>1. QED
    BY DEF IInv, BodyInv, BodyOf
<1>2. QED
  BY <1>1, Invariance, PTL

(* No push makes the remote lose a commit.                                   *)
THEOREM RemoteKeepsCommits == Spec => MainGrows
<1>1. IInv /\ [Next]_vars => [main = main' \/ main \in commits'[main'].past]_vars
  <2> SUFFICES ASSUME IInv, [Next]_vars
               PROVE  main = main' \/ main \in commits'[main'].past
    OBVIOUS
  <2>1. QED
    BY MainKept DEF IInv
<1>2. QED
  BY <1>1, Invariance, PTL DEF Spec, MainGrows

(* A clone that has diverged answers every later request with an error.      *)
THEOREM DivergedIsForGood == Spec => []DivergedServesErrors
<1>1. IInv => DivergedServesErrors
  BY DEF IInv, LateInv, LateOf, DivergedServesErrors
<1>2. QED
  BY <1>1, Invariance, PTL

(* A clone whose requests take turns, and where no write or git command has  *)
(* broken off, makes commits that are each the effect of one operation on    *)
(* the tree below, and allowed there.                                        *)
THEOREM TurnsMakeALine == Spec => []LinearUnlessMuddled
<1>1. IInv => LinearUnlessMuddled
  <2> SUFFICES ASSUME IInv, NEW c \in DOMAIN commits,
                      commits[c].by # NoFile, CloneOf[commits[c].by] \notin muddled
               PROVE  LET o == op[commits[c].by]
                          tree == commits[CHOOSE d \in commits[c].past :
                                            commits[c].past = History(d)].tree
                      IN  /\ o.path \notin Directories
                          /\ Writes(o, tree)
                          /\ commits[c].tree = Effect(o, tree)
    BY DEF LinearUnlessMuddled
  <2> DEFINE below == CHOOSE d \in commits[c].past : commits[c].past = History(d)
             o == op[commits[c].by]
  <2>1. PICK d \in commits[c].past :
           /\ commits[c].past = History(d)
           /\ o.path \notin Directories
           /\ Writes(o, commits[d].tree)
           /\ commits[c].tree = Effect(o, commits[d].tree)
    BY DEF IInv, EffectInv, EffectOf
  <2>2. below \in commits[c].past /\ commits[c].past = History(below)
    BY <2>1
  <2>3. d \in DOMAIN commits /\ below \in DOMAIN commits
    BY <2>1, <2>2, LineBelow DEF IInv, History
  <2>4. below = d
    BY <2>1, <2>2, <2>3, SameHistory DEF IInv
  <2>5. QED
    BY <2>1, <2>4
<1>2. QED
  BY <1>1, Invariance, PTL

(* If the request ends here with a definite answer, in such a clone, the     *)
(* answer is right for a commit at least as new as the remote's main was at  *)
(* the time of the call.                                                     *)
Fresh(r) ==
    /\ pc[r] # "done" /\ pc'[r] = "done"
    /\ CloneOf[r] \notin muddled
    /\ result'[r] # Error
    => \E d \in History(local[CloneOf[r]]) :
          /\ began[r] \in History(d)
          /\ LET refusal == Refusal(op[r], commits[d].tree)
             IN  result'[r] = IF refusal # NoAnswer THEN refusal
                              ELSE Outcome(op[r], commits[d].tree)

LEMMA FreshStep ==
    ASSUME IInv, NEW r \in Requests, Step(r)
    PROVE  Fresh(r)
<1> USE DEF cloneVars, history, Goto, Finish, Answer, Proceed
<1> DEFINE k == CloneOf[r]
           o == op[r]
<1> SUFFICES ASSUME pc[r] # "done", pc'[r] = "done", k \notin muddled,
                    result'[r] # Error
             PROVE  \E d \in History(local[k]) :
                      /\ began[r] \in History(d)
                      /\ LET refusal == Refusal(o, commits[d].tree)
                         IN  result'[r] = IF refusal # NoAnswer THEN refusal
                                          ELSE Outcome(o, commits[d].tree)
  BY DEF Fresh
<1>1. /\ TypeOK /\ o \in Operations /\ k \in Clones
      /\ CheckedOf(r) /\ VerbOf(r) /\ BeganOf(r)
  BY PorcelainAssumption DEF IInv, TypeOK, CheckedInv, VerbInv, BeganInv
<1>2. /\ local[k] \in DOMAIN commits /\ HeadTree(k) \in Trees
      /\ \A d \in History(local[k]) : commits[d].tree \in Trees
  <2>1. local[k] \in DOMAIN commits
    BY <1>1 DEF TypeOK
  <2>2. \A d \in History(local[k]) : d \in DOMAIN commits
    BY <2>1, LineBelow DEF IInv
  <2>3. \A d \in History(local[k]) : commits[d] \in Commit
    BY <1>1, <2>2 DEF TypeOK
  <2>4. QED
    BY <2>1, <2>3 DEF Commit, HeadTree, History
<1>3. ASSUME pc[r] \in {"stat", "read"}
      PROVE  /\ began[r] \in History(local[k]) /\ local[k] \in History(local[k])
             /\ work[k] = HeadTree(k)
  <2>1. r \in Open /\ pc[r] \notin Changing
    BY <1>3 DEF Open, Changing
  <2>2. QED
    BY <1>1, <1>3, <2>1, OwnTree DEF IInv, BeganOf, Pulled, History
<1>4. CASE Stat(r)
  <2>1. pc[r] = "stat" /\ Refusal(o, work[k]) # NoAnswer
    BY <1>1, <1>4 DEF Stat, TypeOK
  <2>2. result'[r] = Refusal(o, work[k])
    BY <1>1, <1>4, <2>1 DEF Stat, TypeOK
  <2>3. QED
    BY <1>3, <2>1, <2>2 DEF HeadTree
<1>5. CASE ReadFile(r)
  <2>1. /\ pc[r] = "read"
        /\ result'[r] = IF work[k][o.path] = NoFile THEN Error ELSE Ok(work[k][o.path])
    BY <1>1, <1>5 DEF ReadFile, TypeOK
  <2>2. o.verb = "GET" /\ Refusal(o, HeadTree(k)) = NoAnswer
    BY <1>1, <2>1 DEF CheckedOf, VerbOf
  <2>3. Outcome(o, HeadTree(k)) = Ok(HeadTree(k)[o.path])
    BY <1>1, <1>2, <2>2, NoRefusal
  <2>4. QED
    BY <1>3, <2>1, <2>2, <2>3 DEF HeadTree
<1>6. CASE PushUpToDate(r) \/ PushLands(r)
  <2>1. pc[r] \in {"push", "sent"} /\ result'[r] = Ok(NoFile)
    BY <1>1, <1>6 DEF PushUpToDate, PushLands, TypeOK
  <2>2. PICK d \in History(local[k]) :
           began[r] \in History(d) /\ Refusal(o, commits[d].tree) = NoAnswer
    BY <1>1, <2>1 DEF CheckedOf
  <2>3. Outcome(o, commits[d].tree) = Ok(NoFile)
    BY <1>1, <1>2, <2>1, <2>2, NoRefusal DEF VerbOf
  <2>4. QED
    BY <2>1, <2>2, <2>3
<1>7. CASE PullRefused(r) \/ PullFails(r) \/ FileCallFails(r) \/ WriteBreaks(r)
           \/ PullBreaks(r) \/ Remove(r) \/ NothingToCommit(r) \/ GitFails(r) \/ PushRejected(r)
           \/ PushOvertaken(r) \/ PushFails(r)
  BY <1>1, <1>7 DEF PullRefused, PullFails, FileCallFails, WriteBreaks, PullBreaks, Remove,
     NothingToCommit, GitFails, PushRejected, PushOvertaken, PushFails, TypeOK
<1>8. CASE Call(r) \/ PullUpToDate(r) \/ PullFastForward(r) \/ WriteBegins(r)
           \/ WriteEnds(r) \/ Add(r) \/ CommitIndex(r) \/ PushSends(r) \/ PushUnheard(r)
  BY <1>1, <1>8 DEF Call, PullUpToDate, PullFastForward, WriteBegins, WriteEnds,
     Add, CommitIndex, PushSends, PushUnheard, TypeOK
<1>9. QED
  BY <1>4, <1>5, <1>6, <1>7, <1>8 DEF Step

(* Every definite answer of such a clone is fresh in that sense.             *)
THEOREM AnswersAreFresh == Spec => AnswersFresh
<1>1. IInv /\ [Next]_vars => [\A r \in Requests : Fresh(r)]_vars
  <2> SUFFICES ASSUME IInv, Next, NEW r \in Requests
               PROVE  Fresh(r)
    OBVIOUS
  <2>1. PICK s \in Requests : Step(s)
    BY NextIsStep
  <2>2. CASE s = r
    BY <2>1, <2>2, FreshStep
  <2>3. CASE s # r
    BY <2>1, <2>3, OthersKept DEF Fresh, IInv
  <2>4. QED
    BY <2>2, <2>3
<1>2. [\A r \in Requests : Fresh(r)]_vars <=>
      [ \A r \in Requests :
          /\ pc[r] # "done" /\ pc'[r] = "done"
          /\ CloneOf[r] \notin muddled
          /\ result'[r] # Error
          => \E d \in History(local[CloneOf[r]]) :
                /\ began[r] \in History(d)
                /\ LET refusal == Refusal(op[r], commits[d].tree)
                   IN  result'[r] = IF refusal # NoAnswer THEN refusal
                                    ELSE Outcome(op[r], commits[d].tree) ]_vars
  BY DEF Fresh
<1>3. QED
  BY <1>1, <1>2, Invariance, PTL DEF Spec, AnswersFresh
=============================================================================
